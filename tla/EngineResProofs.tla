-------------------------- MODULE EngineResProofs ---------------------------
(***************************************************************************)
(* What is stored and what is on the node.  First what the storage has of  *)
(* the deployment the worker works on (KnownInv).  Without updates, and    *)
(* until a restart, every resource is that of a stored workload            *)
(* (OrphanInv).                                                            *)
(* And a workload that is okay has its resource on the node, or somebody   *)
(* has still to deal with it (DeployedInv).                                *)
(***************************************************************************)
EXTENDS EngineProofs

\* first-order steps; those that need arithmetic or sequences cite SMT
USE Zenon

\* What the storage has of the deployment the worker works on.

\* no call of another daemon removes a workload
Quiet == "decommission" \notin Calls

\* such calls are made, or provisiond was restarted, but not both
QuietOrUp == Quiet \/ restarts = 0

\* the zbus server runs steps for such calls only
QuietApi == Quiet => pc["api"] = "idle"

\* and without them the storage does not change between the read and the write of Error
ErrorRead ==
    Quiet /\ pc["worker"] = "error" => /\ dl["worker"] \in present
                                       /\ reading = current[dl["worker"]]

\* a job is of a stored deployment, unless its contract was deleted
KnownJob(j) == j.dl \in present \/ contract[j.dl] = "deleted"

\* the same for all jobs, queued or about to be
KnownJobs ==
    /\ \A i \in 1 .. Len(queue) : KnownJob(queue[i])
    /\ \A p \in Poster : posting[p] # NoJob => KnownJob(posting[p])

\* the worker installs, updates, pauses and resumes in stored deployments
KnownWork ==
    /\ pc["worker"] \in {"run"} \cup Stepping /\ Head(queue).op \in {"provision", "reprovision", "update"}
         => dl["worker"] \in present
    /\ pc["worker"] \in Stepping /\ step["worker"].op \in {"pause", "resume"} => dl["worker"] \in present

\* what holds when provisiond is never restarted
Known == restarts = 0 => KnownJobs /\ KnownWork

\* the inductive invariant of these
KnownInv == JobInv /\ QuietApi /\ ErrorRead /\ Known

\* Deployments that are stored stay so, but for the end of a deprovision job and a restart.
LEMMA PresentStays ==
    ASSUME ShapeInv, [EngineNext]_engineVars, \A kind \in {"crash", "reboot"} : ~Restart(kind)
    PROVE  \/ present \subseteq present'
           \/ /\ EndSteps("worker") /\ contract[dl["worker"]] = "deleted" /\ UNCHANGED contract
              /\ present' = present \ {dl["worker"]}
<1>1. CASE UNCHANGED engineVars BY <1>1 DEF engineVars, storeVars
<1>2. CASE UserStep(Dl, Requests)
  BY <1>2 DEF UserStep, Provision, UpdateDeployment, DecommissionCached, Create, Update, storeVars
<1>3. CASE \/ \E d \in Dl : SyncOne(d)
           \/ \E p \in Poster : Enqueue(p)
           \/ Chain \/ HandleEvent \/ SyncStart
  BY <1>3 DEF SyncOne, Enqueue, Chain, HandleEvent, SyncStart, storeVars
<1>4. CASE Worker BY <1>4 DEF Worker, StartJob, StoreError, Dequeue, Error, storeVars
<1>5. ASSUME NEW t \in Thread, TakeStep(t) \/ CallManager(t) \/ Record(t) \/ RemoveWorkload(t)
      PROVE  present \subseteq present'
  <2>1. CASE TakeStep(t)
    BY <2>1 DEF TakeStep, Install, Uninstall, UpdateWorkload, LockWorkload, Add, storeVars
  <2>2. CASE CallManager(t) BY <2>2 DEF CallManager, storeVars
  <2>3. CASE Record(t) \/ RemoveWorkload(t)
    BY <2>3 DEF Record, RemoveWorkload, Transaction, Remove, storeVars
  <2> QED BY <1>5, <2>1, <2>2, <2>3
<1>6. ASSUME NEW t \in Thread, EndSteps(t), ~(present \subseteq present')
      PROVE  /\ EndSteps("worker") /\ contract[dl["worker"]] = "deleted" /\ UNCHANGED contract
             /\ present' = present \ {dl["worker"]}
  <2>1. t = "worker" /\ Head(queue).op = "deprovision" /\ Delete(dl[t])
    BY <1>6 DEF EndSteps, storeVars
  <2>2. pc["worker"] = "run" /\ UNCHANGED contract BY <1>6, <2>1 DEF EndSteps, chainVars
  <2>3. queue # <<>> /\ EngineInv BY <2>2 DEF ShapeInv, EngineInv, JobsOK
  <2>4. GoneJob(Head(queue)) BY <2>3, FirstJob DEF ShapeInv, GoneJobs
  <2>5. dl["worker"] = Head(queue).dl BY <2>2 DEF ShapeInv, Shape
  <2> QED BY <1>6, <2>1, <2>2, <2>4, <2>5 DEF GoneJob, Delete, Drop
<1> QED BY <1>1, <1>2, <1>3, <1>4, <1>5, <1>6 DEF EngineNext, SystemStep, Work

\* A known job stays known.
LEMMA KnownStays ==
    ASSUME ShapeInv, [EngineNext]_engineVars, \A kind \in {"crash", "reboot"} : ~Restart(kind)
    PROVE  \A j \in RealJob : KnownJob(j) => KnownJob(j)'
<1>1. \A d \in Dl : contract[d] = "deleted" => contract'[d] = "deleted"
  <2>1. CASE Chain BY <2>1, DeletedStays DEF ShapeInv
  <2>2. CASE ~Chain
    <3>1. UNCHANGED contract
      BY <2>2 DEF EngineNext, UserStep, SystemStep, Provision, UpdateDeployment, DecommissionCached,
             SyncOne, Enqueue, Worker, StartJob, StoreError, Dequeue, Work, TakeStep, CallManager,
             Record, RemoveWorkload, EndSteps, HandleEvent, HandleLock, HandleCancel, SyncStart,
             engineVars, chainVars
    <3> QED BY <3>1
  <2> QED BY <2>1, <2>2
<1>2. \A j \in RealJob : j.dl \in Dl BY DEF RealJob
<1> QED BY <1>1, <1>2, PresentStays DEF KnownJob

\* No step but a restart posts or queues a job of an unknown deployment.
LEMMA KnownJobsStep ==
    ASSUME ShapeInv, KnownJobs, [EngineNext]_engineVars, \A kind \in {"crash", "reboot"} : ~Restart(kind)
    PROVE  KnownJobs'
<1>0. /\ queue \in Seq(RealJob) /\ posting \in [Poster -> RealJob \cup {NoJob}]
      /\ \A i \in 1 .. Len(queue) : queue[i] \in RealJob
  <2>1. queue \in Seq(RealJob) /\ posting \in [Poster -> RealJob \cup {NoJob}]
    BY DEF ShapeInv, EngineInv, JobsOK
  <2>2. \A i \in 1 .. Len(queue) : queue[i] \in RealJob BY <2>1, SMT
  <2> QED BY <2>1, <2>2
<1>1. ASSUME NEW p \in Poster, NEW j, j.dl \in present', posting' = [posting EXCEPT ![p] = j]
      PROVE  \A q \in Poster : posting'[q] = posting[q] \/ posting'[q] = NoJob \/ posting'[q].dl \in present'
  BY <1>0, <1>1
<1>2. ASSUME NEW p \in Poster, NEW op, NEW d, PostCurrent(p, op, d), UNCHANGED storeVars
      PROVE  \A q \in Poster : posting'[q] = posting[q] \/ posting'[q] = NoJob \/ posting'[q].dl \in present'
  <2>1. CASE d \in present
    <3>1. PICK j : j = Job(op, d, version[d], current[d], NoWorkloads) OBVIOUS
    <3>2. j.dl = d BY <3>1, SMT DEF Job
    <3>3. posting' = [posting EXCEPT ![p] = j] BY <1>2, <2>1, <3>1 DEF PostCurrent, Post
    <3>4. present' = present BY <1>2 DEF storeVars
    <3> QED BY <1>1, <2>1, <3>2, <3>3, <3>4
  <2>2. CASE d \notin present BY <1>2, <2>2 DEF PostCurrent
  <2> QED BY <2>1, <2>2
<1>3. ASSUME NEW d \in Dl, NEW r \in Requests, Provision(d, r) \/ UpdateDeployment(d, r)
      PROVE  \A q \in Poster : posting'[q] = posting[q] \/ posting'[q] = NoJob \/ posting'[q].dl \in present'
  <2>1. PICK op, v, a, b : Post("api", Job(op, d, v, a, b)) BY <1>3 DEF Provision, UpdateDeployment
  <2>2. d \in present' BY <1>3 DEF Provision, UpdateDeployment, Create, Update
  <2>3. Job(op, d, v, a, b).dl = d BY SMT DEF Job
  <2> QED BY <1>1, <2>1, <2>2, <2>3 DEF Post, Poster
<1>4. ASSUME HandleEvent \/ \E d \in Dl : SyncOne(d)
      PROVE  \A q \in Poster : posting'[q] = posting[q] \/ posting'[q] = NoJob \/ posting'[q].dl \in present'
  <2>1. \/ UNCHANGED posting
        \/ \E p \in Poster : \E op : \E d : PostCurrent(p, op, d)
    BY <1>4 DEF HandleEvent, HandleLock, HandleCancel, SyncOne, Poster
  <2>2. UNCHANGED storeVars BY <1>4 DEF HandleEvent, SyncOne
  <2> QED BY <1>2, <2>1, <2>2
<1>5. ASSUME NEW p \in Poster, Enqueue(p)
      PROVE  \A q \in Poster : posting'[q] = posting[q] \/ posting'[q] = NoJob
  BY <1>0, <1>5 DEF Enqueue
<1>6. \A q \in Poster : posting'[q] = posting[q] \/ posting'[q] = NoJob \/ posting'[q].dl \in present'
  <2>1. ASSUME ~(\E p \in Poster : Enqueue(p)), ~HandleEvent, ~(\E d \in Dl : SyncOne(d)),
               ~(\E d \in Dl : \E r \in Requests : Provision(d, r) \/ UpdateDeployment(d, r))
        PROVE  UNCHANGED posting
    BY <2>1 DEF EngineNext, UserStep, SystemStep, DecommissionCached, Worker, StartJob, StoreError,
           Dequeue, Work, TakeStep, CallManager, Record, RemoveWorkload, EndSteps, Chain, SyncStart,
           engineVars
  <2> QED BY <1>3, <1>4, <1>5, <2>1
<1>7. \A i \in 1 .. Len(queue') : \/ \E k \in 1 .. Len(queue) : queue'[i] = queue[k]
                                  \/ \E p \in Poster : posting[p] # NoJob /\ queue'[i] = posting[p]
  <2>1. ASSUME NEW p \in Poster, Enqueue(p)
        PROVE  \A i \in 1 .. Len(queue') : \/ \E k \in 1 .. Len(queue) : queue'[i] = queue[k]
                                           \/ posting[p] # NoJob /\ queue'[i] = posting[p]
    <3>1. posting[p] \in RealJob /\ posting[p] # NoJob /\ queue' = Append(queue, posting[p])
      BY <1>0, <2>1 DEF Enqueue
    <3> QED BY <1>0, <3>1, FirstStays
  <2>2. ASSUME Dequeue PROVE \A i \in 1 .. Len(queue') : \E k \in 1 .. Len(queue) : queue'[i] = queue[k]
    <3>1. queue' = Tail(queue) /\ queue # <<>> /\ EngineInv
      BY <2>2 DEF Dequeue, ShapeInv, EngineInv, JobsOK
    <3> QED BY <3>1, RestOfJobs
  <2>3. ASSUME ~(\E p \in Poster : Enqueue(p)), ~Dequeue PROVE UNCHANGED queue
    BY <2>3 DEF EngineNext, UserStep, SystemStep, Provision, UpdateDeployment, DecommissionCached,
           SyncOne, Worker, StartJob, StoreError, Work, TakeStep, CallManager, Record, RemoveWorkload,
           EndSteps, Chain, HandleEvent, SyncStart, engineVars
  <2> QED BY <2>1, <2>2, <2>3
<1>8. \A j \in RealJob : KnownJob(j) => KnownJob(j)' BY KnownStays
<1>9. \A i \in 1 .. Len(queue') : KnownJob(queue[i])'
  <2> SUFFICES ASSUME NEW i \in 1 .. Len(queue') PROVE KnownJob(queue[i])'
    OBVIOUS
  <2>1. \E j \in RealJob : KnownJob(j) /\ queue'[i] = j BY <1>0, <1>7 DEF KnownJobs
  <2>2. PICK j \in RealJob : KnownJob(j) /\ queue'[i] = j BY <2>1
  <2>3. KnownJob(j)' BY <1>8, <2>2
  <2> QED BY <2>2, <2>3 DEF KnownJob
<1>10. ASSUME NEW q \in Poster, posting'[q] # NoJob PROVE KnownJob(posting[q])'
  <2>1. CASE posting'[q] = posting[q]
    <3>1. PICK j \in RealJob : j = posting[q] /\ KnownJob(j) BY <1>0, <1>10, <2>1 DEF KnownJobs
    <3>2. KnownJob(j)' BY <1>8, <3>1
    <3> QED BY <2>1, <3>1, <3>2 DEF KnownJob
  <2>2. CASE posting'[q].dl \in present' BY <2>2 DEF KnownJob
  <2> QED BY <1>6, <1>10, <2>1, <2>2
<1> QED BY <1>9, <1>10 DEF KnownJobs

\* The worker works in known deployments.
LEMMA KnownWorkStep ==
    ASSUME JobInv, KnownJobs, KnownWork, [EngineNext]_engineVars,
           \A kind \in {"crash", "reboot"} : ~Restart(kind)
    PROVE  KnownWork'
<1>0. EngineInv /\ ShapeInv /\ "worker" \in Thread BY DEF JobInv, ShapeInv, Thread
<1>1. CASE \/ UserStep(Dl, Requests)
           \/ Chain \/ HandleEvent \/ SyncStart \/ (\E d \in Dl : SyncOne(d))
           \/ (\E p \in Poster : Enqueue(p)) \/ Work("api") \/ UNCHANGED engineVars
  <2>1. WorkerSame /\ (pc["worker"] # "idle" => Head(queue') = Head(queue)) BY <1>1, OthersKeepWorker
  <2>2. ~EndSteps("worker") \/ pc'["worker"] = "dequeue"
    BY <1>0 DEF EndSteps, EngineInv, ThreadsOK, Thread
  <2>3. present \subseteq present' \/ pc'["worker"] = "dequeue" BY <1>0, <2>2, PresentStays
  <2> QED BY <2>1, <2>3 DEF KnownWork, WorkerSame, Stepping
<1>2. CASE StartJob
  <2>1. /\ pc["worker"] = "idle" /\ queue # <<>> /\ dl' = [dl EXCEPT !["worker"] = Head(queue).dl]
        /\ UNCHANGED <<queue, present>>
        /\ \/ Validates(Head(queue)) /\ pc' = [pc EXCEPT !["worker"] = "run"]
           \/ \E at \in {"error", "dequeue"} : pc' = [pc EXCEPT !["worker"] = at]
    BY <1>2 DEF StartJob, storeVars
  <2>2. KnownJob(Head(queue)) BY <1>0, <2>1, FirstJob DEF KnownJobs
  <2>3. dl'["worker"] = Head(queue).dl /\ pc'["worker"] \notin Stepping
        /\ (pc'["worker"] = "run" => Validates(Head(queue)))
    BY <1>0, <2>1 DEF EngineInv, ThreadsOK, Thread, Stepping
  <2>4. ASSUME pc'["worker"] = "run", Head(queue).op \in {"provision", "reprovision", "update"}
        PROVE  Head(queue).dl \in present
    <3>1. OnChain(Head(queue).dl) BY <2>3, <2>4 DEF Validates
    <3>2. contract[Head(queue).dl] # "deleted" BY <3>1 DEF OnChain
    <3> QED BY <2>2, <3>2 DEF KnownJob
  <2>5. queue' = queue /\ present' = present BY <2>1
  <2>6. ASSUME pc'["worker"] \in {"run"} \cup Stepping,
               Head(queue').op \in {"provision", "reprovision", "update"}
        PROVE  dl'["worker"] \in present'
    <3>1. pc'["worker"] = "run" BY <2>3, <2>6
    <3>2. Head(queue).op \in {"provision", "reprovision", "update"} BY <2>5, <2>6
    <3> QED BY <2>3, <2>4, <2>5, <3>1, <3>2
  <2> QED BY <2>3, <2>6 DEF KnownWork
<1>3. CASE StoreError \/ Dequeue \/ EndSteps("worker")
  <2>1. \E at \in {"dequeue", "idle"} : pc' = [pc EXCEPT !["worker"] = at]
    BY <1>3 DEF StoreError, Dequeue, EndSteps
  <2>2. pc'["worker"] \in {"dequeue", "idle"} BY <1>0, <2>1 DEF EngineInv, ThreadsOK
  <2> QED BY <2>2 DEF KnownWork, Stepping
<1>4. ASSUME TakeStep("worker") \/ CallManager("worker") \/ Record("worker") \/ RemoveWorkload("worker")
      PROVE  KnownWork'
  <2>1. Work("worker") /\ UNCHANGED dl /\ pc["worker"] \in {"run"} \cup Stepping
    BY <1>4 DEF Work, TakeStep, CallManager, CallProvision, CallDeprovision, CallUpdate, CallLock,
           Record, RemoveWorkload, Stepping
  <2>2. UNCHANGED queue BY <1>0, <2>1, OtherThread
  <2>3. present \subseteq present'
    <3>1. pc'["worker"] \in {"run"} \cup Stepping
      <4>1. CASE TakeStep("worker") BY <1>0, <4>1, Taken DEF TakenUp, Stepping
      <4>2. CASE CallManager("worker") BY <1>0, <4>2, Answers DEF Answered, Stepping
      <4>3. CASE Record("worker") \/ RemoveWorkload("worker")
        <5>1. Done("worker") \/ (pc' = [pc EXCEPT !["worker"] = "remove"] /\ UNCHANGED <<step, result>>)
          BY <4>3 DEF Record, RemoveWorkload
        <5> QED BY <1>0, <5>1 DEF Done, EngineInv, ThreadsOK, Stepping
      <4> QED BY <1>4, <4>1, <4>2, <4>3
    <3>2. EndSteps("worker") => pc'["worker"] = "dequeue" BY <1>0 DEF EndSteps, EngineInv, ThreadsOK
    <3> QED BY <1>0, <3>1, <3>2, PresentStays DEF Stepping
  <2>4. ASSUME pc'["worker"] \in Stepping, step'["worker"].op \in {"pause", "resume"}
        PROVE  dl["worker"] \in present
    <3>1. CASE TakeStep("worker")
      <4>1. PICK s \in todo["worker"] : TakenUp("worker", s) BY <1>0, <3>1, Taken
      <4>2. step'["worker"] = s /\ pc'["worker"] \in {"provision", "deprovision", "update", "lock"}
        BY <2>4, <4>1 DEF TakenUp, Stepping
      <4>3. s.op \in {"pause", "resume"} BY <2>4, <4>2
      <4>4. pc'["worker"] = "lock" BY <4>1, <4>2, <4>3 DEF TakenUp
      <4>5. IsOkay(current[dl["worker"]][s.name].state) BY <4>1, <4>4 DEF TakenUp
      <4>6. dl["worker"] \in Dl /\ s.name \in Name
        <5>1. pc["worker"] # "idle" BY <2>1 DEF Stepping
        <5>2. dl["worker"] \in Dl /\ s \in RealStep BY <1>0, <5>1 DEF EngineInv, ThreadsOK
        <5> QED BY <5>2 DEF RealStep
      <4>7. ~IsOkay(NoEntry.state) BY DEF NoEntry, IsOkay
      <4>8. NoWorkloads[s.name] = NoEntry BY <4>6 DEF NoWorkloads
      <4>9. AbsentIsEmpty BY <1>0 DEF EngineInv, StoreInv
      <4> QED BY <4>5, <4>6, <4>7, <4>8, <4>9 DEF AbsentIsEmpty
    <3>2. CASE CallManager("worker")
      BY <1>0, <2>4, <3>2, Answers DEF Answered, KnownWork, Stepping
    <3>3. CASE Record("worker") \/ RemoveWorkload("worker")
      <4>1. /\ pc["worker"] \in {"record", "remove"}
            /\ \/ Done("worker")
               \/ pc' = [pc EXCEPT !["worker"] = "remove"] /\ UNCHANGED <<step, result>>
        BY <3>3 DEF Record, RemoveWorkload
      <4>2. step'["worker"] = step["worker"] /\ pc["worker"] \in Stepping
        BY <1>0, <2>4, <4>1 DEF Done, EngineInv, ThreadsOK, Stepping
      <4> QED BY <2>4, <4>2 DEF KnownWork
    <3> QED BY <1>4, <3>1, <3>2, <3>3
  <2> QED BY <2>1, <2>2, <2>3, <2>4 DEF KnownWork
<1>5. \A t \in Thread : t = "worker" \/ t = "api" BY DEF Thread
<1> QED BY <1>1, <1>2, <1>3, <1>4, <1>5 DEF EngineNext, SystemStep, Worker, Work

\* Without calls of other daemons the zbus server has no steps.
LEMMA QuietApiStep ==
    ASSUME JobInv, QuietApi, [EngineNext]_engineVars
    PROVE  QuietApi'
<1> SUFFICES ASSUME Quiet PROVE pc'["api"] = "idle"
  BY DEF QuietApi, Quiet
<1>0. /\ pc \in [Thread -> {"idle", "run", "error", "dequeue"} \cup Stepping] /\ pc["api"] = "idle"
      /\ "api" \in Thread \ {"worker"}
  BY DEF JobInv, ShapeInv, EngineInv, ThreadsOK, QuietApi, Thread
<1>1. ASSUME Work("api") PROVE FALSE
  BY <1>0, <1>1 DEF Work, TakeStep, CallManager, CallProvision, CallDeprovision, CallUpdate, CallLock,
         Record, RemoveWorkload, EndSteps
<1>2. CASE Work("worker")
  BY <1>0, <1>2, OtherThread DEF JobInv, ShapeInv, Thread
<1>3. CASE Worker BY <1>0, <1>3 DEF Worker, StartJob, StoreError, Dequeue
<1>4. CASE \E kind : Restart(kind) BY <1>0, <1>4 DEF Restart
<1>5. ASSUME \/ UserStep(Dl, Requests) \/ Chain \/ HandleEvent \/ SyncStart
             \/ (\E d \in Dl : SyncOne(d)) \/ (\E p \in Poster : Enqueue(p)) \/ UNCHANGED engineVars
      PROVE  UNCHANGED pc
  BY <1>5 DEF UserStep, Provision, UpdateDeployment, DecommissionCached, Quiet, Chain, HandleEvent,
         SyncStart, SyncOne, Enqueue, engineVars, threadVars
<1>6. \A t \in Thread : t = "worker" \/ t = "api" BY DEF Thread
<1> QED BY <1>0, <1>1, <1>2, <1>3, <1>4, <1>5, <1>6 DEF EngineNext, SystemStep

\* Without them, Error writes what is still stored.
LEMMA ErrorReadStep ==
    ASSUME JobInv, QuietApi, ErrorRead, [EngineNext]_engineVars
    PROVE  ErrorRead'
<1> SUFFICES ASSUME Quiet, pc'["worker"] = "error"
             PROVE  dl'["worker"] \in present' /\ reading' = current'[dl'["worker"]]
  BY DEF ErrorRead, Quiet
<1>0. /\ pc \in [Thread -> {"idle", "run", "error", "dequeue"} \cup Stepping] /\ EngineInv /\ ShapeInv
      /\ dl \in [Thread -> Dl \cup {NoDl}] /\ pc["api"] = "idle" /\ "worker" \in Thread /\ "api" \in Thread
      /\ current \in [Dl -> Workloads]
  BY DEF JobInv, ShapeInv, EngineInv, ThreadsOK, QuietApi, Thread, StoreInv, StoreTypeOK
<1>1. ASSUME Work("api") PROVE FALSE
  BY <1>0, <1>1 DEF Work, TakeStep, CallManager, CallProvision, CallDeprovision, CallUpdate, CallLock,
         Record, RemoveWorkload, EndSteps
<1>2. ASSUME Work("worker") PROVE FALSE
  <2>1. CASE TakeStep("worker") BY <1>0, <2>1, Taken DEF TakenUp
  <2>2. CASE CallManager("worker") BY <1>0, <2>2, Answers DEF Answered
  <2>3. CASE Record("worker") \/ RemoveWorkload("worker")
    <3>1. Done("worker") \/ pc' = [pc EXCEPT !["worker"] = "remove"]
      BY <2>3 DEF Record, RemoveWorkload
    <3> QED BY <1>0, <3>1 DEF Done
  <2>4. CASE EndSteps("worker") BY <1>0, <2>4 DEF EndSteps
  <2> QED BY <1>2, <2>1, <2>2, <2>3, <2>4 DEF Work
<1>3. ASSUME \E kind : Restart(kind) PROVE FALSE BY <1>0, <1>3 DEF Restart
<1>4. ASSUME StoreError \/ Dequeue PROVE FALSE BY <1>0, <1>4 DEF StoreError, Dequeue
<1>5. CASE StartJob
  <2>1. /\ dl' = [dl EXCEPT !["worker"] = Head(queue).dl] /\ UNCHANGED <<present, current>>
        /\ \/ pc' = [pc EXCEPT !["worker"] = "run"]
           \/ /\ pc' = [pc EXCEPT !["worker"] = IF Head(queue).dl \in present THEN "error" ELSE "dequeue"]
              /\ reading' = current[Head(queue).dl]
    BY <1>5 DEF StartJob, storeVars
  <2> QED BY <1>0, <2>1
<1>6. ASSUME \/ UserStep(Dl, Requests) \/ Chain \/ HandleEvent \/ SyncStart
             \/ (\E d \in Dl : SyncOne(d)) \/ (\E p \in Poster : Enqueue(p)) \/ UNCHANGED engineVars
      PROVE  dl'["worker"] \in present' /\ reading' = current'[dl'["worker"]]
  <2>1. WorkerSame /\ reading' = reading BY <1>6, OthersKeepWorker
  <2>2. dl["worker"] \in present /\ reading = current[dl["worker"]]
    BY <2>1 DEF ErrorRead, WorkerSame
  <2>3. ASSUME NEW d \in Dl, NEW r \in Requests, Provision(d, r)
        PROVE  \A e \in present : e \in present' /\ current'[e] = current[e]
    <3>1. present \subseteq Dl BY <1>0 DEF EngineInv, StoreInv, StoreTypeOK
    <3> QED BY <1>0, <2>3, <3>1 DEF Provision, Create, CreateOk
  <2>4. \/ \E d \in Dl : \E r \in Requests : Provision(d, r)
        \/ UNCHANGED <<present, current>>
    BY <1>6 DEF UserStep, UpdateDeployment, DecommissionCached, Update, Chain, HandleEvent, SyncStart,
           SyncOne, Enqueue, engineVars, storeVars
  <2>5. dl["worker"] \in present' /\ current'[dl["worker"]] = current[dl["worker"]]
    BY <2>2, <2>3, <2>4
  <2> QED BY <2>1, <2>2, <2>5 DEF WorkerSame
<1>7. \A t \in Thread : t = "worker" \/ t = "api" BY DEF Thread
<1> QED BY <1>1, <1>2, <1>3, <1>4, <1>5, <1>6, <1>7 DEF EngineNext, SystemStep, Worker

\* Restarts are counted.
LEMMA FirstRestart ==
    ASSUME RestOK, [EngineNext]_engineVars, restarts' = 0
    PROVE  restarts = 0 /\ \A kind \in {"crash", "reboot"} : ~Restart(kind)
<1>1. restarts \in Nat BY EngineAssumption, SMT DEF RestOK
<1>2. ASSUME NEW kind, Restart(kind) PROVE FALSE
  <2>1. restarts' = restarts + 1 BY <1>2 DEF Restart
  <2> QED BY <1>1, <2>1, SMT
<1>3. UNCHANGED restarts \/ \E kind : Restart(kind)
  <2>1. UserStep(Dl, Requests) => UNCHANGED restarts
    BY DEF UserStep, Provision, UpdateDeployment, DecommissionCached
  <2>2. Worker \/ (\E t \in Thread : Work(t)) => UNCHANGED restarts
    BY DEF Worker, StartJob, StoreError, Dequeue, Work, TakeStep, CallManager, Record, RemoveWorkload, EndSteps
  <2>3. (\E d \in Dl : SyncOne(d)) \/ (\E q \in Poster : Enqueue(q)) => UNCHANGED restarts
    BY DEF SyncOne, Enqueue
  <2>4. Chain \/ HandleEvent \/ SyncStart \/ UNCHANGED engineVars => UNCHANGED restarts
    BY DEF Chain, HandleEvent, SyncStart, engineVars
  <2> QED BY <2>1, <2>2, <2>3, <2>4 DEF EngineNext, SystemStep
<1> QED BY <1>2, <1>3

\* Every step keeps what is known of the deployment in work.
LEMMA KnownStep ==
    ASSUME KnownInv, [EngineNext]_engineVars
    PROVE  KnownInv'
<1>1. JobInv' BY JobStep DEF KnownInv
<1>2. QuietApi' /\ ErrorRead' BY QuietApiStep, ErrorReadStep DEF KnownInv
<1>3. ASSUME restarts' = 0 PROVE KnownJobs' /\ KnownWork'
  <2>1. restarts = 0 /\ \A kind \in {"crash", "reboot"} : ~Restart(kind)
    BY <1>3, FirstRestart DEF KnownInv, JobInv, ShapeInv
  <2> QED BY <2>1, KnownJobsStep, KnownWorkStep DEF KnownInv, Known, JobInv
<1> QED BY <1>1, <1>2, <1>3 DEF KnownInv, Known

\* Initially no job is known.
LEMMA KnownInvInit == EngineInit => KnownInv
<1> SUFFICES ASSUME EngineInit PROVE KnownInv
  OBVIOUS
<1>1. queue = <<>> /\ Len(<<>>) = 0 /\ 1 .. 0 = {} BY SMT DEF EngineInit
<1>2. pc["api"] = "idle" /\ pc["worker"] = "idle" /\ \A p \in Poster : posting[p] = NoJob
  BY DEF EngineInit, Thread
<1> QED BY <1>1, <1>2, JobInvInit DEF KnownInv, QuietApi, ErrorRead, Known, KnownJobs, KnownWork, Stepping

-----------------------------------------------------------------------------
\* Without updates and restarts every resource is that of a stored workload.

\* deployments are only created, and what is deprovisioned is gone
PlainUse == Calls \subseteq {"provision"} /\ "deprovision" \notin Faults

\* the jobs, queued or about to be
Pending == {queue[i] : i \in 1 .. Len(queue)} \cup ({posting[p] : p \in Poster} \ {NoJob})

\* n is a workload of type y in ws
Has(ws, n, y) == n \in Active(ws) /\ ws[n].type = y

\* two descriptions of a deployment have the same workloads
SameKind(a, b) == \A n \in Name, y \in Type : Has(a, n, y) <=> Has(b, n, y)

\* the worker runs the steps of a job of this kind
Runs(op) == pc["worker"] \in {"run"} \cup Stepping /\ Head(queue).op = op

\* nothing is updated or reinstalled
PlainOps == \A j \in Pending : j.op \in {"provision", "deprovision", "pause", "resume"}

\* until its contract is deleted, a new deployment is stored as its job has it
NewAsStored ==
    \A j \in Pending : j.op = "provision" /\ contract[j.dl] # "deleted" => SameKind(j.target, current[j.dl])

\* and while the worker installs it, for it and for what is to be deprovisioned after
InstallAsStored ==
    Runs("provision") =>
      /\ SameKind(Head(queue).target, current[dl["worker"]])
      /\ \A j \in Pending : j.op = "deprovision" /\ j.dl = dl["worker"]
                            => SameKind(j.target, current[dl["worker"]])

\* every resource is that of a stored workload
ResStored == \A d \in Dl, n \in Name, y \in Type : <<d, n, y>> \in res => Has(current[d], n, y)

\* and of every job that deprovisions its deployment
ResCovered ==
    \A j \in Pending : j.op = "deprovision" =>
        \A n \in Name, y \in Type : <<j.dl, n, y>> \in res => Has(j.target, n, y)

\* while such a job runs, the resources still there are those it has still to remove
ResToRemove ==
    Runs("deprovision") /\ ~failed =>
      \A n \in Name, y \in Type : <<dl["worker"], n, y>> \in res =>
        \/ \E s \in todo["worker"] : s.name = n
        \/ pc["worker"] = "deprovision" /\ step["worker"].name = n

\* a workload whose deprovision was answered has none
ResRemoved ==
    /\ pc["worker"] = "remove" => step["worker"].op = "uninstall"
    /\ pc["worker"] \in {"record", "remove"} /\ step["worker"].op = "uninstall"
         => \A y \in Type : <<dl["worker"], step["worker"].name, y>> \notin res

\* the inductive invariant
OrphanInv ==
    /\ KnownInv /\ PlainOps /\ NewAsStored /\ InstallAsStored
    /\ ResStored /\ ResCovered /\ ResToRemove /\ ResRemoved

\* what is to be shown of a step, besides what KnownStep says.
OrphanNext ==
    /\ PlainOps' /\ NewAsStored' /\ InstallAsStored'
    /\ ResStored' /\ ResCovered' /\ ResToRemove' /\ ResRemoved'

\* the stored workloads are of the same types as before
KindsSame == \A d \in Dl : SameKind(current[d], current'[d])

\* To have the same workloads is reflexive and transitive.
LEMMA SameKindTrans ==
    /\ \A a : SameKind(a, a)
    /\ \A a, b, c : SameKind(a, b) /\ SameKind(b, c) => SameKind(a, c)
BY DEF SameKind

\* A job is posted.
LEMMA PendingPosted ==
    ASSUME EngineInv, UNCHANGED queue, NEW p \in Poster, NEW j, Post(p, j)
    PROVE  Pending' \subseteq Pending \cup {j}
<1>1. posting' = [posting EXCEPT ![p] = j] /\ posting \in [Poster -> RealJob \cup {NoJob}]
  BY DEF Post, EngineInv, JobsOK
<1>2. \A q \in Poster : posting'[q] = posting[q] \/ posting'[q] = j BY <1>1
<1> QED BY <1>2 DEF Pending

\* A job enters the queue, or leaves it.
LEMMA PendingQueued ==
    ASSUME EngineInv, (\E p \in Poster : Enqueue(p)) \/ Dequeue
    PROVE  Pending' \subseteq Pending
<1>0. queue \in Seq(RealJob) /\ posting \in [Poster -> RealJob \cup {NoJob}] BY DEF EngineInv, JobsOK
<1>1. ASSUME NEW p \in Poster, Enqueue(p) PROVE Pending' \subseteq Pending
  <2>1. PICK j \in RealJob : j = posting[p] /\ j # NoJob BY <1>0, <1>1 DEF Enqueue
  <2>2. queue' = Append(queue, j) /\ posting' = [posting EXCEPT ![p] = NoJob] BY <1>1, <2>1 DEF Enqueue
  <2>3. \A i \in 1 .. Len(queue') : (i \in 1 .. Len(queue) /\ queue'[i] = queue[i]) \/ queue'[i] = j
    BY <1>0, <2>2, FirstStays
  <2>4. \A q \in Poster : posting'[q] = posting[q] \/ posting'[q] = NoJob BY <1>0, <2>2
  <2>5. j \in Pending BY <2>1 DEF Pending
  <2> QED BY <2>3, <2>4, <2>5 DEF Pending
<1>2. CASE Dequeue
  <2>1. queue # <<>> /\ queue' = Tail(queue) /\ UNCHANGED posting
    BY <1>2 DEF Dequeue, EngineInv, JobsOK
  <2>2. \A i \in 1 .. Len(queue') : i + 1 \in 1 .. Len(queue) /\ queue'[i] = queue[i + 1]
    BY <2>1, RestOfJobs
  <2> QED BY <2>1, <2>2 DEF Pending
<1> QED BY <1>1, <1>2

\* The jobs are well formed; one that deprovisions comes after the contract was
\* deleted, and any other is of a stored deployment until then.
LEMMA PendingKnown ==
    ASSUME KnownInv, restarts = 0, NEW j \in Pending
    PROVE  j \in RealJob /\ GoneJob(j) /\ KnownJob(j)
<1>1. CASE \E i \in 1 .. Len(queue) : j = queue[i]
  <2>1. PICK i \in 1 .. Len(queue) : j = queue[i] BY <1>1
  <2>2. queue \in Seq(RealJob) BY DEF KnownInv, JobInv, ShapeInv, EngineInv, JobsOK
  <2>3. j \in RealJob BY <2>1, <2>2, SMT
  <2> QED BY <2>1, <2>3 DEF KnownInv, JobInv, ShapeInv, GoneJobs, Known, KnownJobs
<1>2. CASE \E p \in Poster : j = posting[p] /\ j # NoJob
  BY <1>2 DEF KnownInv, JobInv, ShapeInv, EngineInv, JobsOK, GoneJobs, Known, KnownJobs
<1> QED BY <1>1, <1>2 DEF Pending

\* The job in work.
LEMMA HeadPending ==
    ASSUME EngineInv, pc["worker"] # "idle" \/ queue # <<>>
    PROVE  Head(queue) \in Pending
<1>1. queue # <<>> BY DEF EngineInv, JobsOK
<1>2. Head(queue) = queue[1] /\ 1 \in 1 .. Len(queue) BY <1>1, FirstJob
<1> QED BY <1>2 DEF Pending

\* A step that keeps the workloads, the resources and the jobs, and only deletes contracts.
LEMMA KindsKept ==
    ASSUME KnownInv, restarts = 0, PlainOps, NewAsStored, ResStored, ResCovered,
           KindsSame, Pending' \subseteq Pending, res' \subseteq res,
           \A d \in Dl : contract'[d] # "deleted" => contract[d] # "deleted"
    PROVE  PlainOps' /\ NewAsStored' /\ ResStored' /\ ResCovered'
<1>1. PlainOps' BY DEF PlainOps
<1>2. NewAsStored'
  <2> SUFFICES ASSUME NEW j \in Pending, j.op = "provision", contract'[j.dl] # "deleted"
               PROVE  SameKind(j.target, current'[j.dl])
    BY DEF NewAsStored
  <2>1. j.dl \in Dl BY PendingKnown DEF RealJob
  <2>2. SameKind(j.target, current[j.dl]) BY <2>1 DEF NewAsStored
  <2> QED BY <2>1, <2>2, SameKindTrans DEF KindsSame
<1>3. ResStored'
  <2> SUFFICES ASSUME NEW d \in Dl, NEW n \in Name, NEW y \in Type, <<d, n, y>> \in res
               PROVE  Has(current'[d], n, y)
    BY DEF ResStored
  <2>1. Has(current[d], n, y) BY DEF ResStored
  <2> QED BY <2>1 DEF KindsSame, SameKind
<1>4. ResCovered' BY DEF ResCovered
<1> QED BY <1>1, <1>2, <1>3, <1>4

\* A request creates a deployment that was not stored.
LEMMA ProvisionOrphan ==
    ASSUME OrphanInv, restarts = 0, NEW d \in Dl, NEW r \in Requests, Provision(d, r)
    PROVE  OrphanNext
<1> DEFINE j == Job("provision", d, 0, WithState(r.ws, "init"), NoWorkloads)
<1>0. KnownInv /\ EngineInv /\ AbsentIsEmpty /\ current \in [Dl -> Workloads]
      /\ "api" \in Poster
  BY DEF OrphanInv, KnownInv, JobInv, ShapeInv, EngineInv, StoreInv, StoreTypeOK, Poster
<1>1. /\ d \notin present /\ current' = [current EXCEPT ![d] = WithState(r.ws, "init")]
      /\ UNCHANGED <<queue, threadVars, res, contract>> /\ Post("api", j)
  BY DEF Provision, Create, CreateOk, chainVars
<1>2. j.op = "provision" /\ j.dl = d /\ j.target = WithState(r.ws, "init") BY SMT DEF Job
<1>3. Pending' \subseteq Pending \cup {j} BY <1>0, <1>1, PendingPosted
<1> HIDE DEF j
<1>4. current'[d] = j.target /\ \A e \in Dl \ {d} : current'[e] = current[e] BY <1>0, <1>1, <1>2
<1>5. \A n, y : ~Has(current[d], n, y) BY <1>0, <1>1 DEF AbsentIsEmpty, NoWorkloads, Has, Active
<1>6. PlainOps' BY <1>2, <1>3 DEF OrphanInv, PlainOps
<1>7. NewAsStored'
  <2> SUFFICES ASSUME NEW k \in Pending', k.op = "provision", contract[k.dl] # "deleted"
               PROVE  SameKind(k.target, current'[k.dl])
    BY <1>1 DEF NewAsStored
  <2>1. CASE k = j BY <1>2, <1>4, <2>1, SameKindTrans
  <2>2. CASE k \in Pending
    <3>1. k.dl \in Dl /\ k.dl \in present BY <1>0, <2>2, PendingKnown DEF RealJob, KnownJob
    <3>2. SameKind(k.target, current[k.dl]) BY <2>2 DEF OrphanInv, NewAsStored
    <3> QED BY <1>1, <1>4, <3>1, <3>2
  <2> QED BY <1>3, <2>1, <2>2
<1>8. ResStored'
  <2> SUFFICES ASSUME NEW e \in Dl, NEW n \in Name, NEW y \in Type, <<e, n, y>> \in res
               PROVE  Has(current'[e], n, y)
    BY <1>1 DEF ResStored
  <2>1. Has(current[e], n, y) BY DEF OrphanInv, ResStored
  <2> QED BY <1>4, <1>5, <2>1
<1>9. ResCovered' BY <1>1, <1>2, <1>3 DEF OrphanInv, ResCovered
<1>10. InstallAsStored'
  <2> SUFFICES ASSUME Runs("provision")
               PROVE  /\ SameKind(Head(queue).target, current'[dl["worker"]])
                      /\ \A k \in Pending' : k.op = "deprovision" /\ k.dl = dl["worker"]
                                             => SameKind(k.target, current'[dl["worker"]])
    BY <1>1 DEF InstallAsStored, Runs, threadVars
  <2>1. dl["worker"] \in present /\ dl["worker"] \in Dl
    BY <1>0 DEF Runs, KnownInv, Known, KnownWork, EngineInv, StoreInv, StoreTypeOK
  <2>2. current'[dl["worker"]] = current[dl["worker"]] BY <1>1, <1>4, <2>1
  <2> QED BY <1>2, <1>3, <2>2 DEF OrphanInv, InstallAsStored
<1>11. ResToRemove' /\ ResRemoved'
  BY <1>1 DEF OrphanInv, ResToRemove, ResRemoved, Runs, threadVars
<1> QED BY <1>6, <1>7, <1>8, <1>9, <1>10, <1>11 DEF OrphanNext

\* An event or the synchronization posts a job with what is stored, or none.
LEMMA CurrentOrphan ==
    ASSUME OrphanInv, restarts = 0, UNCHANGED <<storeVars, queue, threadVars, res, contract>>,
           NEW p \in Poster, NEW d \in Dl, NEW op \in {"deprovision", "pause", "resume"},
           PostCurrent(p, op, d) \/ UNCHANGED posting
    PROVE  OrphanNext
<1> DEFINE j == Job(op, d, version[d], current[d], NoWorkloads)
<1>0. KnownInv /\ EngineInv BY DEF OrphanInv, KnownInv, JobInv, ShapeInv
<1>1. UNCHANGED <<current, pc, dl, todo, step, failed>> BY DEF storeVars, threadVars
<1>2. j.op = op /\ j.dl = d /\ j.target = current[d] BY SMT DEF Job
<1>3. Pending' \subseteq Pending \cup {j}
  <2>1. CASE UNCHANGED posting BY <2>1 DEF Pending
  <2>2. CASE Post(p, j) BY <1>0, <2>2, PendingPosted
  <2> QED BY <2>1, <2>2 DEF PostCurrent
<1> HIDE DEF j
<1>4. PlainOps' BY <1>2, <1>3 DEF OrphanInv, PlainOps
<1>5. NewAsStored' BY <1>1, <1>2, <1>3 DEF OrphanInv, NewAsStored
<1>6. ResStored' BY <1>1 DEF OrphanInv, ResStored
<1>7. ResCovered'
  <2>1. \A n \in Name, y \in Type : <<d, n, y>> \in res => Has(current[d], n, y)
    BY DEF OrphanInv, ResStored
  <2> QED BY <1>2, <1>3, <2>1 DEF OrphanInv, ResCovered
<1>8. InstallAsStored'
  <2> SUFFICES ASSUME Runs("provision")
               PROVE  /\ SameKind(Head(queue).target, current[dl["worker"]])
                      /\ \A k \in Pending' : k.op = "deprovision" /\ k.dl = dl["worker"]
                                             => SameKind(k.target, current[dl["worker"]])
    BY <1>1 DEF InstallAsStored, Runs
  <2>1. \A k \in Pending' : k \in Pending \/ (k.dl = d /\ k.target = current[d]) BY <1>2, <1>3
  <2>2. /\ SameKind(Head(queue).target, current[dl["worker"]])
        /\ \A k \in Pending : k.op = "deprovision" /\ k.dl = dl["worker"]
                               => SameKind(k.target, current[dl["worker"]])
    BY DEF OrphanInv, InstallAsStored
  <2> QED BY <2>1, <2>2, SameKindTrans
<1>9. ResToRemove' /\ ResRemoved' BY <1>1 DEF OrphanInv, ResToRemove, ResRemoved, Runs
<1> QED BY <1>4, <1>5, <1>6, <1>7, <1>8, <1>9 DEF OrphanNext

\* The chain, the event loop and the synchronization keep the invariant.
LEMMA EventOrphan ==
    ASSUME OrphanInv, restarts = 0,
           Chain \/ HandleEvent \/ SyncStart \/ \E d \in Dl : SyncOne(d)
    PROVE  OrphanNext
<1>0. KnownInv /\ RestOK /\ EngineInv BY DEF OrphanInv, KnownInv, JobInv, ShapeInv
<1>1. CASE Chain \/ SyncStart
  <2>1. UNCHANGED <<current, queue, posting, pc, dl, todo, step, failed, res>>
    BY <1>1 DEF Chain, SyncStart, storeVars, threadVars
  <2>2. \A d \in Dl : contract'[d] # "deleted" => contract[d] # "deleted"
    <3>1. CASE Chain BY <1>0, <3>1, DeletedStays
    <3>2. CASE SyncStart BY <3>2 DEF SyncStart, chainVars
    <3> QED BY <1>1, <3>1, <3>2
  <2>3. Pending' = Pending BY <2>1 DEF Pending
  <2>4. KindsSame BY <2>1, SameKindTrans DEF KindsSame
  <2>5. PlainOps' /\ NewAsStored' /\ ResStored' /\ ResCovered'
    BY <1>0, <2>1, <2>2, <2>3, <2>4, KindsKept DEF OrphanInv
  <2>6. InstallAsStored' BY <2>1, <2>3 DEF OrphanInv, InstallAsStored, Runs
  <2>7. ResToRemove' /\ ResRemoved' BY <2>1 DEF OrphanInv, ResToRemove, ResRemoved, Runs
  <2> QED BY <2>5, <2>6, <2>7 DEF OrphanNext
<1>2. CASE HandleEvent
  <2>1. UNCHANGED <<storeVars, queue, threadVars, res, contract>> BY <1>2 DEF HandleEvent, HandleLock, HandleCancel
  <2>2. "events" \in Poster BY DEF Poster
  <2>3. CASE HandleLock
    <3>1. PICK e \in Dl : e = Head(locks).dl
      <4>1. locks \in Seq(LockEvent) /\ locks # <<>> BY <1>0, <2>3 DEF EngineInv, EventsOK, HandleLock
      <4>2. Head(locks) \in LockEvent BY <4>1, SMT
      <4> QED BY <4>2 DEF LockEvent
    <3>2. PICK op \in {"pause", "resume"} : PostCurrent("events", op, e) BY <2>3, <3>1 DEF HandleLock
    <3> QED BY <2>1, <2>2, <3>2, CurrentOrphan
  <2>4. ASSUME NEW e \in Dl, HandleCancel(e) PROVE OrphanNext
    BY <2>1, <2>2, <2>4, CurrentOrphan DEF HandleCancel
  <2> QED BY <1>2, <2>3, <2>4 DEF HandleEvent
<1>3. ASSUME NEW e \in Dl, SyncOne(e) PROVE OrphanNext
  <2>1. UNCHANGED <<storeVars, queue, threadVars, res, contract>> BY <1>3 DEF SyncOne, chainVars
  <2>2. "sync" \in Poster BY DEF Poster
  <2>3. \/ UNCHANGED posting \/ PostCurrent("sync", "deprovision", e)
        \/ PostCurrent("sync", "pause", e) \/ PostCurrent("sync", "resume", e)
    BY <1>3 DEF SyncOne
  <2> QED BY <2>1, <2>2, <2>3, CurrentOrphan
<1> QED BY <1>1, <1>2, <1>3

\* The worker has no step in its hands any more.
LEMMA WorkerStops ==
    ASSUME pc'["worker"] \in {"idle", "error", "dequeue"}
    PROVE  InstallAsStored' /\ ResToRemove' /\ ResRemoved'
<1>1. \A op : ~Runs(op)' BY DEF Runs, Stepping
<1>2. InstallAsStored' BY <1>1 DEF InstallAsStored
<1>3. ResToRemove' BY <1>1 DEF ResToRemove
<1>4. ResRemoved' BY DEF ResRemoved
<1> QED BY <1>2, <1>3, <1>4

\* Jobs enter the queue and leave it.
LEMMA QueueOrphan ==
    ASSUME OrphanInv, restarts = 0, (\E p \in Poster : Enqueue(p)) \/ Dequeue
    PROVE  OrphanNext
<1>0. KnownInv /\ EngineInv /\ queue \in Seq(RealJob) /\ posting \in [Poster -> RealJob \cup {NoJob}]
  BY DEF OrphanInv, KnownInv, JobInv, ShapeInv, EngineInv, JobsOK
<1>1. Pending' \subseteq Pending BY <1>0, PendingQueued
<1>2. UNCHANGED <<current, step, res, contract>>
  BY DEF Enqueue, Dequeue, storeVars, threadVars, chainVars
<1>3. KindsSame BY <1>2, SameKindTrans DEF KindsSame
<1>4. PlainOps' /\ NewAsStored' /\ ResStored' /\ ResCovered'
  BY <1>0, <1>1, <1>2, <1>3, KindsKept DEF OrphanInv
<1>5. ASSUME NEW p \in Poster, Enqueue(p) PROVE InstallAsStored' /\ ResToRemove' /\ ResRemoved'
  <2>1. UNCHANGED <<pc, dl, todo, failed>> BY <1>5 DEF Enqueue, threadVars
  <2>2. pc["worker"] # "idle" => Head(queue') = Head(queue)
    <3>1. posting[p] \in RealJob /\ queue' = Append(queue, posting[p]) BY <1>0, <1>5 DEF Enqueue
    <3>2. pc["worker"] # "idle" => queue # <<>> BY <1>0 DEF EngineInv, JobsOK
    <3> QED BY <1>0, <3>1, <3>2, FirstStays
  <2>3. ASSUME NEW op, Runs(op)' PROVE Runs(op) /\ Head(queue') = Head(queue)
    BY <2>1, <2>2, <2>3 DEF Runs, Stepping
  <2>4. InstallAsStored' BY <1>1, <1>2, <2>1, <2>3 DEF OrphanInv, InstallAsStored
  <2>5. ResToRemove' BY <1>2, <2>1, <2>3 DEF OrphanInv, ResToRemove
  <2> QED BY <1>2, <2>1, <2>4, <2>5 DEF OrphanInv, ResRemoved
<1>6. CASE Dequeue
  <2>1. pc'["worker"] = "idle" BY <1>0, <1>6 DEF Dequeue, EngineInv, ThreadsOK, Thread
  <2>2. InstallAsStored' /\ ResToRemove' /\ ResRemoved' BY <2>1, WorkerStops
  <2> QED BY <1>4, <2>2 DEF OrphanNext
<1> QED BY <1>4, <1>5, <1>6 DEF OrphanNext

\* A job starts: to install, as it is stored; to remove what is there.  Or it
\* fails, and that is stored.
LEMMA StartOrphan ==
    ASSUME OrphanInv, restarts = 0, StartJob \/ StoreError
    PROVE  OrphanNext
<1>0. /\ KnownInv /\ EngineInv /\ Shape /\ "worker" \in Thread
      /\ pc \in [Thread -> {"idle", "run", "error", "dequeue"} \cup Stepping]
      /\ dl \in [Thread -> Dl \cup {NoDl}] /\ todo \in [Thread -> SUBSET RealStep]
      /\ current \in [Dl -> Workloads]
  BY DEF OrphanInv, KnownInv, JobInv, ShapeInv, EngineInv, ThreadsOK, StoreInv, StoreTypeOK, Thread
<1>1. UNCHANGED <<queue, posting, res, contract, failed>> BY DEF StartJob, StoreError, chainVars
<1>2. Pending' = Pending BY <1>1 DEF Pending
<1>3. CASE StoreError
  <2>1. pc'["worker"] = "dequeue" BY <1>0, <1>3 DEF StoreError
  <2>2. PICK x \in Dl : x = dl["worker"] BY <1>0, <1>3 DEF StoreError, EngineInv, ThreadsOK
  <2>3. KindsSame
    <3>1. CASE UNCHANGED current BY <3>1, SameKindTrans DEF KindsSame
    <3>2. CASE Error(x, reading)
      <4>1. /\ \A n \in Active(reading) : TransactionOk(x, n, reading[n].type)
            /\ current' = [current EXCEPT ![x] = [n \in Name |->
                 IF n \in Active(reading) THEN WithResult(reading[n], "error") ELSE current[x][n]]]
        BY <3>2 DEF Error, ErrorOk
      <4>2. \A e \in Dl \ {x} : current'[e] = current[e] BY <1>0, <4>1
      <4>3. ASSUME NEW n \in Name, NEW y \in Type PROVE Has(current[x], n, y) <=> Has(current'[x], n, y)
        <5>1. CASE n \notin Active(reading)
          <6>1. current'[x][n] = current[x][n] BY <1>0, <4>1, <5>1
          <6> QED BY <6>1 DEF Has, Active
        <5>2. CASE n \in Active(reading)
          <6>1. current'[x][n] = WithResult(reading[n], "error") BY <1>0, <4>1, <5>2
          <6>2. WithResult(reading[n], "error").type = reading[n].type
                /\ WithResult(reading[n], "error") # NoEntry
            BY SMT DEF WithResult, NoEntry
          <6>3. n \in Active(current[x]) /\ current[x][n].type = reading[n].type
            BY <4>1, <5>2 DEF TransactionOk
          <6> QED BY <6>1, <6>2, <6>3 DEF Has, Active
        <5> QED BY <5>1, <5>2
      <4>4. SameKind(current[x], current'[x]) BY <4>3 DEF SameKind
      <4> QED BY <4>2, <4>4, SameKindTrans DEF KindsSame
    <3> QED BY <1>3, <2>2, <3>1, <3>2 DEF StoreError, storeVars
  <2>4. PlainOps' /\ NewAsStored' /\ ResStored' /\ ResCovered'
    BY <1>0, <1>1, <1>2, <2>3, KindsKept DEF OrphanInv
  <2> QED BY <2>1, <2>4, WorkerStops DEF OrphanNext
<1>4. CASE StartJob
  <2>1. UNCHANGED current /\ queue # <<>> BY <1>4 DEF StartJob, storeVars
  <2>2. KindsSame BY <2>1, SameKindTrans DEF KindsSame
  <2>3. PlainOps' /\ NewAsStored' /\ ResStored' /\ ResCovered'
    BY <1>0, <1>1, <1>2, <2>2, KindsKept DEF OrphanInv
  <2>4. PICK j \in Pending : j = Head(queue) BY <1>0, <2>1, HeadPending
  <2>5. j \in RealJob /\ j.dl \in Dl BY <1>0, <2>4, PendingKnown DEF RealJob
  <2>6. dl'["worker"] = j.dl BY <1>0, <1>4, <2>4 DEF StartJob
  <2>7. CASE pc'["worker"] \in {"idle", "error", "dequeue"} BY <2>3, <2>7, WorkerStops DEF OrphanNext
  <2>8. CASE /\ pc' = [pc EXCEPT !["worker"] = "run"] /\ Validates(j)
             /\ todo' = [todo EXCEPT !["worker"] = JobSteps(j)]
    <3>1. pc'["worker"] = "run" /\ todo'["worker"] = JobSteps(j) BY <1>0, <2>8
    <3>2. InstallAsStored'
      <4> SUFFICES ASSUME j.op = "provision"
                   PROVE  /\ SameKind(j.target, current[j.dl])
                          /\ \A k \in Pending : k.op = "deprovision" /\ k.dl = j.dl
                                                => SameKind(k.target, current[j.dl])
        BY <1>1, <1>2, <2>1, <2>4, <2>6 DEF InstallAsStored, Runs
      <4>1. contract[j.dl] # "deleted" BY <2>8 DEF Validates, OnChain
      <4>2. \A k \in Pending : k.op = "deprovision" => contract[k.dl] = "deleted"
        BY <1>0, PendingKnown DEF GoneJob
      <4> QED BY <4>1, <4>2 DEF OrphanInv, NewAsStored
    <3>3. ResToRemove'
      <4> SUFFICES ASSUME j.op = "deprovision", NEW n \in Name, NEW y \in Type, <<j.dl, n, y>> \in res
                   PROVE  \E s \in todo'["worker"] : s.name = n
        BY <1>1, <2>4, <2>6 DEF ResToRemove, Runs
      <4>1. Has(j.target, n, y) BY DEF OrphanInv, ResCovered
      <4>2. Step("uninstall", n, j.target[n]) \in JobSteps(j) BY <4>1 DEF Has, JobSteps, Steps
      <4>3. Step("uninstall", n, j.target[n]).name = n BY SMT DEF Step
      <4> QED BY <3>1, <4>2, <4>3
    <3>4. ResRemoved' BY <3>1 DEF ResRemoved
    <3> QED BY <2>3, <3>2, <3>3, <3>4 DEF OrphanNext
  <2>9. pc' = [pc EXCEPT !["worker"] = "run"] \/ pc'["worker"] \in {"error", "dequeue"}
    BY <1>0, <1>4 DEF StartJob
  <2> QED BY <1>0, <1>4, <2>4, <2>7, <2>8, <2>9 DEF StartJob
<1> QED BY <1>3, <1>4

\* A step the worker has to take, or has in its hands, is of a workload of its job.
LEMMA PlainStep ==
    ASSUME OrphanInv, restarts = 0, pc["worker"] # "idle",
           NEW s \in RealStep, s \in JobSteps(Head(queue))
    PROVE  /\ Head(queue) \in Pending /\ Head(queue).dl = dl["worker"] /\ dl["worker"] \in Dl
           /\ s.op = "install" <=> Head(queue).op = "provision"
           /\ s.op = "uninstall" <=> Head(queue).op = "deprovision"
           /\ s.op # "update"
           /\ s.name \in Name /\ s.wl.type \in Type
           /\ Has(Head(queue).target, s.name, s.wl.type)
<1>0. KnownInv /\ EngineInv /\ Shape BY DEF OrphanInv, KnownInv, JobInv, ShapeInv
<1>1. Head(queue) \in Pending BY <1>0, HeadPending
<1>2. PICK j \in RealJob : j = Head(queue) BY <1>0, <1>1, PendingKnown
<1>3. j.op \in {"provision", "deprovision", "pause", "resume"} BY <1>1, <1>2 DEF OrphanInv, PlainOps
<1>4. Head(queue).dl = dl["worker"] /\ dl["worker"] \in Dl
  <2>1. Head(queue).dl = dl["worker"] BY <1>0 DEF Shape
  <2> QED BY <1>2, <2>1 DEF RealJob
<1>5. \E op : s \in Steps(op, j.target) /\ (op = "install" <=> j.op = "provision")
              /\ (op = "uninstall" <=> j.op = "deprovision") /\ op # "update"
  BY <1>2, <1>3 DEF JobSteps
<1>6. PICK op : s \in Steps(op, j.target) /\ (op = "install" <=> j.op = "provision")
                /\ (op = "uninstall" <=> j.op = "deprovision") /\ op # "update"
  BY <1>5
<1>7. PICK n \in Active(j.target) : s = Step(op, n, j.target[n]) BY <1>6 DEF Steps
<1>8. s.op = op /\ s.name = n /\ s.wl = j.target[n] BY <1>7, SMT DEF Step
<1>9. s.name \in Name /\ s.wl.type \in Type
  <2>1. s.name \in Name /\ s.wl \in Entry BY DEF RealStep
  <2> QED BY <2>1 DEF Entry
<1>10. Has(j.target, s.name, s.wl.type) BY <1>7, <1>8 DEF Has
<1> QED BY <1>1, <1>2, <1>4, <1>6, <1>8, <1>9, <1>10

\* The worker takes a step: to install what is stored, or to remove what is
\* there; one it skips has no resource.
LEMMA TakeOrphan ==
    ASSUME OrphanInv, restarts = 0, TakeStep("worker")
    PROVE  OrphanNext
<1>0. /\ KnownInv /\ EngineInv /\ OfJob /\ "worker" \in Thread /\ pc["worker"] = "run"
      /\ pc \in [Thread -> {"idle", "run", "error", "dequeue"} \cup Stepping]
      /\ todo \in [Thread -> SUBSET RealStep] /\ step \in [Thread -> RealStep \cup {NoStep}]
  BY DEF OrphanInv, KnownInv, JobInv, ShapeInv, EngineInv, ThreadsOK, Thread, TakeStep
<1>1. UNCHANGED <<queue, posting, dl, res, contract>> BY DEF TakeStep, chainVars
<1>2. PICK s \in todo["worker"] :
         \/ Install("worker", s) \/ Uninstall("worker", s)
         \/ UpdateWorkload("worker", s) \/ LockWorkload("worker", s)
  BY DEF TakeStep, NextSteps
<1>3. s \in RealStep /\ s \in JobSteps(Head(queue)) BY <1>0 DEF OfJob
<1>4. /\ Head(queue).dl = dl["worker"] /\ dl["worker"] \in Dl /\ s.op # "update"
      /\ s.op = "install" => Head(queue).op = "provision"
      /\ s.op = "uninstall" <=> Head(queue).op = "deprovision"
      /\ s.name \in Name /\ s.wl.type \in Type /\ Has(Head(queue).target, s.name, s.wl.type)
  BY <1>0, <1>3, PlainStep
<1>5. s.op = "install" => s.name \in Active(current[dl["worker"]])
  <2> SUFFICES ASSUME s.op = "install" PROVE s.name \in Active(current[dl["worker"]])
    OBVIOUS
  <2>1. Runs("provision") BY <1>0, <1>4 DEF Runs
  <2>2. SameKind(Head(queue).target, current[dl["worker"]]) BY <2>1 DEF OrphanInv, InstallAsStored
  <2> QED BY <1>4, <2>2 DEF SameKind, Has
<1>6. /\ UNCHANGED storeVars
      /\ failed => failed'
      /\ \/ Skip("worker", s) /\ (s.op = "uninstall" => s.name \notin Active(current[dl["worker"]]))
         \/ \E at \in {"provision", "deprovision", "lock"} :
              Begin("worker", s, at) /\ (s.op = "uninstall" => at = "deprovision")
  <2>0. ASSUME NEW at, Begin("worker", s, at) PROVE UNCHANGED failed BY <2>0 DEF Begin
  <2>1. CASE Install("worker", s)
    <3>1. /\ s.op = "install"
          /\ \/ Skip("worker", s) /\ UNCHANGED <<storeVars, failed>>
             \/ Begin("worker", s, "provision") /\ UNCHANGED storeVars
      BY <1>5, <2>1 DEF Install
    <3> QED BY <2>0, <3>1
  <2>2. CASE Uninstall("worker", s)
    <3>1. /\ UNCHANGED storeVars
          /\ \/ /\ s.name \notin Active(current[dl["worker"]]) /\ Skip("worker", s)
                /\ failed => failed'
             \/ Begin("worker", s, "deprovision")
      BY <2>2 DEF Uninstall
    <3> QED BY <2>0, <3>1
  <2>3. CASE LockWorkload("worker", s)
    <3>1. s.op # "uninstall" BY <2>3 DEF LockWorkload
    <3> QED BY <2>3, <3>1 DEF LockWorkload, Begin
  <2>4. CASE UpdateWorkload("worker", s) BY <1>4, <2>4 DEF UpdateWorkload
  <2> QED BY <1>2, <2>1, <2>2, <2>3, <2>4
<1>7. /\ todo'["worker"] = todo["worker"] \ {s}
      /\ \/ pc'["worker"] = "run" /\ (s.op = "uninstall" => s.name \notin Active(current[dl["worker"]]))
         \/ /\ pc'["worker"] \in {"provision", "deprovision", "lock"} /\ step'["worker"] = s
            /\ s.op = "uninstall" => pc'["worker"] = "deprovision"
  <2>1. CASE Skip("worker", s) /\ (s.op = "uninstall" => s.name \notin Active(current[dl["worker"]]))
    BY <1>0, <2>1 DEF Skip
  <2>2. ASSUME NEW at \in {"provision", "deprovision", "lock"}, Begin("worker", s, at),
               s.op = "uninstall" => at = "deprovision"
        PROVE  /\ todo'["worker"] = todo["worker"] \ {s} /\ pc'["worker"] = at /\ step'["worker"] = s
    BY <1>0, <2>2 DEF Begin
  <2> QED BY <1>6, <2>1, <2>2
<1>8. UNCHANGED current BY <1>6 DEF storeVars
<1>9. Pending' = Pending BY <1>1 DEF Pending
<1>10. KindsSame BY <1>8, SameKindTrans DEF KindsSame
<1>11. PlainOps' /\ NewAsStored' /\ ResStored' /\ ResCovered'
  BY <1>0, <1>1, <1>9, <1>10, KindsKept DEF OrphanInv
<1>12. \A op : Runs(op)' => Runs(op) BY <1>0, <1>1 DEF Runs
<1>13. InstallAsStored' BY <1>1, <1>8, <1>9, <1>12 DEF OrphanInv, InstallAsStored
<1>14. ResRemoved' BY <1>7 DEF ResRemoved
<1>15. ResToRemove'
  <2> SUFFICES ASSUME Runs("deprovision"), ~failed, NEW n \in Name, NEW y \in Type,
                      <<dl["worker"], n, y>> \in res
               PROVE  \/ \E x \in todo'["worker"] : x.name = n
                      \/ pc'["worker"] = "deprovision" /\ step'["worker"].name = n
    BY <1>1, <1>6, <1>12 DEF ResToRemove
  <2>1. PICK x \in todo["worker"] : x.name = n BY <1>0 DEF OrphanInv, ResToRemove
  <2>2. CASE x # s BY <1>7, <2>1, <2>2
  <2>3. CASE x = s
    <3>1. s.op = "uninstall" BY <1>4 DEF Runs
    <3>2. Has(current[dl["worker"]], n, y) BY <1>4 DEF OrphanInv, ResStored
    <3>3. s.name \in Active(current[dl["worker"]]) BY <2>1, <2>3, <3>2 DEF Has
    <3> QED BY <1>7, <2>1, <2>3, <3>1, <3>3
  <2> QED BY <2>2, <2>3
<1> QED BY <1>11, <1>13, <1>14, <1>15 DEF OrphanNext

\* A manager provisions the resource of a stored workload, or removes one for good.
LEMMA CallOrphan ==
    ASSUME OrphanInv, restarts = 0, "deprovision" \notin Faults, CallManager("worker")
    PROVE  OrphanNext
<1> DEFINE s == step["worker"]
           d == dl["worker"]
<1>0. /\ KnownInv /\ EngineInv /\ OfJob /\ ThreadShape("worker") /\ "worker" \in Thread
      /\ step \in [Thread -> RealStep \cup {NoStep}]
  BY DEF OrphanInv, KnownInv, JobInv, ShapeInv, Shape, EngineInv, ThreadsOK, Thread
<1>1. UNCHANGED <<queue, posting, dl, todo, failed, contract, current>>
  BY DEF CallManager, chainVars, storeVars
<1>2. Answered("worker") /\ pc["worker"] \in {"provision", "deprovision", "update", "lock"}
  BY <1>0, Answers
<1>3. s \in RealStep /\ s \in JobSteps(Head(queue)) /\ pc["worker"] \in Stepping
  BY <1>0, <1>2 DEF OfJob, EngineInv, ThreadsOK, Stepping
<1>4. /\ Head(queue) \in Pending /\ Head(queue).dl = d /\ d \in Dl /\ s.op # "update"
      /\ s.op = "install" => Head(queue).op = "provision"
      /\ s.op = "uninstall" <=> Head(queue).op = "deprovision"
      /\ s.name \in Name /\ s.wl.type \in Type /\ Has(Head(queue).target, s.name, s.wl.type)
  BY <1>2, <1>3, PlainStep
<1>5. Resource("worker") = <<d, s.name, s.wl.type>> BY DEF Resource
<1> HIDE DEF s, d
<1>6. Pending' = Pending BY <1>1 DEF Pending
<1>7. KindsSame BY <1>1, SameKindTrans DEF KindsSame
<1>8. PlainOps' /\ NewAsStored' BY <1>1, <1>6 DEF OrphanInv, PlainOps, NewAsStored
<1>9. \A op : Runs(op)' => Runs(op) BY <1>1, <1>3 DEF Runs
<1>10. InstallAsStored' BY <1>1, <1>6, <1>9 DEF OrphanInv, InstallAsStored
<1>11. /\ pc'["worker"] \in {"run", "record"}
       /\ pc'["worker"] = "record" => step'["worker"] = s
  BY <1>2 DEF Answered, s
<1>12. pc["worker"] # "update" BY <1>0, <1>4 DEF ThreadShape, s
<1>13. CASE pc["worker"] \in {"provision", "lock"}
  <2>1. s.op # "uninstall" BY <1>0, <1>13 DEF ThreadShape, s
  <2>2. ResToRemove'
    <3>1. ~Runs("deprovision")' BY <1>4, <1>9, <2>1 DEF Runs
    <3> QED BY <3>1 DEF ResToRemove
  <2>3. ResRemoved' BY <1>11, <2>1 DEF ResRemoved
  <2>4. UNCHANGED res \/ (res' = res \cup {Resource("worker")} /\ pc["worker"] = "provision")
    BY <1>13 DEF CallManager, CallProvision, CallDeprovision, CallUpdate, CallLock
  <2>5. CASE UNCHANGED res
    <3>1. ResStored' /\ ResCovered' BY <1>1, <1>6, <2>5 DEF OrphanInv, ResStored, ResCovered
    <3> QED BY <1>8, <1>10, <2>2, <2>3, <3>1 DEF OrphanNext
  <2>6. CASE res' = res \cup {Resource("worker")} /\ pc["worker"] = "provision"
    <3>1. Runs("provision") BY <1>0, <1>3, <1>4, <2>6 DEF Runs, ThreadShape, s
    <3>2. /\ SameKind(Head(queue).target, current[d])
          /\ \A k \in Pending : k.op = "deprovision" /\ k.dl = d => SameKind(k.target, current[d])
      BY <3>1 DEF OrphanInv, InstallAsStored, d
    <3>3. Has(current[d], s.name, s.wl.type) BY <1>4, <3>2 DEF SameKind
    <3>4. \A e, n, y : <<e, n, y>> \in res' =>
            <<e, n, y>> \in res \/ (e = d /\ n = s.name /\ y = s.wl.type)
      BY <1>5, <2>6, SMT
    <3>5. ResStored'
      <4> SUFFICES ASSUME NEW e \in Dl, NEW n \in Name, NEW y \in Type, <<e, n, y>> \in res'
                   PROVE  Has(current[e], n, y)
        BY <1>1 DEF ResStored
      <4> QED BY <3>3, <3>4 DEF OrphanInv, ResStored
    <3>6. ResCovered'
      <4> SUFFICES ASSUME NEW k \in Pending, k.op = "deprovision", NEW n \in Name, NEW y \in Type,
                          <<k.dl, n, y>> \in res'
                   PROVE  Has(k.target, n, y)
        BY <1>6 DEF ResCovered
      <4>1. CASE <<k.dl, n, y>> \in res BY <4>1 DEF OrphanInv, ResCovered
      <4>2. CASE k.dl = d /\ n = s.name /\ y = s.wl.type
        <5>1. SameKind(k.target, current[d]) BY <3>2, <4>2
        <5> QED BY <1>4, <3>3, <4>2, <5>1 DEF SameKind
      <4> QED BY <3>4, <4>1, <4>2
    <3> QED BY <1>8, <1>10, <2>2, <2>3, <3>5, <3>6 DEF OrphanNext
  <2> QED BY <2>4, <2>5, <2>6
<1>14. CASE pc["worker"] = "deprovision"
  <2>1. res' = res \ {Resource("worker")}
    BY <1>14 DEF CallManager, CallProvision, CallDeprovision, CallUpdate, CallLock
  <2>2. s.op = "uninstall" BY <1>0, <1>14 DEF ThreadShape, s
  <2>3. \A y \in Type : <<d, s.name, y>> \notin res'
    <3> SUFFICES ASSUME NEW y \in Type, <<d, s.name, y>> \in res PROVE y = s.wl.type
      BY <1>5, <2>1
    <3>1. Has(Head(queue).target, s.name, y) BY <1>4, <2>2 DEF OrphanInv, ResCovered
    <3> QED BY <1>4, <3>1 DEF Has
  <2>4. ResStored' /\ ResCovered' BY <1>1, <1>6, <2>1 DEF OrphanInv, ResStored, ResCovered
  <2>5. ResRemoved' BY <1>1, <1>11, <2>3 DEF ResRemoved, d
  <2>6. ResToRemove'
    <3> SUFFICES ASSUME Runs("deprovision"), ~failed, NEW n \in Name, NEW y \in Type,
                        <<d, n, y>> \in res'
                 PROVE  \E x \in todo["worker"] : x.name = n
      BY <1>1, <1>9 DEF ResToRemove, d
    <3>1. n # s.name BY <2>3
    <3>2. <<d, n, y>> \in res BY <2>1
    <3> QED BY <3>1, <3>2 DEF OrphanInv, ResToRemove, d, s
  <2> QED BY <1>8, <1>10, <2>4, <2>5, <2>6 DEF OrphanNext
<1> QED BY <1>2, <1>12, <1>13, <1>14

\* Workloads of a deployment whose contract is deleted go, none of them with a resource.
LEMMA GoneChanged ==
    ASSUME OrphanInv, restarts = 0, UNCHANGED <<queue, posting, res, contract>>,
           NEW x \in Dl, contract[x] = "deleted", \A e \in Dl \ {x} : current'[e] = current[e],
           \A n \in Name, y \in Type : <<x, n, y>> \in res => Has(current'[x], n, y)
    PROVE  PlainOps' /\ NewAsStored' /\ ResStored' /\ ResCovered'
<1>1. Pending' = Pending /\ KnownInv BY DEF Pending, OrphanInv
<1>2. PlainOps' /\ ResCovered' BY <1>1 DEF OrphanInv, PlainOps, ResCovered
<1>3. NewAsStored'
  <2> SUFFICES ASSUME NEW j \in Pending, j.op = "provision", contract[j.dl] # "deleted"
               PROVE  SameKind(j.target, current'[j.dl])
    BY <1>1 DEF NewAsStored
  <2>1. j.dl \in Dl \ {x} BY <1>1, PendingKnown DEF RealJob
  <2> QED BY <2>1 DEF OrphanInv, NewAsStored
<1>4. ResStored'
  <2> SUFFICES ASSUME NEW e \in Dl, NEW n \in Name, NEW y \in Type, <<e, n, y>> \in res
               PROVE  Has(current'[e], n, y)
    BY DEF ResStored
  <2>1. CASE e = x BY <2>1
  <2>2. CASE e # x BY <2>2 DEF OrphanInv, ResStored
  <2> QED BY <2>1, <2>2
<1> QED BY <1>2, <1>3, <1>4

\* The result of a step is stored, and the workload is of the same type.
LEMMA RecordOrphan ==
    ASSUME OrphanInv, restarts = 0, Record("worker")
    PROVE  OrphanNext
<1> DEFINE s == step["worker"]
           d == dl["worker"]
<1>0. /\ KnownInv /\ EngineInv /\ "worker" \in Thread /\ pc["worker"] = "record"
      /\ pc \in [Thread -> {"idle", "run", "error", "dequeue"} \cup Stepping]
  BY DEF OrphanInv, KnownInv, JobInv, ShapeInv, EngineInv, ThreadsOK, Thread, Record
<1>1. UNCHANGED <<queue, posting, dl, todo, res, contract>> /\ (failed => failed')
  <2>1. UNCHANGED <<queue, posting, dl, todo, res, contract>> BY DEF Record, chainVars
  <2>2. failed => failed'
    <3>1. UNCHANGED failed \/ (failed' = (failed \/ s.op = "uninstall")) BY DEF Record
    <3> QED BY <3>1
  <2> QED BY <2>1, <2>2
<1>2. d \in Dl /\ s.name \in Name /\ s.wl.type # "none"
  <2>1. d \in Dl /\ s \in RealStep BY <1>0 DEF EngineInv, ThreadsOK, Stepping
  <2>2. s.name \in Name /\ s.wl \in Entry BY <2>1 DEF RealStep
  <2> QED BY <2>1, <2>2, GridAssumption DEF Entry
<1>3. \/ /\ pc'["worker"] = "remove" /\ step'["worker"] = s /\ s.op = "uninstall"
      \/ pc'["worker"] = "run"
  BY <1>0 DEF Record, Done
<1>4. KindsSame
  <2>1. CASE UNCHANGED current BY <2>1, SameKindTrans DEF KindsSame
  <2>2. CASE \E r : Puts(d, s.name, WithResult(s.wl, r)) /\ TransactionOk(d, s.name, s.wl.type)
    <3>1. PICK r : Puts(d, s.name, WithResult(s.wl, r)) /\ TransactionOk(d, s.name, s.wl.type)
      BY <2>2
    <3> DEFINE e == WithResult(s.wl, r)
    <3>2. e.type = s.wl.type /\ NoEntry.type = "none" BY SMT DEF WithResult, NoEntry
    <3>3. Puts(d, s.name, e) BY <3>1
    <3> HIDE DEF e, s, d
    <3>4. \A a \in Dl, n \in Name : current'[a][n] = IF a = d /\ n = s.name THEN e ELSE current[a][n]
      BY <1>0, <1>2, <3>3, PutsThere, SMT
    <3>5. ASSUME NEW a \in Dl, NEW n \in Name, NEW y \in Type
          PROVE  Has(current[a], n, y) <=> Has(current'[a], n, y)
      <4>1. CASE a = d /\ n = s.name
        <5>1. current'[a][n] = e BY <3>4, <4>1
        <5>2. n \in Active(current[a]) /\ current[a][n].type = s.wl.type
          BY <3>1, <4>1 DEF TransactionOk
        <5> QED BY <1>2, <3>2, <5>1, <5>2 DEF Has, Active
      <4>2. CASE ~(a = d /\ n = s.name)
        <5>1. current'[a][n] = current[a][n] BY <3>4, <4>2, SMT
        <5> QED BY <5>1 DEF Has, Active
      <4> QED BY <4>1, <4>2
    <3> QED BY <3>5 DEF KindsSame, SameKind
  <2>3. UNCHANGED current
        \/ \E r : Puts(d, s.name, WithResult(s.wl, r)) /\ TransactionOk(d, s.name, s.wl.type)
    <3>1. CASE UNCHANGED storeVars BY <3>1 DEF storeVars
    <3>2. CASE Transaction(d, s.name, WithResult(s.wl, result["worker"]))
      <4>1. WithResult(s.wl, result["worker"]).type = s.wl.type BY SMT DEF WithResult
      <4> QED BY <3>2, <4>1 DEF Transaction, Puts
    <3> QED BY <3>1, <3>2 DEF Record
  <2> QED BY <2>1, <2>2, <2>3
<1>5. Pending' = Pending BY <1>1 DEF Pending
<1>6. PlainOps' /\ NewAsStored' /\ ResStored' /\ ResCovered'
  BY <1>0, <1>1, <1>4, <1>5, KindsKept DEF OrphanInv
<1>7. \A op : Runs(op)' => Runs(op) BY <1>0, <1>1 DEF Runs, Stepping
<1>8. InstallAsStored'
  <2> SUFFICES ASSUME Runs("provision")
               PROVE  /\ SameKind(Head(queue).target, current'[d])
                      /\ \A k \in Pending : k.op = "deprovision" /\ k.dl = d
                                            => SameKind(k.target, current'[d])
    BY <1>1, <1>5, <1>7 DEF InstallAsStored
  <2>1. SameKind(current[d], current'[d]) BY <1>2, <1>4 DEF KindsSame
  <2> QED BY <2>1, SameKindTrans DEF OrphanInv, InstallAsStored
<1>9. ResToRemove'
  <2> SUFFICES ASSUME Runs("deprovision"), ~failed, NEW n \in Name, NEW y \in Type,
                      <<d, n, y>> \in res
               PROVE  \E x \in todo["worker"] : x.name = n
    BY <1>1, <1>7 DEF ResToRemove
  <2> QED BY <1>0 DEF OrphanInv, ResToRemove
<1>10. ResRemoved' BY <1>0, <1>1, <1>3 DEF OrphanInv, ResRemoved
<1> QED BY <1>6, <1>8, <1>9, <1>10 DEF OrphanNext

\* A workload is removed after its resource, and a deployment after all of them.
LEMMA RemoveOrphan ==
    ASSUME OrphanInv, restarts = 0, RemoveWorkload("worker") \/ EndSteps("worker")
    PROVE  OrphanNext
<1> DEFINE s == step["worker"]
           d == dl["worker"]
<1>0. /\ KnownInv /\ EngineInv /\ OfJob /\ "worker" \in Thread /\ Shape
      /\ pc \in [Thread -> {"idle", "run", "error", "dequeue"} \cup Stepping]
      /\ current \in [Dl -> Workloads]
  BY DEF OrphanInv, KnownInv, JobInv, ShapeInv, EngineInv, ThreadsOK, StoreInv, StoreTypeOK, Thread
<1>1. UNCHANGED <<queue, posting, todo, failed, res, contract>>
  BY DEF RemoveWorkload, EndSteps, chainVars
<1>2. pc["worker"] # "idle" /\ d \in Dl /\ d = Head(queue).dl
  <2>1. pc["worker"] # "idle" BY DEF RemoveWorkload, EndSteps
  <2> QED BY <1>0, <2>1 DEF EngineInv, ThreadsOK, Shape
<1>3. Head(queue).op = "deprovision" => contract[d] = "deleted"
  <2>1. Head(queue) \in Pending BY <1>0, <1>2, HeadPending
  <2> QED BY <1>0, <1>2, <2>1, PendingKnown DEF GoneJob
<1>4. Pending' = Pending BY <1>1 DEF Pending
<1>5. UNCHANGED current => PlainOps' /\ NewAsStored' /\ ResStored' /\ ResCovered'
  <2> SUFFICES ASSUME UNCHANGED current PROVE PlainOps' /\ NewAsStored' /\ ResStored' /\ ResCovered'
    OBVIOUS
  <2>1. KindsSame BY SameKindTrans DEF KindsSame
  <2> QED BY <1>0, <1>1, <1>4, <2>1, KindsKept DEF OrphanInv
<1>6. CASE EndSteps("worker")
  <2>1. pc["worker"] = "run" /\ todo["worker"] = {} /\ pc'["worker"] = "dequeue"
    BY <1>0, <1>6 DEF EndSteps
  <2>2. InstallAsStored' /\ ResToRemove' /\ ResRemoved' BY <2>1, WorkerStops
  <2>3. CASE UNCHANGED storeVars BY <1>5, <2>2, <2>3 DEF storeVars, OrphanNext
  <2>4. CASE Head(queue).op = "deprovision" /\ ~failed /\ Delete(d)
    <3>1. \A e \in Dl \ {d} : current'[e] = current[e] BY <1>0, <2>4 DEF Delete, Drop
    <3>2. \A n \in Name, y \in Type : <<d, n, y>> \notin res
      BY <2>1, <2>4 DEF OrphanInv, ResToRemove, Runs
    <3>3. PlainOps' /\ NewAsStored' /\ ResStored' /\ ResCovered'
      BY <1>1, <1>2, <1>3, <2>4, <3>1, <3>2, GoneChanged
    <3> QED BY <2>2, <3>3 DEF OrphanNext
  <2> QED BY <1>6, <2>3, <2>4 DEF EndSteps
<1>7. CASE RemoveWorkload("worker")
  <2>1. pc["worker"] = "remove" /\ pc'["worker"] = "run" /\ UNCHANGED dl
    BY <1>0, <1>7 DEF RemoveWorkload, Done
  <2>2. s \in RealStep /\ s \in JobSteps(Head(queue)) /\ s.op = "uninstall"
    BY <1>0, <2>1 DEF OfJob, EngineInv, ThreadsOK, Stepping, OrphanInv, ResRemoved
  <2>3. Head(queue).op = "deprovision" /\ s.name \in Name BY <1>2, <2>2, PlainStep
  <2>4. InstallAsStored'
    <3>1. ~Runs("provision")' BY <1>1, <2>3 DEF Runs
    <3> QED BY <3>1 DEF InstallAsStored
  <2>5. ResRemoved' BY <2>1 DEF ResRemoved
  <2>6. ResToRemove'
    <3> SUFFICES ASSUME ~failed, NEW n \in Name, NEW y \in Type, <<d, n, y>> \in res
                 PROVE  \E x \in todo["worker"] : x.name = n
      BY <1>1, <2>1 DEF ResToRemove
    <3>1. Runs("deprovision") BY <2>1, <2>3 DEF Runs, Stepping
    <3> QED BY <2>1, <3>1 DEF OrphanInv, ResToRemove
  <2>7. CASE UNCHANGED storeVars BY <1>5, <2>4, <2>5, <2>6, <2>7 DEF storeVars, OrphanNext
  <2>8. CASE Remove(d, s.name)
    <3>1. Puts(d, s.name, NoEntry) BY <2>8 DEF Remove, Puts
    <3> HIDE DEF s, d
    <3>2. \A a \in Dl, n \in Name : current'[a][n] = IF a = d /\ n = s.name THEN NoEntry ELSE current[a][n]
      BY <1>0, <1>2, <2>3, <3>1, PutsThere, SMT
    <3>3. \A e \in Dl \ {d} : current'[e] = current[e] BY <1>0, <1>2, <3>1 DEF Puts
    <3>4. ASSUME NEW n \in Name, NEW y \in Type, <<d, n, y>> \in res PROVE Has(current'[d], n, y)
      <4>1. n # s.name BY <2>1, <2>2, <3>4 DEF OrphanInv, ResRemoved, s, d
      <4>2. current'[d][n] = current[d][n] BY <1>2, <3>2, <4>1, SMT
      <4>3. Has(current[d], n, y) BY <1>2, <3>4 DEF OrphanInv, ResStored
      <4> QED BY <4>2, <4>3 DEF Has, Active
    <3>5. PlainOps' /\ NewAsStored' /\ ResStored' /\ ResCovered'
      BY <1>1, <1>2, <1>3, <2>3, <3>3, <3>4, GoneChanged
    <3> QED BY <2>4, <2>5, <2>6, <3>5 DEF OrphanNext
  <2> QED BY <1>7, <2>7, <2>8 DEF RemoveWorkload
<1> QED BY <1>6, <1>7

\* Every step keeps the invariant.
LEMMA OrphanStep ==
    ASSUME OrphanInv, PlainUse, [EngineNext]_engineVars, restarts' = 0
    PROVE  OrphanInv'
<1>0. /\ KnownInv /\ Calls \subseteq {"provision"} /\ "deprovision" \notin Faults
      /\ pc["api"] = "idle" /\ RestOK
  BY DEF OrphanInv, KnownInv, JobInv, ShapeInv, QuietApi, Quiet, PlainUse
<1>1. restarts = 0 /\ \A kind \in {"crash", "reboot"} : ~Restart(kind) BY <1>0, FirstRestart
<1>2. KnownInv' BY <1>0, KnownStep
<1>3. OrphanNext
  <2>1. CASE UNCHANGED engineVars
    <3>1. UNCHANGED <<current, queue, posting, pc, dl, todo, step, failed, res, contract>>
      BY <2>1 DEF engineVars, storeVars, threadVars, chainVars
    <3>2. Pending' = Pending BY <3>1 DEF Pending
    <3>3. PlainOps' /\ NewAsStored' /\ ResStored' /\ ResCovered'
      BY <3>1, <3>2 DEF OrphanInv, PlainOps, NewAsStored, ResStored, ResCovered
    <3>4. InstallAsStored' /\ ResToRemove' /\ ResRemoved'
      BY <3>1, <3>2 DEF OrphanInv, InstallAsStored, ResToRemove, ResRemoved, Runs
    <3> QED BY <3>3, <3>4 DEF OrphanNext
  <2>2. CASE UserStep(Dl, Requests)
    <3>1. PICK d \in Dl, r \in Requests : Provision(d, r)
      BY <1>0, <2>2 DEF UserStep, UpdateDeployment, DecommissionCached
    <3> QED BY <1>0, <1>1, <3>1, ProvisionOrphan
  <2>3. CASE Chain \/ HandleEvent \/ SyncStart \/ \E d \in Dl : SyncOne(d) BY <1>0, <1>1, <2>3, EventOrphan
  <2>4. CASE (\E p \in Poster : Enqueue(p)) \/ Dequeue BY <1>0, <1>1, <2>4, QueueOrphan
  <2>5. CASE StartJob \/ StoreError BY <1>0, <1>1, <2>5, StartOrphan
  <2>6. CASE Work("worker")
    BY <1>0, <1>1, <2>6, TakeOrphan, CallOrphan, RecordOrphan, RemoveOrphan DEF Work
  <2>7. ~Work("api")
    BY <1>0 DEF Work, TakeStep, CallManager, CallProvision, CallDeprovision, CallUpdate, CallLock,
           Record, RemoveWorkload, EndSteps
  <2>8. \A t \in Thread : t = "worker" \/ t = "api" BY DEF Thread
  <2> QED BY <1>1, <2>1, <2>2, <2>3, <2>4, <2>5, <2>6, <2>7, <2>8 DEF EngineNext, SystemStep, Worker
<1> QED BY <1>2, <1>3 DEF OrphanInv, OrphanNext

\* Initially there is neither a job nor a resource.
LEMMA OrphanInit == EngineInit => OrphanInv
<1> SUFFICES ASSUME EngineInit PROVE OrphanInv
  OBVIOUS
<1>1. KnownInv BY KnownInvInit
<1>2. Pending = {} /\ res = {} /\ pc["worker"] = "idle"
  <2>1. queue = <<>> /\ Len(<<>>) = 0 /\ 1 .. 0 = {} BY SMT DEF EngineInit
  <2> QED BY <2>1 DEF EngineInit, Pending, Thread
<1>3. \A op : ~Runs(op) BY <1>2 DEF Runs, Stepping
<1>4. PlainOps /\ NewAsStored /\ ResStored /\ ResCovered
  BY <1>2 DEF PlainOps, NewAsStored, ResStored, ResCovered
<1>5. InstallAsStored /\ ResToRemove BY <1>3 DEF InstallAsStored, ResToRemove
<1>6. ResRemoved BY <1>2 DEF ResRemoved
<1> QED BY <1>1, <1>4, <1>5, <1>6 DEF OrphanInv

\* Until provisiond restarts every resource on the node is that of a stored
\* workload of its type, whatever the order of requests, cancellations, lock
\* events and synchronizations, as long as deployments are neither updated nor
\* decommissioned and the managers' Deprovision succeeds.
THEOREM NoOrphanAlways == PlainUse => (EngineSpec => []NoOrphan)
<1> DEFINE Inv == KnownInv /\ (restarts = 0 => OrphanInv)
<1> SUFFICES ASSUME PlainUse PROVE EngineSpec => []NoOrphan
  OBVIOUS
<1>1. Inv => NoOrphan
  <2> SUFFICES ASSUME OrphanInv, NEW r \in res PROVE Has(current[r[1]], r[2], r[3])
    BY DEF NoOrphan, Has
  <2>1. res \subseteq Dl \X Name \X Type BY DEF OrphanInv, KnownInv, JobInv, ShapeInv, RestOK
  <2>2. PICK d \in Dl, n \in Name, y \in Type : r = <<d, n, y>> BY <2>1, SMT
  <2>3. Has(current[d], n, y) BY <2>2 DEF OrphanInv, ResStored
  <2> QED BY <2>2, <2>3, SMT
<1>2. Inv /\ [EngineNext]_engineVars => Inv'
  <2> SUFFICES ASSUME Inv, [EngineNext]_engineVars PROVE Inv'
    OBVIOUS
  <2>1. KnownInv' /\ RestOK BY KnownStep DEF KnownInv, JobInv, ShapeInv
  <2>2. ASSUME restarts' = 0 PROVE OrphanInv' BY <2>1, <2>2, FirstRestart, OrphanStep
  <2> QED BY <2>1, <2>2
<1>3. EngineInit => Inv BY OrphanInit, KnownInvInit
<1> QED BY <1>1, <1>2, <1>3, PTL DEF EngineSpec

-----------------------------------------------------------------------------
\* An okay workload has its resource.

\* storage reports n of d okay, and its resource is not on the node
Missing(d, n) ==
    /\ n \in Active(current[d]) /\ IsOkay(current[d][n].state)
    /\ <<d, n, current[d][n].type>> \notin res

\* the zbus server has deprovisioned n, and is about to store that
ApiRemoves(d, n, type) ==
    /\ dl["api"] = d /\ step["api"].name = n
    /\ \/ pc["api"] = "remove"
       \/ pc["api"] = "record" /\ result["api"] = "deleted" /\ step["api"].wl.type = type

\* the same for the worker
WorkerRemoves(d, n, type) ==
    /\ dl["worker"] = d /\ step["worker"].name = n /\ step["worker"].wl.type = type
    /\ pc["worker"] = "record" /\ step["worker"].op = "uninstall" /\ result["worker"] = "deleted"

\* the worker has still to take the step s of the first job, or to store its failure
Ahead(s) ==
    \/ pc["worker"] \in {"idle", "error"}
    \/ pc["worker"] \in {"run"} \cup Stepping /\ s \in todo["worker"]
    \/ /\ step["worker"] = s
       /\ \/ pc["worker"] \in {"provision", "deprovision"}
          \/ pc["worker"] = "record" /\ result["worker"] \in {"error", "deleted"}

\* job i has a step that installs or removes n
QueuedAt(i, s, d, n, type) ==
    /\ queue[i].dl = d /\ queue[i].op # "provision"
    /\ s \in JobSteps(queue[i]) /\ s.name = n /\ s.op \in {"install", "uninstall"} /\ s.wl.type = type

\* such a step is still to be taken, in the first job or in one of a reboot
Queued(d, n, type) ==
    \E i \in 1 .. Len(queue) : \E s :
        /\ QueuedAt(i, s, d, n, type)
        /\ (i = 1 /\ Ahead(s)) \/ (i # 1 /\ queue[i].op = "reprovision")

\* somebody takes care of n
Handled(d, n, type) ==
    ApiRemoves(d, n, type) \/ WorkerRemoves(d, n, type) \/ (Quiet /\ Queued(d, n, type))

\* somebody takes care of every missing resource
MissingHandled ==
    \A d \in Dl, n \in Name, type \in Type :
        Missing(d, n) /\ current[d][n].type = type => Handled(d, n, type)

\* the worker is about to store that a workload is okay
OkayPending == pc["worker"] = "lock" \/ (pc["worker"] = "record" /\ IsOkay(result["worker"]))

\* a workload can be stored as okay: it has its resource, or is being removed,
\* or the storage refuses as it has another type
Earned(d, n, type) ==
    \/ <<d, n, type>> \in res
    \/ ApiRemoves(d, n, type)
    \/ d \in present /\ current[d][n].type # type

\* what the worker is about to store as okay can be
OkayEarned == OkayPending => Earned(dl["worker"], step["worker"].name, step["worker"].wl.type)

\* the inductive invariant
DeployedInv == KnownInv /\ MissingHandled /\ OkayEarned

\* A workload that was okay before was handled before.
LEMMA MissingBefore ==
    ASSUME MissingHandled, NEW d \in Dl, NEW n \in Name, NEW type \in Type,
           current'[d][n] = current[d][n], Missing(d, n)', current'[d][n].type = type,
           <<d, n, type>> \in res => <<d, n, type>> \in res'
    PROVE  Handled(d, n, type)
<1>1. Missing(d, n) BY DEF Missing, Active
<1> QED BY <1>1 DEF MissingHandled

\* A step of the first job stays queued as long as it is ahead.
LEMMA QueuedKept ==
    ASSUME NEW d, NEW n, NEW type, UNCHANGED queue, Queued(d, n, type),
           \A s : QueuedAt(1, s, d, n, type) /\ Ahead(s) => Ahead(s)'
    PROVE  Queued(d, n, type)'
<1>1. PICK i \in 1 .. Len(queue) : \E s :
          QueuedAt(i, s, d, n, type) /\ ((i = 1 /\ Ahead(s)) \/ (i # 1 /\ queue[i].op = "reprovision"))
  BY DEF Queued
<1>2. PICK s : QueuedAt(i, s, d, n, type)
               /\ ((i = 1 /\ Ahead(s)) \/ (i # 1 /\ queue[i].op = "reprovision"))
  BY <1>1
<1>3. QueuedAt(i, s, d, n, type)' BY <1>2 DEF QueuedAt
<1>4. (i = 1 /\ Ahead(s)') \/ (i # 1 /\ queue'[i].op = "reprovision") BY <1>2
<1>5. i \in 1 .. Len(queue') OBVIOUS
<1> QED BY <1>3, <1>4, <1>5 DEF Queued

\* the worker and the zbus server stay where they are
ThreadsStay ==
    /\ WorkerSame /\ result'["worker"] = result["worker"]
    /\ pc'["api"] = pc["api"] /\ dl'["api"] = dl["api"] /\ step'["api"] = step["api"]
    /\ result'["api"] = result["api"]

\* then they take care of the same workloads
LEMMA HandsSame ==
    ASSUME ThreadsStay, NEW d, NEW n, NEW type
    PROVE  /\ ApiRemoves(d, n, type) => ApiRemoves(d, n, type)'
           /\ WorkerRemoves(d, n, type) => WorkerRemoves(d, n, type)'
           /\ \A s : Ahead(s) => Ahead(s)'
BY DEF ThreadsStay, WorkerSame, ApiRemoves, WorkerRemoves, Ahead

\* Requests, events and the chain put no workload in okay and remove no resource.
LEMMA RequestDeployed ==
    ASSUME DeployedInv,
           \/ \E d \in Dl : \E r \in Requests : Provision(d, r) \/ UpdateDeployment(d, r)
           \/ Chain \/ HandleEvent \/ SyncStart \/ (\E d \in Dl : SyncOne(d))
           \/ UNCHANGED engineVars
    PROVE  MissingHandled' /\ OkayEarned'
<1>1. UNCHANGED <<queue, res>> /\ ThreadsStay
  BY DEF Provision, UpdateDeployment, Chain, HandleEvent, SyncStart, SyncOne, engineVars, threadVars,
         ThreadsStay, WorkerSame
<1>2. /\ \A d \in present : d \in present' /\ current'[d] = current[d]
      /\ \A d \in Dl : \A n \in Name : current'[d][n] = current[d][n] \/ ~IsOkay(current'[d][n].state)
  <2>1. ASSUME NEW d \in Dl, NEW r \in Requests, Provision(d, r)
        PROVE  /\ \A e \in present : e \in present' /\ current'[e] = current[e]
               /\ \A e \in Dl : \A n \in Name : current'[e][n] = current[e][n] \/ ~IsOkay(current'[e][n].state)
    <3>1. present \subseteq Dl /\ current \in [Dl -> Workloads]
      BY DEF DeployedInv, KnownInv, JobInv, ShapeInv, EngineInv, StoreInv, StoreTypeOK
    <3>2. /\ d \notin present /\ present' = present \cup {d}
          /\ current' = [current EXCEPT ![d] = WithState(r.ws, "init")]
      BY <2>1 DEF Provision, Create, CreateOk
    <3>3. \A n \in Name : ~IsOkay(WithState(r.ws, "init")[n].state)
      BY SMT DEF WithState, WithResult, NoEntry, IsOkay
    <3> QED BY <3>1, <3>2, <3>3
  <2>2. \/ \E d \in Dl : \E r \in Requests : Provision(d, r)
        \/ UNCHANGED <<present, current>>
    BY DEF UpdateDeployment, Update, Chain, HandleEvent, SyncStart, SyncOne, engineVars, storeVars
  <2> QED BY <2>1, <2>2
<1>3. MissingHandled'
  <2> SUFFICES ASSUME NEW d \in Dl, NEW n \in Name, NEW type \in Type,
                      Missing(d, n)', current'[d][n].type = type
               PROVE  Handled(d, n, type)'
    BY DEF MissingHandled
  <2>1. current'[d][n] = current[d][n] BY <1>2 DEF Missing
  <2>2. Handled(d, n, type) BY <1>1, <2>1, MissingBefore DEF DeployedInv
  <2>3. Queued(d, n, type) => Queued(d, n, type)' BY <1>1, HandsSame, QueuedKept
  <2>4. Quiet => Quiet' BY DEF Quiet
  <2> QED BY <1>1, <2>2, <2>3, <2>4, HandsSame DEF Handled
<1>4. OkayEarned'
  <2> SUFFICES ASSUME OkayPending'
               PROVE  Earned(dl["worker"], step["worker"].name, step["worker"].wl.type)'
    BY DEF OkayEarned
  <2>1. OkayPending BY <1>1 DEF OkayPending, ThreadsStay, WorkerSame
  <2>2. PICK d, n, type : d = dl["worker"] /\ n = step["worker"].name /\ type = step["worker"].wl.type
    OBVIOUS
  <2>3. Earned(d, n, type) BY <2>1, <2>2 DEF DeployedInv, OkayEarned
  <2>4. ApiRemoves(d, n, type) => ApiRemoves(d, n, type)' BY <1>1, HandsSame
  <2>5. Earned(d, n, type)' BY <1>1, <1>2, <2>3, <2>4 DEF Earned
  <2>6. dl'["worker"] = d /\ step'["worker"] = step["worker"] BY <1>1, <2>2 DEF ThreadsStay, WorkerSame
  <2> QED BY <2>2, <2>5, <2>6 DEF Earned, ApiRemoves
<1> QED BY <1>3, <1>4

\* The result the worker is about to store, while it does nothing.
LEMMA EarnedKept ==
    ASSUME OkayEarned, WorkerSame, result'["worker"] = result["worker"],
           \A n, type : /\ OkayPending /\ n = step["worker"].name /\ type = step["worker"].wl.type
                        /\ Earned(dl["worker"], n, type)
                        => Earned(dl["worker"], n, type)'
    PROVE  OkayEarned'
<1> SUFFICES ASSUME OkayPending'
             PROVE  Earned(dl["worker"], step["worker"].name, step["worker"].wl.type)'
  BY DEF OkayEarned
<1>1. OkayPending BY DEF OkayPending, WorkerSame
<1>2. PICK n, type : n = step["worker"].name /\ type = step["worker"].wl.type OBVIOUS
<1>3. Earned(dl["worker"], n, type)' BY <1>1, <1>2 DEF OkayEarned
<1>4. step'["worker"] = step["worker"] BY DEF WorkerSame
<1> QED BY <1>2, <1>3, <1>4 DEF Earned, ApiRemoves

\* Jobs are added at the end.
LEMMA EnqueueDeployed ==
    ASSUME DeployedInv, NEW p \in Poster, Enqueue(p)
    PROVE  MissingHandled' /\ OkayEarned'
<1>1. /\ UNCHANGED <<res, present, current>> /\ ThreadsStay /\ queue' = Append(queue, posting[p])
      /\ posting[p] \in RealJob /\ queue \in Seq(RealJob)
  BY DEF Enqueue, threadVars, storeVars, ThreadsStay, WorkerSame, DeployedInv, KnownInv, JobInv,
         ShapeInv, EngineInv, JobsOK
<1>2. \A i \in 1 .. Len(queue) : i \in 1 .. Len(queue') /\ queue'[i] = queue[i] BY <1>1, SMT
<1>3. MissingHandled'
  <2> SUFFICES ASSUME NEW d \in Dl, NEW n \in Name, NEW type \in Type,
                      Missing(d, n)', current'[d][n].type = type
               PROVE  Handled(d, n, type)'
    BY DEF MissingHandled
  <2>1. Handled(d, n, type) BY <1>1, MissingBefore DEF DeployedInv
  <2>2. ASSUME Queued(d, n, type) PROVE Queued(d, n, type)'
    <3>1. PICK i \in 1 .. Len(queue) : \E s :
            QueuedAt(i, s, d, n, type) /\ ((i = 1 /\ Ahead(s)) \/ (i # 1 /\ queue[i].op = "reprovision"))
      BY <2>2 DEF Queued
    <3>2. PICK s : QueuedAt(i, s, d, n, type)
                   /\ ((i = 1 /\ Ahead(s)) \/ (i # 1 /\ queue[i].op = "reprovision"))
      BY <3>1
    <3>3. QueuedAt(i, s, d, n, type)' BY <1>2, <3>2, SMT DEF QueuedAt
    <3>4. (i = 1 /\ Ahead(s)') \/ (i # 1 /\ queue'[i].op = "reprovision")
      BY <1>1, <1>2, <3>2, HandsSame
    <3> QED BY <1>2, <3>3, <3>4 DEF Queued
  <2>3. Quiet => Quiet' BY DEF Quiet
  <2> QED BY <1>1, <2>1, <2>2, <2>3, HandsSame DEF Handled
<1>4. OkayEarned'
  <2>1. WorkerSame /\ result'["worker"] = result["worker"] BY <1>1 DEF ThreadsStay
  <2>2. dl'["worker"] = dl["worker"] BY <2>1 DEF WorkerSame
  <2>3. \A n, type : Earned(dl["worker"], n, type) => Earned(dl["worker"], n, type)'
    BY <1>1, <2>2, HandsSame DEF Earned, ApiRemoves, ThreadsStay
  <2> QED BY <2>1, <2>3, EarnedKept DEF DeployedInv
<1> QED BY <1>3, <1>4

\* When the first job is done, what is handled is handled by a job of a reboot,
\* and the first of these is next.
LEMMA DequeueDeployed ==
    ASSUME DeployedInv, Dequeue
    PROVE  MissingHandled' /\ OkayEarned'
<1>0. EngineInv /\ queue \in Seq(RealJob) BY DEF DeployedInv, KnownInv, JobInv, ShapeInv, EngineInv, JobsOK
<1>1. /\ UNCHANGED <<res, present, current, step, result>> /\ queue' = Tail(queue) /\ queue # <<>>
      /\ pc["worker"] = "dequeue" /\ pc' = [pc EXCEPT !["worker"] = "idle"]
      /\ dl' = [dl EXCEPT !["worker"] = NoDl]
  BY <1>0 DEF Dequeue, storeVars, EngineInv, JobsOK
<1>2. pc'["worker"] = "idle" /\ pc'["api"] = pc["api"] /\ dl'["api"] = dl["api"]
  BY <1>0, <1>1 DEF EngineInv, ThreadsOK, Thread
<1>3. \A k \in 1 .. Len(queue) : k = 1 \/ (k - 1 \in 1 .. Len(queue') /\ queue'[k - 1] = queue[k])
  BY <1>0, <1>1, SMT
<1>4. MissingHandled'
  <2> SUFFICES ASSUME NEW d \in Dl, NEW n \in Name, NEW type \in Type,
                      Missing(d, n)', current'[d][n].type = type
               PROVE  Handled(d, n, type)'
    BY DEF MissingHandled
  <2>1. Handled(d, n, type) BY <1>1, MissingBefore DEF DeployedInv
  <2>2. ApiRemoves(d, n, type) => ApiRemoves(d, n, type)' BY <1>1, <1>2 DEF ApiRemoves
  <2>3. ~WorkerRemoves(d, n, type) BY <1>1 DEF WorkerRemoves
  <2>4. ASSUME Queued(d, n, type) PROVE Queued(d, n, type)'
    <3>1. PICK i \in 1 .. Len(queue) : \E s :
            QueuedAt(i, s, d, n, type) /\ ((i = 1 /\ Ahead(s)) \/ (i # 1 /\ queue[i].op = "reprovision"))
      BY <2>4 DEF Queued
    <3>2. PICK s : QueuedAt(i, s, d, n, type)
                   /\ ((i = 1 /\ Ahead(s)) \/ (i # 1 /\ queue[i].op = "reprovision"))
      BY <3>1
    <3>3. ~Ahead(s) BY <1>1 DEF Ahead, Stepping
    <3>4. PICK k \in 1 .. Len(queue') : queue'[k] = queue[i] BY <1>3, <3>2, <3>3
    <3>5. QueuedAt(k, s, d, n, type)' BY <3>2, <3>4, SMT DEF QueuedAt
    <3>6. Ahead(s)' BY <1>2 DEF Ahead
    <3>7. queue'[k].op = "reprovision" BY <3>2, <3>3, <3>4
    <3> QED BY <3>5, <3>6, <3>7 DEF Queued
  <2>5. Quiet => Quiet' BY DEF Quiet
  <2> QED BY <2>1, <2>2, <2>3, <2>4, <2>5 DEF Handled
<1>5. OkayEarned' BY <1>2 DEF OkayEarned, OkayPending
<1> QED BY <1>4, <1>5

\* All the steps of a job are ahead when it starts.
LEMMA StartDeployed ==
    ASSUME DeployedInv, StartJob
    PROVE  MissingHandled' /\ OkayEarned'
<1>0. EngineInv BY DEF DeployedInv, KnownInv, JobInv, ShapeInv
<1>1. /\ UNCHANGED <<res, present, current, step, result, queue>> /\ queue # <<>> /\ pc["worker"] = "idle"
      /\ \/ /\ pc' = [pc EXCEPT !["worker"] = "run"]
            /\ todo' = [todo EXCEPT !["worker"] = JobSteps(Head(queue))]
         \/ pc' = [pc EXCEPT !["worker"] = IF Head(queue).dl \in present THEN "error" ELSE "dequeue"]
      /\ dl' = [dl EXCEPT !["worker"] = Head(queue).dl]
  BY DEF StartJob, storeVars
<1>2. /\ pc'["api"] = pc["api"] /\ dl'["api"] = dl["api"]
      /\ \/ pc'["worker"] = "run" /\ todo'["worker"] = JobSteps(Head(queue))
         \/ pc'["worker"] = "error"
         \/ pc'["worker"] = "dequeue" /\ Head(queue).dl \notin present
  BY <1>0, <1>1 DEF EngineInv, ThreadsOK, Thread
<1>3. Head(queue) = queue[1] BY <1>0, <1>1, FirstJob
<1>4. MissingHandled'
  <2> SUFFICES ASSUME NEW d \in Dl, NEW n \in Name, NEW type \in Type,
                      Missing(d, n)', current'[d][n].type = type
               PROVE  Handled(d, n, type)'
    BY DEF MissingHandled
  <2>1. Handled(d, n, type) BY <1>1, MissingBefore DEF DeployedInv
  <2>2. ApiRemoves(d, n, type) => ApiRemoves(d, n, type)' BY <1>1, <1>2 DEF ApiRemoves
  <2>3. ~WorkerRemoves(d, n, type) BY <1>1 DEF WorkerRemoves
  <2>4. d \in present
    <3>1. n \in Active(current[d]) BY <1>1 DEF Missing
    <3>2. AbsentIsEmpty BY <1>0 DEF EngineInv, StoreInv
    <3> QED BY <3>1, <3>2 DEF AbsentIsEmpty, NoWorkloads, Active
  <2>5. \A s : QueuedAt(1, s, d, n, type) => Ahead(s)' BY <1>2, <1>3, <2>4 DEF QueuedAt, Ahead
  <2>6. Queued(d, n, type) => Queued(d, n, type)' BY <1>1, <2>5, QueuedKept
  <2>7. Quiet => Quiet' BY DEF Quiet
  <2> QED BY <2>1, <2>2, <2>3, <2>6, <2>7 DEF Handled
<1>5. OkayEarned' BY <1>2 DEF OkayEarned, OkayPending
<1> QED BY <1>4, <1>5

\* When a job is given up no workload of its deployment stays okay; the only
\* ones that may come between are the calls of other daemons.
LEMMA ErrorDeployed ==
    ASSUME DeployedInv, StoreError
    PROVE  MissingHandled' /\ OkayEarned'
<1>0. EngineInv /\ ShapeInv BY DEF DeployedInv, KnownInv, JobInv, ShapeInv
<1>1. /\ UNCHANGED <<res, step, result, queue, dl>> /\ pc["worker"] = "error"
      /\ pc' = [pc EXCEPT !["worker"] = "dequeue"]
      /\ \/ Error(dl["worker"], reading)
         \/ ~ErrorOk(dl["worker"], reading) /\ UNCHANGED storeVars
  BY DEF StoreError
<1>2. pc'["worker"] = "dequeue" /\ pc'["api"] = pc["api"] BY <1>0, <1>1 DEF EngineInv, ThreadsOK, Thread
<1>3. PICK x \in Dl : x = dl["worker"] BY <1>0, <1>1 DEF EngineInv, ThreadsOK, Thread
<1>4. current \in [Dl -> Workloads] /\ reading \in Workloads
  BY <1>0 DEF EngineInv, StoreInv, StoreTypeOK, ThreadsOK
<1>5. /\ \A d \in Dl : \A n \in Name : current'[d][n] = current[d][n] \/ ~IsOkay(current'[d][n].state)
      /\ Error(x, reading) => \A n \in Active(reading) : ~IsOkay(current'[x][n].state)
  <2>1. CASE Error(x, reading)
    <3>1. \A d \in Dl : \A n \in Name :
            current'[d][n] = IF d = x /\ n \in Active(reading) THEN WithResult(reading[n], "error")
                             ELSE current[d][n]
      BY <1>4, <2>1 DEF Error
    <3>2. \A n : ~IsOkay(WithResult(reading[n], "error").state) BY SMT DEF WithResult, IsOkay
    <3>3. \A n \in Active(reading) : n \in Name BY DEF Active
    <3> QED BY <3>1, <3>2, <3>3
  <2>2. CASE ~Error(x, reading) BY <1>1, <1>3, <2>2 DEF storeVars
  <2> QED BY <2>1, <2>2
<1>6. ASSUME Quiet PROVE \A n \in Name : ~(n \in Active(current'[x]) /\ IsOkay(current'[x][n].state))
  <2>1. x \in present /\ reading = current[x] BY <1>1, <1>3, <1>6 DEF DeployedInv, KnownInv, ErrorRead
  <2>2. ErrorOk(x, reading) BY <2>1 DEF ErrorOk, TransactionOk
  <2>3. Error(x, reading) BY <1>1, <1>3, <2>2
  <2>4. \A n \in Name : n \notin Active(reading) => current'[x][n] = NoEntry \/ ~IsOkay(current'[x][n].state)
    BY <1>5, <2>1 DEF Active
  <2> QED BY <1>5, <2>3, <2>4 DEF Active
<1>7. MissingHandled'
  <2> SUFFICES ASSUME NEW d \in Dl, NEW n \in Name, NEW type \in Type,
                      Missing(d, n)', current'[d][n].type = type
               PROVE  Handled(d, n, type)'
    BY DEF MissingHandled
  <2>1. current'[d][n] = current[d][n] BY <1>5 DEF Missing
  <2>2. Handled(d, n, type) BY <1>1, <2>1, MissingBefore DEF DeployedInv
  <2>3. ApiRemoves(d, n, type) => ApiRemoves(d, n, type)' BY <1>1, <1>2 DEF ApiRemoves
  <2>4. ~WorkerRemoves(d, n, type) BY <1>1 DEF WorkerRemoves
  <2>5. ASSUME Quiet, Queued(d, n, type) PROVE Queued(d, n, type)'
    <3>1. d # x BY <1>6, <2>5 DEF Missing
    <3>2. queue # <<>> /\ x = Head(queue).dl BY <1>0, <1>1, <1>3 DEF EngineInv, JobsOK, ShapeInv, Shape
    <3>3. queue[1].dl = x BY <1>0, <3>2, FirstJob
    <3>4. \A s : ~QueuedAt(1, s, d, n, type) BY <3>1, <3>3 DEF QueuedAt
    <3> QED BY <1>1, <2>5, <3>4, QueuedKept
  <2>6. Quiet => Quiet' BY DEF Quiet
  <2> QED BY <2>2, <2>3, <2>4, <2>5, <2>6 DEF Handled
<1>8. OkayEarned' BY <1>2 DEF OkayEarned, OkayPending
<1> QED BY <1>7, <1>8

\* The deployment of a workload that is about to be stored as okay is stored,
\* until provisiond is restarted.
LEMMA PendingPresent ==
    ASSUME DeployedInv, restarts = 0, OkayPending
    PROVE  dl["worker"] \in present
<1>1. KnownWork /\ OfJob /\ ShapeInv /\ EngineInv
  BY DEF DeployedInv, KnownInv, Known, JobInv, ShapeInv
<1>2. pc["worker"] \in Stepping /\ "worker" \in Thread BY DEF OkayPending, Stepping, Thread
<1>3. step["worker"] \in JobSteps(Head(queue)) BY <1>1, <1>2 DEF OfJob
<1>4. Head(queue) \in RealJob
  <2>1. queue # <<>> BY <1>1, <1>2 DEF EngineInv, JobsOK, Stepping
  <2> QED BY <1>1, <2>1, FirstJob
<1>5. step["worker"].op # "uninstall"
  BY <1>1, <1>2 DEF OkayPending, ShapeInv, Shape, ThreadShape, IsOkay
<1>6. step["worker"].op \in StepOp BY <1>1, <1>2 DEF EngineInv, ThreadsOK, RealStep
<1>7. CASE step["worker"].op \in {"pause", "resume"} BY <1>1, <1>2, <1>7 DEF KnownWork
<1>8. CASE step["worker"].op \in {"install", "update"}
  <2>1. Head(queue).op \in {"provision", "reprovision", "update"} BY <1>3, <1>4, <1>8, StepJob
  <2> QED BY <1>1, <1>2, <2>1 DEF KnownWork
<1> QED BY <1>5, <1>6, <1>7, <1>8 DEF StepOp

\* the workload that waits for a result
LEMMA PendingStep ==
    ASSUME DeployedInv, OkayPending
    PROVE  dl["worker"] \in Dl /\ step["worker"].name \in Name /\ step["worker"].wl.type \in Type
<1>1. pc["worker"] \in Stepping /\ pc["worker"] # "idle" /\ "worker" \in Thread
  BY DEF OkayPending, Stepping, Thread
<1>2. dl["worker"] \in Dl /\ step["worker"] \in RealStep
  BY <1>1 DEF DeployedInv, KnownInv, JobInv, ShapeInv, EngineInv, ThreadsOK
<1> QED BY <1>2 DEF RealStep, Entry

\* What a step of the zbus server has to keep.
LEMMA ServerDeployed ==
    ASSUME DeployedInv, ~Quiet, restarts = 0, WorkerSame, result'["worker"] = result["worker"],
           UNCHANGED present,
           \A d \in Dl, n \in Name :
              \/ current'[d][n] = current[d][n]
              \/ /\ ~IsOkay(current'[d][n].state)
                 /\ current'[d][n] = NoEntry \/ current'[d][n].type = current[d][n].type,
           \A d \in Dl, n \in Name, type \in Type :
              ApiRemoves(d, n, type) \/ <<d, n, type>> \in res =>
                 ApiRemoves(d, n, type)' \/ <<d, n, type>> \in res' \/ current'[d][n].type # type
    PROVE  MissingHandled' /\ OkayEarned'
<1>1. MissingHandled'
  <2> SUFFICES ASSUME NEW d \in Dl, NEW n \in Name, NEW type \in Type,
                      Missing(d, n)', current'[d][n].type = type
               PROVE  Handled(d, n, type)'
    BY DEF MissingHandled
  <2>1. current'[d][n] = current[d][n] /\ <<d, n, type>> \notin res' BY DEF Missing
  <2>2. CASE <<d, n, type>> \in res BY <2>1, <2>2 DEF Handled
  <2>3. CASE <<d, n, type>> \notin res
    <3>1. Handled(d, n, type) BY <2>1, <2>3, MissingBefore DEF DeployedInv
    <3>2. WorkerRemoves(d, n, type) => WorkerRemoves(d, n, type)' BY DEF WorkerRemoves, WorkerSame
    <3> QED BY <2>1, <3>1, <3>2 DEF Handled
  <2> QED BY <2>2, <2>3
<1>2. OkayEarned'
  <2> SUFFICES ASSUME NEW n, NEW type, OkayPending, n = step["worker"].name,
                      type = step["worker"].wl.type, Earned(dl["worker"], n, type)
               PROVE  Earned(dl["worker"], n, type)'
    BY EarnedKept DEF DeployedInv
  <2>1. PICK d \in Dl : d = dl["worker"] /\ n \in Name /\ type \in Type BY PendingStep
  <2>2. d \in present /\ dl'["worker"] = d BY <2>1, PendingPresent DEF WorkerSame
  <2>3. type # "none" BY <2>1, GridAssumption
  <2>4. NoEntry.type # type BY <2>3 DEF NoEntry
  <2>5. current[d][n].type # type => current'[d][n].type # type BY <2>1, <2>4
  <2>6. Earned(d, n, type) BY <2>1
  <2>7. Earned(d, n, type)' BY <2>1, <2>2, <2>5, <2>6 DEF Earned
  <2> QED BY <2>2, <2>7 DEF Earned, ApiRemoves
<1> QED BY <1>1, <1>2

\* A call of another daemon.
LEMMA DecommissionDeployed ==
    ASSUME DeployedInv, QuietOrUp, NEW x \in Dl, NEW m \in Name, DecommissionCached(x, m)
    PROVE  MissingHandled' /\ OkayEarned'
<1>1. ~Quiet /\ restarts = 0 BY DEF DecommissionCached, Quiet, QuietOrUp
<1>2. UNCHANGED <<present, current, res>> /\ pc["api"] = "idle"
  BY DEF DecommissionCached, storeVars, ApiIdle
<1>3. WorkerSame /\ result'["worker"] = result["worker"]
  BY OthersKeepWorker DEF UserStep, DeployedInv, KnownInv
<1>4. \A d, n, type : ~ApiRemoves(d, n, type) BY <1>2 DEF ApiRemoves
<1> QED BY <1>1, <1>2, <1>3, <1>4, ServerDeployed

\* The zbus server removes a workload: when its resource is gone, the server is
\* about to store that, or the storage refuses.
LEMMA ApiDeployed ==
    ASSUME DeployedInv, QuietOrUp, Work("api")
    PROVE  MissingHandled' /\ OkayEarned'
<1>0. EngineInv /\ ShapeInv /\ "api" \in Thread /\ current \in [Dl -> Workloads]
  BY DEF DeployedInv, KnownInv, JobInv, ShapeInv, EngineInv, StoreInv, StoreTypeOK, Thread
<1>1. pc["api"] # "idle"
  BY DEF Work, TakeStep, CallManager, CallProvision, CallDeprovision, CallUpdate, CallLock,
         Record, RemoveWorkload, EndSteps
<1>2. ~Quiet /\ restarts = 0 BY <1>1 DEF DeployedInv, KnownInv, QuietApi, QuietOrUp
<1>3. WorkerSame /\ result'["worker"] = result["worker"] BY OthersKeepWorker DEF DeployedInv, KnownInv
<1>4. CASE TakeStep("api") \/ EndSteps("api")
  <2>1. pc["api"] = "run" /\ UNCHANGED res BY <1>4 DEF TakeStep, EndSteps
  <2>2. UNCHANGED storeVars
    <3>1. CASE TakeStep("api")
      <4>1. PICK s \in todo["api"] : TakenUp("api", s) BY <1>0, <3>1, Taken
      <4>2. s.op = "uninstall" BY <1>0 DEF ShapeInv, Shape
      <4> QED BY <4>1, <4>2 DEF TakenUp
    <3>2. CASE EndSteps("api") BY <3>2 DEF EndSteps
    <3> QED BY <1>4, <3>1, <3>2
  <2>3. \A d, n, type : ~ApiRemoves(d, n, type) BY <2>1 DEF ApiRemoves
  <2> QED BY <1>2, <1>3, <2>1, <2>2, <2>3, ServerDeployed DEF storeVars
<1>5. CASE CallManager("api")
  <2>1. pc["api"] \in {"provision", "deprovision", "update", "lock"} BY <1>0, <1>5, Answers
  <2>2. step["api"].op = "uninstall" BY <1>0, <2>1 DEF ShapeInv, Shape, Stepping
  <2>3. pc["api"] = "deprovision" BY <1>0, <2>1, <2>2 DEF ShapeInv, Shape, ThreadShape
  <2>4. /\ UNCHANGED <<present, current, dl>>
        /\ \/ Answer("api", "deleted") /\ res' = res \ {Resource("api")}
           \/ UNCHANGED res
    BY <1>5, <2>3 DEF CallManager, CallProvision, CallDeprovision, CallUpdate, CallLock, storeVars
  <2>5. \A d, n, type : ~ApiRemoves(d, n, type) BY <2>3 DEF ApiRemoves
  <2>6. CASE UNCHANGED res BY <1>2, <1>3, <2>4, <2>5, <2>6, ServerDeployed
  <2>7. CASE Answer("api", "deleted") /\ res' = res \ {Resource("api")}
    <3>1. pc'["api"] = "record" /\ result'["api"] = "deleted" /\ step'["api"] = step["api"]
          /\ dl'["api"] = dl["api"]
      BY <1>0, <2>4, <2>7 DEF Answer, EngineInv, ThreadsOK
    <3>2. ASSUME NEW d \in Dl, NEW n \in Name, NEW type \in Type, <<d, n, type>> \in res
          PROVE  ApiRemoves(d, n, type)' \/ <<d, n, type>> \in res'
      <4>1. CASE <<d, n, type>> = Resource("api")
        <5>1. d = dl["api"] /\ n = step["api"].name /\ type = step["api"].wl.type
          BY <4>1, SMT DEF Resource
        <5> QED BY <3>1, <5>1 DEF ApiRemoves
      <4>2. CASE <<d, n, type>> # Resource("api") BY <2>7, <3>2, <4>2
      <4> QED BY <4>1, <4>2
    <3> QED BY <1>2, <1>3, <2>4, <2>5, <3>2, ServerDeployed
  <2> QED BY <2>4, <2>6, <2>7
<1>6. CASE Record("api") \/ RemoveWorkload("api")
  <2>1. /\ pc["api"] \in {"record", "remove"} /\ UNCHANGED <<res, dl, present>>
        /\ pc["api"] \in Stepping
    BY <1>6 DEF Record, RemoveWorkload, Transaction, Remove, storeVars, Stepping
  <2>2. step["api"].op = "uninstall" /\ (pc["api"] = "record" => result["api"] \in {"deleted", "error"})
    BY <1>0, <2>1 DEF ShapeInv, Shape, ThreadShape
  <2>3. dl["api"] \in Dl /\ step["api"] \in RealStep BY <1>0, <1>1, <2>1 DEF EngineInv, ThreadsOK
  <2>4. PICK x \in Dl, m \in Name, y \in Type :
          x = dl["api"] /\ m = step["api"].name /\ y = step["api"].wl.type
    BY <2>3 DEF RealStep, Entry
  <2>5. \A type \in Type : NoEntry.type # type BY GridAssumption DEF NoEntry
  <2>6. ~IsOkay(NoEntry.state) BY DEF NoEntry, IsOkay
  <2>7. \A d, n, type : ApiRemoves(d, n, type) =>
          d = x /\ n = m /\ (pc["api"] = "record" => result["api"] = "deleted" /\ type = y)
    BY <2>4 DEF ApiRemoves
  <2>8. CASE Record("api") /\ Transaction(x, m, WithResult(step["api"].wl, result["api"]))
    <3>1. PICK e : e = WithResult(step["api"].wl, result["api"]) OBVIOUS
    <3>2. e.type = y /\ e.state = result["api"] BY <2>4, <3>1, SMT DEF WithResult
    <3>3. pc["api"] = "record" BY <2>8 DEF Record
    <3>4. current[x][m].type = y /\ Puts(x, m, e)
      BY <2>2, <2>8, <3>1, <3>2, <3>3 DEF Transaction, TransactionOk, Puts
    <3>5. ~IsOkay(e.state) BY <2>2, <3>2, <3>3 DEF IsOkay
    <3>6. \A d \in Dl, n \in Name : current'[d][n] = IF d = x /\ n = m THEN e ELSE current[d][n]
      BY <1>0, <3>4, PutsThere, SMT
    <3>7. ASSUME NEW d \in Dl, NEW n \in Name, NEW type \in Type, ApiRemoves(d, n, type)
          PROVE  ApiRemoves(d, n, type)'
      <4>1. result["api"] = "deleted" BY <2>7, <3>3, <3>7
      <4>2. \/ pc' = [pc EXCEPT !["api"] = "remove"] /\ UNCHANGED <<step, result>>
            \/ ~TransactionOk(x, m, y)
        BY <2>2, <2>4, <2>8, <4>1 DEF Record
      <4>3. TransactionOk(x, m, y) BY <2>8, <3>1, <3>2 DEF Transaction
      <4>4. pc'["api"] = "remove" BY <1>0, <4>2, <4>3 DEF EngineInv, ThreadsOK
      <4> QED BY <2>1, <3>7, <4>2, <4>3, <4>4 DEF ApiRemoves
    <3> QED BY <1>2, <1>3, <2>1, <3>2, <3>4, <3>5, <3>6, <3>7, ServerDeployed
  <2>9. CASE Record("api") /\ ~Transaction(x, m, WithResult(step["api"].wl, result["api"]))
    <3>1. ~TransactionOk(x, m, y) /\ UNCHANGED current BY <2>4, <2>9 DEF Record, storeVars
    <3>2. current[x][m].type # y BY <2>5, <3>1 DEF TransactionOk, Active
    <3>3. pc["api"] = "record" BY <2>9 DEF Record
    <3> QED BY <1>2, <1>3, <2>1, <2>7, <3>1, <3>2, <3>3, ServerDeployed
  <2>10. CASE RemoveWorkload("api")
    <3>1. \A d \in Dl, n \in Name : current'[d][n] = IF d = x /\ n = m THEN NoEntry ELSE current[d][n]
      <4>1. CASE m \in Active(current[x])
        <5>1. Puts(x, m, NoEntry) BY <2>4, <2>10, <4>1 DEF RemoveWorkload, Remove, Puts
        <5> QED BY <1>0, <5>1, PutsThere, SMT
      <4>2. CASE m \notin Active(current[x])
        <5>1. UNCHANGED current BY <2>4, <2>10, <4>2 DEF RemoveWorkload, storeVars
        <5> QED BY <4>2, <5>1 DEF Active
      <4> QED BY <4>1, <4>2
    <3> QED BY <1>2, <1>3, <2>1, <2>5, <2>6, <2>7, <3>1, ServerDeployed
  <2> QED BY <1>6, <2>8, <2>9, <2>10
<1> QED BY <1>4, <1>5, <1>6 DEF Work

\* The worker leaves the zbus server and the queue alone.
LEMMA WorkerHands ==
    ASSUME DeployedInv, Work("worker")
    PROVE  UNCHANGED queue /\ \A d, n, type : ApiRemoves(d, n, type) => ApiRemoves(d, n, type)'
<1>1. EngineInv /\ "worker" \in Thread /\ "api" \in Thread \ {"worker"}
  BY DEF DeployedInv, KnownInv, JobInv, ShapeInv, Thread
<1>2. /\ UNCHANGED queue
      /\ pc'["api"] = pc["api"] /\ dl'["api"] = dl["api"]
      /\ step'["api"] = step["api"] /\ result'["api"] = result["api"]
  BY <1>1, OtherThread
<1> QED BY <1>2 DEF ApiRemoves

\* A workload that the job updates, pauses or resumes is not one that some job
\* still has to install or remove.
LEMMA NotQueued ==
    ASSUME DeployedInv, pc["worker"] # "idle", NEW s \in JobSteps(Head(queue)),
           s.op \in {"update", "pause", "resume"}, NEW type
    PROVE  ~Queued(dl["worker"], s.name, type)
<1>1. /\ queue # <<>> /\ queue \in Seq(RealJob) /\ BootFirst /\ EngineInv
  BY DEF DeployedInv, KnownInv, JobInv, ShapeInv, EngineInv, JobsOK
<1>2. Head(queue) = queue[1] /\ Head(queue) \in RealJob /\ 1 \in 1 .. Len(queue)
  BY <1>1, FirstJob
<1> SUFFICES ASSUME NEW i \in 1 .. Len(queue), NEW q,
                    QueuedAt(i, q, dl["worker"], s.name, type),
                    (i = 1 /\ Ahead(q)) \/ (i # 1 /\ queue[i].op = "reprovision")
             PROVE  FALSE
  BY DEF Queued
<1>3. CASE i = 1
  <2>1. q \in JobSteps(Head(queue)) /\ q.name = s.name /\ q.op \in {"install", "uninstall"}
    BY <1>2, <1>3 DEF QueuedAt
  <2>2. q = s BY <1>2, <2>1, OneStep
  <2> QED BY <2>1, <2>2
<1>4. CASE i # 1 /\ queue[i].op = "reprovision"
  <2>1. 1 < i BY <1>4, SMT
  <2>2. Head(queue).op = "reprovision" BY <1>1, <1>2, <1>4, <2>1 DEF BootFirst
  <2> QED BY <1>2, <2>2, StepJob
<1> QED BY <1>3, <1>4

\* What the job updates, pauses or resumes can be stored as okay if it was okay.
LEMMA OkayIsEarned ==
    ASSUME DeployedInv, pc["worker"] \in {"run", "update", "lock"}, NEW s \in JobSteps(Head(queue)),
           s \in RealStep, s.op \in {"update", "pause", "resume"},
           IsOkay(current[dl["worker"]][s.name].state)
    PROVE  Earned(dl["worker"], s.name, s.wl.type)
<1>1. EngineInv /\ AbsentIsEmpty /\ "worker" \in Thread
  BY DEF DeployedInv, KnownInv, JobInv, ShapeInv, EngineInv, StoreInv, Thread
<1>2. dl["worker"] \in Dl BY <1>1 DEF EngineInv, ThreadsOK
<1>3. s.name \in Name /\ s.wl.type \in Type BY DEF RealStep, Entry
<1>4. PICK x \in Dl, m \in Name, y \in Type : x = dl["worker"] /\ m = s.name /\ y = s.wl.type
  BY <1>2, <1>3
<1>5. ~IsOkay(NoEntry.state) BY DEF NoEntry, IsOkay
<1>6. m \in Active(current[x]) BY <1>4, <1>5 DEF Active
<1>7. x \in present BY <1>1, <1>6 DEF AbsentIsEmpty, NoWorkloads, Active
<1>8. CASE current[x][m].type # y BY <1>4, <1>7, <1>8 DEF Earned
<1>9. CASE <<x, m, y>> \in res BY <1>4, <1>9 DEF Earned
<1>10. CASE current[x][m].type = y /\ <<x, m, y>> \notin res
  <2>1. Missing(x, m) BY <1>4, <1>6, <1>10 DEF Missing
  <2>2. Handled(x, m, y) BY <1>10, <2>1 DEF DeployedInv, MissingHandled
  <2>3. ~WorkerRemoves(x, m, y) BY DEF WorkerRemoves
  <2>4. ~Queued(x, m, y) BY <1>4, NotQueued
  <2> QED BY <1>4, <2>2, <2>3, <2>4 DEF Handled, Earned
<1> QED BY <1>8, <1>9, <1>10

\* The worker takes a step: what it was to install or to remove it does.
LEMMA TakeDeployed ==
    ASSUME DeployedInv, TakeStep("worker")
    PROVE  MissingHandled' /\ OkayEarned'
<1>0. EngineInv /\ ShapeInv /\ OfJob /\ "worker" \in Thread /\ Work("worker") /\ pc["worker"] = "run"
  BY DEF DeployedInv, KnownInv, JobInv, ShapeInv, Thread, Work, TakeStep
<1>1. PICK s \in todo["worker"] : TakenUp("worker", s) BY <1>0, Taken
<1>2. UNCHANGED <<queue, res, dl>> BY DEF TakeStep
<1>3. s \in RealStep /\ s \in JobSteps(Head(queue)) /\ dl["worker"] \in Dl
  BY <1>0 DEF EngineInv, ThreadsOK, OfJob
<1>4. PICK x \in Dl, m \in Name : x = dl["worker"] /\ m = s.name BY <1>3 DEF RealStep
<1>5. \A d \in Dl, n \in Name : current'[d][n] = current[d][n] \/ ~IsOkay(current'[d][n].state)
  <2>1. CASE UNCHANGED storeVars BY <2>1 DEF storeVars
  <2>2. CASE Add(x, m, s.wl)
    <3>1. Puts(x, m, WithResult(s.wl, "init")) BY <2>2 DEF Add, Puts
    <3>2. OnlyPuts(x, WithResult(s.wl, "init")) BY <1>0, <3>1, EntryWritten
    <3>3. ~IsOkay(WithResult(s.wl, "init").state) BY SMT DEF WithResult, IsOkay
    <3> QED BY <3>2, <3>3 DEF OnlyPuts
  <2> QED BY <1>1, <1>4, <2>1, <2>2 DEF TakenUp
<1>6. Head(queue) = queue[1] /\ queue[1].dl = x
  <2>1. queue # <<>> /\ x = Head(queue).dl BY <1>0, <1>4 DEF EngineInv, JobsOK, ShapeInv, Shape
  <2> QED BY <1>0, <2>1, FirstJob
<1>7. MissingHandled'
  <2> SUFFICES ASSUME NEW d \in Dl, NEW n \in Name, NEW type \in Type,
                      Missing(d, n)', current'[d][n].type = type
               PROVE  Handled(d, n, type)'
    BY DEF MissingHandled
  <2>1. current'[d][n] = current[d][n] BY <1>5 DEF Missing
  <2>2. Handled(d, n, type) BY <1>2, <2>1, MissingBefore DEF DeployedInv
  <2>3. ~WorkerRemoves(d, n, type) BY <1>0 DEF WorkerRemoves
  <2>4. ASSUME NEW q, QueuedAt(1, q, d, n, type), Ahead(q) PROVE Ahead(q)'
    <3>1. q \in todo["worker"] BY <1>0, <2>4 DEF Ahead
    <3>2. CASE q # s
      <4>1. q \in todo'["worker"] BY <1>1, <3>1, <3>2 DEF TakenUp
      <4>2. pc'["worker"] \in {"run"} \cup Stepping BY <1>1 DEF TakenUp, Stepping
      <4> QED BY <4>1, <4>2 DEF Ahead
    <3>3. CASE q = s
      <4>1. s.op \in {"install", "uninstall"} /\ d = x /\ n = m BY <1>4, <1>6, <2>4, <3>3 DEF QueuedAt
      <4>2. m \in Active(current[x]) /\ IsOkay(current[x][m].state) BY <2>1, <4>1 DEF Missing, Active
      <4>3. pc'["worker"] \in {"provision", "deprovision"} BY <1>1, <1>4, <4>1, <4>2 DEF TakenUp
      <4>4. step'["worker"] = s BY <1>1, <4>3 DEF TakenUp
      <4> QED BY <3>3, <4>3, <4>4 DEF Ahead
    <3> QED BY <3>2, <3>3
  <2>5. Queued(d, n, type) => Queued(d, n, type)' BY <1>2, <2>4, QueuedKept
  <2>6. Quiet => Quiet' BY DEF Quiet
  <2> QED BY <1>0, <2>2, <2>3, <2>5, <2>6, WorkerHands DEF Handled
<1>8. OkayEarned'
  <2> SUFFICES ASSUME OkayPending'
               PROVE  Earned(dl["worker"], step["worker"].name, step["worker"].wl.type)'
    BY DEF OkayEarned
  <2>1. pc'["worker"] = "lock" BY <1>1 DEF OkayPending, TakenUp
  <2>2. /\ step'["worker"] = s /\ s.op \in {"pause", "resume"} /\ UNCHANGED storeVars
        /\ IsOkay(current[dl["worker"]][s.name].state)
    BY <1>1, <2>1 DEF TakenUp
  <2>3. PICK y : y = s.wl.type OBVIOUS
  <2>4. Earned(x, m, y) BY <1>0, <1>3, <1>4, <2>2, <2>3, OkayIsEarned
  <2>5. Earned(x, m, y)' BY <1>0, <1>2, <2>2, <2>4, WorkerHands DEF Earned, storeVars
  <2> QED BY <1>2, <1>4, <2>2, <2>3, <2>5 DEF Earned, ApiRemoves
<1> QED BY <1>7, <1>8

\* A manager answers the worker: what it did is on the node, or about to be
\* stored as deleted or in error.
LEMMA CallDeployed ==
    ASSUME DeployedInv, CallManager("worker")
    PROVE  MissingHandled' /\ OkayEarned'
<1>0. EngineInv /\ ShapeInv /\ OfJob /\ "worker" \in Thread /\ Work("worker")
  BY DEF DeployedInv, KnownInv, JobInv, ShapeInv, Thread, Work
<1>1. /\ UNCHANGED <<queue, dl, todo>> /\ UNCHANGED storeVars /\ Answered("worker")
      /\ pc["worker"] \in {"provision", "deprovision", "update", "lock"}
  BY <1>0, Answers DEF CallManager
<1>2. PICK s \in RealStep : s = step["worker"] /\ s \in JobSteps(Head(queue))
  BY <1>0, <1>1 DEF EngineInv, ThreadsOK, OfJob, Stepping
<1>3. dl["worker"] \in Dl BY <1>0, <1>1 DEF EngineInv, ThreadsOK
<1>4. PICK x \in Dl, m \in Name, y \in Type : x = dl["worker"] /\ m = s.name /\ y = s.wl.type
  BY <1>2, <1>3 DEF RealStep, Entry
<1>5. Resource("worker") = <<x, m, y>> BY <1>2, <1>4 DEF Resource
<1>6. Head(queue) = queue[1] /\ queue[1].dl = x
  <2>1. queue # <<>> /\ x = Head(queue).dl BY <1>0, <1>1, <1>4 DEF EngineInv, JobsOK, ShapeInv, Shape
  <2> QED BY <1>0, <2>1, FirstJob
<1>7. /\ \A r : Answer("worker", r) => /\ pc'["worker"] = "record" /\ result'["worker"] = r
                                       /\ step'["worker"] = s
      /\ Done("worker") => pc'["worker"] = "run"
  BY <1>0, <1>2 DEF Answer, Done, EngineInv, ThreadsOK
<1> DEFINE r == <<x, m, y>>
           Effect ==
             /\ res \ {r} \subseteq res'
             /\ r \in res /\ r \notin res' => pc'["worker"] = "record" /\ result'["worker"] = "deleted"
                                              /\ pc["worker"] = "deprovision"
             /\ pc["worker"] \in {"provision", "deprovision"} /\ r \notin res' =>
                  \/ pc'["worker"] = "record" /\ result'["worker"] \in {"deleted", "error"}
                  \/ r \in res
             /\ pc'["worker"] = "record" /\ IsOkay(result'["worker"]) =>
                  \/ r \in res'
                  \/ pc["worker"] = "update" /\ IsOkay(current[x][m].state) /\ UNCHANGED res
                  \/ pc["worker"] = "lock" /\ UNCHANGED res
<1>8. Effect
  <2>0. ~IsOkay("error") /\ ~IsOkay("deleted") /\ ~IsOkay("unchanged") BY DEF IsOkay
  <2>1. CASE pc["worker"] = "provision"
    <3>1. \/ r \in res /\ UNCHANGED res /\ Done("worker")
          \/ res' = res \cup {r} /\ Answer("worker", "ok")
          \/ UNCHANGED res /\ Answer("worker", "error")
      BY <1>5, <2>1 DEF CallManager, CallProvision, CallDeprovision, CallUpdate, CallLock
    <3> HIDE DEF r
    <3> QED BY <1>7, <2>0, <2>1, <3>1
  <2>2. CASE pc["worker"] = "deprovision"
    <3>1. \/ res' = res \ {r} /\ Answer("worker", "deleted")
          \/ UNCHANGED res /\ Answer("worker", "error")
      BY <1>5, <2>2 DEF CallManager, CallProvision, CallDeprovision, CallUpdate, CallLock
    <3> HIDE DEF r
    <3> QED BY <1>7, <2>0, <2>2, <3>1
  <2>3. CASE pc["worker"] = "update"
    <3>1. \/ res' = res \cup {r} /\ Answer("worker", "ok")
          \/ UNCHANGED res /\ (\/ Answer("worker", "error") \/ Answer("worker", "unchanged")
                               \/ Answer("worker", current[x][m].state) \/ Done("worker"))
      BY <1>2, <1>4, <1>5, <2>3 DEF CallManager, CallProvision, CallDeprovision, CallUpdate, CallLock
    <3> HIDE DEF r
    <3> QED BY <1>7, <2>0, <2>3, <3>1
  <2>4. CASE pc["worker"] = "lock"
    <3>1. UNCHANGED res BY <2>4 DEF CallManager, CallProvision, CallDeprovision, CallUpdate, CallLock
    <3> HIDE DEF r
    <3> QED BY <2>4, <3>1
  <2> QED BY <1>1, <2>1, <2>2, <2>3, <2>4
<1>9. MissingHandled'
  <2> SUFFICES ASSUME NEW d \in Dl, NEW n \in Name, NEW type \in Type,
                      Missing(d, n)', current'[d][n].type = type
               PROVE  Handled(d, n, type)'
    BY DEF MissingHandled
  <2>1. current'[d][n] = current[d][n] /\ <<d, n, type>> \notin res' BY <1>1 DEF Missing, storeVars
  <2>2. CASE <<d, n, type>> \in res
    <3>1. <<d, n, type>> = <<x, m, y>> BY <1>8, <2>1, <2>2
    <3>2. d = x /\ n = m /\ type = y BY <3>1, SMT
    <3>3. pc'["worker"] = "record" /\ result'["worker"] = "deleted" /\ pc["worker"] = "deprovision"
      BY <1>8, <2>1, <2>2, <3>2
    <3>4. s.op = "uninstall" BY <1>0, <1>2, <3>3 DEF ShapeInv, Shape, ThreadShape
    <3>5. step'["worker"] = s BY <1>1, <1>2, <3>3 DEF Answered
    <3>6. WorkerRemoves(d, n, type)' BY <1>1, <1>4, <3>2, <3>3, <3>4, <3>5 DEF WorkerRemoves
    <3> QED BY <3>6 DEF Handled
  <2>3. CASE <<d, n, type>> \notin res
    <3>1. Handled(d, n, type) BY <2>1, <2>3, MissingBefore DEF DeployedInv
    <3>2. ~WorkerRemoves(d, n, type) BY <1>1 DEF WorkerRemoves
    <3>3. ASSUME NEW q, QueuedAt(1, q, d, n, type), Ahead(q) PROVE Ahead(q)'
      <4>1. CASE q \in todo["worker"]
        <5>1. pc'["worker"] \in {"run"} \cup Stepping BY <1>1 DEF Answered, Stepping
        <5> QED BY <1>1, <4>1, <5>1 DEF Ahead
      <4>2. CASE q \notin todo["worker"]
        <5>1. q = s /\ pc["worker"] \in {"provision", "deprovision"} BY <1>1, <1>2, <3>3, <4>2 DEF Ahead
        <5>2. d = x /\ n = m /\ type = y BY <1>4, <1>6, <3>3, <5>1 DEF QueuedAt
        <5>3. pc'["worker"] = "record" /\ result'["worker"] \in {"deleted", "error"}
          BY <1>8, <2>1, <2>3, <5>1, <5>2
        <5>4. step'["worker"] = s BY <1>1, <1>2, <5>3 DEF Answered
        <5> QED BY <5>1, <5>3, <5>4 DEF Ahead
      <4> QED BY <4>1, <4>2
    <3>4. Queued(d, n, type) => Queued(d, n, type)' BY <1>1, <3>3, QueuedKept
    <3>5. Quiet => Quiet' BY DEF Quiet
    <3> QED BY <1>0, <3>1, <3>2, <3>4, <3>5, WorkerHands DEF Handled
  <2> QED BY <2>2, <2>3
<1>10. OkayEarned'
  <2> SUFFICES ASSUME OkayPending'
               PROVE  Earned(dl["worker"], step["worker"].name, step["worker"].wl.type)'
    BY DEF OkayEarned
  <2>1. pc'["worker"] = "record" /\ IsOkay(result'["worker"]) BY <1>1 DEF OkayPending, Answered
  <2>2. step'["worker"] = s /\ dl'["worker"] = x BY <1>1, <1>2, <1>4, <2>1 DEF Answered
  <2>3. \/ <<x, m, y>> \in res'
        \/ pc["worker"] = "update" /\ IsOkay(current[x][m].state) /\ UNCHANGED res
        \/ pc["worker"] = "lock" /\ UNCHANGED res
    BY <1>8, <2>1
  <2>4. CASE pc["worker"] = "update" /\ IsOkay(current[x][m].state) /\ UNCHANGED res
    <3>1. s.op = "update" BY <1>0, <1>2, <2>4 DEF ShapeInv, Shape, ThreadShape
    <3>2. Earned(x, m, y) BY <1>2, <1>4, <2>4, <3>1, OkayIsEarned
    <3>3. Earned(x, m, y)' BY <1>0, <1>1, <2>4, <3>2, WorkerHands DEF Earned, storeVars
    <3> QED BY <1>4, <2>2, <3>3 DEF Earned, ApiRemoves
  <2>5. CASE pc["worker"] = "lock" /\ UNCHANGED res
    <3>1. Earned(x, m, y) BY <1>2, <1>4, <2>5 DEF DeployedInv, OkayEarned, OkayPending
    <3>2. Earned(x, m, y)' BY <1>0, <1>1, <2>5, <3>1, WorkerHands DEF Earned, storeVars
    <3> QED BY <1>4, <2>2, <3>2 DEF Earned, ApiRemoves
  <2>6. CASE <<x, m, y>> \in res' BY <1>4, <2>2, <2>6 DEF Earned
  <2> QED BY <2>3, <2>4, <2>5, <2>6
<1> QED BY <1>9, <1>10

\* The worker stores a result: a workload it stores as okay is on the node or
\* being removed, one it stores as deleted or in error is not okay any more.
LEMMA RecordDeployed ==
    ASSUME DeployedInv, Record("worker") \/ RemoveWorkload("worker")
    PROVE  MissingHandled' /\ OkayEarned'
<1>0. EngineInv /\ ShapeInv /\ OfJob /\ "worker" \in Thread /\ Work("worker")
  BY DEF DeployedInv, KnownInv, JobInv, ShapeInv, Thread, Work
<1>1. UNCHANGED <<queue, dl, todo, res>> /\ pc["worker"] \in {"record", "remove"}
  BY DEF Record, RemoveWorkload
<1>2. PICK s \in RealStep : s = step["worker"] BY <1>0, <1>1 DEF EngineInv, ThreadsOK, Stepping
<1>3. dl["worker"] \in Dl BY <1>0, <1>1 DEF EngineInv, ThreadsOK
<1>4. PICK x \in Dl, m \in Name, y \in Type : x = dl["worker"] /\ m = s.name /\ y = s.wl.type
  BY <1>2, <1>3 DEF RealStep, Entry
<1>5. PICK e : e = WithResult(s.wl, result["worker"]) OBVIOUS
<1>6. e.type = y /\ e.state = result["worker"] BY <1>4, <1>5, SMT DEF WithResult
<1>7. Head(queue) = queue[1] /\ queue[1].dl = x
  <2>1. queue # <<>> /\ x = Head(queue).dl BY <1>0, <1>1, <1>4 DEF EngineInv, JobsOK, ShapeInv, Shape
  <2> QED BY <1>0, <2>1, FirstJob
<1>8. pc'["worker"] \in {"run", "remove"}
  <2>1. Done("worker") \/ pc' = [pc EXCEPT !["worker"] = "remove"] BY DEF Record, RemoveWorkload
  <2> QED BY <1>0, <2>1 DEF Done, EngineInv, ThreadsOK
<1> DEFINE Stays == \A d \in Dl, n \in Name : current'[d][n] = current[d][n] \/ (d = x /\ n = m)
<1>9. \/ /\ pc["worker"] = "record" /\ Stays /\ current'[x][m] = e
         /\ current[x][m].type = y
      \/ /\ pc["worker"] = "record" /\ UNCHANGED current
         /\ result["worker"] = "unchanged" \/ ~TransactionOk(x, m, y)
      \/ /\ pc["worker"] = "remove" /\ Stays
         /\ UNCHANGED current \/ current'[x][m] = NoEntry
  <2>0. \A z : Puts(x, m, z) => Stays /\ current'[x][m] = z BY <1>0, PutsThere, SMT
  <2>1. CASE Record("worker") /\ Transaction(x, m, e)
    <3>1. pc["worker"] = "record" /\ current[x][m].type = y BY <1>6, <2>1 DEF Record, Transaction, TransactionOk
    <3>2. CASE result["worker"] = "unchanged" BY <1>6, <2>1, <3>1, <3>2 DEF Transaction
    <3>3. CASE result["worker"] # "unchanged"
      <4>1. Puts(x, m, e) BY <1>6, <2>1, <3>3 DEF Transaction, Puts
      <4> QED BY <2>0, <3>1, <4>1
    <3> QED BY <3>2, <3>3
  <2>2. CASE Record("worker") /\ ~Transaction(x, m, e)
    <3>1. pc["worker"] = "record" /\ ~TransactionOk(x, m, y) /\ UNCHANGED current
      BY <1>2, <1>4, <1>5, <2>2 DEF Record, storeVars
    <3> QED BY <3>1
  <2>3. CASE RemoveWorkload("worker")
    <3>1. pc["worker"] = "remove" /\ (Puts(x, m, NoEntry) \/ UNCHANGED current)
      BY <1>2, <1>4, <2>3 DEF RemoveWorkload, Remove, Puts, storeVars
    <3> QED BY <2>0, <3>1
  <2> QED BY <2>1, <2>2, <2>3
<1>10. MissingHandled'
  <2> SUFFICES ASSUME NEW d \in Dl, NEW n \in Name, NEW type \in Type,
                      Missing(d, n)', current'[d][n].type = type
               PROVE  Handled(d, n, type)'
    BY DEF MissingHandled
  <2>1. CASE d = x /\ n = m /\ pc["worker"] = "record" /\ current'[x][m] = e /\ current[x][m].type = y
    <3>1. IsOkay(result["worker"]) /\ type = y /\ <<x, m, y>> \notin res
      BY <1>1, <1>6, <2>1 DEF Missing
    <3>2. Earned(x, m, y) BY <1>2, <1>4, <2>1, <3>1 DEF DeployedInv, OkayEarned, OkayPending
    <3>3. ApiRemoves(x, m, y) BY <2>1, <3>1, <3>2 DEF Earned
    <3> QED BY <1>0, <2>1, <3>1, <3>3, WorkerHands DEF Handled
  <2>2. CASE /\ current'[d][n] = current[d][n]
             /\ d = x /\ n = m => \/ pc["worker"] = "remove"
                                  \/ result["worker"] = "unchanged" \/ ~TransactionOk(x, m, y)
    <3>1. Handled(d, n, type) BY <1>1, <2>2, MissingBefore DEF DeployedInv
    <3>2. d = x /\ n = m /\ type = y => TransactionOk(x, m, y)
      BY <2>2 DEF Missing, Active, TransactionOk
    <3>3. ~WorkerRemoves(d, n, type) BY <1>1, <1>2, <1>4, <2>2, <3>2 DEF WorkerRemoves
    <3>4. ASSUME NEW q, QueuedAt(1, q, d, n, type), Ahead(q) PROVE Ahead(q)'
      <4>1. CASE q \in todo["worker"] BY <1>1, <1>8, <4>1 DEF Ahead, Stepping
      <4>2. CASE q \notin todo["worker"]
        <5>1. q = s /\ pc["worker"] = "record" /\ result["worker"] \in {"error", "deleted"}
          BY <1>1, <1>2, <3>4, <4>2 DEF Ahead
        <5>2. d = x /\ n = m /\ type = y BY <1>4, <1>7, <3>4, <5>1 DEF QueuedAt
        <5> QED BY <2>2, <3>2, <5>1, <5>2
      <4> QED BY <4>1, <4>2
    <3>5. Queued(d, n, type) => Queued(d, n, type)' BY <1>1, <3>4, QueuedKept
    <3>6. Quiet => Quiet' BY DEF Quiet
    <3> QED BY <1>0, <3>1, <3>3, <3>5, <3>6, WorkerHands DEF Handled
  <2>3. NoEntry # current'[d][n] BY DEF Missing, Active
  <2> QED BY <1>9, <2>1, <2>2, <2>3
<1>11. OkayEarned' BY <1>8 DEF OkayEarned, OkayPending
<1> QED BY <1>10, <1>11

\* All steps are taken: the first job has nothing left to install or remove.
LEMMA EndDeployed ==
    ASSUME DeployedInv, EndSteps("worker")
    PROVE  MissingHandled' /\ OkayEarned'
<1>0. EngineInv /\ "worker" \in Thread /\ Work("worker")
  BY DEF DeployedInv, KnownInv, JobInv, ShapeInv, Thread, Work
<1>1. /\ UNCHANGED <<queue, res>> /\ pc["worker"] = "run" /\ todo["worker"] = {}
      /\ pc' = [pc EXCEPT !["worker"] = "dequeue"]
      /\ UNCHANGED storeVars \/ Delete(dl["worker"])
  BY DEF EndSteps
<1>2. pc'["worker"] = "dequeue" BY <1>0, <1>1 DEF EngineInv, ThreadsOK
<1>3. \A d \in Dl : current'[d] = current[d] \/ current'[d] = NoWorkloads
  BY <1>1 DEF storeVars, Delete, Drop
<1>4. MissingHandled'
  <2> SUFFICES ASSUME NEW d \in Dl, NEW n \in Name, NEW type \in Type,
                      Missing(d, n)', current'[d][n].type = type
               PROVE  Handled(d, n, type)'
    BY DEF MissingHandled
  <2>1. current'[d] # NoWorkloads BY DEF Missing, Active, NoWorkloads
  <2>2. Handled(d, n, type) BY <1>1, <1>3, <2>1, MissingBefore DEF DeployedInv
  <2>3. ~WorkerRemoves(d, n, type) BY <1>1 DEF WorkerRemoves
  <2>4. \A q : ~Ahead(q) BY <1>1 DEF Ahead
  <2>5. Queued(d, n, type) => Queued(d, n, type)' BY <1>1, <2>4, QueuedKept
  <2>6. Quiet => Quiet' BY DEF Quiet
  <2> QED BY <1>0, <2>2, <2>3, <2>5, <2>6, WorkerHands DEF Handled
<1>5. OkayEarned' BY <1>2 DEF OkayEarned, OkayPending
<1> QED BY <1>4, <1>5

\* A reboot queues every active deployment that is kept.
LEMMA BootAll ==
    ASSUME EngineInv, queue' \in BootQueues, NEW d \in Kept, IsActive(current[d])
    PROVE  \E i \in 1 .. Len(queue') :
             queue'[i] = Job("reprovision", d, version[d], current[d], NoWorkloads)
<1>1. PICK ds \in SUBSET Kept : queue' \in BootJobs(ds) /\ d \in ds BY DEF BootQueues
<1>2. PICK f \in [1 .. Cardinality(ds) -> ds] :
         /\ queue' = [i \in DOMAIN f |-> Job("reprovision", f[i], version[f[i]], current[f[i]],
                                             NoWorkloads)]
         /\ \A e \in ds : \E i \in DOMAIN f : f[i] = e
  BY <1>1 DEF BootJobs
<1>3. ds \in SUBSET Dl BY DEF Kept, EngineInv, StoreInv, StoreTypeOK
<1>4. Cardinality(ds) \in Nat BY <1>3, EngineAssumption
<1>5. Len(queue') = Cardinality(ds) BY <1>2, <1>4, SMT
<1>6. PICK i \in 1 .. Len(queue') : f[i] = d BY <1>1, <1>2, <1>5
<1> QED BY <1>2, <1>5, <1>6

\* After a crash the first job starts again, after a reboot every workload that
\* is okay is queued for reinstall.
LEMMA RestartDeployed ==
    ASSUME DeployedInv, QuietOrUp', NEW kind \in {"crash", "reboot"}, Restart(kind)
    PROVE  MissingHandled' /\ OkayEarned'
<1>0. EngineInv /\ ShapeInv /\ AbsentIsEmpty /\ OfJob /\ "worker" \in Thread
  BY DEF DeployedInv, KnownInv, JobInv, ShapeInv, EngineInv, StoreInv, Thread
<1>1. Quiet
  <2>1. restarts' # 0
    <3>1. restarts \in Nat /\ restarts' = restarts + 1 BY <1>0, EngineAssumption, SMT DEF ShapeInv, RestOK, Restart
    <3> QED BY <3>1, SMT
  <2> QED BY <2>1 DEF QuietOrUp, Quiet
<1>2. /\ pc' = [t \in Thread |-> "idle"] /\ CleanDeleted
      /\ queue' \in BootQueues \/ UNCHANGED <<queue, res>>
  BY DEF Restart
<1>3. pc'["worker"] = "idle" BY <1>0, <1>2
<1>4. \A q : Ahead(q)' BY <1>3 DEF Ahead
<1>5. OkayEarned' BY <1>3 DEF OkayEarned, OkayPending
<1>6. MissingHandled'
  <2> SUFFICES ASSUME NEW d \in Dl, NEW n \in Name, NEW type \in Type,
                      Missing(d, n)', current'[d][n].type = type
               PROVE  Queued(d, n, type)'
    BY <1>1 DEF MissingHandled, Handled, Quiet
  <2>1. current'[d] = current[d] \/ current'[d] = NoWorkloads BY <1>2 DEF CleanDeleted, Drop
  <2>2. current'[d] = current[d] BY <2>1 DEF Missing, Active, NoWorkloads
  <2>3. n \in Active(current[d]) /\ IsOkay(current[d][n].state) BY <2>2 DEF Missing, Active
  <2>4. CASE UNCHANGED <<queue, res>>
    <3>1. Handled(d, n, type) BY <2>2, <2>4, MissingBefore DEF DeployedInv
    <3>2. ~ApiRemoves(d, n, type) BY <1>1 DEF DeployedInv, KnownInv, QuietApi, ApiRemoves
    <3>3. CASE Queued(d, n, type) BY <1>4, <2>4, <3>3, QueuedKept
    <3>4. CASE WorkerRemoves(d, n, type)
      <4>1. pc["worker"] = "record" /\ pc["worker"] \in Stepping /\ step["worker"].op = "uninstall"
        BY <3>4 DEF WorkerRemoves, Stepping
      <4>2. queue # <<>> /\ Head(queue).dl = d
        BY <1>0, <3>4, <4>1 DEF EngineInv, JobsOK, ShapeInv, Shape, WorkerRemoves
      <4>3. Head(queue) = queue[1] /\ Head(queue) \in RealJob /\ 1 \in 1 .. Len(queue)
        BY <1>0, <4>2, FirstJob
      <4>4. PICK q : q = step["worker"] /\ q \in JobSteps(Head(queue)) BY <1>0, <4>1 DEF OfJob
      <4>5. Head(queue).op # "provision" BY <4>1, <4>3, <4>4, StepJob
      <4>6. QueuedAt(1, q, d, n, type)'
        BY <2>4, <3>4, <4>1, <4>2, <4>3, <4>4, <4>5 DEF QueuedAt, WorkerRemoves
      <4>7. 1 \in 1 .. Len(queue') BY <2>4, <4>3
      <4> QED BY <1>4, <4>6, <4>7 DEF Queued
    <3> QED BY <3>1, <3>2, <3>3, <3>4 DEF Handled
  <2>5. CASE queue' \in BootQueues
    <3>1. d \in present BY <1>0, <2>3 DEF AbsentIsEmpty, NoWorkloads, Active
    <3>2. d \in Kept /\ IsActive(current[d]) BY <2>3, <3>1 DEF Kept, HasOkay, IsActive, IsOkay
    <3>3. PICK i \in 1 .. Len(queue') :
            queue'[i] = Job("reprovision", d, version[d], current[d], NoWorkloads)
      BY <1>0, <2>5, <3>2, BootAll
    <3>4. PICK j : j = Job("reprovision", d, version[d], current[d], NoWorkloads) OBVIOUS
    <3>5. j.op = "reprovision" /\ j.dl = d /\ j.target = current[d] BY <3>4, SMT DEF Job
    <3>6. PICK q : q = Step("install", n, current[d][n]) OBVIOUS
    <3>7. q.op = "install" /\ q.name = n /\ q.wl = current[d][n] BY <3>6, SMT DEF Step
    <3>8. q \in JobSteps(j) BY <2>3, <3>5, <3>6 DEF JobSteps, Steps
    <3>9. q.wl.type = type BY <2>2, <3>7
    <3>10. QueuedAt(i, q, d, n, type)'
      BY <3>3, <3>4, <3>5, <3>7, <3>8, <3>9 DEF QueuedAt
    <3>11. queue'[i].op = "reprovision" BY <3>3, <3>4, <3>5
    <3> QED BY <1>4, <3>10, <3>11 DEF Queued
  <2> QED BY <1>2, <2>4, <2>5
<1> QED BY <1>5, <1>6

\* Every step keeps the invariant.
LEMMA DeployedStep ==
    ASSUME QuietOrUp, DeployedInv, [EngineNext]_engineVars, QuietOrUp'
    PROVE  DeployedInv'
<1>1. KnownInv' BY KnownStep DEF DeployedInv
<1>2. MissingHandled' /\ OkayEarned'
  <2>1. CASE \/ Chain \/ HandleEvent \/ SyncStart \/ (\E d \in Dl : SyncOne(d))
             \/ UNCHANGED engineVars
    BY <2>1, RequestDeployed
  <2>2. CASE UserStep(Dl, Requests) BY <2>2, RequestDeployed, DecommissionDeployed DEF UserStep
  <2>3. CASE \E p \in Poster : Enqueue(p) BY <2>3, EnqueueDeployed
  <2>4. CASE Worker BY <2>4, StartDeployed, ErrorDeployed, DequeueDeployed DEF Worker
  <2>5. CASE \E t \in Thread : Work(t)
    <3>1. CASE Work("api") BY <3>1, ApiDeployed
    <3>2. CASE Work("worker")
      BY <3>2, TakeDeployed, CallDeployed, RecordDeployed, EndDeployed DEF Work
    <3> QED BY <2>5, <3>1, <3>2 DEF Thread
  <2>6. CASE \E kind \in {"crash", "reboot"} : Restart(kind) BY <2>6, RestartDeployed
  <2> QED BY <2>1, <2>2, <2>3, <2>4, <2>5, <2>6 DEF EngineNext, SystemStep
<1> QED BY <1>1, <1>2 DEF DeployedInv

\* Nothing is stored initially.
LEMMA DeployedInit == EngineInit => DeployedInv
<1> SUFFICES ASSUME EngineInit PROVE DeployedInv
  OBVIOUS
<1>1. current = [d \in Dl |-> NoWorkloads] /\ pc = [t \in Thread |-> "idle"]
  BY DEF EngineInit, StoreInit
<1>2. MissingHandled BY <1>1 DEF MissingHandled, Missing, Active, NoWorkloads
<1>3. OkayEarned BY <1>1 DEF OkayEarned, OkayPending, Thread
<1> QED BY <1>2, <1>3, KnownInvInit DEF DeployedInv

\* What is handled is being worked on.
LEMMA HandledWorking ==
    ASSUME EngineInv, NEW d \in Dl, NEW n, NEW type, Handled(d, n, type)
    PROVE  Working(d)
<1>1. CASE ApiRemoves(d, n, type) \/ WorkerRemoves(d, n, type)
  BY <1>1 DEF ApiRemoves, WorkerRemoves, Working, Thread
<1>2. CASE Queued(d, n, type)
  <2>0. PICK i \in 1 .. Len(queue) : \E s : QueuedAt(i, s, d, n, type) BY <1>2 DEF Queued
  <2>1. PICK s : QueuedAt(i, s, d, n, type) BY <2>0
  <2>2. queue \in Seq(RealJob) BY DEF EngineInv, JobsOK
  <2>3. i \in DOMAIN queue /\ queue[i] \in RealJob BY <2>2, SMT
  <2>4. queue[i].op \in {"reprovision", "update", "deprovision"}
    BY <2>1, <2>3, StepJob DEF QueuedAt
  <2> QED BY <2>1, <2>3, <2>4 DEF QueuedAt, Working
<1> QED BY <1>1, <1>2 DEF Handled

\* Storage reports a workload okay only if its resource is on the node, or
\* somebody is working on the deployment, or its reinstall is queued: for any
\* number of deployments, workloads and types, whatever the managers answer and
\* whatever the chain does, with crashes and reboots between any two steps; and
\* with decommissions by other daemons until the first restart.  When provisiond
\* dies between the call of a manager that DecommissionCached makes and its
\* transaction, the workload stays okay, its resource is gone, and nobody works
\* on it.
THEOREM OkayIsDeployedAlways == EngineSpec => [](QuietOrUp => OkayIsDeployed)
<1> DEFINE Inv == KnownInv /\ (QuietOrUp => DeployedInv)
<1>1. Inv => (QuietOrUp => OkayIsDeployed)
  <2> SUFFICES ASSUME DeployedInv, NEW d \in Dl, NEW n \in Active(current[d]),
                      IsOkay(current[d][n].state), <<d, n, current[d][n].type>> \notin res
               PROVE  Working(d)
    BY DEF OkayIsDeployed
  <2>1. EngineInv /\ current \in [Dl -> Workloads] /\ n \in Name
    BY DEF DeployedInv, KnownInv, JobInv, ShapeInv, EngineInv, StoreInv, StoreTypeOK, Active
  <2>2. current[d][n] \in Entry
    BY <2>1 DEF Workloads, Active
  <2>3. PICK type \in Type : type = current[d][n].type BY <2>2 DEF Entry
  <2>4. Missing(d, n) BY DEF Missing
  <2>5. Handled(d, n, type) BY <2>1, <2>3, <2>4 DEF DeployedInv, MissingHandled
  <2> QED BY <2>1, <2>5, HandledWorking
<1>2. Inv /\ [EngineNext]_engineVars => Inv'
  <2> SUFFICES ASSUME Inv, [EngineNext]_engineVars PROVE Inv'
    OBVIOUS
  <2>1. KnownInv' /\ RestOK BY KnownStep DEF KnownInv, JobInv, ShapeInv
  <2>2. QuietOrUp' => QuietOrUp BY <2>1, FirstRestart DEF QuietOrUp, Quiet
  <2>3. ASSUME QuietOrUp' PROVE DeployedInv' BY <2>2, <2>3, DeployedStep
  <2> QED BY <2>1, <2>3
<1>3. EngineInit => Inv BY DeployedInit, KnownInvInit
<1> QED BY <1>1, <1>2, <1>3, PTL DEF EngineSpec
=============================================================================
