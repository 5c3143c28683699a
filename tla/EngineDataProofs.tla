-------------------------- MODULE EngineDataProofs --------------------------
(***************************************************************************)
(* The versions of the data the engine works with.  Three invariants       *)
(* follow them from the request to the disk and back.  What is stored, and *)
(* in a step or a validated job, is of a version whose hash the contract   *)
(* has had (DataInv), so that a reboot reinstalls only what was validated. *)
(* And data is not newer than its deployment (Bounded), where stale jobs   *)
(* make it hard: a job that waits while its deployment is deleted, and     *)
(* created again, still has data of the old versions.  But a deployment is *)
(* deprovisioned only after its contract is deleted, which is for good,    *)
(* and from then on (Finished) no job installs or updates anything of it.  *)
(* Last, nothing goes back to an older version (MonotoneInv): a job that   *)
(* passed its validation has the newest version that was validated, and    *)
(* what the worker has of a reboot is not older than what is stored.       *)
(***************************************************************************)
EXTENDS EngineProofs

\* first-order steps; those that need arithmetic or sequences cite SMT
USE Zenon

\* What is reinstalled was validated: hashes only move on, and a job that is
\* still to be validated has no data above its own version.

\* the contract has had the hash of every version in ws
Upto(ws, d) == \A n \in Active(ws) : ws[n].ver <= hash[d]

\* the data of a job is validated, or not above the version to be validated
JobData(j) ==
    /\ Upto(j.source, j.dl)
    /\ j.op \in {"provision", "update"} => \A n \in Active(j.target) : j.target[n].ver <= j.ver
    /\ j.op \notin {"provision", "update"} => Upto(j.target, j.dl)

\* the same for all jobs, queued or about to be
JobsData ==
    /\ \A i \in 1 .. Len(queue) : JobData(queue[i])
    /\ \A p \in Poster : posting[p] # NoJob => JobData(posting[p])

\* the steps of a thread are about validated data
StepsData(t) ==
    /\ pc[t] \in {"run"} \cup Stepping => \A s \in todo[t] : s.wl.ver <= hash[dl[t]]
    /\ pc[t] \in Stepping => step[t].wl.ver <= hash[dl[t]]

\* the same for all threads, and for what Error has read
ThreadsData ==
    /\ \A t \in Thread : StepsData(t)
    /\ pc["worker"] = "error" => Upto(reading, dl["worker"])

\* what is stored was validated
StoredData == \A d \in Dl : Upto(current[d], d)

\* the first inductive invariant
DataInv ==
    EngineInv /\ RestOK /\ StoredData /\ JobsData /\ ThreadsData

\* No workloads, nothing to validate.
LEMMA NoWorkloadsUpto == \A d : Upto(NoWorkloads, d)
BY DEF Upto, Active, NoWorkloads

\* Initially nothing is stored or queued.
LEMMA DataInvInit == EngineInit => DataInv
<1> SUFFICES ASSUME EngineInit PROVE DataInv
  OBVIOUS
<1>1. RestOK BY RestInit
<1>2. StoredData BY NoWorkloadsUpto DEF EngineInit, StoreInit, StoredData
<1>3. JobsData
  <2>1. queue = <<>> /\ Len(<<>>) = 0 /\ 1 .. 0 = {} BY SMT DEF EngineInit
  <2> QED BY <2>1 DEF EngineInit, JobsData
<1>4. ThreadsData BY DEF EngineInit, ThreadsData, StepsData, Stepping, Thread
<1> QED BY <1>1, <1>2, <1>3, <1>4, EngineInvInit DEF DataInv

\* what a job has to do is on the data the chain has seen, once it is validated
LEMMA ValidSteps ==
    ASSUME NEW j \in RealJob, JobData(j), Validates(j)
    PROVE  \A s \in JobSteps(j) : s.wl.ver <= hash[j.dl]
<1>1. j.op \in JobOp BY DEF RealJob
<1>2. \A n \in Active(j.target) : j.target[n].ver <= hash[j.dl]
  BY DEF JobData, Validates, Upto
<1>3. \A n \in Active(j.source) : j.source[n].ver <= hash[j.dl]
  BY DEF JobData, Upto
<1>4. ASSUME NEW op, NEW s \in Steps(op, j.target) PROVE s.wl.ver <= hash[j.dl]
  <2>1. PICK n \in Active(j.target) : s = Step(op, n, j.target[n]) BY DEF Steps
  <2>2. s.wl = j.target[n] BY <2>1, SMT DEF Step
  <2> QED BY <1>2, <2>2
<1>5. ASSUME NEW s \in UpgradeSteps(j.source, j.target, j.ver) PROVE s.wl.ver <= hash[j.dl]
  <2>1. PICK n \in Name :
          \/ n \in Active(j.target) /\ s = Step("install", n, j.target[n])
          \/ n \in Active(j.source) /\ s = Step("uninstall", n, j.source[n])
          \/ n \in Active(j.target) /\ s = Step("update", n, WithResult(j.target[n], j.source[n].state))
    BY DEF UpgradeSteps, Active
  <2>2. \/ n \in Active(j.target) /\ s.wl.ver = j.target[n].ver
        \/ n \in Active(j.source) /\ s.wl.ver = j.source[n].ver
    BY <2>1, SMT DEF Step, WithResult
  <2> QED BY <1>2, <1>3, <2>2
<1> QED BY <1>1, <1>4, <1>5 DEF JobSteps, JobOp

\* The hash in a contract only moves on to later versions.
LEMMA HashGrows ==
    ASSUME DataInv, [EngineNext]_engineVars
    PROVE  UNCHANGED hash \/ \A d \in Dl : \A v \in Version : v <= hash[d] => v <= hash'[d]
<1>1. ASSUME NEW d \in Dl, ChangeHash(d)
      PROVE  \A e \in Dl : \A v \in Version : v <= hash[e] => v <= hash'[e]
  <2>1. hash \in [Dl -> Version] /\ hash[d] + 1 \in Version /\ hash' = [hash EXCEPT ![d] = hash[d] + 1]
    BY <1>1 DEF DataInv, RestOK, ChangeHash
  <2>2. \A v, h \in Nat : v <= h => v <= h + 1 BY SMT
  <2>4. \A e \in Dl : hash'[e] = hash[e] \/ (e = d /\ hash'[e] = hash[d] + 1) BY <2>1
  <2> QED BY <2>1, <2>2, <2>4, GridAssumption
<1>2. (\E d \in Dl : ChangeHash(d)) \/ UNCHANGED hash
  <2>1. CASE UNCHANGED engineVars BY <2>1 DEF engineVars, chainVars
  <2>2. CASE Chain BY <2>2 DEF Chain, LoseEvent, Cancel, SetGrace
  <2>3. CASE HandleEvent BY <2>3 DEF HandleEvent, HandleLock, HandleCancel
  <2>4. ASSUME NEW d \in Dl, NEW r, Provision(d, r) \/ UpdateDeployment(d, r) PROVE UNCHANGED hash
    BY <2>4 DEF Provision, UpdateDeployment, chainVars
  <2>5. ASSUME NEW d \in Dl, NEW n, DecommissionCached(d, n) PROVE UNCHANGED hash
    BY <2>5 DEF DecommissionCached, chainVars
  <2>6. ASSUME NEW d \in Dl, SyncOne(d) PROVE UNCHANGED hash BY <2>6 DEF SyncOne, chainVars
  <2>7. ASSUME NEW p \in Poster, Enqueue(p) PROVE UNCHANGED hash BY <2>7 DEF Enqueue, chainVars
  <2>8. CASE Worker BY <2>8 DEF Worker, StartJob, StoreError, Dequeue, chainVars
  <2>9. ASSUME NEW t \in Thread, Work(t) PROVE UNCHANGED hash
    BY <2>9 DEF Work, TakeStep, CallManager, Record, RemoveWorkload, EndSteps, chainVars
  <2>10. CASE SyncStart BY <2>10 DEF SyncStart, chainVars
  <2>11. ASSUME NEW k, Restart(k) PROVE UNCHANGED hash BY <2>11 DEF Restart, chainVars
  <2> QED BY <2>1, <2>2, <2>3, <2>4, <2>5, <2>6, <2>7, <2>8, <2>9, <2>10, <2>11
          DEF EngineNext, UserStep, SystemStep
<1> QED BY <1>1, <1>2

\* a step that writes workloads of deployment d of versions the chain has seen
LEMMA WrittenData ==
    ASSUME DataInv, UNCHANGED hash, NEW d \in Dl,
           \A e \in Dl \ {d} : current'[e] = current[e],
           \A n \in Name : current'[d][n] # NoEntry => current'[d][n].ver <= hash[d]
    PROVE  StoredData'
BY DEF DataInv, StoredData, Upto, Active

\* A step that leaves the threads and the hashes alone.
LEMMA ThreadsSame ==
    ASSUME DataInv, UNCHANGED <<threadVars, hash>>
    PROVE  ThreadsData'
BY DEF DataInv, ThreadsData, StepsData, Upto, threadVars

\* A step that leaves the jobs and the hashes alone.
LEMMA QueueSame ==
    ASSUME DataInv, UNCHANGED <<queue, posting, hash>>
    PROVE  JobsData'
BY DEF DataInv, JobsData, JobData, Upto

\* A step that leaves the workloads and the hashes alone.
LEMMA StoreSame ==
    ASSUME DataInv, UNCHANGED <<current, hash>>
    PROVE  StoredData'
BY DEF DataInv, StoredData, Upto

\* A poster is about to enqueue a job.
LEMMA PostedData ==
    ASSUME DataInv, UNCHANGED <<queue, hash>>, NEW p \in Poster, NEW j, JobData(j), Post(p, j)
    PROVE  JobsData'
<1>1. posting' = [posting EXCEPT ![p] = j] /\ posting \in [Poster -> RealJob \cup {NoJob}]
  BY DEF Post, DataInv, EngineInv, JobsOK
<1>2. \A k : JobData(k) => JobData(k)' BY DEF JobData, Upto
<1>3. \A q \in Poster : posting'[q] = posting[q] \/ posting'[q] = j BY <1>1
<1> QED BY <1>2, <1>3 DEF DataInv, JobsData

\* A job with what is stored: deprovision, pause and resume.
LEMMA PostCurrentData ==
    ASSUME DataInv, UNCHANGED <<queue, hash>>, NEW p \in Poster, NEW d \in Dl,
           NEW op \in {"deprovision", "pause", "resume"}, PostCurrent(p, op, d)
    PROVE  JobsData'
<1>1. CASE d \in present
  <2>1. Upto(current[d], d) /\ Upto(NoWorkloads, d)
    BY NoWorkloadsUpto DEF DataInv, StoredData
  <2>2. JobData(Job(op, d, version[d], current[d], NoWorkloads))
    BY <2>1 DEF JobData, Job
  <2> QED BY <1>1, <2>2, PostedData DEF PostCurrent
<1>2. CASE d \notin present BY <1>2, QueueSame DEF PostCurrent
<1> QED BY <1>1, <1>2

\* Provision stores data of version 0, and Update no data at all; their jobs
\* wait for the hash.
LEMMA ApiData ==
    ASSUME DataInv, NEW d \in Dl, NEW r \in Requests, Provision(d, r) \/ UpdateDeployment(d, r)
    PROVE  StoredData' /\ JobsData' /\ ThreadsData'
<1>1. UNCHANGED <<queue, threadVars, hash>> BY DEF Provision, UpdateDeployment, chainVars
<1>2. ThreadsData' BY <1>1, ThreadsSame
<1>3. r.ver \in Version /\ r.ws \in Workloads /\ \A n \in Active(r.ws) : r.ws[n].ver <= r.ver
  BY EngineAssumption
<1>4. \A n \in Name : /\ n \in Active(WithState(r.ws, "init")) => n \in Active(r.ws)
                      /\ r.ws[n] = NoEntry => WithState(r.ws, "init")[n] = NoEntry
                      /\ r.ws[n] # NoEntry => WithState(r.ws, "init")[n].ver = r.ws[n].ver
  BY DEF WithState, Active, WithResult
<1>5. CASE Provision(d, r)
  <2>1. r.ver = 0 /\ Create(d, 0, r.ws)
        /\ Post("api", Job("provision", d, 0, WithState(r.ws, "init"), NoWorkloads))
    BY <1>5 DEF Provision
  <2>2. JobData(Job("provision", d, 0, WithState(r.ws, "init"), NoWorkloads))
    BY <1>3, <1>4, <2>1, NoWorkloadsUpto DEF JobData, Job, Active
  <2>3. JobsData' BY <1>1, <2>1, <2>2, PostedData DEF Poster
  <2>4. current' = [current EXCEPT ![d] = WithState(r.ws, "init")] /\ current \in [Dl -> Workloads]
    BY <2>1 DEF Create, DataInv, EngineInv, StoreInv, StoreTypeOK
  <2>5. current'[d] = WithState(r.ws, "init") /\ \A e \in Dl \ {d} : current'[e] = current[e]
    BY <2>4
  <2>6. hash[d] \in Nat BY GridAssumption DEF DataInv, RestOK
  <2>7. \A n \in Active(r.ws) : r.ws[n].ver <= hash[d]
    <3>1. \A n \in Active(r.ws) : r.ws[n].ver \in Nat
      BY <1>3, GridAssumption DEF Active, Workloads, Entry
    <3>2. \A x, h \in Nat : x <= 0 => x <= h BY SMT
    <3> QED BY <1>3, <2>1, <2>6, <3>1, <3>2
  <2>8. StoredData'
    BY <1>1, <1>4, <2>5, <2>7, WrittenData DEF Active
  <2> QED BY <1>2, <2>3, <2>8
<1>6. CASE UpdateDeployment(d, r)
  <2>1. UNCHANGED current /\ Post("api", Job("update", d, r.ver, WithState(r.ws, "init"), current[d]))
    BY <1>6 DEF UpdateDeployment, Update
  <2>2. JobData(Job("update", d, r.ver, WithState(r.ws, "init"), current[d]))
    BY <1>3, <1>4 DEF JobData, Job, Active, DataInv, StoredData
  <2> QED BY <1>1, <1>2, <2>1, <2>2, PostedData, StoreSame DEF Poster
<1> QED BY <1>5, <1>6

\* DecommissionCached works with what is stored.
LEMMA DecommissionData ==
    ASSUME DataInv, NEW d \in Dl, NEW n \in Name, DecommissionCached(d, n)
    PROVE  StoredData' /\ JobsData' /\ ThreadsData'
<1>1. UNCHANGED <<storeVars, queue, posting, hash, step, reading>> BY DEF DecommissionCached, chainVars
<1>2. StoredData' /\ JobsData' BY <1>1, StoreSame, QueueSame DEF storeVars
<1>3. n \in Active(current[d])
      /\ pc' = [pc EXCEPT !["api"] = "run"] /\ dl' = [dl EXCEPT !["api"] = d]
      /\ todo' = [todo EXCEPT !["api"] = {Step("uninstall", n, current[d][n])}]
  BY DEF DecommissionCached
<1>4. /\ pc'["api"] = "run" /\ dl'["api"] = d /\ todo'["api"] = {Step("uninstall", n, current[d][n])}
      /\ pc'["worker"] = pc["worker"] /\ dl'["worker"] = dl["worker"] /\ todo'["worker"] = todo["worker"]
  BY <1>3 DEF DataInv, EngineInv, ThreadsOK, Thread
<1>5. StepsData("api")'
  <2>1. current[d][n].ver <= hash[d] BY <1>3 DEF DataInv, StoredData, Upto
  <2>2. Step("uninstall", n, current[d][n]).wl = current[d][n] BY DEF Step
  <2> QED BY <1>1, <1>4, <2>1, <2>2 DEF StepsData, Stepping
<1>6. StepsData("worker")' BY <1>1, <1>4 DEF DataInv, ThreadsData, StepsData, Thread
<1>7. ThreadsData' BY <1>1, <1>4, <1>5, <1>6 DEF DataInv, ThreadsData, Upto, Thread
<1> QED BY <1>2, <1>7

\* Jobs are appended and removed.
LEMMA QueueData ==
    ASSUME DataInv, (\E p \in Poster : Enqueue(p)) \/ Dequeue
    PROVE  StoredData' /\ JobsData' /\ ThreadsData'
<1>0. queue \in Seq(RealJob) BY DEF DataInv, EngineInv, JobsOK
<1>1. ASSUME NEW p \in Poster, Enqueue(p) PROVE StoredData' /\ JobsData' /\ ThreadsData'
  <2>1. /\ UNCHANGED <<current, threadVars, hash>> /\ queue' = Append(queue, posting[p])
        /\ posting[p] # NoJob /\ posting' = [posting EXCEPT ![p] = NoJob]
        /\ posting \in [Poster -> RealJob \cup {NoJob}]
    BY <1>1 DEF Enqueue, storeVars, chainVars, DataInv, EngineInv, JobsOK
  <2>2. \A i \in 1 .. Len(queue') : (i \in 1 .. Len(queue) /\ queue'[i] = queue[i]) \/ queue'[i] = posting[p]
    BY <1>0, <2>1, SMT
  <2>3. \A q \in Poster : posting'[q] = posting[q] \/ posting'[q] = NoJob BY <2>1
  <2>4. \A k : JobData(k) => JobData(k)' BY <2>1 DEF JobData, Upto
  <2>5. JobData(posting[p]) BY <2>1 DEF DataInv, JobsData
  <2>6. JobsData' BY <2>2, <2>3, <2>4, <2>5 DEF DataInv, JobsData
  <2> QED BY <2>1, <2>6, StoreSame, ThreadsSame
<1>2. CASE Dequeue
  <2>1. /\ UNCHANGED <<current, posting, todo, step, hash>> /\ queue' = Tail(queue)
        /\ pc' = [pc EXCEPT !["worker"] = "idle"] /\ dl' = [dl EXCEPT !["worker"] = NoDl]
        /\ queue # <<>>
    BY <1>2 DEF Dequeue, storeVars, chainVars, DataInv, EngineInv, JobsOK
  <2>2. \A i \in 1 .. Len(queue') : i + 1 \in 1 .. Len(queue) /\ queue'[i] = queue[i + 1]
    BY <1>0, <2>1, SMT
  <2>3. \A k : JobData(k) => JobData(k)' BY <2>1 DEF JobData, Upto
  <2>4. JobsData' BY <2>1, <2>2, <2>3 DEF DataInv, JobsData
  <2>5. pc'["worker"] = "idle" /\ pc'["api"] = pc["api"] /\ dl'["api"] = dl["api"]
    BY <2>1 DEF DataInv, EngineInv, ThreadsOK, Thread
  <2>6. ThreadsData' BY <2>1, <2>5 DEF DataInv, ThreadsData, StepsData, Stepping, Thread
  <2> QED BY <2>1, <2>4, <2>6, StoreSame
<1> QED BY <1>1, <1>2

\* The worker runs a job once it is validated, or reads what it puts in error.
LEMMA StartJobData ==
    ASSUME DataInv, StartJob
    PROVE  StoredData' /\ JobsData' /\ ThreadsData'
<1>1. PICK j \in RealJob : j = Head(queue) /\ JobData(j)
  <2>1. queue \in Seq(RealJob) /\ queue # <<>> BY DEF StartJob, DataInv, EngineInv, JobsOK
  <2>2. Head(queue) = queue[1] /\ 1 \in 1 .. Len(queue) /\ Head(queue) \in RealJob BY <2>1, SMT
  <2> QED BY <2>2 DEF DataInv, JobsData
<1>2. /\ UNCHANGED <<current, queue, posting, step, hash>>
      /\ dl' = [dl EXCEPT !["worker"] = j.dl]
      /\ \/ /\ Validates(j) /\ pc' = [pc EXCEPT !["worker"] = "run"]
            /\ todo' = [todo EXCEPT !["worker"] = JobSteps(j)]
         \/ /\ \E at \in {"error", "dequeue"} : pc' = [pc EXCEPT !["worker"] = at]
            /\ reading' = current[j.dl] /\ UNCHANGED todo
  BY <1>1 DEF StartJob, storeVars, chainVars
<1>3. /\ pc'["api"] = pc["api"] /\ dl'["api"] = dl["api"] /\ todo'["api"] = todo["api"]
      /\ dl'["worker"] = j.dl
      /\ \/ Validates(j) /\ pc'["worker"] = "run" /\ todo'["worker"] = JobSteps(j)
         \/ pc'["worker"] \in {"error", "dequeue"} /\ reading' = current[j.dl]
  BY <1>2 DEF DataInv, EngineInv, ThreadsOK, Thread
<1>4. j.dl \in Dl BY DEF RealJob
<1>5. StepsData("api")' BY <1>2, <1>3 DEF DataInv, ThreadsData, StepsData, Thread
<1>6. StepsData("worker")'
  BY <1>1, <1>2, <1>3, ValidSteps DEF StepsData, Stepping
<1>7. (pc["worker"] = "error" => Upto(reading, dl["worker"]))'
  BY <1>2, <1>3, <1>4 DEF DataInv, StoredData, Upto
<1>8. ThreadsData' BY <1>5, <1>6, <1>7 DEF ThreadsData, Thread
<1> QED BY <1>2, <1>8, StoreSame, QueueSame

\* Error writes what was read, and the end of a job writes nothing new.
LEMMA EndData ==
    ASSUME DataInv, StoreError \/ \E t \in Thread : EndSteps(t)
    PROVE  StoredData' /\ JobsData' /\ ThreadsData'
<1>1. CASE StoreError
  <2>1. /\ UNCHANGED <<queue, posting, dl, todo, step, hash>> /\ pc["worker"] = "error"
        /\ pc' = [pc EXCEPT !["worker"] = "dequeue"]
        /\ current' = current \/ Error(dl["worker"], reading)
    BY <1>1 DEF StoreError, storeVars, chainVars
  <2>2. pc'["worker"] = "dequeue" /\ pc'["api"] = pc["api"]
    BY <2>1 DEF DataInv, EngineInv, ThreadsOK, Thread
  <2>3. ThreadsData' BY <2>1, <2>2 DEF DataInv, ThreadsData, StepsData, Stepping, Thread
  <2>4. PICK d \in Dl : d = dl["worker"]
    BY <2>1 DEF DataInv, EngineInv, ThreadsOK, Thread
  <2>5. Upto(reading, d) BY <2>1, <2>4 DEF DataInv, ThreadsData
  <2>6. CASE Error(dl["worker"], reading)
    <3>1. /\ current' = [current EXCEPT ![d] = [n \in Name |->
                IF n \in Active(reading) THEN WithResult(reading[n], "error") ELSE current[d][n]]]
          /\ current \in [Dl -> Workloads]
      BY <2>4, <2>6 DEF Error, DataInv, EngineInv, StoreInv, StoreTypeOK
    <3>2. /\ \A e \in Dl \ {d} : current'[e] = current[e]
          /\ \A n \in Name : IF n \in Active(reading) THEN current'[d][n] = WithResult(reading[n], "error")
                                                       ELSE current'[d][n] = current[d][n]
      BY <3>1
    <3>3. \A n \in Active(reading) : WithResult(reading[n], "error").ver <= hash[d]
      BY <2>5 DEF Upto, WithResult
    <3>4. \A n \in Name : current[d][n] # NoEntry => current[d][n].ver <= hash[d]
      BY DEF DataInv, StoredData, Upto, Active
    <3> QED BY <2>1, <2>3, <3>2, <3>3, <3>4, WrittenData, QueueSame
  <2> QED BY <2>1, <2>3, <2>6, StoreSame, QueueSame
<1>2. ASSUME NEW t \in Thread, EndSteps(t) PROVE StoredData' /\ JobsData' /\ ThreadsData'
  <2>1. /\ UNCHANGED <<queue, posting, todo, step, reading, hash>>
        /\ \E at \in {"dequeue", "idle"} : pc' = [pc EXCEPT ![t] = at]
        /\ \E x \in {dl[t], NoDl} : dl' = [dl EXCEPT ![t] = x]
        /\ UNCHANGED current \/ Delete(dl[t])
    BY <1>2 DEF EndSteps, storeVars, chainVars
  <2>2. pc'[t] \in {"dequeue", "idle"}
        /\ \A u \in Thread \ {t} : pc'[u] = pc[u] /\ dl'[u] = dl[u]
    BY <2>1 DEF DataInv, EngineInv, ThreadsOK
  <2>3. ASSUME NEW u \in Thread PROVE StepsData(u)'
    BY <2>1, <2>2 DEF DataInv, ThreadsData, StepsData, Stepping
  <2>4. (pc["worker"] = "error" => Upto(reading, dl["worker"]))'
    BY <2>1, <2>2 DEF DataInv, ThreadsData, Upto, Thread
  <2>5. ThreadsData' BY <2>3, <2>4 DEF ThreadsData
  <2>6. StoredData'
    <3>1. \A d \in Dl : current'[d] = current[d] \/ current'[d] = NoWorkloads
      BY <2>1 DEF Delete, Drop
    <3> QED BY <2>1, <3>1, ZenonT(30) DEF DataInv, StoredData, Upto, Active, NoWorkloads
  <2> QED BY <2>1, <2>5, <2>6, QueueSame
<1> QED BY <1>1, <1>2

\* Add writes the data of the step.
LEMMA TakeStepData ==
    ASSUME DataInv, NEW t \in Thread, TakeStep(t)
    PROVE  StoredData' /\ JobsData' /\ ThreadsData'
<1>1. UNCHANGED <<queue, posting, dl, reading, hash>> /\ pc[t] = "run"
  BY DEF TakeStep, chainVars
<1>2. PICK s \in todo[t] :
         /\ \/ \E at \in Stepping \ {"record"} : Begin(t, s, at)
            \/ Skip(t, s)
         /\ UNCHANGED current \/ Add(dl[t], s.name, s.wl)
  BY DEF TakeStep, NextSteps, Install, Uninstall, UpdateWorkload, LockWorkload, Stepping, storeVars
<1>3. s \in RealStep /\ dl[t] \in Dl /\ s.wl.ver <= hash[dl[t]]
  BY <1>1 DEF DataInv, EngineInv, ThreadsOK, ThreadsData, StepsData
<1>4. /\ todo' = [todo EXCEPT ![t] = todo[t] \ {s}]
      /\ \/ \E at \in Stepping \ {"record"} : pc' = [pc EXCEPT ![t] = at] /\ step' = [step EXCEPT ![t] = s]
         \/ UNCHANGED <<pc, step>>
  BY <1>2 DEF Begin, Skip
<1>5. /\ todo'[t] \subseteq todo[t]
      /\ \A u \in Thread \ {t} : todo'[u] = todo[u] /\ pc'[u] = pc[u] /\ step'[u] = step[u]
      /\ (pc'[t] \in Stepping \ {"record"} /\ step'[t] = s) \/ pc'[t] = "run"
  BY <1>1, <1>4 DEF DataInv, EngineInv, ThreadsOK
<1>6. ASSUME NEW u \in Thread PROVE StepsData(u)'
  <2>1. CASE u = t BY <1>1, <1>3, <1>5, <2>1 DEF DataInv, ThreadsData, StepsData, Stepping
  <2>2. CASE u # t BY <1>1, <1>5, <2>2 DEF DataInv, ThreadsData, StepsData
  <2> QED BY <2>1, <2>2
<1>7. (pc["worker"] = "error" => Upto(reading, dl["worker"]))'
  BY <1>1, <1>5 DEF DataInv, ThreadsData, Upto, Thread, Stepping
<1>8. ThreadsData' BY <1>6, <1>7 DEF ThreadsData
<1>9. StoredData'
  <2>1. CASE Add(dl[t], s.name, s.wl)
    <3>1. PICK d \in Dl : d = dl[t] BY <1>3
    <3>2. s.name \in Name BY <1>3 DEF RealStep
    <3>3. /\ current' = [current EXCEPT ![d][s.name] = WithResult(s.wl, "init")]
          /\ current \in [Dl -> Workloads]
      BY <2>1, <3>1 DEF Add, DataInv, EngineInv, StoreInv, StoreTypeOK
    <3>4. current[d] = [n \in Name |-> current[d][n]] BY <3>3 DEF Workloads
    <3>5. /\ \A e \in Dl \ {d} : current'[e] = current[e]
          /\ \A n \in Name : current'[d][n] = current[d][n] \/ current'[d][n] = WithResult(s.wl, "init")
      BY <3>2, <3>3, <3>4
    <3>6. WithResult(s.wl, "init").ver <= hash[d] BY <1>3, <3>1 DEF WithResult
    <3>7. \A n \in Name : current[d][n] # NoEntry => current[d][n].ver <= hash[d]
      BY DEF DataInv, StoredData, Upto, Active
    <3> QED BY <1>1, <3>5, <3>6, <3>7, WrittenData
  <2> QED BY <1>1, <1>2, <2>1, StoreSame
<1> QED BY <1>1, <1>8, <1>9, QueueSame

\* A manager changes no data.
LEMMA CallData ==
    ASSUME DataInv, NEW t \in Thread, CallManager(t)
    PROVE  StoredData' /\ JobsData' /\ ThreadsData'
<1>1. UNCHANGED <<current, queue, posting, dl, todo, reading, hash>>
  BY DEF CallManager, storeVars, chainVars
<1>2. pc[t] \in Stepping
  BY DEF CallManager, CallProvision, CallDeprovision, CallUpdate, CallLock, Stepping
<1>3. Done(t) \/ \E r : Answer(t, r)
  BY DEF CallManager, CallProvision, CallDeprovision, CallUpdate, CallLock
<1>4. \/ pc' = [pc EXCEPT ![t] = "run"] /\ step' = [step EXCEPT ![t] = NoStep]
      \/ pc' = [pc EXCEPT ![t] = "record"] /\ step' = step
  BY <1>3 DEF Done, Answer
<1>5. /\ \A u \in Thread \ {t} : pc'[u] = pc[u] /\ step'[u] = step[u]
      /\ pc'[t] = "run" \/ (pc'[t] = "record" /\ step'[t] = step[t])
  BY <1>4 DEF DataInv, EngineInv, ThreadsOK
<1>6. ASSUME NEW u \in Thread PROVE StepsData(u)'
  <2>1. CASE u = t BY <1>1, <1>2, <1>5, <2>1 DEF DataInv, ThreadsData, StepsData, Stepping
  <2>2. CASE u # t BY <1>1, <1>5, <2>2 DEF DataInv, ThreadsData, StepsData
  <2> QED BY <2>1, <2>2
<1>7. (pc["worker"] = "error" => Upto(reading, dl["worker"]))'
  BY <1>1, <1>5 DEF DataInv, ThreadsData, Upto, Thread
<1>8. ThreadsData' BY <1>6, <1>7 DEF ThreadsData
<1> QED BY <1>1, <1>8, StoreSame, QueueSame

\* The transaction writes the data of the step, Remove none.
LEMMA RecordData ==
    ASSUME DataInv, NEW t \in Thread, Record(t) \/ RemoveWorkload(t)
    PROVE  StoredData' /\ JobsData' /\ ThreadsData'
<1>1. UNCHANGED <<queue, posting, dl, todo, reading, hash>>
  BY DEF Record, RemoveWorkload, chainVars
<1>2. pc[t] \in {"record", "remove"}
  BY DEF Record, RemoveWorkload
<1>3. Done(t) \/ (pc' = [pc EXCEPT ![t] = "remove"] /\ UNCHANGED <<step, result>>)
  BY DEF Record, RemoveWorkload
<1>4. \/ pc' = [pc EXCEPT ![t] = "run"] /\ step' = [step EXCEPT ![t] = NoStep]
      \/ pc' = [pc EXCEPT ![t] = "remove"] /\ step' = step
  BY <1>3 DEF Done
<1>5. /\ \A u \in Thread \ {t} : pc'[u] = pc[u] /\ step'[u] = step[u]
      /\ pc'[t] = "run" \/ (pc'[t] = "remove" /\ step'[t] = step[t])
  BY <1>4 DEF DataInv, EngineInv, ThreadsOK
<1>6. ASSUME NEW u \in Thread PROVE StepsData(u)'
  <2>1. CASE u = t BY <1>1, <1>2, <1>5, <2>1 DEF DataInv, ThreadsData, StepsData, Stepping
  <2>2. CASE u # t BY <1>1, <1>5, <2>2 DEF DataInv, ThreadsData, StepsData
  <2> QED BY <2>1, <2>2
<1>7. (pc["worker"] = "error" => Upto(reading, dl["worker"]))'
  BY <1>1, <1>5 DEF DataInv, ThreadsData, Upto, Thread
<1>8. ThreadsData' BY <1>6, <1>7 DEF ThreadsData
<1>9. PICK d \in Dl : d = dl[t] BY <1>2 DEF DataInv, EngineInv, ThreadsOK
<1>10. PICK n \in Name : n = step[t].name
  BY <1>2 DEF DataInv, EngineInv, ThreadsOK, Stepping, RealStep
<1>11. \/ current' = current
       \/ \E e : /\ current' = [current EXCEPT ![d][n] = e]
                 /\ e = NoEntry \/ e = WithResult(step[t].wl, result[t])
  BY <1>9, <1>10 DEF Record, RemoveWorkload, Transaction, Remove, storeVars
<1>12. StoredData'
  <2>1. ASSUME NEW e, current' = [current EXCEPT ![d][n] = e],
               e = NoEntry \/ e = WithResult(step[t].wl, result[t])
        PROVE  StoredData'
    <3>1. current \in [Dl -> Workloads] BY DEF DataInv, EngineInv, StoreInv, StoreTypeOK
    <3>2. current[d] = [m \in Name |-> current[d][m]] BY <3>1 DEF Workloads
    <3>3. /\ \A x \in Dl \ {d} : current'[x] = current[x]
          /\ \A m \in Name : current'[d][m] = current[d][m] \/ current'[d][m] = e
      BY <2>1, <3>1, <3>2
    <3>4. WithResult(step[t].wl, result[t]).ver <= hash[d]
      BY <1>2, <1>9 DEF DataInv, ThreadsData, StepsData, Stepping, WithResult
    <3>5. \A m \in Name : current[d][m] # NoEntry => current[d][m].ver <= hash[d]
      BY DEF DataInv, StoredData, Upto, Active
    <3> QED BY <1>1, <2>1, <3>3, <3>4, <3>5, WrittenData
  <2> QED BY <1>1, <1>11, <2>1, StoreSame
<1> QED BY <1>1, <1>8, <1>12, QueueSame

\* The chain, the events and the synchronization.
LEMMA ChainData ==
    ASSUME DataInv, EngineNext, Chain \/ HandleEvent \/ SyncStart \/ \E d \in Dl : SyncOne(d)
    PROVE  StoredData' /\ JobsData' /\ ThreadsData'
<1>1. UNCHANGED <<current, queue, threadVars>>
  BY DEF Chain, HandleEvent, SyncStart, SyncOne, storeVars
<1>2. CASE Chain
  <2>1. posting' = posting BY <1>2 DEF Chain
  <2>2. CASE UNCHANGED hash
    BY <1>1, <2>1, <2>2, StoreSame, QueueSame, ThreadsSame
  <2>3. CASE \A d \in Dl : \A v \in Version : v <= hash[d] => v <= hash'[d]
    <3>1. ASSUME NEW ws \in Workloads, NEW d \in Dl, Upto(ws, d) PROVE Upto(ws, d)'
      <4>1. \A n \in Active(ws) : ws[n].ver \in Version BY DEF Active, Workloads, Entry
      <4> QED BY <2>3, <3>1, <4>1 DEF Upto
    <3>2. StoredData'
      <4>1. \A d \in Dl : current[d] \in Workloads BY DEF DataInv, EngineInv, StoreInv, StoreTypeOK
      <4>2. \A d \in Dl : Upto(current[d], d) BY DEF DataInv, StoredData
      <4> QED BY <1>1, <2>3, <4>1, <4>2, <3>1 DEF StoredData, Upto
    <3>3. ASSUME NEW j \in RealJob, JobData(j) PROVE JobData(j)'
      <4>1. j.dl \in Dl /\ j.target \in Workloads /\ j.source \in Workloads BY DEF RealJob
      <4> QED BY <3>1, <3>3, <4>1 DEF JobData
    <3>4. JobsData'
      <4>1. \A i \in 1 .. Len(queue) : queue[i] \in RealJob
        BY SMT DEF DataInv, EngineInv, JobsOK
      <4>2. \A p \in Poster : posting[p] # NoJob => posting[p] \in RealJob
        BY DEF DataInv, EngineInv, JobsOK
      <4> QED BY <1>1, <2>1, <3>3, <4>1, <4>2 DEF DataInv, JobsData
    <3>5. ThreadsData'
      <4>1. UNCHANGED <<pc, dl, todo, step, reading>> BY <1>1 DEF threadVars
      <4>2. ASSUME NEW t \in Thread PROVE StepsData(t)'
        <5>1. CASE pc[t] \in {"run"} \cup Stepping
          <6>1. dl[t] \in Dl /\ todo[t] \subseteq RealStep
            BY <5>1 DEF DataInv, EngineInv, ThreadsOK, Stepping
          <6>2. \A s \in RealStep : s.wl.ver \in Version BY DEF RealStep, Entry
          <6>3. pc[t] \in Stepping => step[t] \in RealStep BY DEF DataInv, EngineInv, ThreadsOK
          <6>4. StepsData(t) BY DEF DataInv, ThreadsData
          <6> QED BY <2>3, <4>1, <5>1, <6>1, <6>2, <6>3, <6>4 DEF StepsData
        <5>2. CASE pc[t] \notin {"run"} \cup Stepping BY <4>1, <5>2 DEF StepsData
        <5> QED BY <5>1, <5>2
      <4>3. pc["worker"] = "error" => reading \in Workloads /\ dl["worker"] \in Dl
        BY DEF DataInv, EngineInv, ThreadsOK, Thread
      <4>4. (pc["worker"] = "error" => Upto(reading, dl["worker"]))'
        <5>1. ASSUME pc["worker"] = "error" PROVE Upto(reading, dl["worker"])
          BY <5>1 DEF DataInv, ThreadsData
        <5>2. ASSUME pc["worker"] = "error"
              PROVE  \A n \in Active(reading) : reading[n].ver <= hash'[dl["worker"]]
          <6>1. \A n \in Active(reading) : reading[n].ver \in Version
            BY <4>3, <5>2 DEF Active, Workloads, Entry
          <6> QED BY <2>3, <4>3, <5>1, <5>2, <6>1 DEF Upto
        <5> QED BY <4>1, <5>2 DEF Upto
      <4> QED BY <4>2, <4>4 DEF ThreadsData
    <3> QED BY <3>2, <3>4, <3>5
  <2> QED BY <2>2, <2>3, HashGrows
<1>3. CASE HandleEvent
  <2>1. UNCHANGED hash BY <1>3 DEF HandleEvent, HandleLock, HandleCancel
  <2>2. ASSUME NEW d \in Dl, HandleCancel(d) PROVE JobsData'
    BY <1>1, <2>1, <2>2, PostCurrentData DEF HandleCancel, Poster
  <2>3. ASSUME HandleLock PROVE JobsData'
    <3>1. Head(locks) \in LockEvent
      BY <2>3, SMT DEF HandleLock, DataInv, EngineInv, EventsOK
    <3>2. Head(locks).dl \in Dl BY <3>1 DEF LockEvent
    <3> QED BY <1>1, <2>1, <2>3, <3>2, PostCurrentData DEF HandleLock, Poster
  <2> QED BY <1>1, <1>3, <2>1, <2>2, <2>3, StoreSame, ThreadsSame DEF HandleEvent
<1>4. CASE SyncStart
  <2>1. UNCHANGED <<hash, posting>> BY <1>4 DEF SyncStart, chainVars
  <2> QED BY <1>1, <2>1, StoreSame, QueueSame, ThreadsSame
<1>5. ASSUME NEW d \in Dl, SyncOne(d) PROVE StoredData' /\ JobsData' /\ ThreadsData'
  <2>1. UNCHANGED hash BY <1>5 DEF SyncOne, chainVars
  <2>2. \/ UNCHANGED posting
        \/ \E op \in {"deprovision", "pause", "resume"} : PostCurrent("sync", op, d)
    BY <1>5 DEF SyncOne
  <2>3. JobsData' BY <1>1, <2>1, <2>2, QueueSame, PostCurrentData DEF Poster
  <2> QED BY <1>1, <2>1, <2>3, StoreSame, ThreadsSame
<1> QED BY <1>2, <1>3, <1>4, <1>5

\* A reboot queues what is stored.
LEMMA RestartData ==
    ASSUME DataInv, NEW kind, Restart(kind)
    PROVE  StoredData' /\ JobsData' /\ ThreadsData'
<1>1. /\ UNCHANGED hash /\ pc' = [t \in Thread |-> "idle"] /\ posting' = [p \in Poster |-> NoJob]
      /\ CleanDeleted
  BY DEF Restart, chainVars
<1>2. ThreadsData' BY <1>1 DEF ThreadsData, StepsData, Stepping, Thread
<1>3. StoredData'
  <2>1. \A d \in Dl : current'[d] = current[d] \/ current'[d] = NoWorkloads
    BY <1>1 DEF CleanDeleted, Drop
  <2> QED BY <1>1, <2>1 DEF DataInv, StoredData, Upto, Active, NoWorkloads
<1>4. \A k : JobData(k) => JobData(k)' BY <1>1 DEF JobData, Upto
<1>5. CASE queue' = queue
  BY <1>1, <1>2, <1>3, <1>4, <1>5 DEF DataInv, JobsData
<1>6. CASE queue' \in BootQueues
  <2>1. PICK ds \in SUBSET Dl : queue' \in BootJobs(ds)
    BY <1>6 DEF BootQueues, Kept, DataInv, EngineInv, StoreInv, StoreTypeOK
  <2>2. PICK f \in [1 .. Cardinality(ds) -> ds] :
           queue' = [i \in DOMAIN f |-> Job("reprovision", f[i], version[f[i]], current[f[i]],
                                            NoWorkloads)]
    BY <2>1 DEF BootJobs
  <2>3. Cardinality(ds) \in Nat BY EngineAssumption
  <2>4. Len(queue') = Cardinality(ds) BY <2>2, <2>3, SMT
  <2>5. \A i \in 1 .. Len(queue') : f[i] \in Dl /\
           queue'[i] = Job("reprovision", f[i], version[f[i]], current[f[i]], NoWorkloads)
    BY <2>1, <2>2, <2>4
  <2>6. \A d \in Dl : JobData(Job("reprovision", d, version[d], current[d], NoWorkloads))
    BY NoWorkloadsUpto DEF JobData, Job, DataInv, StoredData
  <2>7. \A i \in 1 .. Len(queue') : JobData(queue'[i]) BY <2>5, <2>6
  <2> QED BY <1>1, <1>2, <1>3, <1>4, <2>7 DEF JobsData
<1> QED BY <1>2, <1>3, <1>5, <1>6 DEF Restart

\* Every step keeps stored, queued and handled data within the hashes.
LEMMA DataStepInv ==
    ASSUME DataInv, [EngineNext]_engineVars
    PROVE  DataInv'
<1>1. EngineInv' BY EngineStepInv DEF DataInv
<1>2. RestOK' BY RestStep DEF DataInv
<1>3. StoredData' /\ JobsData' /\ ThreadsData'
  <2>1. CASE UNCHANGED engineVars
    BY <2>1, StoreSame, QueueSame, ThreadsSame DEF engineVars, storeVars, chainVars
  <2>2. CASE EngineNext
    <3>1. ASSUME NEW t \in Thread, Work(t) PROVE StoredData' /\ JobsData' /\ ThreadsData'
      BY <3>1, TakeStepData, CallData, RecordData, EndData DEF Work
    <3>2. CASE Worker BY <3>2, StartJobData, EndData, QueueData DEF Worker
    <3>3. CASE UserStep(Dl, Requests) BY <3>3, ApiData, DecommissionData DEF UserStep
    <3> QED BY <2>2, <3>1, <3>2, <3>3, QueueData, ChainData, RestartData DEF EngineNext, SystemStep
  <2> QED BY <2>1, <2>2
<1> QED BY <1>1, <1>2, <1>3 DEF DataInv

\* What a reboot queues for reinstall without asking the chain (the comment of
\* opProvisionNoValidation, engine.go) has been validated before, for any
\* deployments, requests, faults and number of restarts.
THEOREM ReinstallValidatedAlways == EngineSpec => []ReinstallValidated
<1>1. DataInv => ReinstallValidated
  <2> SUFFICES ASSUME DataInv, NEW i \in DOMAIN queue, queue[i].op = "reprovision"
               PROVE  \A n \in Active(queue[i].target) : queue[i].target[n].ver <= hash[queue[i].dl]
    BY DEF ReinstallValidated
  <2>1. i \in 1 .. Len(queue) BY SMT DEF DataInv, EngineInv, JobsOK
  <2> QED BY <2>1 DEF DataInv, JobsData, JobData, Upto
<1> QED BY DataInvInit, DataStepInv, <1>1, PTL DEF EngineSpec

-----------------------------------------------------------------------------
\* No okay workload is newer than its deployment.

\* no workload of d becomes okay any more
Finished(d) ==
    /\ contract[d] = "deleted"
    /\ \A n \in Active(current[d]) : ~IsOkay(current[d][n].state)
    /\ dl["worker"] = d =>
         /\ \A s \in todo["worker"] : s.op \in {"uninstall", "pause", "resume"}
         /\ pc["worker"] \in Stepping => step["worker"].op = "uninstall"

\* the data that a job may make okay
Counts(j, n) ==
    \/ j.op \in {"provision", "update", "reprovision"}
    \/ j.op \in {"pause", "resume"} /\ IsOkay(j.target[n].state)

\* a job has nothing newer than its deployment, unless it can do nothing any more
JobBound(j) ==
    \/ Finished(j.dl)
    \/ \A n \in Active(j.target) : Counts(j, n) => j.target[n].ver <= version[j.dl]

\* the same for all jobs, queued or about to be
JobsBound ==
    /\ \A i \in 1 .. Len(queue) : JobBound(queue[i])
    /\ \A p \in Poster : posting[p] # NoJob => JobBound(posting[p])

\* and so have the steps that are still to be taken
StepBound(s) ==
    /\ s.op \in {"install", "update"} => s.wl.ver <= version[dl["worker"]]
    /\ s.op \in {"pause", "resume"} /\ IsOkay(s.wl.state)
         => s.wl.ver <= version[dl["worker"]] \/ Finished(dl["worker"])

\* and the one that is being taken
HandBound ==
    pc["worker"] \in Stepping /\ step["worker"].op # "uninstall"
      => step["worker"].wl.ver <= version[dl["worker"]]

\* what the worker has in its hands
WorkerBound == HandBound /\ \A s \in todo["worker"] : StepBound(s)

\* what VersionBound says of the storage
OkayBound ==
    \A d \in Dl : \A n \in Active(current[d]) :
        IsOkay(current[d][n].state) => current[d][n].ver <= version[d]

\* the version of a deployment that is not stored is 0
AbsentZero == \A d \in Dl \ present : version[d] = 0

\* the second inductive invariant, together with ShapeInv
Bounded == OkayBound /\ AbsentZero /\ JobsBound /\ WorkerBound

\* what a step keeps of a deployment
VersionKept(d) == \A v \in Version : v <= version[d] => v <= version'[d]

\* it stays finished, or keeps its bound
Carried(d) == (Finished(d) => Finished(d)') /\ (Finished(d)' \/ VersionKept(d))

\* A job stays within the bound when its deployment is carried over.
LEMMA JobCarried ==
    ASSUME \A d \in Dl : Carried(d), NEW j \in RealJob, JobBound(j)
    PROVE  JobBound(j)'
<1>1. j.dl \in Dl /\ j.target \in Workloads BY DEF RealJob
<1>2. Carried(j.dl) BY <1>1
<1>3. \A n \in Active(j.target) : j.target[n].ver \in Version BY <1>1 DEF Active, Workloads, Entry
<1>4. CASE Finished(j.dl)' BY <1>4 DEF JobBound
<1>5. CASE ~Finished(j.dl)'
  <2>1. VersionKept(j.dl) /\ ~Finished(j.dl) BY <1>2, <1>5 DEF Carried
  <2>2. \A n \in Active(j.target) : Counts(j, n) => j.target[n].ver <= version[j.dl]
    BY <2>1 DEF JobBound
  <2>3. \A n \in Active(j.target) : Counts(j, n) => j.target[n].ver <= version'[j.dl]
    BY <1>3, <2>1, <2>2 DEF VersionKept
  <2> QED BY <2>3 DEF JobBound
<1> QED BY <1>4, <1>5

\* Jobs queued and jobs posted are jobs.
LEMMA JobsTyped ==
    ASSUME EngineInv
    PROVE  /\ \A i \in 1 .. Len(queue) : queue[i] \in RealJob
           /\ \A p \in Poster : posting[p] # NoJob => posting[p] \in RealJob
<1>1. queue \in Seq(RealJob) BY DEF EngineInv, JobsOK
<1>2. \A i \in 1 .. Len(queue) : queue[i] \in RealJob BY <1>1, SMT
<1> QED BY <1>2 DEF EngineInv, JobsOK

\* All jobs stay within the bound when all deployments are carried over.
LEMMA JobsCarried ==
    ASSUME ShapeInv, Bounded, \A d \in Dl : Carried(d)
    PROVE  /\ \A i \in 1 .. Len(queue) : queue[i] \in RealJob /\ \E j : j = queue[i] /\ JobBound(j)'
           /\ \A p \in Poster : posting[p] # NoJob => \E j : j = posting[p] /\ JobBound(j)'
<1>1. EngineInv BY DEF ShapeInv
<1>2. \A j \in RealJob : JobBound(j) => JobBound(j)' BY JobCarried
<1> QED BY <1>1, <1>2, JobsTyped DEF Bounded, JobsBound

\* The same for a step that leaves the jobs alone.
LEMMA JobsSame ==
    ASSUME ShapeInv, Bounded, \A d \in Dl : Carried(d), UNCHANGED <<queue, posting>>
    PROVE  JobsBound'
BY JobsCarried DEF JobsBound

\* The same for a step that posts a job within the bound.
LEMMA JobsPosted ==
    ASSUME ShapeInv, Bounded, \A d \in Dl : Carried(d), UNCHANGED queue,
           NEW p \in Poster, NEW j, JobBound(j)', Post(p, j)
    PROVE  JobsBound'
<1>1. posting' = [posting EXCEPT ![p] = j] /\ posting \in [Poster -> RealJob \cup {NoJob}]
  BY DEF Post, ShapeInv, EngineInv, JobsOK
<1>2. \A q \in Poster : posting'[q] = posting[q] \/ posting'[q] = j BY <1>1
<1> QED BY <1>2, JobsCarried DEF JobsBound

\* what is written: nothing, a workload that is not okay, or one the bound
\* allows in a deployment that is not finished
Written(d, n) ==
    \/ current'[d][n] = current[d][n]
    \/ ~IsOkay(current'[d][n].state)
    \/ ~Finished(d) /\ current'[d][n].ver <= version'[d]

\* Okay workloads stay within the bound when what is written is.
LEMMA OkayCarried ==
    ASSUME EngineInv, OkayBound, \A d \in Dl : Carried(d),
           \A d \in Dl : \A n \in Name : Written(d, n)
    PROVE  OkayBound'
<1> SUFFICES ASSUME NEW d \in Dl, NEW n \in Active(current'[d]), IsOkay(current'[d][n].state)
             PROVE  current'[d][n].ver <= version'[d]
  BY DEF OkayBound
<1>1. n \in Name /\ Written(d, n) BY DEF Active
<1>2. CASE current'[d][n] = current[d][n]
  <2>1. n \in Active(current[d]) BY <1>2 DEF Active
  <2>2. current[d][n].ver <= version[d] BY <1>2, <2>1 DEF OkayBound
  <2>3. current[d][n].ver \in Version
    <3>1. current[d] \in Workloads BY DEF EngineInv, StoreInv, StoreTypeOK
    <3> QED BY <2>1, <3>1 DEF Workloads, Active, Entry
  <2>4. ~Finished(d)' BY DEF Finished
  <2>5. VersionKept(d) BY <2>4 DEF Carried
  <2> QED BY <1>2, <2>2, <2>3, <2>5 DEF VersionKept
<1> QED BY <1>1, <1>2 DEF Written

\* The steps of the worker stay within the bound while it does nothing.
LEMMA WorkerCarried ==
    ASSUME ShapeInv, WorkerBound, \A d \in Dl : Carried(d), WorkerSame
    PROVE  WorkerBound'
<1>1. pc["worker"] # "idle" => dl["worker"] \in Dl
  BY DEF ShapeInv, EngineInv, ThreadsOK, Thread
<1>2. todo["worker"] \subseteq RealStep /\ (pc["worker"] \in Stepping => step["worker"] \in RealStep)
  BY DEF ShapeInv, EngineInv, ThreadsOK, Thread
<1>3. todo["worker"] # {} => pc["worker"] # "idle"
  BY DEF ShapeInv, Shape, ThreadShape, Thread
<1>4. \A s \in RealStep : s.wl.ver \in Version BY DEF RealStep, Entry
<1>5. HandBound'
  <2> SUFFICES ASSUME pc'["worker"] \in Stepping, step'["worker"].op # "uninstall"
               PROVE  step'["worker"].wl.ver <= version'[dl'["worker"]]
    BY DEF HandBound
  <2>1. pc["worker"] \in Stepping /\ dl["worker"] \in Dl BY <1>1 DEF Stepping, WorkerSame
  <2>2. PICK d \in Dl : d = dl["worker"] /\ d = dl'["worker"] BY <2>1 DEF WorkerSame
  <2>3. PICK s \in RealStep : s = step["worker"] /\ s = step'["worker"] BY <1>2, <2>1 DEF WorkerSame
  <2>4. s.op # "uninstall" BY <2>3
  <2>5. s.wl.ver <= version[d] BY <2>1, <2>2, <2>3, <2>4 DEF WorkerBound, HandBound
  <2>6. ~Finished(d)' BY <2>2 DEF Finished
  <2>7. VersionKept(d) BY <2>6 DEF Carried
  <2>8. s.wl.ver <= version'[d] BY <1>4, <2>5, <2>7 DEF VersionKept
  <2> QED BY <2>2, <2>3, <2>8
<1>6. ASSUME NEW s \in todo["worker"] PROVE StepBound(s)'
  <2>1. dl["worker"] \in Dl /\ s.wl.ver \in Version BY <1>1, <1>2, <1>3, <1>4
  <2>2. PICK d \in Dl : d = dl["worker"] BY <2>1
  <2>3. StepBound(s) /\ dl'["worker"] = d BY <2>2 DEF WorkerBound, WorkerSame
  <2>4. Carried(d) BY <2>2
  <2>5. CASE Finished(d)'
    <3>1. s.op \in {"uninstall", "pause", "resume"} BY <2>2, <2>5 DEF Finished, WorkerSame
    <3> QED BY <2>3, <2>5, <3>1 DEF StepBound
  <2>6. CASE ~Finished(d)'
    <3>1. VersionKept(d) /\ ~Finished(d) BY <2>4, <2>6 DEF Carried
    <3>2. s.wl.ver <= version[d] => s.wl.ver <= version'[d] BY <2>1, <3>1 DEF VersionKept
    <3> QED BY <2>2, <2>3, <3>1, <3>2 DEF StepBound
  <2> QED BY <2>5, <2>6
<1> QED BY <1>5, <1>6 DEF WorkerBound, WorkerSame

\* a step that leaves the worker alone, and puts no workload in okay
LEMMA QuietBound ==
    ASSUME ShapeInv, Bounded, WorkerSame, UNCHANGED <<present, version>>,
           \A d \in Dl : contract[d] = "deleted" => contract'[d] = "deleted",
           \A d \in Dl : \A n \in Name :
              current'[d][n] = current[d][n] \/ ~IsOkay(current'[d][n].state)
    PROVE  (\A d \in Dl : Carried(d)) /\ OkayBound' /\ AbsentZero' /\ WorkerBound'
<1>1. ASSUME NEW d \in Dl PROVE Carried(d)
  <2>1. VersionKept(d) BY DEF VersionKept
  <2>2. ASSUME Finished(d) PROVE Finished(d)'
    <3>1. \A n \in Active(current'[d]) : ~IsOkay(current'[d][n].state)
      BY <2>2 DEF Finished, Active
    <3> QED BY <2>2, <3>1 DEF Finished, WorkerSame
  <2> QED BY <2>1, <2>2 DEF Carried
<1>2. OkayBound' BY <1>1, OkayCarried DEF ShapeInv, Bounded, Written
<1>3. AbsentZero' BY DEF Bounded, AbsentZero
<1>4. WorkerBound' BY <1>1, WorkerCarried DEF Bounded
<1> QED BY <1>1, <1>2, <1>3, <1>4

\* a step of the worker in the job it has in its hands
LEMMA MoveBound ==
    ASSUME ShapeInv, Bounded, UNCHANGED <<present, version, contract>>,
           NEW d \in Dl, dl["worker"] = d, dl'["worker"] = d,
           \A e \in Dl : \A n \in Name : Written(e, n) /\ (e # d => current'[e][n] = current[e][n]),
           todo'["worker"] \subseteq todo["worker"],
           pc'["worker"] \in Stepping /\ step'["worker"].op # "uninstall"
             => ~Finished(d) /\ step'["worker"].wl.ver <= version[d]
    PROVE  (\A e \in Dl : Carried(e)) /\ OkayBound' /\ AbsentZero' /\ WorkerBound'
<1>1. ASSUME NEW e \in Dl PROVE Carried(e)
  <2>1. VersionKept(e) BY DEF VersionKept
  <2>2. ASSUME Finished(e) PROVE Finished(e)'
    <3>1. \A n \in Active(current'[e]) : ~IsOkay(current'[e][n].state)
      BY <2>2 DEF Finished, Active, Written
    <3> QED BY <2>2, <3>1 DEF Finished
  <2> QED BY <2>1, <2>2 DEF Carried
<1>2. OkayBound' BY <1>1, OkayCarried DEF ShapeInv, Bounded
<1>3. AbsentZero' BY DEF Bounded, AbsentZero
<1>4. HandBound' BY DEF HandBound
<1>5. ASSUME NEW s \in todo["worker"] PROVE StepBound(s)'
  <2>1. StepBound(s) BY DEF Bounded, WorkerBound
  <2>2. Finished(d) => Finished(d)' BY <1>1 DEF Carried
  <2> QED BY <2>1, <2>2 DEF StepBound
<1>6. WorkerBound' BY <1>4, <1>5 DEF WorkerBound
<1> QED BY <1>1, <1>2, <1>3, <1>6

\* the deployment read for a job about the contract
LEMMA CurrentBound ==
    ASSUME ShapeInv, Bounded, \A d \in Dl : Carried(d), UNCHANGED queue,
           NEW p \in Poster, NEW d \in Dl, NEW op \in {"deprovision", "pause", "resume"},
           PostCurrent(p, op, d)
    PROVE  JobsBound'
<1>1. CASE d \in present
  <2>1. PICK j \in RealJob : j = Job(op, d, version[d], current[d], NoWorkloads)
    <3>1. /\ op \in JobOp /\ version[d] \in Version /\ current[d] \in Workloads
      BY DEF JobOp, ShapeInv, EngineInv, StoreInv, StoreTypeOK
    <3>2. Job(op, d, version[d], current[d], NoWorkloads) \in RealJob
      BY <3>1, NoWorkloadsType DEF Job, RealJob
    <3> QED BY <3>2
  <2>2. j.op = op /\ j.dl = d /\ j.target = current[d] BY <2>1, SMT DEF Job
  <2>3. \A n \in Active(current[d]) : IsOkay(current[d][n].state) => current[d][n].ver <= version[d]
    BY DEF Bounded, OkayBound
  <2>4. JobBound(j) BY <2>2, <2>3 DEF JobBound, Counts
  <2>5. JobBound(j)' BY <2>4, JobCarried
  <2> QED BY <1>1, <2>1, <2>5, JobsPosted DEF PostCurrent
<1>2. CASE d \notin present BY <1>2, JobsSame DEF PostCurrent
<1> QED BY <1>1, <1>2

\* the chain, the events and the synchronization
LEMMA EventsBound ==
    ASSUME ShapeInv, Bounded, Chain \/ HandleEvent \/ SyncStart \/ \E d \in Dl : SyncOne(d)
    PROVE  Bounded'
<1>1. UNCHANGED <<present, version, current, queue>> /\ WorkerSame
  BY DEF Chain, HandleEvent, SyncStart, SyncOne, storeVars, threadVars, WorkerSame
<1>2. \A d \in Dl : contract[d] = "deleted" => contract'[d] = "deleted"
  <2>1. CASE Chain BY <2>1, DeletedStays DEF ShapeInv
  <2>2. CASE ~Chain
    BY <2>2 DEF HandleEvent, HandleLock, HandleCancel, SyncStart, SyncOne, chainVars
  <2> QED BY <2>1, <2>2
<1>3. (\A d \in Dl : Carried(d)) /\ OkayBound' /\ AbsentZero' /\ WorkerBound'
  BY <1>1, <1>2, QuietBound
<1>4. JobsBound'
  <2>1. CASE UNCHANGED posting BY <1>1, <1>3, <2>1, JobsSame
  <2>2. ASSUME NEW d \in Dl, HandleCancel(d) PROVE JobsBound'
    BY <1>1, <1>3, <2>2, CurrentBound DEF HandleCancel, Poster
  <2>3. ASSUME HandleLock PROVE JobsBound'
    <3>1. locks \in Seq(LockEvent) /\ locks # <<>> BY <2>3 DEF HandleLock, ShapeInv, EngineInv, EventsOK
    <3>2. Head(locks) \in LockEvent BY <3>1, SMT
    <3>3. Head(locks).dl \in Dl BY <3>2 DEF LockEvent
    <3> QED BY <1>1, <1>3, <2>3, <3>3, CurrentBound DEF HandleLock, Poster
  <2>4. ASSUME NEW d \in Dl, SyncOne(d) PROVE JobsBound'
    <3>1. \/ UNCHANGED posting
          \/ \E op \in {"deprovision", "pause", "resume"} : PostCurrent("sync", op, d)
      BY <2>4 DEF SyncOne
    <3> QED BY <1>1, <1>3, <2>1, <3>1, CurrentBound DEF Poster
  <2>5. CASE Chain \/ SyncStart BY <2>1, <2>5 DEF Chain, SyncStart
  <2> QED BY <2>2, <2>3, <2>4, <2>5 DEF HandleEvent
<1> QED BY <1>3, <1>4 DEF Bounded

\* Jobs are appended, and removed when they are done.
LEMMA QueueBound ==
    ASSUME ShapeInv, Bounded, (\E p \in Poster : Enqueue(p)) \/ Dequeue
    PROVE  Bounded'
<1>0. EngineInv /\ queue \in Seq(RealJob) BY DEF ShapeInv, EngineInv, JobsOK
<1>1. ASSUME NEW p \in Poster, Enqueue(p) PROVE Bounded'
  <2>1. /\ UNCHANGED <<present, version, current, contract>> /\ WorkerSame
        /\ queue' = Append(queue, posting[p]) /\ posting[p] # NoJob
        /\ posting' = [posting EXCEPT ![p] = NoJob] /\ posting \in [Poster -> RealJob \cup {NoJob}]
    BY <1>1 DEF Enqueue, storeVars, threadVars, chainVars, WorkerSame, ShapeInv, EngineInv, JobsOK
  <2>2. (\A d \in Dl : Carried(d)) /\ OkayBound' /\ AbsentZero' /\ WorkerBound'
    BY <2>1, QuietBound
  <2>3. posting[p] \in RealJob /\ \A q \in Poster : posting'[q] = posting[q] \/ posting'[q] = NoJob
    BY <2>1
  <2>4. PICK j : j = posting[p] /\ JobBound(j)' BY <2>1, <2>2, JobsCarried
  <2>5. \A i \in 1 .. Len(queue') : (i \in 1 .. Len(queue) /\ queue'[i] = queue[i]) \/ queue'[i] = j
    BY <1>0, <2>1, <2>3, <2>4, FirstStays
  <2>6. JobsBound' BY <2>2, <2>3, <2>4, <2>5, JobsCarried DEF JobsBound
  <2> QED BY <2>2, <2>6 DEF Bounded
<1>2. CASE Dequeue
  <2>1. /\ UNCHANGED <<present, version, current, posting, todo, step, contract>>
        /\ queue' = Tail(queue) /\ queue # <<>> /\ pc["worker"] = "dequeue"
        /\ pc' = [pc EXCEPT !["worker"] = "idle"] /\ dl' = [dl EXCEPT !["worker"] = NoDl]
    BY <1>2 DEF Dequeue, storeVars, chainVars, ShapeInv, EngineInv, JobsOK
  <2>2. pc'["worker"] = "idle" /\ dl'["worker"] = NoDl
    BY <2>1 DEF ShapeInv, EngineInv, ThreadsOK, Thread
  <2>3. todo["worker"] = {} BY <2>1 DEF ShapeInv, Shape, ThreadShape, Thread
  <2>4. ASSUME NEW d \in Dl PROVE Carried(d)
    <3>1. dl'["worker"] # d BY <2>2, GridAssumption
    <3> QED BY <2>1, <3>1 DEF Carried, Finished, VersionKept
  <2>5. OkayBound' /\ AbsentZero' BY <2>1 DEF Bounded, OkayBound, AbsentZero
  <2>6. WorkerBound' BY <2>1, <2>2, <2>3 DEF WorkerBound, HandBound, Stepping
  <2>7. JobsBound' BY <1>0, <2>1, <2>4, RestOfJobs, JobsCarried DEF JobsBound
  <2> QED BY <2>5, <2>6, <2>7 DEF Bounded
<1> QED BY <1>1, <1>2

\* what a user sends is not above the version it is sent with, and in init
LEMMA RequestBound ==
    ASSUME NEW r \in Requests
    PROVE  /\ r.ver \in Version /\ r.ws \in Workloads /\ WithState(r.ws, "init") \in Workloads
           /\ \A n \in Active(WithState(r.ws, "init")) : WithState(r.ws, "init")[n].ver <= r.ver
           /\ \A n \in Name : ~IsOkay(WithState(r.ws, "init")[n].state)
<1>1. r.ver \in Version /\ r.ws \in Workloads /\ \A n \in Active(r.ws) : r.ws[n].ver <= r.ver
  BY EngineAssumption
<1>2. WithState(r.ws, "init") \in Workloads /\ Active(WithState(r.ws, "init")) = Active(r.ws)
  BY <1>1, WithStateType DEF State
<1>3. \A n \in Active(r.ws) : WithState(r.ws, "init")[n].ver = r.ws[n].ver
  BY DEF WithState, WithResult, Active
<1>4. \A n \in Name : WithState(r.ws, "init")[n].state \in {"init", "none"}
  BY DEF WithState, WithResult, NoEntry
<1> QED BY <1>1, <1>2, <1>3, <1>4 DEF IsOkay

\* Update stores the version first: the job it posts is within the bound, and
\* a version never goes back while its deployment is stored.
LEMMA ApiBound ==
    ASSUME ShapeInv, Bounded, NEW d \in Dl, NEW r \in Requests, Provision(d, r) \/ UpdateDeployment(d, r)
    PROVE  Bounded'
<1>1. UNCHANGED <<queue, contract>> /\ WorkerSame
  BY DEF Provision, UpdateDeployment, threadVars, chainVars, WorkerSame
<1>2. PICK ws \in Workloads : ws = WithState(r.ws, "init") BY RequestBound
<1>3. r.ver \in Version /\ \A n \in Active(ws) : ws[n].ver <= r.ver BY <1>2, RequestBound
<1>4. version \in [Dl -> Version] /\ current \in [Dl -> Workloads] /\ EngineInv
  BY DEF ShapeInv, EngineInv, StoreInv, StoreTypeOK
<1>5. /\ version' = [version EXCEPT ![d] = r.ver]
      /\ present' \in {present, present \cup {d}} /\ d \in present'
      /\ \E op \in {"provision", "update"} : \E v, source : Post("api", Job(op, d, v, ws, source))
  BY <1>2 DEF Provision, UpdateDeployment, Create, Update
<1>6. \A n \in Name : ~IsOkay(ws[n].state) BY <1>2, RequestBound
<1>7. /\ current'[d] \in {current[d], ws}
      /\ \A e \in Dl \ {d} : current'[e] = current[e]
  BY <1>2, <1>4 DEF Provision, UpdateDeployment, Create, Update
<1>8. version'[d] = r.ver /\ \A e \in Dl \ {d} : version'[e] = version[e] BY <1>4, <1>5
<1>9. VersionKept(d)
  <2>1. CASE Provision(d, r)
    <3>1. d \notin present /\ r.ver = 0 BY <2>1 DEF Provision, Create, CreateOk
    <3>2. version[d] = 0 BY <3>1 DEF Bounded, AbsentZero
    <3> QED BY <1>8, <3>1, <3>2 DEF VersionKept
  <2>2. CASE UpdateDeployment(d, r)
    <3>1. r.ver = version[d] + 1 BY <2>2 DEF UpdateDeployment, UpgradeOk
    <3>2. \A x, y \in Nat : x <= y => x <= y + 1 BY SMT
    <3>3. version[d] \in Nat /\ Version \subseteq Nat BY <1>4, GridAssumption
    <3> QED BY <1>8, <3>1, <3>2, <3>3 DEF VersionKept
  <2> QED BY <2>1, <2>2
<1>10. ASSUME NEW e \in Dl PROVE Carried(e)
  <2>1. VersionKept(e) BY <1>8, <1>9 DEF VersionKept
  <2>2. ASSUME Finished(e) PROVE Finished(e)'
    <3>1. \A n \in Active(current'[e]) : ~IsOkay(current'[e][n].state)
      BY <1>6, <1>7, <2>2 DEF Finished, Active
    <3> QED BY <1>1, <2>2, <3>1 DEF Finished, WorkerSame
  <2> QED BY <2>1, <2>2 DEF Carried
<1>11. OkayBound'
  <2>1. \A e \in Dl : \A n \in Name : Written(e, n) BY <1>6, <1>7 DEF Written
  <2> QED BY <1>4, <1>10, <2>1, OkayCarried DEF Bounded
<1>12. AbsentZero' BY <1>5, <1>8 DEF Bounded, AbsentZero
<1>13. WorkerBound' BY <1>1, <1>10, WorkerCarried DEF Bounded
<1>14. JobsBound'
  <2>1. PICK op \in {"provision", "update"} : \E v, source : Post("api", Job(op, d, v, ws, source)) BY <1>5
  <2>2. PICK v, source : Post("api", Job(op, d, v, ws, source)) BY <2>1
  <2>3. PICK j : j = Job(op, d, v, ws, source) OBVIOUS
  <2>4. j.dl = d /\ j.target = ws BY <2>3, SMT DEF Job
  <2>5. JobBound(j)' BY <1>3, <1>8, <2>4 DEF JobBound
  <2> QED BY <1>1, <1>10, <2>2, <2>3, <2>5, JobsPosted DEF Poster
<1> QED BY <1>11, <1>12, <1>13, <1>14 DEF Bounded

\* DecommissionCached writes nothing yet.
LEMMA DecommissionBound ==
    ASSUME ShapeInv, Bounded, NEW d \in Dl, NEW n \in Name, DecommissionCached(d, n)
    PROVE  Bounded'
<1>1. UNCHANGED <<present, version, current, queue, posting, contract>> /\ WorkerSame
  BY DEF DecommissionCached, storeVars, chainVars, WorkerSame, ShapeInv, EngineInv, ThreadsOK, Thread
<1>2. (\A e \in Dl : Carried(e)) /\ OkayBound' /\ AbsentZero' /\ WorkerBound'
  BY <1>1, QuietBound
<1> QED BY <1>1, <1>2, JobsSame DEF Bounded

\* the steps of a job that may run are within the bound
LEMMA JobStepsBound ==
    ASSUME NEW j \in RealJob, JobBound(j), Validates(j), NEW s \in JobSteps(j)
    PROVE  /\ s.op \in {"install", "update"} => s.wl.ver <= version[j.dl] /\ OnChain(j.dl)
           /\ s.op \in {"pause", "resume"} /\ IsOkay(s.wl.state)
                => s.wl.ver <= version[j.dl] \/ Finished(j.dl)
<1>1. j.op \in JobOp BY DEF RealJob
<1>2. j.op \in {"provision", "reprovision", "update"} => OnChain(j.dl) BY DEF Validates
<1>3. OnChain(j.dl) => ~Finished(j.dl) BY DEF OnChain, Finished
<1>4. \A n \in Active(j.target) : Counts(j, n) => Finished(j.dl) \/ j.target[n].ver <= version[j.dl]
  BY DEF JobBound
<1>5. ASSUME NEW op, s \in Steps(op, j.target)
      PROVE  \E n \in Active(j.target) : s.op = op /\ s.wl = j.target[n]
  <2>1. PICK n \in Active(j.target) : s = Step(op, n, j.target[n]) BY <1>5 DEF Steps
  <2>2. s.op = op /\ s.wl = j.target[n] BY <2>1, SMT DEF Step
  <2> QED BY <2>2
<1>6. CASE j.op = "update"
  <2>1. PICK n \in Name :
          \/ n \in Active(j.target) /\ s = Step("install", n, j.target[n])
          \/ n \in Active(j.source) /\ s = Step("uninstall", n, j.source[n])
          \/ n \in Active(j.target) /\ s = Step("update", n, WithResult(j.target[n], j.source[n].state))
    BY <1>6 DEF JobSteps, UpgradeSteps, Active
  <2>2. \/ n \in Active(j.target) /\ s.op \in {"install", "update"} /\ s.wl.ver = j.target[n].ver
        \/ s.op = "uninstall"
    BY <2>1, SMT DEF Step, WithResult
  <2> QED BY <1>2, <1>3, <1>4, <1>6, <2>2 DEF Counts
<1>7. CASE j.op \in {"provision", "reprovision"}
  <2>1. PICK n \in Active(j.target) : s.op = "install" /\ s.wl = j.target[n]
    BY <1>5, <1>7 DEF JobSteps
  <2> QED BY <1>2, <1>3, <1>4, <1>7, <2>1 DEF Counts
<1>8. CASE j.op = "deprovision"
  <2>1. s.op = "uninstall" BY <1>5, <1>8 DEF JobSteps
  <2> QED BY <2>1
<1>9. CASE j.op \in {"pause", "resume"}
  <2>1. PICK n \in Active(j.target) : s.op = j.op /\ s.wl = j.target[n]
    BY <1>5, <1>9 DEF JobSteps
  <2> QED BY <1>4, <1>9, <2>1 DEF Counts
<1> QED BY <1>1, <1>6, <1>7, <1>8, <1>9 DEF JobOp

\* The worker starts a job.  If its deployment is finished, the chain does not
\* let it install or update anything.
LEMMA StartBound ==
    ASSUME ShapeInv, Bounded, StartJob
    PROVE  Bounded'
<1>0. EngineInv /\ queue # <<>> /\ pc["worker"] = "idle" BY DEF ShapeInv, StartJob
<1>1. PICK j \in RealJob : j = Head(queue) /\ JobBound(j)
  BY <1>0, FirstJob DEF Bounded, JobsBound
<1>2. PICK d \in Dl : d = j.dl BY DEF RealJob
<1>3. /\ UNCHANGED <<present, version, current, queue, posting, step, contract>>
      /\ dl' = [dl EXCEPT !["worker"] = j.dl]
      /\ \/ /\ Validates(j) /\ pc' = [pc EXCEPT !["worker"] = "run"]
            /\ todo' = [todo EXCEPT !["worker"] = JobSteps(j)]
         \/ /\ \E at \in {"error", "dequeue"} : pc' = [pc EXCEPT !["worker"] = at]
            /\ UNCHANGED todo
  BY <1>1 DEF StartJob, storeVars, chainVars
<1>4. /\ dl'["worker"] = d /\ pc'["worker"] \notin Stepping
      /\ \/ Validates(j) /\ todo'["worker"] = JobSteps(j)
         \/ todo'["worker"] = todo["worker"]
  BY <1>2, <1>3 DEF ShapeInv, EngineInv, ThreadsOK, Thread, Stepping
<1>5. todo["worker"] = {} BY <1>0 DEF ShapeInv, Shape, ThreadShape, Thread
<1>6. \A s \in todo'["worker"] :
         /\ s.op \in {"install", "update"} => s.wl.ver <= version[d] /\ OnChain(d)
         /\ s.op \in {"pause", "resume"} /\ IsOkay(s.wl.state) => s.wl.ver <= version[d] \/ Finished(d)
         /\ s \in RealStep
  BY <1>1, <1>2, <1>4, <1>5, JobStepsBound, JobStepsType
<1>7. ASSUME NEW e \in Dl PROVE Carried(e)
  <2>1. VersionKept(e) BY <1>3 DEF VersionKept
  <2>2. ASSUME Finished(e) PROVE Finished(e)'
    <3>1. CASE e = d
      <4>1. ~OnChain(d) BY <2>2, <3>1 DEF Finished, OnChain
      <4>2. \A s \in todo'["worker"] : s.op \in {"uninstall", "pause", "resume"}
        BY <1>6, <4>1 DEF RealStep, StepOp
      <4> QED BY <1>3, <1>4, <2>2, <4>2 DEF Finished
    <3>2. CASE e # d BY <1>3, <1>4, <2>2, <3>2 DEF Finished
    <3> QED BY <3>1, <3>2
  <2> QED BY <2>1, <2>2 DEF Carried
<1>8. OkayBound' /\ AbsentZero' BY <1>3 DEF Bounded, OkayBound, AbsentZero
<1>9. HandBound' BY <1>4 DEF HandBound
<1>10. ASSUME NEW s, s \in todo'["worker"] PROVE StepBound(s)'
  <2>1. Finished(d) => Finished(d)' BY <1>7 DEF Carried
  <2> QED BY <1>3, <1>4, <1>6, <1>10, <2>1 DEF StepBound
<1>11. WorkerBound' BY <1>9, <1>10 DEF WorkerBound
<1> QED BY <1>3, <1>7, <1>8, <1>11, JobsSame DEF Bounded

\* Error leaves no workload okay.
LEMMA StoreErrorBound ==
    ASSUME ShapeInv, Bounded, StoreError
    PROVE  Bounded'
<1>1. /\ UNCHANGED <<present, version, queue, posting, dl, todo, step, contract>>
      /\ pc["worker"] = "error" /\ pc' = [pc EXCEPT !["worker"] = "dequeue"]
      /\ current' = current \/ Error(dl["worker"], reading)
  BY DEF StoreError, Error, storeVars, chainVars
<1>2. pc'["worker"] = "dequeue" BY <1>1 DEF ShapeInv, EngineInv, ThreadsOK, Thread
<1>3. PICK d \in Dl : d = dl["worker"] BY <1>1 DEF ShapeInv, EngineInv, ThreadsOK, Thread
<1>4. ASSUME NEW e \in Dl, NEW n \in Name
      PROVE  /\ current'[e][n] = current[e][n] \/ ~IsOkay(current'[e][n].state)
             /\ e # d => current'[e][n] = current[e][n]
  <2>1. CASE Error(dl["worker"], reading)
    <3>1. /\ current' = [current EXCEPT ![d] = [m \in Name |->
                IF m \in Active(reading) THEN WithResult(reading[m], "error") ELSE current[d][m]]]
          /\ current \in [Dl -> Workloads]
      BY <1>3, <2>1 DEF Error, ShapeInv, EngineInv, StoreInv, StoreTypeOK
    <3>2. /\ e # d => current'[e] = current[e]
          /\ e = d => current'[e][n] = current[e][n] \/ current'[e][n] = WithResult(reading[n], "error")
      BY <3>1
    <3>3. ~IsOkay(WithResult(reading[n], "error").state) BY DEF IsOkay, WithResult
    <3> QED BY <3>2, <3>3
  <2> QED BY <1>1, <2>1
<1>5. \A e \in Dl : \A n \in Name : Written(e, n) /\ (e # d => current'[e][n] = current[e][n])
  BY <1>4 DEF Written
<1>6. (\A e \in Dl : Carried(e)) /\ OkayBound' /\ AbsentZero' /\ WorkerBound'
  BY <1>1, <1>2, <1>3, <1>5, MoveBound DEF Stepping
<1> QED BY <1>1, <1>6, JobsSame DEF Bounded

\* a step of the zbus server ends in no okay workload
LEMMA ServerBound ==
    ASSUME ShapeInv, Bounded, Work("api"), UNCHANGED <<present, version>>,
           \A e \in Dl : \A n \in Name :
              current'[e][n] = current[e][n] \/ ~IsOkay(current'[e][n].state)
    PROVE  Bounded'
<1>1. "api" \in Thread /\ EngineInv BY DEF Thread, ShapeInv
<1>2. UNCHANGED <<queue, posting, contract>> /\ WorkerSame
  BY <1>1, OtherThread DEF WorkerSame, Thread
<1>3. (\A e \in Dl : Carried(e)) /\ OkayBound' /\ AbsentZero' /\ WorkerBound'
  BY <1>2, QuietBound
<1> QED BY <1>2, <1>3, JobsSame DEF Bounded

\* A step is taken.  In a finished deployment no workload is okay, so no pause
\* or resume of a stale job gets to the manager.
LEMMA TakeBound ==
    ASSUME ShapeInv, Bounded, NEW t \in Thread, TakeStep(t)
    PROVE  Bounded'
<1>1. PICK s \in todo[t] : TakenUp(t, s) BY Taken
<1>2. Work(t) /\ EngineInv /\ UNCHANGED dl /\ pc[t] = "run" BY DEF Work, ShapeInv, TakeStep
<1>3. UNCHANGED <<present, version>> BY <1>1 DEF TakenUp, Add, storeVars
<1>4. PICK d \in Dl : d = dl[t] BY <1>2 DEF EngineInv, ThreadsOK
<1>5. s \in RealStep BY DEF ShapeInv, EngineInv, ThreadsOK
<1>6. \A e \in Dl : \A n \in Name :
        /\ current'[e][n] = current[e][n] \/ ~IsOkay(current'[e][n].state)
        /\ e # d => current'[e][n] = current[e][n]
  <2>1. CASE Add(dl[t], s.name, s.wl)
    <3>1. PICK x : x = WithResult(s.wl, "init") OBVIOUS
    <3>2. s.name \in Name BY <1>5 DEF RealStep
    <3>3. ~IsOkay(WithResult(s.wl, "init").state) BY DEF WithResult, IsOkay
    <3>4. Puts(d, s.name, x) BY <1>4, <2>1, <3>1 DEF Add, Puts
    <3>5. OnlyPuts(d, x) BY <1>2, <3>2, <3>4, EntryWritten
    <3> QED BY <3>1, <3>3, <3>5 DEF OnlyPuts
  <2>2. CASE UNCHANGED storeVars BY <2>2 DEF storeVars
  <2> QED BY <1>1, <2>1, <2>2 DEF TakenUp
<1>7. CASE t = "api" BY <1>2, <1>3, <1>6, <1>7, ServerBound
<1>8. CASE t = "worker"
  <2>1. UNCHANGED <<queue, posting, contract>> BY <1>2, OtherThread
  <2>2. StepBound(s) BY <1>8 DEF Bounded, WorkerBound
  <2>3. todo'["worker"] \subseteq todo["worker"] BY <1>1, <1>8 DEF TakenUp
  <2>4. ASSUME pc'["worker"] \in Stepping, step'["worker"].op # "uninstall"
        PROVE  ~Finished(d) /\ step'["worker"].wl.ver <= version[d]
    <3>1. step'["worker"] = s /\ pc'["worker"] \in {"provision", "update", "lock"}
      BY <1>1, <1>8, <2>4 DEF TakenUp, Stepping
    <3>2. CASE pc'["worker"] \in {"provision", "update"}
      <4>1. s.op \in {"install", "update"} BY <1>1, <1>8, <3>2 DEF TakenUp
      <4>2. s.wl.ver <= version[d] BY <1>4, <1>8, <2>2, <4>1 DEF StepBound
      <4>3. ~Finished(d) BY <1>4, <1>8, <4>1 DEF Finished
      <4> QED BY <3>1, <4>2, <4>3
    <3>3. CASE pc'["worker"] = "lock"
      <4>1. s.op \in {"pause", "resume"} /\ IsOkay(s.wl.state) /\ IsOkay(current[d][s.name].state)
        BY <1>1, <1>4, <1>8, <3>3 DEF TakenUp
      <4>2. s.name \in Active(current[d])
        <5>1. ~IsOkay(NoEntry.state) BY DEF NoEntry, IsOkay
        <5> QED BY <1>5, <4>1, <5>1 DEF RealStep, Active
      <4>3. ~Finished(d) BY <4>1, <4>2 DEF Finished
      <4>4. s.wl.ver <= version[d] BY <1>4, <1>8, <2>2, <4>1, <4>3 DEF StepBound
      <4> QED BY <3>1, <4>3, <4>4
    <3> QED BY <3>1, <3>2, <3>3
  <2>5. \A e \in Dl : \A n \in Name : Written(e, n) /\ (e # d => current'[e][n] = current[e][n])
    BY <1>6 DEF Written
  <2>6. (\A e \in Dl : Carried(e)) /\ OkayBound' /\ AbsentZero' /\ WorkerBound'
    BY <1>2, <1>3, <1>4, <1>8, <2>1, <2>3, <2>4, <2>5, MoveBound
  <2> QED BY <2>1, <2>6, JobsSame DEF Bounded
<1> QED BY <1>7, <1>8 DEF Thread

\* A manager is called.
LEMMA CallBound ==
    ASSUME ShapeInv, Bounded, NEW t \in Thread, CallManager(t)
    PROVE  Bounded'
<1>1. Work(t) /\ EngineInv /\ UNCHANGED <<present, version, current, dl, todo>>
  BY DEF Work, ShapeInv, CallManager, storeVars
<1>2. Answered(t) /\ pc[t] \in {"provision", "deprovision", "update", "lock"} BY <1>1, Answers
<1>3. CASE t = "api" BY <1>1, <1>3, ServerBound
<1>4. CASE t = "worker"
  <2>1. UNCHANGED <<queue, posting, contract>> BY <1>1, OtherThread
  <2>2. PICK d \in Dl : d = dl["worker"] BY <1>2, <1>4 DEF ShapeInv, EngineInv, ThreadsOK
  <2>3. ASSUME pc'["worker"] \in Stepping, step'["worker"].op # "uninstall"
        PROVE  ~Finished(d) /\ step'["worker"].wl.ver <= version[d]
    <3>1. step'["worker"] = step["worker"] /\ pc["worker"] \in Stepping
      BY <1>2, <1>4, <2>3 DEF Answered, Stepping
    <3>2. step["worker"].op # "uninstall" BY <2>3, <3>1
    <3>3. ~Finished(d) BY <2>2, <3>1, <3>2 DEF Finished
    <3>4. step["worker"].wl.ver <= version[d] BY <2>2, <3>1, <3>2 DEF Bounded, WorkerBound, HandBound
    <3> QED BY <3>1, <3>3, <3>4
  <2>4. \A e \in Dl : \A n \in Name : Written(e, n) /\ (e # d => current'[e][n] = current[e][n])
    BY <1>1 DEF Written
  <2>5. (\A e \in Dl : Carried(e)) /\ OkayBound' /\ AbsentZero' /\ WorkerBound'
    BY <1>1, <2>1, <2>2, <2>3, <2>4, MoveBound
  <2> QED BY <2>1, <2>5, JobsSame DEF Bounded
<1> QED BY <1>3, <1>4 DEF Thread

\* what a thread writes at the end of a step: nothing, nothing okay, or the
\* data of a step that installs, updates, pauses or resumes
LEMMA Recorded ==
    ASSUME ShapeInv, NEW t \in Thread, Record(t) \/ RemoveWorkload(t), NEW d \in Dl, d = dl[t]
    PROVE  \A e \in Dl : \A n \in Name :
             /\ \/ current'[e][n] = current[e][n]
                \/ ~IsOkay(current'[e][n].state)
                \/ step[t].op # "uninstall" /\ current'[e][n].ver = step[t].wl.ver
             /\ e # d => current'[e][n] = current[e][n]
<1>1. EngineInv /\ pc[t] \in {"record", "remove"} BY DEF ShapeInv, Record, RemoveWorkload
<1>2. PICK m \in Name : m = step[t].name
  BY <1>1 DEF EngineInv, ThreadsOK, Stepping, RealStep
<1>3. PICK x : x = WithResult(step[t].wl, result[t]) OBVIOUS
<1>4. x.ver = step[t].wl.ver /\ x.state = result[t] BY <1>3, SMT DEF WithResult
<1>5. \/ current' = current
      \/ Puts(d, m, NoEntry)
      \/ pc[t] = "record" /\ Puts(d, m, x)
  BY <1>2, <1>3 DEF Record, RemoveWorkload, Transaction, Remove, storeVars, Puts
<1>6. CASE Puts(d, m, NoEntry)
  <2>1. ~IsOkay(NoEntry.state) BY DEF NoEntry, IsOkay
  <2>2. OnlyPuts(d, NoEntry) BY <1>1, <1>6, EntryWritten
  <2> QED BY <2>1, <2>2 DEF OnlyPuts
<1>7. CASE pc[t] = "record" /\ Puts(d, m, x)
  <2>1. OnlyPuts(d, x) BY <1>1, <1>7, EntryWritten
  <2>2. step[t].op = "uninstall" => ~IsOkay(x.state)
    BY <1>4, <1>7 DEF ShapeInv, Shape, ThreadShape, IsOkay
  <2> QED BY <1>4, <2>1, <2>2 DEF OnlyPuts
<1> QED BY <1>5, <1>6, <1>7

\* The result of a step is stored.
LEMMA RecordBound ==
    ASSUME ShapeInv, Bounded, NEW t \in Thread, Record(t) \/ RemoveWorkload(t)
    PROVE  Bounded'
<1>1. /\ Work(t) /\ EngineInv /\ UNCHANGED <<present, version, dl, todo>>
      /\ pc[t] \in {"record", "remove"}
  BY DEF Work, ShapeInv, Record, RemoveWorkload, Transaction, Remove, storeVars
<1>2. PICK d \in Dl : d = dl[t] BY <1>1 DEF EngineInv, ThreadsOK
<1>3. \A e \in Dl : \A n \in Name :
        /\ \/ current'[e][n] = current[e][n]
           \/ ~IsOkay(current'[e][n].state)
           \/ step[t].op # "uninstall" /\ current'[e][n].ver = step[t].wl.ver
        /\ e # d => current'[e][n] = current[e][n]
  BY <1>2, Recorded
<1>4. CASE t = "api"
  <2>1. step[t].op = "uninstall" BY <1>1, <1>4 DEF ShapeInv, Shape, Stepping
  <2> QED BY <1>1, <1>3, <1>4, <2>1, ServerBound
<1>5. CASE t = "worker"
  <2>1. UNCHANGED <<queue, posting, contract>> BY <1>1, OtherThread
  <2>2. step[t].op # "uninstall" => ~Finished(d) /\ step[t].wl.ver <= version[d]
    BY <1>1, <1>2, <1>5 DEF Finished, Bounded, WorkerBound, HandBound, Stepping
  <2>3. pc'["worker"] = "run" \/ (pc'["worker"] = "remove" /\ step'["worker"] = step["worker"])
    <3>1. Done(t) \/ (pc' = [pc EXCEPT ![t] = "remove"] /\ UNCHANGED <<step, result>>)
      BY DEF Record, RemoveWorkload
    <3> QED BY <1>5, <3>1 DEF Done, ShapeInv, EngineInv, ThreadsOK
  <2>4. ASSUME pc'["worker"] \in Stepping, step'["worker"].op # "uninstall"
        PROVE  ~Finished(d) /\ step'["worker"].wl.ver <= version[d]
    <3>1. step'["worker"] = step["worker"] BY <2>3, <2>4 DEF Stepping
    <3>2. step["worker"].op # "uninstall" BY <2>4, <3>1
    <3> QED BY <1>5, <2>2, <3>1, <3>2
  <2>5. \A e \in Dl : \A n \in Name : Written(e, n) /\ (e # d => current'[e][n] = current[e][n])
    BY <1>1, <1>3, <2>2 DEF Written
  <2>6. (\A e \in Dl : Carried(e)) /\ OkayBound' /\ AbsentZero' /\ WorkerBound'
    BY <1>1, <1>2, <1>5, <2>1, <2>4, <2>5, MoveBound
  <2> QED BY <2>1, <2>6, JobsSame DEF Bounded
<1> QED BY <1>4, <1>5 DEF Thread

\* The job is done.  When the record of the deployment is deleted its version
\* goes back to 0, and its contract is gone: it is finished.
LEMMA EndBound ==
    ASSUME ShapeInv, Bounded, NEW t \in Thread, EndSteps(t)
    PROVE  Bounded'
<1>1. Work(t) /\ EngineInv /\ pc[t] = "run" /\ todo[t] = {} BY DEF Work, ShapeInv, EndSteps
<1>2. CASE t = "api"
  <2>1. UNCHANGED storeVars BY <1>2 DEF EndSteps
  <2> QED BY <1>1, <1>2, <2>1, ServerBound DEF storeVars
<1>3. CASE t = "worker"
  <2>1. UNCHANGED <<queue, posting, contract, todo, step>> BY <1>1, OtherThread DEF EndSteps
  <2>2. PICK d \in Dl : d = dl["worker"] BY <1>1, <1>3 DEF EngineInv, ThreadsOK
  <2>3. pc'["worker"] = "dequeue" /\ dl'["worker"] = d
    BY <1>3, <2>2 DEF EndSteps, EngineInv, ShapeInv, ThreadsOK
  <2>4. CASE UNCHANGED storeVars
    <3>1. UNCHANGED <<present, version, current>> BY <2>4 DEF storeVars
    <3>2. \A e \in Dl : \A n \in Name : Written(e, n) /\ (e # d => current'[e][n] = current[e][n])
      BY <3>1 DEF Written
    <3>3. (\A e \in Dl : Carried(e)) /\ OkayBound' /\ AbsentZero' /\ WorkerBound'
      BY <2>1, <2>2, <2>3, <3>1, <3>2, MoveBound DEF Stepping
    <3> QED BY <2>1, <3>3, JobsSame DEF Bounded
  <2>5. CASE ~UNCHANGED storeVars
    <3>1. Head(queue).op = "deprovision" /\ Delete(d) BY <1>3, <2>2, <2>5 DEF EndSteps
    <3>2. contract[d] = "deleted"
      <4>1. queue # <<>> BY <1>1, <1>3 DEF EngineInv, JobsOK
      <4>2. GoneJob(Head(queue)) BY <1>1, <4>1, FirstJob DEF ShapeInv, GoneJobs
      <4>3. Head(queue).dl = d BY <1>1, <1>3, <2>2 DEF ShapeInv, Shape
      <4> QED BY <3>1, <4>2, <4>3 DEF GoneJob
    <3>3. /\ present' = present \ {d} /\ current'[d] = NoWorkloads /\ version'[d] = 0
          /\ \A e \in Dl \ {d} : current'[e] = current[e] /\ version'[e] = version[e]
      BY <3>1 DEF Delete, Drop
    <3>4. \A n \in Name : NoWorkloads[n] = NoEntry BY DEF NoWorkloads
    <3>5. todo'["worker"] = {} /\ pc'["worker"] \notin Stepping
      BY <1>1, <1>3, <2>1, <2>3 DEF Stepping
    <3>6. Finished(d)' BY <2>1, <3>2, <3>3, <3>4, <3>5 DEF Finished, Active
    <3>7. ASSUME NEW e \in Dl PROVE Carried(e)
      <4>1. CASE e = d BY <3>6, <4>1 DEF Carried
      <4>2. CASE e # d
        <5>1. VersionKept(e) BY <3>3, <4>2 DEF VersionKept
        <5>2. Finished(e) => Finished(e)' BY <2>1, <2>3, <3>3, <4>2 DEF Finished
        <5> QED BY <5>1, <5>2 DEF Carried
      <4> QED BY <4>1, <4>2
    <3>8. OkayBound'
      <4>1. ~IsOkay(NoEntry.state) BY DEF NoEntry, IsOkay
      <4>2. \A e \in Dl : \A n \in Name : Written(e, n) BY <3>3, <3>4, <4>1 DEF Written
      <4> QED BY <1>1, <3>7, <4>2, OkayCarried DEF Bounded
    <3>9. AbsentZero' BY <3>3 DEF Bounded, AbsentZero
    <3>10. WorkerBound' BY <3>5 DEF WorkerBound, HandBound
    <3>11. JobsBound' BY <2>1, <3>7, JobsSame
    <3> QED BY <3>8, <3>9, <3>10, <3>11 DEF Bounded
  <2> QED BY <2>4, <2>5
<1> QED BY <1>2, <1>3 DEF Thread

\* No step between two starts of provisiond breaks the bound.
LEMMA BoundStep ==
    ASSUME ShapeInv, Bounded, restarts' = restarts, [EngineNext]_engineVars
    PROVE  Bounded'
<1>1. CASE UNCHANGED engineVars
  <2>1. UNCHANGED <<present, version, current, queue, posting, contract>> /\ WorkerSame
    BY <1>1 DEF engineVars, storeVars, threadVars, chainVars, WorkerSame
  <2>2. (\A e \in Dl : Carried(e)) /\ OkayBound' /\ AbsentZero' /\ WorkerBound'
    BY <2>1, QuietBound
  <2> QED BY <2>1, <2>2, JobsSame DEF Bounded
<1>2. CASE EngineNext
  <2>1. ASSUME NEW kind, Restart(kind) PROVE FALSE
    <3>1. restarts' = restarts + 1 BY <2>1 DEF Restart
    <3>2. restarts \in 0 .. MaxRestart BY DEF ShapeInv, RestOK
    <3> QED BY <3>1, <3>2, EngineAssumption, SMT
  <2>2. ASSUME NEW t \in Thread, Work(t) PROVE Bounded'
    BY <2>2, TakeBound, CallBound, RecordBound, EndBound DEF Work
  <2>3. CASE Worker BY <2>3, StartBound, StoreErrorBound, QueueBound DEF Worker
  <2>4. CASE UserStep(Dl, Requests) BY <2>4, ApiBound, DecommissionBound DEF UserStep
  <2> QED BY <1>2, <2>1, <2>2, <2>3, <2>4, QueueBound, EventsBound DEF EngineNext, SystemStep
<1> QED BY <1>1, <1>2

\* No okay workload is newer than the version of its deployment, for any
\* deployments, requests and faults, as long as provisiond is not restarted.
THEOREM VersionBoundAlways == EngineSpec => []VersionBound
<1> DEFINE Inv == ShapeInv /\ (restarts = 0 => Bounded)
<1>1. EngineInit => Inv
  <2> SUFFICES ASSUME EngineInit PROVE Bounded
    BY ShapeInvInit
  <2>1. OkayBound BY DEF EngineInit, StoreInit, OkayBound, Active, NoWorkloads
  <2>2. AbsentZero BY DEF EngineInit, StoreInit, AbsentZero
  <2>3. JobsBound
    <3>1. queue = <<>> /\ Len(<<>>) = 0 /\ 1 .. 0 = {} BY SMT DEF EngineInit
    <3> QED BY <3>1 DEF EngineInit, JobsBound
  <2>4. WorkerBound BY DEF EngineInit, WorkerBound, HandBound, Stepping, Thread
  <2> QED BY <2>1, <2>2, <2>3, <2>4 DEF Bounded
<1>2. Inv /\ [EngineNext]_engineVars => Inv'
  <2> SUFFICES ASSUME ShapeInv, restarts = 0 => Bounded, [EngineNext]_engineVars
               PROVE  ShapeInv' /\ (restarts' = 0 => Bounded')
    OBVIOUS
  <2>1. ShapeInv' BY ShapeStep
  <2>2. ASSUME restarts' = 0 PROVE Bounded'
    <3>1. restarts' = restarts \/ restarts' = restarts + 1
      BY DEF EngineNext, UserStep, SystemStep, Provision, UpdateDeployment, DecommissionCached,
             SyncOne, Enqueue, Worker, StartJob, StoreError, Dequeue, Work, TakeStep, CallManager,
             Record, RemoveWorkload, EndSteps, Chain, HandleEvent, SyncStart, Restart, engineVars
    <3>2. restarts \in 0 .. MaxRestart BY DEF ShapeInv, RestOK
    <3>3. restarts' = restarts /\ restarts = 0 BY <2>2, <3>1, <3>2, EngineAssumption, SMT
    <3> QED BY <3>3, BoundStep
  <2> QED BY <2>1, <2>2
<1>3. Inv => VersionBound BY DEF VersionBound, Bounded, OkayBound
<1> QED BY <1>1, <1>2, <1>3, PTL DEF EngineSpec

-----------------------------------------------------------------------------
\* Data never goes back to an older version, as long as nothing is paused.

\* no contract gets in its grace period
NoLocks == "lock" \notin ChainOps

\* what a thread has in its hands of n is not newer than v
Hand(t, d, n, v) ==
    dl[t] = d => /\ \A s \in todo[t] : s.name = n => s.wl.ver <= v
                 /\ pc[t] \in Stepping /\ step[t].name = n => step[t].wl.ver <= v

\* nothing that is stored of n, or may be before the next job starts, is newer than v
Ceiling(d, n, v) ==
    /\ n \in Active(current[d]) => current[d][n].ver <= v
    /\ \A t \in Thread : Hand(t, d, n, v)
    /\ pc["worker"] = "error" /\ dl["worker"] = d /\ n \in Active(reading) => reading[n].ver <= v

\* The threads stay where they are, and what is written is not newer.
LEMMA CeilingSame ==
    ASSUME NEW d \in Dl, NEW n \in Name, NEW v, Ceiling(d, n, v), UNCHANGED threadVars,
           current'[d][n] = current[d][n] \/ (current'[d][n] # NoEntry => current'[d][n].ver <= v)
    PROVE  Ceiling(d, n, v)'
<1>1. \A t : Hand(t, d, n, v) => Hand(t, d, n, v)' BY DEF Hand, threadVars
<1>2. n \in Active(current'[d]) => current'[d][n].ver <= v BY DEF Ceiling, Active
<1> QED BY <1>1, <1>2 DEF Ceiling, threadVars

\* Requests: a new deployment has data of version 0.
LEMMA RequestCeiling ==
    ASSUME EngineInv, NEW d \in Dl, NEW n \in Name, NEW v \in Nat, Ceiling(d, n, v),
           UserStep(Dl, Requests)
    PROVE  Ceiling(d, n, v)'
<1>1. PICK e \in Dl : \/ \E r \in Requests : Provision(e, r) \/ UpdateDeployment(e, r)
                      \/ \E k \in Name : DecommissionCached(e, k)
  BY DEF UserStep
<1>2. ASSUME NEW r \in Requests, Provision(e, r) PROVE Ceiling(d, n, v)'
  <2>1. r.ver = 0 /\ r.ws \in Workloads /\ \A k \in Active(r.ws) : r.ws[k].ver <= r.ver
    BY <1>2, EngineAssumption DEF Provision
  <2>2. UNCHANGED threadVars /\ current' = [current EXCEPT ![e] = WithState(r.ws, "init")]
    BY <1>2 DEF Provision, Create
  <2>3. current \in [Dl -> Workloads] BY DEF EngineInv, StoreInv, StoreTypeOK
  <2>4. current'[d] = current[d] \/ current'[d] = WithState(r.ws, "init") BY <2>2, <2>3
  <2>5. WithState(r.ws, "init")[n] # NoEntry =>
          n \in Active(r.ws) /\ WithState(r.ws, "init")[n].ver = r.ws[n].ver
    BY SMT DEF WithState, Active, WithResult
  <2>6. n \in Active(r.ws) => r.ws[n].ver \in Nat
    BY <2>1, GridAssumption DEF Active, Workloads, Entry
  <2>7. n \in Active(r.ws) => r.ws[n].ver <= v BY <2>1, <2>6, SMT
  <2> QED BY <2>2, <2>4, <2>5, <2>7, CeilingSame
<1>3. ASSUME NEW r \in Requests, UpdateDeployment(e, r) PROVE Ceiling(d, n, v)'
  <2>1. UNCHANGED threadVars /\ UNCHANGED current BY <1>3 DEF UpdateDeployment, Update
  <2> QED BY <2>1, CeilingSame
<1>4. ASSUME NEW k \in Name, DecommissionCached(e, k) PROVE Ceiling(d, n, v)'
  <2>1. /\ UNCHANGED <<current, step, reading>> /\ k \in Active(current[e])
        /\ pc' = [pc EXCEPT !["api"] = "run"] /\ dl' = [dl EXCEPT !["api"] = e]
        /\ todo' = [todo EXCEPT !["api"] = {Step("uninstall", k, current[e][k])}]
    BY <1>4 DEF DecommissionCached, storeVars
  <2>2. /\ pc'["worker"] = pc["worker"] /\ dl'["worker"] = dl["worker"] /\ todo'["worker"] = todo["worker"]
        /\ pc'["api"] = "run" /\ dl'["api"] = e /\ todo'["api"] = {Step("uninstall", k, current[e][k])}
    BY <2>1 DEF EngineInv, ThreadsOK, Thread
  <2>3. Hand("worker", d, n, v)' BY <2>1, <2>2 DEF Ceiling, Hand, Thread
  <2>4. Hand("api", d, n, v)'
    <3>1. PICK s : s = Step("uninstall", k, current[e][k]) OBVIOUS
    <3>2. s.name = k /\ s.wl = current[e][k] BY <3>1, SMT DEF Step
    <3>3. e = d /\ k = n => s.wl.ver <= v BY <2>1, <3>2 DEF Ceiling
    <3> QED BY <2>2, <3>1, <3>2, <3>3 DEF Hand, Stepping
  <2> QED BY <2>1, <2>2, <2>3, <2>4 DEF Ceiling, Thread
<1> QED BY <1>1, <1>2, <1>3, <1>4

\* The worker gives up a job, or has done it.
LEMMA ErrorCeiling ==
    ASSUME ShapeInv, NEW d \in Dl, NEW n \in Name, NEW v, Ceiling(d, n, v), StoreError \/ Dequeue
    PROVE  Ceiling(d, n, v)'
<1>0. EngineInv /\ current \in [Dl -> Workloads] /\ reading \in Workloads
  BY DEF ShapeInv, EngineInv, ThreadsOK, StoreInv, StoreTypeOK
<1>1. /\ UNCHANGED <<todo, step>> /\ pc["worker"] \in {"error", "dequeue"}
      /\ pc' = [pc EXCEPT !["worker"] = "dequeue"] \/ pc' = [pc EXCEPT !["worker"] = "idle"]
      /\ UNCHANGED dl \/ dl' = [dl EXCEPT !["worker"] = NoDl]
  BY DEF StoreError, Dequeue
<1>2. pc'["worker"] \in {"dequeue", "idle"} /\ pc'["api"] = pc["api"] /\ dl'["api"] = dl["api"]
  BY <1>0, <1>1 DEF EngineInv, ThreadsOK, Thread
<1>3. todo["worker"] = {} BY <1>1 DEF ShapeInv, Shape, ThreadShape, Thread
<1>4. Hand("worker", d, n, v)' BY <1>1, <1>2, <1>3 DEF Hand, Stepping
<1>5. Hand("api", d, n, v)' BY <1>1, <1>2 DEF Ceiling, Hand, Thread
<1>6. n \in Active(current'[d]) => current'[d][n].ver <= v
  <2>1. CASE UNCHANGED current BY <2>1 DEF Ceiling
  <2>2. CASE pc["worker"] = "error" /\ Error(dl["worker"], reading)
    <3>1. current'[d][n] = current[d][n]
          \/ (dl["worker"] = d /\ n \in Active(reading) /\ current'[d][n] = WithResult(reading[n], "error"))
      BY <1>0, <2>2 DEF Error
    <3>2. WithResult(reading[n], "error").ver = reading[n].ver BY SMT DEF WithResult
    <3> QED BY <2>2, <3>1, <3>2 DEF Ceiling, Active
  <2> QED BY <2>1, <2>2 DEF StoreError, Dequeue, storeVars
<1> QED BY <1>2, <1>4, <1>5, <1>6 DEF Ceiling, Thread

\* What a thread writes is what it has in its hands.
LEMMA WorkCeiling ==
    ASSUME ShapeInv, NEW t \in Thread, Work(t), NEW d \in Dl, NEW n \in Name, NEW v, Ceiling(d, n, v)
    PROVE  Ceiling(d, n, v)'
<1>0. EngineInv /\ pc[t] # "idle"
  BY DEF ShapeInv, Work, TakeStep, CallManager, CallProvision, CallDeprovision, CallUpdate, CallLock,
         Record, RemoveWorkload, EndSteps
<1>1. PICK x \in Dl : x = dl[t] BY <1>0 DEF EngineInv, ThreadsOK
<1>2. \A u \in Thread \ {t} : Hand(u, d, n, v)'
  <2> SUFFICES ASSUME NEW u \in Thread \ {t} PROVE Hand(u, d, n, v)'
    OBVIOUS
  <2>1. pc'[u] = pc[u] /\ dl'[u] = dl[u] /\ todo'[u] = todo[u] /\ step'[u] = step[u] BY <1>0, OtherThread
  <2> QED BY <2>1 DEF Ceiling, Hand
<1>3. Hand(t, d, n, v) BY DEF Ceiling
<1>4. ~(pc'["worker"] = "error" /\ pc["worker"] # "error") /\ UNCHANGED reading
      /\ dl'["worker"] = dl["worker"]
  <2>1. UNCHANGED reading BY DEF Work, TakeStep, CallManager, Record, RemoveWorkload, EndSteps
  <2>2. CASE t = "api"
    <3>1. "worker" \in Thread \ {t} BY <2>2 DEF Thread
    <3> QED BY <1>0, <2>1, <3>1, OtherThread
  <2>3. CASE t = "worker"
    <3>1. pc'[t] # "error"
      <4>1. CASE TakeStep(t)
        <5>1. PICK s \in todo[t] : TakenUp(t, s) BY <4>1, Taken
        <5> QED BY <5>1 DEF TakenUp
      <4>2. CASE CallManager(t) BY <1>0, <4>2, Answers DEF Answered
      <4>3. CASE Record(t) \/ RemoveWorkload(t)
        <5>1. Done(t) \/ pc' = [pc EXCEPT ![t] = "remove"] BY <4>3 DEF Record, RemoveWorkload
        <5> QED BY <1>0, <5>1 DEF Done, EngineInv, ThreadsOK
      <4>4. CASE EndSteps(t)
        <5>1. pc' = [pc EXCEPT ![t] = "dequeue"] BY <2>3, <4>4 DEF EndSteps
        <5> QED BY <1>0, <5>1 DEF EngineInv, ThreadsOK
      <4> QED BY <4>1, <4>2, <4>3, <4>4 DEF Work
    <3>2. dl'[t] = dl[t]
      <4>1. EndSteps(t) => dl' = [dl EXCEPT ![t] = dl[t]] BY <2>3 DEF EndSteps
      <4> QED BY <1>0, <4>1, OtherThread DEF EngineInv, ThreadsOK
    <3> QED BY <2>1, <2>3, <3>1, <3>2
  <2> QED BY <2>2, <2>3 DEF Thread
<1> DEFINE Writes == n \in Active(current'[d]) => current'[d][n].ver <= v
<1>5. ASSUME \A z \in Dl, k \in Name :
                \/ current'[z][k] = current[z][k] \/ current'[z][k] = NoEntry
                \/ z = d /\ k = n => current'[z][k].ver <= v
      PROVE  Writes
  BY <1>5 DEF Ceiling, Active
<1>6. CASE TakeStep(t)
  <2>1. PICK s \in todo[t] : TakenUp(t, s) BY <1>6, Taken
  <2>2. UNCHANGED dl /\ s \in RealStep BY <1>0, <1>6 DEF TakeStep, EngineInv, ThreadsOK
  <2>3. PICK m \in Name : m = s.name BY <2>2 DEF RealStep
  <2>4. Hand(t, d, n, v)' BY <1>3, <2>1, <2>2 DEF Hand, TakenUp, Stepping
  <2>5. Writes
    <3>1. CASE UNCHANGED storeVars BY <1>5, <3>1 DEF storeVars
    <3>2. CASE Add(x, m, s.wl)
      <4>1. Puts(x, m, WithResult(s.wl, "init")) BY <3>2 DEF Add, Puts
      <4>2. WithResult(s.wl, "init").ver = s.wl.ver BY SMT DEF WithResult
      <4>3. x = d /\ m = n => s.wl.ver <= v BY <1>1, <1>3, <2>3 DEF Hand
      <4>4. \A z \in Dl, k \in Name : current'[z][k] = current[z][k]
               \/ (z = x /\ k = m /\ current'[z][k] = WithResult(s.wl, "init"))
        BY <1>0, <4>1, PutsThere, SMT
      <4> QED BY <1>5, <4>2, <4>3, <4>4
    <3> QED BY <1>1, <2>1, <2>3, <3>1, <3>2 DEF TakenUp
  <2> QED BY <1>2, <1>4, <2>4, <2>5 DEF Ceiling
<1>7. CASE CallManager(t)
  <2>1. UNCHANGED <<current, dl, todo>> BY <1>7 DEF CallManager, storeVars
  <2>2. Answered(t) /\ pc[t] \in Stepping BY <1>0, <1>7, Answers DEF Stepping
  <2>3. Hand(t, d, n, v)' BY <1>3, <2>1, <2>2 DEF Hand, Answered, Stepping
  <2> QED BY <1>2, <1>4, <2>1, <2>3 DEF Ceiling
<1>8. CASE Record(t) \/ RemoveWorkload(t)
  <2>1. UNCHANGED <<dl, todo>> /\ pc[t] \in {"record", "remove"} /\ pc[t] \in Stepping
    BY <1>8 DEF Record, RemoveWorkload, Stepping
  <2>2. pc'[t] = "run" \/ step'[t] = step[t]
    <3>1. Done(t) \/ UNCHANGED step BY <1>8 DEF Record, RemoveWorkload
    <3> QED BY <1>0, <3>1 DEF Done, EngineInv, ThreadsOK
  <2>3. Hand(t, d, n, v)' BY <1>3, <2>1, <2>2 DEF Hand, Stepping
  <2>4. PICK m \in Name : m = step[t].name BY <1>0, <2>1 DEF EngineInv, ThreadsOK, RealStep
  <2>5. PICK e : e = WithResult(step[t].wl, result[t]) OBVIOUS
  <2>6. e.ver = step[t].wl.ver BY <2>5, SMT DEF WithResult
  <2>7. UNCHANGED current \/ Puts(x, m, NoEntry) \/ Puts(x, m, e)
    BY <1>1, <1>8, <2>4, <2>5 DEF Record, RemoveWorkload, Transaction, Remove, storeVars, Puts
  <2>8. \A y : Puts(x, m, y) => \A z \in Dl, k \in Name : current'[z][k] = current[z][k]
               \/ (z = x /\ k = m /\ current'[z][k] = y)
    BY <1>0, PutsThere, SMT
  <2>9. x = d /\ m = n => e.ver <= v BY <1>1, <1>3, <2>1, <2>4, <2>6 DEF Hand
  <2>10. \A z \in Dl, k \in Name :
            \/ current'[z][k] = current[z][k]
            \/ current'[z][k] = NoEntry
            \/ z = x /\ k = m /\ current'[z][k] = e
    BY <2>7, <2>8, ZenonT(30)
  <2>11. Writes BY <1>5, <2>9, <2>10
  <2> QED BY <1>2, <1>4, <2>3, <2>11 DEF Ceiling
<1>9. CASE EndSteps(t)
  <2>1. /\ UNCHANGED todo /\ todo[t] = {}
        /\ UNCHANGED storeVars \/ Delete(dl[t])
        /\ pc' = [pc EXCEPT ![t] = IF t = "worker" THEN "dequeue" ELSE "idle"]
    BY <1>9 DEF EndSteps
  <2>2. pc'[t] \notin Stepping BY <1>0, <2>1 DEF EngineInv, ThreadsOK, Stepping
  <2>3. Hand(t, d, n, v)' BY <2>1, <2>2 DEF Hand
  <2>4. \A z \in Dl : current'[z] = current[z] \/ current'[z] = NoWorkloads
    BY <2>1 DEF storeVars, Delete, Drop
  <2>5. \A k \in Name : NoWorkloads[k] = NoEntry BY DEF NoWorkloads
  <2>6. Writes BY <1>5, <2>4, <2>5
  <2> QED BY <1>2, <1>4, <2>3, <2>6 DEF Ceiling
<1> QED BY <1>6, <1>7, <1>8, <1>9 DEF Work

\* A job starts: its steps may not be newer either.
LEMMA StartCeiling ==
    ASSUME ShapeInv, StartJob, NEW d \in Dl, NEW n \in Name, NEW v, Ceiling(d, n, v),
           \/ Head(queue).dl # d
           \/ pc'["worker"] # "run"
           \/ \A s \in JobSteps(Head(queue)) : s.name = n => s.wl.ver <= v
    PROVE  Ceiling(d, n, v)'
<1>0. EngineInv /\ "worker" \in Thread /\ "api" \in Thread BY DEF ShapeInv, Thread
<1>1. /\ UNCHANGED <<current, step>> /\ dl' = [dl EXCEPT !["worker"] = Head(queue).dl]
      /\ pc["worker"] = "idle"
      /\ \/ /\ pc' = [pc EXCEPT !["worker"] = "run"]
            /\ todo' = [todo EXCEPT !["worker"] = JobSteps(Head(queue))]
         \/ /\ pc' = [pc EXCEPT !["worker"] = IF Head(queue).dl \in present THEN "error" ELSE "dequeue"]
            /\ reading' = current[Head(queue).dl]
            /\ UNCHANGED todo
  BY DEF StartJob, storeVars
<1>2. /\ dl'["worker"] = Head(queue).dl /\ dl'["api"] = dl["api"]
      /\ pc'["api"] = pc["api"] /\ todo'["api"] = todo["api"]
      /\ \/ pc'["worker"] = "run" /\ todo'["worker"] = JobSteps(Head(queue))
         \/ /\ pc'["worker"] \in {"error", "dequeue"} /\ todo'["worker"] = todo["worker"]
            /\ reading' = current[Head(queue).dl]
  BY <1>0, <1>1 DEF EngineInv, ThreadsOK, Thread
<1>3. todo["worker"] = {} BY <1>0, <1>1 DEF ShapeInv, Shape, ThreadShape
<1>4. Hand("worker", d, n, v)' BY <1>2, <1>3 DEF Hand, Stepping
<1>5. Hand("api", d, n, v)' BY <1>0, <1>1, <1>2 DEF Ceiling, Hand
<1>6. pc'["worker"] = "error" /\ dl'["worker"] = d => reading' = current[d] BY <1>2
<1> QED BY <1>1, <1>4, <1>5, <1>6 DEF Ceiling, Thread

\* A restart drops what the threads have in their hands, and some deployments.
LEMMA RestartCeiling ==
    ASSUME NEW d \in Dl, NEW n \in Name, NEW v, NEW kind, Restart(kind),
           n \in Active(current[d]) => current[d][n].ver <= v
    PROVE  Ceiling(d, n, v)'
<1>1. /\ pc' = [t \in Thread |-> "idle"] /\ todo' = [t \in Thread |-> {}] /\ CleanDeleted
  BY DEF Restart
<1>2. \A t \in Thread : Hand(t, d, n, v)' BY <1>1 DEF Hand, Stepping
<1>3. current'[d] = current[d] \/ current'[d] = NoWorkloads BY <1>1 DEF CleanDeleted, Drop
<1>4. n \in Active(current'[d]) => current'[d][n].ver <= v BY <1>3 DEF Active, NoWorkloads
<1> QED BY <1>1, <1>2, <1>4 DEF Ceiling, Thread

\* Only a job that starts can bring newer data.
LEMMA CeilingStep ==
    ASSUME ShapeInv, [EngineNext]_engineVars, ~StartJob,
           NEW d \in Dl, NEW n \in Name, NEW v \in Nat, Ceiling(d, n, v)
    PROVE  Ceiling(d, n, v)'
<1>0. EngineInv BY DEF ShapeInv
<1>1. CASE UNCHANGED engineVars
  <2>1. UNCHANGED threadVars /\ UNCHANGED current BY <1>1 DEF engineVars, storeVars
  <2> QED BY <2>1, CeilingSame
<1>2. CASE UserStep(Dl, Requests) BY <1>0, <1>2, RequestCeiling
<1>3. CASE \/ \E e \in Dl : SyncOne(e)
           \/ \E p \in Poster : Enqueue(p)
           \/ Chain \/ HandleEvent \/ SyncStart
  <2>1. UNCHANGED threadVars /\ UNCHANGED current
    BY <1>3 DEF SyncOne, Enqueue, Chain, HandleEvent, SyncStart, storeVars
  <2> QED BY <2>1, CeilingSame
<1>4. CASE Worker BY <1>4, ErrorCeiling DEF Worker
<1>5. CASE \E t \in Thread : Work(t) BY <1>5, WorkCeiling
<1>6. CASE \E kind \in {"crash", "reboot"} : Restart(kind) BY <1>6, RestartCeiling DEF Ceiling
<1> QED BY <1>1, <1>2, <1>3, <1>4, <1>5, <1>6 DEF EngineNext, SystemStep

\* no contract is in its grace period, and no event or round says so
NoGrace ==
    /\ \A d \in Dl : contract[d] # "grace"
    /\ locks = <<>> /\ sync.locked = {}

\* nothing is paused, or about to be
NonePaused ==
    /\ \A d \in Dl, n \in Name : current[d][n].state # "paused"
    /\ \A t \in Thread : pc[t] # "lock" /\ result[t] # "paused"

\* a job does not pause or resume, and what it adds is of its own version
PlainJob(j) ==
    /\ j.op \notin {"pause", "resume"}
    /\ j.op = "provision" => j.ver = 0
    /\ j.op = "update" => \A n \in Active(j.target) \ Active(j.source) : j.target[n].ver = j.ver

\* the same for all jobs, queued or about to be
PlainJobs ==
    /\ \A i \in 1 .. Len(queue) : PlainJob(queue[i])
    /\ \A p \in Poster : PlainJob(posting[p])

\* the grace period never begins
LEMMA NoGraceStep ==
    ASSUME NoLocks, EngineInv, RestOK, NoGrace, NonePaused, [EngineNext]_engineVars
    PROVE  NoGrace'
<1>1. CASE \/ UserStep(Dl, Requests) \/ UNCHANGED engineVars
           \/ Worker \/ (\E t \in Thread : Work(t)) \/ (\E p \in Poster : Enqueue(p))
  <2>1. UNCHANGED <<contract, locks, sync>>
    BY <1>1 DEF UserStep, Provision, UpdateDeployment, DecommissionCached, engineVars, chainVars, Worker,
                StartJob, StoreError, Dequeue, Work, TakeStep, CallManager, Record, RemoveWorkload,
                EndSteps, Enqueue
  <2> QED BY <2>1 DEF NoGrace
<1>2. CASE Chain
  <2>1. UNCHANGED sync BY <1>2 DEF Chain
  <2>2. CASE LoseEvent BY <2>1, <2>2 DEF LoseEvent, NoGrace
  <2>3. ASSUME NEW d \in Dl, ChangeHash(d) PROVE NoGrace' BY <2>1, <2>3 DEF ChangeHash, NoGrace
  <2>4. ASSUME NEW d \in Dl, Cancel(d) PROVE NoGrace'
    <3>1. contract' = [contract EXCEPT ![d] = "deleted"] /\ UNCHANGED locks BY <2>4 DEF Cancel
    <3>2. contract \in [Dl -> {"created", "grace", "deleted"}] BY DEF RestOK
    <3> QED BY <2>1, <3>1, <3>2 DEF NoGrace
  <2>5. ASSUME NEW d \in Dl, NEW lock \in BOOLEAN, SetGrace(d, lock) PROVE FALSE
    BY <2>5 DEF SetGrace, NoGrace, NoLocks
  <2> QED BY <1>2, <2>2, <2>3, <2>4, <2>5 DEF Chain
<1>3. CASE HandleEvent
  <2>1. UNCHANGED <<contract, locks, sync>>
    BY <1>3 DEF HandleEvent, HandleLock, HandleCancel, NoGrace
  <2> QED BY <2>1 DEF NoGrace
<1>4. CASE SyncStart
  <2>1. UNCHANGED <<contract, locks>> BY <1>4 DEF SyncStart, chainVars
  <2>2. \A d \in present : ~IsLocked(current[d])
    BY DEF NonePaused, IsLocked, Active, EngineInv, StoreInv, StoreTypeOK
  <2>3. sync'.locked = {d \in {e \in present : HasOkay(current[e])} : IsLocked(current[d])}
    BY <1>4, SMT DEF SyncStart
  <2>4. sync'.locked = {} BY <2>2, <2>3
  <2> QED BY <2>1, <2>4 DEF NoGrace
<1>5. ASSUME NEW d \in Dl, SyncOne(d) PROVE NoGrace'
  <2>1. UNCHANGED <<contract, locks>> BY <1>5 DEF SyncOne, chainVars
  <2>2. sync' = NoSync \/ sync' = [todo |-> sync.todo \ {d}, gone |-> sync.gone, locked |-> sync.locked]
    BY <1>5 DEF SyncOne
  <2>3. sync'.locked = {} \/ sync'.locked = sync.locked BY <2>2, SMT DEF NoSync
  <2> QED BY <2>1, <2>3 DEF NoGrace
<1>6. ASSUME NEW kind, Restart(kind) PROVE NoGrace'
  <2>1. UNCHANGED <<contract, locks>> /\ sync' = NoSync BY <1>6 DEF Restart, chainVars
  <2>2. NoSync.locked = {} BY SMT DEF NoSync
  <2> QED BY <2>1, <2>2 DEF NoGrace
<1> QED BY <1>1, <1>2, <1>3, <1>4, <1>5, <1>6 DEF EngineNext, SystemStep

\* A job is posted.
LEMMA PostedPlain ==
    ASSUME EngineInv, PlainJobs, UNCHANGED queue, NEW p \in Poster, NEW j, PlainJob(j),
           Post(p, j) \/ UNCHANGED posting
    PROVE  PlainJobs'
<1>1. \A q \in Poster : posting'[q] = posting[q] \/ posting'[q] = j
  BY DEF Post, EngineInv, JobsOK
<1> QED BY <1>1 DEF PlainJobs

\* the job that deprovisions a deployment
LEMMA PostedGonePlain ==
    ASSUME EngineInv, PlainJobs, UNCHANGED queue, NEW p \in Poster, NEW d, PostCurrent(p, "deprovision", d)
    PROVE  PlainJobs'
<1>1. PICK j : j = Job("deprovision", d, version[d], current[d], NoWorkloads) OBVIOUS
<1>2. j.op = "deprovision" BY <1>1, SMT DEF Job
<1>3. PlainJob(j) BY <1>2 DEF PlainJob
<1>4. Post(p, j) \/ UNCHANGED posting BY <1>1 DEF PostCurrent
<1> QED BY <1>3, <1>4, PostedPlain

\* Requests post jobs whose new workloads are of the version of the request.
LEMMA RequestPlain ==
    ASSUME EngineInv, PlainJobs, UserStep(Dl, Requests)
    PROVE  PlainJobs'
<1>1. PICK d \in Dl : \/ \E r \in Requests : Provision(d, r) \/ UpdateDeployment(d, r)
                      \/ \E k \in Name : DecommissionCached(d, k)
  BY DEF UserStep
<1>2. ASSUME NEW r \in Requests, Provision(d, r) PROVE PlainJobs'
  <2>1. PICK j : j = Job("provision", d, 0, WithState(r.ws, "init"), NoWorkloads) OBVIOUS
  <2>2. j.op = "provision" /\ j.ver = 0 BY <2>1, SMT DEF Job
  <2>3. PlainJob(j) BY <2>2 DEF PlainJob
  <2> QED BY <1>2, <2>1, <2>3, PostedPlain DEF Provision, Poster
<1>3. ASSUME NEW r \in Requests, UpdateDeployment(d, r) PROVE PlainJobs'
  <2>1. PICK j : j = Job("update", d, r.ver, WithState(r.ws, "init"), current[d]) OBVIOUS
  <2>2. /\ j.op = "update" /\ j.ver = r.ver /\ j.source = current[d] /\ j.target = WithState(r.ws, "init")
    BY <2>1, SMT DEF Job
  <2>3. \A n \in Name : WithState(r.ws, "init")[n] # NoEntry =>
          n \in Active(r.ws) /\ WithState(r.ws, "init")[n].ver = r.ws[n].ver
    BY SMT DEF WithState, Active, WithResult
  <2>4. \A n \in Active(r.ws) \ Active(current[d]) : r.ws[n].ver = r.ver
    BY <1>3 DEF UpdateDeployment, UpgradeOk
  <2>5. \A n \in Active(j.target) \ Active(j.source) : j.target[n].ver = j.ver
    BY <2>2, <2>3, <2>4 DEF Active
  <2>6. PlainJob(j) BY <2>2, <2>5 DEF PlainJob
  <2> QED BY <1>3, <2>1, <2>6, PostedPlain DEF UpdateDeployment, Poster
<1>4. ASSUME NEW k \in Name, DecommissionCached(d, k) PROVE PlainJobs'
  <2>1. UNCHANGED <<queue, posting>> BY <1>4 DEF DecommissionCached
  <2> QED BY <2>1 DEF PlainJobs
<1> QED BY <1>1, <1>2, <1>3, <1>4

\* No other step adds a job but those of a cancelled contract and of a reboot.
LEMMA PlainStep ==
    ASSUME EngineInv, NoGrace, PlainJobs, [EngineNext]_engineVars
    PROVE  PlainJobs'
<1>0. queue \in Seq(RealJob) /\ posting \in [Poster -> RealJob \cup {NoJob}] BY DEF EngineInv, JobsOK
<1>1. NoJob.op = "none" BY SMT DEF NoJob, Job
<1>2. PlainJob(NoJob) BY <1>1 DEF PlainJob
<1>3. CASE UserStep(Dl, Requests) BY <1>3, RequestPlain
<1>4. CASE \/ Chain \/ SyncStart \/ StartJob \/ StoreError \/ (\E t \in Thread : Work(t))
           \/ UNCHANGED engineVars
  <2>1. UNCHANGED <<queue, posting>>
    BY <1>4 DEF Chain, SyncStart, StartJob, StoreError, Work, TakeStep, CallManager, Record,
                RemoveWorkload, EndSteps, engineVars
  <2> QED BY <2>1 DEF PlainJobs
<1>5. ASSUME NEW p \in Poster, Enqueue(p) PROVE PlainJobs'
  <2>1. queue' = Append(queue, posting[p]) /\ posting' = [posting EXCEPT ![p] = NoJob]
        /\ posting[p] \in RealJob
    BY <1>0, <1>5 DEF Enqueue
  <2>2. \A i \in 1 .. Len(queue') : (i \in 1 .. Len(queue) /\ queue'[i] = queue[i]) \/ queue'[i] = posting[p]
    BY <1>0, <2>1, SMT
  <2>3. \A q \in Poster : posting'[q] = posting[q] \/ posting'[q] = NoJob BY <1>0, <2>1
  <2> QED BY <1>2, <2>2, <2>3 DEF PlainJobs
<1>6. CASE Dequeue
  <2>1. queue' = Tail(queue) /\ UNCHANGED posting /\ queue # <<>> BY <1>6 DEF Dequeue, EngineInv, JobsOK
  <2>2. \A i \in 1 .. Len(queue') : i + 1 \in 1 .. Len(queue) /\ queue'[i] = queue[i + 1]
    BY <1>0, <2>1, SMT
  <2> QED BY <2>1, <2>2 DEF PlainJobs
<1>7. CASE HandleEvent
  <2>1. UNCHANGED queue BY <1>7 DEF HandleEvent
  <2>2. \E d \in Dl : PostCurrent("events", "deprovision", d)
    BY <1>7 DEF HandleEvent, HandleLock, HandleCancel, NoGrace
  <2> QED BY <2>1, <2>2, PostedGonePlain DEF Poster
<1>8. ASSUME NEW d \in Dl, SyncOne(d) PROVE PlainJobs'
  <2>1. UNCHANGED queue BY <1>8 DEF SyncOne
  <2>2. PostCurrent("sync", "deprovision", d) \/ UNCHANGED posting
    <3>1. (contract[d] = "grace") = (d \in sync.locked) BY SMT DEF NoGrace
    <3> QED BY <1>8, <3>1 DEF SyncOne
  <2> QED BY <1>2, <2>1, <2>2, PostedGonePlain, PostedPlain DEF Poster
<1>9. ASSUME NEW kind, Restart(kind) PROVE PlainJobs'
  <2>1. posting' = [p \in Poster |-> NoJob] /\ (queue' = queue \/ queue' \in BootQueues)
    BY <1>9 DEF Restart
  <2>2. \A i \in 1 .. Len(queue') :
          \/ queue'[i] = queue[i] /\ i \in 1 .. Len(queue)
          \/ PlainJob(queue'[i])
    <3>1. CASE queue' = queue BY <3>1
    <3>2. CASE queue' \in BootQueues
      <4> SUFFICES ASSUME NEW i \in 1 .. Len(queue') PROVE PlainJob(queue'[i])
        OBVIOUS
      <4>1. PICK d \in Kept : queue'[i] = Job("reprovision", d, version[d], current[d], NoWorkloads)
        BY <3>2, BootJob
      <4>2. queue'[i].op = "reprovision" BY <4>1, SMT DEF Job
      <4> QED BY <4>2 DEF PlainJob
    <3> QED BY <2>1, <3>1, <3>2
  <2> QED BY <1>2, <2>1, <2>2 DEF PlainJobs
<1> QED BY <1>3, <1>4, <1>5, <1>6, <1>7, <1>8, <1>9 DEF EngineNext, SystemStep, Worker

\* The threads and the storage, when nothing but thread t moves.
LEMMA PausedSame ==
    ASSUME NonePaused, NEW t \in Thread,
           \A u \in Thread \ {t} : pc'[u] = pc[u] /\ result'[u] = result[u],
           pc'[t] # "lock", result'[t] # "paused",
           \A d \in Dl, n \in Name : current'[d][n] = current[d][n] \/ current'[d][n].state # "paused"
    PROVE  NonePaused'
BY DEF NonePaused

\* A thread neither pauses a workload nor stores one as paused.
LEMMA WorkPaused ==
    ASSUME JobInv, PlainJobs, NonePaused, NEW t \in Thread, Work(t)
    PROVE  NonePaused'
<1>0. EngineInv /\ ShapeInv /\ OfJob BY DEF JobInv, ShapeInv
<1>1. \A u \in Thread \ {t} : pc'[u] = pc[u] /\ result'[u] = result[u] BY <1>0, OtherThread
<1>2. result[t] # "paused" /\ pc[t] # "lock" BY DEF NonePaused
<1>3. pc[t] # "idle"
  BY DEF Work, TakeStep, CallManager, CallProvision, CallDeprovision, CallUpdate, CallLock,
         Record, RemoveWorkload, EndSteps
<1>4. PICK x \in Dl : x = dl[t] BY <1>0, <1>3 DEF EngineInv, ThreadsOK
<1>5. NoEntry.state # "paused" BY SMT DEF NoEntry
<1>6. CASE TakeStep(t)
  <2>1. PICK s \in todo[t] : TakenUp(t, s) BY <1>0, <1>6, Taken
  <2>2. UNCHANGED result /\ s \in RealStep BY <1>0, <1>6 DEF TakeStep, EngineInv, ThreadsOK
  <2>3. s.op \notin {"pause", "resume"}
    <3>1. CASE t = "api" BY <1>0, <3>1 DEF ShapeInv, Shape
    <3>2. CASE t = "worker"
      <4>1. queue # <<>> /\ s \in JobSteps(Head(queue)) BY <1>0, <1>3, <3>2 DEF EngineInv, JobsOK, OfJob
      <4>2. Head(queue) = queue[1] /\ Head(queue) \in RealJob /\ 1 \in 1 .. Len(queue)
        BY <1>0, <4>1, FirstJob
      <4>3. Head(queue).op \notin {"pause", "resume"} BY <4>2 DEF PlainJobs, PlainJob
      <4> QED BY <4>1, <4>2, <4>3, StepJob
    <3> QED BY <3>1, <3>2 DEF Thread
  <2>4. pc'[t] # "lock" BY <2>1, <2>3 DEF TakenUp
  <2>5. PICK m \in Name : m = s.name BY <2>2 DEF RealStep
  <2>6. \A d \in Dl, n \in Name : current'[d][n] = current[d][n] \/ current'[d][n].state # "paused"
    <3>1. CASE UNCHANGED storeVars BY <3>1 DEF storeVars
    <3>2. CASE Add(x, m, s.wl)
      <4>1. Puts(x, m, WithResult(s.wl, "init")) BY <3>2 DEF Add, Puts
      <4>2. WithResult(s.wl, "init").state # "paused" BY SMT DEF WithResult
      <4>3. OnlyPuts(x, WithResult(s.wl, "init")) BY <1>0, <4>1, EntryWritten
      <4> QED BY <4>2, <4>3 DEF OnlyPuts
    <3> QED BY <1>4, <2>1, <2>5, <3>1, <3>2 DEF TakenUp
  <2> QED BY <1>1, <1>2, <2>2, <2>4, <2>6, PausedSame
<1>7. CASE CallManager(t)
  <2>1. UNCHANGED current BY <1>7 DEF CallManager, storeVars
  <2>2. pc[t] \in Stepping /\ pc'[t] \in {"run", "record"} BY <1>0, <1>7, Answers DEF Answered, Stepping
  <2>3. PICK m \in Name : m = step[t].name BY <1>0, <2>2 DEF EngineInv, ThreadsOK, RealStep
  <2>4. current[x][m].state # "paused" BY DEF NonePaused
  <2>5. \/ Done(t) \/ Answer(t, "ok") \/ Answer(t, "error") \/ Answer(t, "deleted")
        \/ Answer(t, "unchanged") \/ Answer(t, current[x][m].state)
    BY <1>2, <1>4, <1>7, <2>3, <2>4
       DEF CallManager, CallProvision, CallDeprovision, CallUpdate, CallLock
  <2>6. result'[t] # "paused" BY <1>0, <2>4, <2>5 DEF Done, Answer, EngineInv, ThreadsOK
  <2> QED BY <1>1, <2>1, <2>2, <2>6, PausedSame
<1>8. CASE Record(t) \/ RemoveWorkload(t)
  <2>1. pc[t] \in {"record", "remove"} /\ pc[t] \in Stepping BY <1>8 DEF Record, RemoveWorkload, Stepping
  <2>2. Done(t) \/ (pc' = [pc EXCEPT ![t] = "remove"] /\ UNCHANGED result) BY <1>8 DEF Record, RemoveWorkload
  <2>3. pc'[t] # "lock" /\ result'[t] # "paused" BY <1>0, <1>2, <2>2 DEF Done, EngineInv, ThreadsOK
  <2>4. PICK m \in Name : m = step[t].name BY <1>0, <2>1 DEF EngineInv, ThreadsOK, RealStep
  <2>5. PICK e : e = WithResult(step[t].wl, result[t]) OBVIOUS
  <2>6. e.state # "paused" BY <1>2, <2>5, SMTT(30) DEF WithResult
  <2>7. UNCHANGED current \/ Puts(x, m, NoEntry) \/ Puts(x, m, e)
    BY <1>4, <1>8, <2>4, <2>5 DEF Record, RemoveWorkload, Transaction, Remove, storeVars, Puts
  <2>8. UNCHANGED current \/ OnlyPuts(x, NoEntry) \/ OnlyPuts(x, e) BY <1>0, <2>7, EntryWritten
  <2>9. \A d \in Dl, n \in Name : current'[d][n] = current[d][n] \/ current'[d][n].state # "paused"
    BY <1>5, <2>6, <2>8 DEF OnlyPuts
  <2> QED BY <1>1, <2>3, <2>9, PausedSame
<1>9. CASE EndSteps(t)
  <2>1. /\ UNCHANGED result
        /\ UNCHANGED storeVars \/ Delete(dl[t])
        /\ pc' = [pc EXCEPT ![t] = IF t = "worker" THEN "dequeue" ELSE "idle"]
    BY <1>9 DEF EndSteps
  <2>2. pc'[t] # "lock" BY <1>0, <2>1 DEF EngineInv, ThreadsOK
  <2>3. \A d \in Dl : current'[d] = current[d] \/ current'[d] = NoWorkloads
    BY <2>1 DEF storeVars, Delete, Drop
  <2>4. \A n \in Name : NoWorkloads[n] = NoEntry BY DEF NoWorkloads
  <2>5. \A d \in Dl, n \in Name : current'[d][n] = current[d][n] \/ current'[d][n].state # "paused"
    BY <1>5, <2>3, <2>4
  <2> QED BY <1>1, <1>2, <2>1, <2>2, <2>5, PausedSame
<1> QED BY <1>6, <1>7, <1>8, <1>9 DEF Work

\* Nor do the other steps.
LEMMA PausedStep ==
    ASSUME JobInv, PlainJobs, NonePaused, [EngineNext]_engineVars
    PROVE  NonePaused'
<1>0. /\ EngineInv /\ current \in [Dl -> Workloads] /\ "worker" \in Thread /\ "api" \in Thread
      /\ Thread \ {"worker"} = {"api"} /\ Thread \ {"api"} = {"worker"}
  BY DEF JobInv, ShapeInv, EngineInv, StoreInv, StoreTypeOK, Thread
<1>1. NoEntry.state # "paused" BY SMT DEF NoEntry
<1>2. result["worker"] # "paused" /\ result["api"] # "paused" /\ pc["worker"] # "lock"
  BY <1>0 DEF NonePaused
<1>3. ASSUME NEW d \in Dl, NEW r \in Requests, Provision(d, r) PROVE NonePaused'
  <2>1. UNCHANGED <<pc, result>> /\ current' = [current EXCEPT ![d] = WithState(r.ws, "init")]
    BY <1>3 DEF Provision, Create, threadVars
  <2>2. \A n \in Name : WithState(r.ws, "init")[n].state # "paused" BY SMT DEF WithState, WithResult, NoEntry
  <2>3. \A e \in Dl : current'[e] = current[e] \/ current'[e] = WithState(r.ws, "init") BY <1>0, <2>1
  <2> QED BY <2>1, <2>2, <2>3 DEF NonePaused
<1>4. ASSUME NEW d \in Dl, NEW k \in Name, DecommissionCached(d, k) PROVE NonePaused'
  <2>1. UNCHANGED <<current, result>> /\ pc' = [pc EXCEPT !["api"] = "run"]
    BY <1>4 DEF DecommissionCached, storeVars
  <2>2. pc'["api"] = "run" /\ pc'["worker"] = pc["worker"] BY <1>0, <2>1 DEF EngineInv, ThreadsOK
  <2> QED BY <1>0, <1>2, <2>1, <2>2, PausedSame
<1>5. CASE \/ \E d \in Dl : (\E r \in Requests : UpdateDeployment(d, r)) \/ SyncOne(d)
           \/ \E p \in Poster : Enqueue(p)
           \/ Chain \/ HandleEvent \/ SyncStart \/ UNCHANGED engineVars
  <2>1. UNCHANGED <<current, pc, result>>
    BY <1>5 DEF UpdateDeployment, Update, SyncOne, Enqueue, Chain, HandleEvent, SyncStart, engineVars,
                threadVars, storeVars
  <2> QED BY <2>1 DEF NonePaused
<1>6. CASE StartJob \/ Dequeue
  <2>1. UNCHANGED <<current, result>> /\ \E at \in {"run", "error", "dequeue", "idle"} :
           pc' = [pc EXCEPT !["worker"] = at]
    BY <1>6 DEF StartJob, Dequeue, storeVars
  <2>2. pc'["worker"] # "lock" /\ pc'["api"] = pc["api"] BY <1>0, <2>1 DEF EngineInv, ThreadsOK
  <2> QED BY <1>0, <1>2, <2>1, <2>2, PausedSame
<1>7. CASE StoreError
  <2>1. /\ UNCHANGED result /\ pc' = [pc EXCEPT !["worker"] = "dequeue"]
        /\ UNCHANGED current \/ Error(dl["worker"], reading)
    BY <1>7 DEF StoreError, storeVars
  <2>2. pc'["worker"] # "lock" /\ pc'["api"] = pc["api"] BY <1>0, <2>1 DEF EngineInv, ThreadsOK
  <2>3. \A n : WithResult(reading[n], "error").state # "paused" BY SMT DEF WithResult
  <2>4. \A d \in Dl, n \in Name :
          current'[d][n] = current[d][n] \/ current'[d][n] = WithResult(reading[n], "error")
    <3>1. CASE UNCHANGED current BY <3>1
    <3>2. CASE Error(dl["worker"], reading)
      <4>1. PICK x \in Dl : x = dl["worker"] BY <1>0, <1>7 DEF StoreError, EngineInv, ThreadsOK
      <4>2. current' = [current EXCEPT ![x] = [n \in Name |->
                  IF n \in Active(reading) THEN WithResult(reading[n], "error") ELSE current[x][n]]]
        BY <3>2, <4>1 DEF Error
      <4> QED BY <1>0, <4>2
    <3> QED BY <2>1, <3>1, <3>2
  <2> QED BY <1>0, <1>2, <2>1, <2>2, <2>3, <2>4, PausedSame
<1>8. CASE \E t \in Thread : Work(t) BY <1>8, WorkPaused
<1>9. ASSUME NEW kind, Restart(kind) PROVE NonePaused'
  <2>1. /\ pc' = [t \in Thread |-> "idle"] /\ result' = [t \in Thread |-> "none"] /\ CleanDeleted
    BY <1>9 DEF Restart
  <2>2. \A d \in Dl : current'[d] = current[d] \/ current'[d] = NoWorkloads
    BY <2>1 DEF CleanDeleted, Drop
  <2>3. \A n \in Name : NoWorkloads[n] = NoEntry BY DEF NoWorkloads
  <2> QED BY <1>1, <2>1, <2>2, <2>3 DEF NonePaused
<1> QED BY <1>3, <1>4, <1>5, <1>6, <1>7, <1>8, <1>9 DEF EngineNext, UserStep, SystemStep, Worker

\* a reboot has queued n of d with data of version v
BootAt(d, n, v) ==
    \E i \in 1 .. Len(queue) : /\ queue[i].op = "reprovision" /\ queue[i].dl = d
                               /\ n \in Active(queue[i].target) /\ queue[i].target[n].ver = v

\* nothing newer is stored, or comes before it is reinstalled
BootData == \A d \in Dl, n \in Name, v \in Nat : BootAt(d, n, v) => Ceiling(d, n, v)

\* the worker installs or updates version v of d, which was validated
ValidAt(d, v) ==
    /\ pc["worker"] \in {"run"} \cup Stepping /\ dl["worker"] = d
    /\ Head(queue).op \in {"provision", "update"} /\ Head(queue).ver = v

\* nothing newer is stored, or comes before that is done
ValidData == \A d \in Dl, n \in Name, v \in Nat : ValidAt(d, v) => Ceiling(d, n, v)

\* the inductive invariant
MonotoneInv == JobInv /\ DataInv /\ NoGrace /\ NonePaused /\ PlainJobs /\ BootData /\ ValidData

\* The jobs of a reboot are queued by the reboot only.
LEMMA BootAtBefore ==
    ASSUME JobInv, [EngineNext]_engineVars, NEW d, NEW n, NEW v, BootAt(d, n, v)'
    PROVE  \/ BootAt(d, n, v)
           \/ \E kind : Restart(kind) /\ queue' \in BootQueues
<1>0. EngineInv /\ queue \in Seq(RealJob) BY DEF JobInv, ShapeInv, EngineInv, JobsOK
<1>1. PICK i \in 1 .. Len(queue') : /\ queue'[i].op = "reprovision" /\ queue'[i].dl = d
                                    /\ n \in Active(queue'[i].target) /\ queue'[i].target[n].ver = v
  BY DEF BootAt, Active
<1>2. ASSUME \E k \in 1 .. Len(queue) : queue'[i] = queue[k] PROVE BootAt(d, n, v)
  BY <1>1, <1>2 DEF BootAt
<1>3. CASE \/ UserStep(Dl, Requests) \/ Chain \/ SyncStart \/ StartJob \/ StoreError
           \/ HandleEvent \/ (\E e \in Dl : SyncOne(e)) \/ (\E t \in Thread : Work(t))
           \/ UNCHANGED engineVars
  <2>1. UNCHANGED queue
    BY <1>3 DEF UserStep, Provision, UpdateDeployment, DecommissionCached, Chain, SyncStart, StartJob,
                StoreError, HandleEvent, SyncOne, Work, TakeStep, CallManager, Record,
                RemoveWorkload, EndSteps, engineVars
  <2> QED BY <1>2, <2>1
<1>4. ASSUME NEW p \in Poster, Enqueue(p) PROVE BootAt(d, n, v)
  <2>1. queue' = Append(queue, posting[p]) /\ posting[p] \in RealJob
    BY <1>0, <1>4 DEF Enqueue, EngineInv, JobsOK
  <2>2. (i \in 1 .. Len(queue) /\ queue'[i] = queue[i]) \/ queue'[i] = posting[p]
    BY <1>0, <2>1, FirstStays
  <2>3. posting[p].op # "reprovision" BY DEF JobInv, BootFirst
  <2> QED BY <1>1, <1>2, <2>2, <2>3
<1>5. CASE Dequeue
  <2>1. queue' = Tail(queue) /\ queue # <<>> BY <1>5, <1>0 DEF Dequeue, EngineInv, JobsOK
  <2> QED BY <1>0, <1>2, <2>1, RestOfJobs
<1>6. ASSUME NEW kind, Restart(kind) PROVE BootAt(d, n, v) \/ queue' \in BootQueues
  BY <1>2, <1>6 DEF Restart
<1> QED BY <1>3, <1>4, <1>5, <1>6 DEF EngineNext, SystemStep, Worker

\* What a reboot has queued stays the latest.
LEMMA BootDataStep ==
    ASSUME MonotoneInv, [EngineNext]_engineVars
    PROVE  BootData'
<1>0. JobInv /\ ShapeInv /\ EngineInv /\ queue \in Seq(RealJob) /\ current \in [Dl -> Workloads]
  BY DEF MonotoneInv, JobInv, ShapeInv, EngineInv, JobsOK, StoreInv, StoreTypeOK
<1> SUFFICES ASSUME NEW d \in Dl, NEW n \in Name, NEW v \in Nat, BootAt(d, n, v)'
             PROVE  Ceiling(d, n, v)'
  BY DEF BootData
<1>1. CASE BootAt(d, n, v)
  <2>1. Ceiling(d, n, v) BY <1>1 DEF MonotoneInv, BootData
  <2>2. CASE ~StartJob BY <1>0, <2>1, <2>2, CeilingStep
  <2>3. CASE StartJob
    <3>1. PICK i \in 1 .. Len(queue) : /\ queue[i].op = "reprovision" /\ queue[i].dl = d
                                       /\ n \in Active(queue[i].target) /\ queue[i].target[n].ver = v
      BY <1>1 DEF BootAt
    <3>2. Head(queue) = queue[1] /\ 1 \in 1 .. Len(queue) BY <1>0, <2>3, FirstJob DEF StartJob
    <3>3. i = 1 \/ 1 < i BY SMT
    <3>4. queue[1].op = "reprovision" BY <1>0, <3>1, <3>2, <3>3 DEF JobInv, BootFirst
    <3>5. CASE queue[1].dl = d
      <4>1. queue[1].target = queue[i].target BY <1>0, <3>1, <3>2, <3>4, <3>5 DEF JobInv, BootFirst
      <4>2. ASSUME NEW s \in JobSteps(Head(queue)), s.name = n PROVE s.wl.ver <= v
        <5>1. s \in Steps("install", queue[1].target) BY <3>2, <3>4 DEF JobSteps
        <5>2. PICK k \in Active(queue[1].target) : s = Step("install", k, queue[1].target[k])
          BY <5>1 DEF Steps
        <5>3. s.name = k /\ s.wl = queue[1].target[k] BY <5>2, SMT DEF Step
        <5>4. s.wl.ver = v BY <3>1, <4>1, <4>2, <5>3
        <5> QED BY <5>4, SMT
      <4> QED BY <1>0, <2>1, <2>3, <4>2, StartCeiling
    <3>6. CASE queue[1].dl # d BY <1>0, <2>1, <2>3, <3>2, <3>6, StartCeiling
    <3> QED BY <3>5, <3>6
  <2> QED BY <2>2, <2>3
<1>2. ASSUME NEW kind, Restart(kind), queue' \in BootQueues PROVE Ceiling(d, n, v)'
  <2>1. PICK i \in 1 .. Len(queue') : /\ queue'[i].op = "reprovision" /\ queue'[i].dl = d
                                      /\ n \in Active(queue'[i].target) /\ queue'[i].target[n].ver = v
    BY DEF BootAt, Active
  <2>2. PICK e \in Kept : queue'[i] = Job("reprovision", e, version[e], current[e], NoWorkloads)
    BY <1>0, <1>2, BootJob
  <2>3. queue'[i].dl = e /\ queue'[i].target = current[e] BY <2>2, SMT DEF Job
  <2>4. current[d][n].ver = v BY <2>1, <2>3
  <2>5. current[d][n].ver <= v BY <2>4, SMT
  <2> QED BY <1>2, <2>5, RestartCeiling
<1> QED BY <1>0, <1>1, <1>2, BootAtBefore

\* A job that is validated is of the latest version the chain has seen.
LEMMA ValidStart ==
    ASSUME MonotoneInv, StartJob, NEW d \in Dl, NEW n \in Name, NEW v \in Nat, ValidAt(d, v)'
    PROVE  Ceiling(d, n, v)'
<1>0. ShapeInv /\ EngineInv /\ DataInv /\ "worker" \in Thread /\ "api" \in Thread
  BY DEF MonotoneInv, JobInv, ShapeInv, Thread
<1>1. PICK j \in RealJob : j = Head(queue) /\ j = queue[1] /\ 1 \in 1 .. Len(queue)
  BY <1>0, FirstJob DEF StartJob
<1>2. UNCHANGED queue /\ pc["worker"] = "idle" /\ dl' = [dl EXCEPT !["worker"] = j.dl]
  BY <1>1 DEF StartJob
<1>3. d = j.dl /\ j.op \in {"provision", "update"} /\ j.ver = v
  <2>1. dl'["worker"] = j.dl BY <1>0, <1>2 DEF EngineInv, ThreadsOK
  <2> QED BY <1>1, <1>2, <2>1 DEF ValidAt
<1>4. Validates(j)
  <2>1. pc'["worker"] \notin {"error", "dequeue"} BY DEF ValidAt, Stepping
  <2>2. \/ Validates(j)
        \/ pc' = [pc EXCEPT !["worker"] = IF j.dl \in present THEN "error" ELSE "dequeue"]
    BY <1>1 DEF StartJob
  <2> QED BY <1>0, <2>1, <2>2 DEF EngineInv, ThreadsOK
<1>5. hash[d] = v BY <1>3, <1>4 DEF Validates
<1>6. \A s \in JobSteps(j) : s.wl.ver <= v
  <2>1. JobData(j) BY <1>0, <1>1 DEF DataInv, JobsData
  <2> QED BY <1>3, <1>4, <1>5, <2>1, ValidSteps
<1>7. Ceiling(d, n, v)
  <2>1. n \in Active(current[d]) => current[d][n].ver <= v BY <1>0, <1>5 DEF DataInv, StoredData, Upto
  <2>2. Hand("worker", d, n, v) BY <1>0, <1>2 DEF Hand, ShapeInv, Shape, ThreadShape, Stepping
  <2>3. Hand("api", d, n, v)
    <3>1. pc["api"] \in {"run"} \cup Stepping \/ todo["api"] = {}
      BY <1>0 DEF EngineInv, ThreadsOK, ShapeInv, Shape, ThreadShape
    <3>2. StepsData("api") BY <1>0 DEF DataInv, ThreadsData
    <3> QED BY <1>5, <3>1, <3>2 DEF StepsData, Hand
  <2> QED BY <1>2, <2>1, <2>2, <2>3 DEF Ceiling, Thread
<1> QED BY <1>0, <1>1, <1>6, <1>7, StartCeiling

\* A job is validated when it starts, and stays the first until it is done.
LEMMA ValidAtBefore ==
    ASSUME JobInv, [EngineNext]_engineVars, ~StartJob, NEW d, NEW v, ValidAt(d, v)'
    PROVE  ValidAt(d, v)
<1>0. EngineInv /\ "worker" \in Thread BY DEF JobInv, ShapeInv, Thread
<1>1. pc'["worker"] \notin {"idle", "dequeue"} BY DEF ValidAt, Stepping
<1>2. CASE \/ UserStep(Dl, Requests)
           \/ Chain \/ HandleEvent \/ SyncStart \/ (\E e \in Dl : SyncOne(e))
           \/ (\E p \in Poster : Enqueue(p)) \/ Work("api") \/ UNCHANGED engineVars
  <2>1. WorkerSame /\ (pc["worker"] # "idle" => Head(queue') = Head(queue)) BY <1>2, OthersKeepWorker
  <2> QED BY <1>1, <2>1 DEF ValidAt, WorkerSame
<1>3. CASE StoreError \/ Dequeue
  <2>1. pc' = [pc EXCEPT !["worker"] = "dequeue"] \/ pc' = [pc EXCEPT !["worker"] = "idle"]
    BY <1>3 DEF StoreError, Dequeue
  <2> QED BY <1>0, <1>1, <2>1 DEF EngineInv, ThreadsOK
<1>4. CASE Work("worker")
  <2>1. UNCHANGED queue /\ (dl'["worker"] = dl["worker"] \/ EndSteps("worker")) BY <1>0, <1>4, OtherThread
  <2>2. ~EndSteps("worker")
    <3>1. EndSteps("worker") => pc' = [pc EXCEPT !["worker"] = "dequeue"] BY DEF EndSteps
    <3> QED BY <1>0, <1>1, <3>1 DEF EngineInv, ThreadsOK
  <2>3. pc["worker"] \in {"run"} \cup Stepping
    BY <1>4 DEF Work, TakeStep, CallManager, CallProvision, CallDeprovision, CallUpdate, CallLock,
                Record, RemoveWorkload, EndSteps, Stepping
  <2> QED BY <2>1, <2>2, <2>3 DEF ValidAt
<1>5. ASSUME NEW kind, Restart(kind) PROVE FALSE
  <2>1. pc' = [t \in Thread |-> "idle"] BY <1>5 DEF Restart
  <2> QED BY <1>0, <1>1, <2>1
<1> QED BY <1>2, <1>3, <1>4, <1>5 DEF EngineNext, SystemStep, Worker, Thread

\* Every step keeps the invariant.
LEMMA MonotoneStep ==
    ASSUME NoLocks, MonotoneInv, [EngineNext]_engineVars
    PROVE  MonotoneInv'
<1>0. JobInv /\ DataInv /\ NoGrace /\ NonePaused /\ PlainJobs /\ ShapeInv /\ EngineInv /\ RestOK
  BY DEF MonotoneInv, JobInv, ShapeInv
<1>1. JobInv' BY <1>0, JobStep
<1>2. DataInv' BY <1>0, DataStepInv
<1>3. NoGrace' BY <1>0, NoGraceStep
<1>4. NonePaused' BY <1>0, PausedStep
<1>5. PlainJobs' BY <1>0, PlainStep
<1>6. BootData' BY BootDataStep
<1>7. ValidData'
  <2> SUFFICES ASSUME NEW d \in Dl, NEW n \in Name, NEW v \in Nat, ValidAt(d, v)'
               PROVE  Ceiling(d, n, v)'
    BY DEF ValidData
  <2>1. CASE StartJob BY <2>1, ValidStart
  <2>2. CASE ~StartJob
    <3>1. ValidAt(d, v) BY <1>0, <2>2, ValidAtBefore
    <3>2. Ceiling(d, n, v) BY <3>1 DEF MonotoneInv, ValidData
    <3> QED BY <1>0, <2>2, <3>2, CeilingStep
  <2> QED BY <2>1, <2>2
<1> QED BY <1>1, <1>2, <1>3, <1>4, <1>5, <1>6, <1>7 DEF MonotoneInv

\* Initially nothing is stored, queued or locked.
LEMMA MonotoneInit == EngineInit => MonotoneInv
<1> SUFFICES ASSUME EngineInit PROVE MonotoneInv
  OBVIOUS
<1>1. queue = <<>> /\ Len(<<>>) = 0 /\ 1 .. 0 = {} BY SMT DEF EngineInit
<1>2. NoJob.op = "none" /\ NoSync.locked = {} /\ NoEntry.state = "none" BY SMT DEF NoJob, Job, NoSync, NoEntry
<1>3. NoGrace BY <1>2 DEF EngineInit, NoGrace
<1>4. NonePaused BY <1>2 DEF EngineInit, StoreInit, NonePaused, NoWorkloads
<1>5. PlainJobs BY <1>1, <1>2 DEF EngineInit, PlainJobs, PlainJob
<1>6. BootData BY <1>1 DEF BootData, BootAt
<1>7. ValidData BY DEF EngineInit, ValidData, ValidAt, Stepping, Thread
<1> QED BY <1>3, <1>4, <1>5, <1>6, <1>7, JobInvInit, DataInvInit DEF MonotoneInv

\* What a plain job that was validated installs or updates is of its own version.
LEMMA PlainSteps ==
    ASSUME NEW j \in RealJob, PlainJob(j), JobData(j), j.op \in {"provision", "update"},
           NEW s \in JobSteps(j), s.op # "uninstall"
    PROVE  s.wl.ver = j.ver
<1>1. CASE j.op = "provision"
  <2>1. s \in Steps("install", j.target) BY <1>1 DEF JobSteps
  <2>2. PICK n \in Active(j.target) : s = Step("install", n, j.target[n]) BY <2>1 DEF Steps
  <2>3. s.wl = j.target[n] BY <2>2, SMT DEF Step
  <2>4. j.ver = 0 /\ j.target[n].ver <= 0 BY <1>1 DEF PlainJob, JobData
  <2>5. j.target[n].ver \in Nat BY GridAssumption DEF RealJob, Workloads, Active, Entry
  <2> QED BY <2>3, <2>4, <2>5, SMTT(30)
<1>2. CASE j.op = "update"
  <2>1. s \in UpgradeSteps(j.source, j.target, j.ver) BY <1>2 DEF JobSteps
  <2>2. \/ \E n \in Active(j.target) \ Active(j.source) : s = Step("install", n, j.target[n])
        \/ \E n : /\ j.target[n].ver = j.ver
                  /\ s = Step("update", n, WithResult(j.target[n], j.source[n].state))
        \/ \E n : s = Step("uninstall", n, j.source[n])
    BY <2>1 DEF UpgradeSteps
  <2>3. ASSUME NEW n \in Active(j.target) \ Active(j.source), s = Step("install", n, j.target[n])
        PROVE  s.wl.ver = j.ver
    <3>1. s.wl = j.target[n] BY <2>3, SMTT(30) DEF Step
    <3> QED BY <1>2, <3>1 DEF PlainJob
  <2>4. ASSUME NEW n, j.target[n].ver = j.ver,
               s = Step("update", n, WithResult(j.target[n], j.source[n].state))
        PROVE  s.wl.ver = j.ver
    BY <2>4, SMT DEF Step, WithResult
  <2>5. ASSUME NEW n, s = Step("uninstall", n, j.source[n]) PROVE FALSE
    BY <2>5, SMT DEF Step
  <2> QED BY <2>2, <2>3, <2>4, <2>5, SMTT(30)
<1> QED BY <1>1, <1>2

\* What the worker stores as okay is not older than what is stored.
LEMMA OkayNotOlder ==
    ASSUME MonotoneInv, pc["worker"] = "record", IsOkay(result["worker"]), NEW d \in Dl, NEW n \in Name,
           d = dl["worker"], n = step["worker"].name, n \in Active(current[d])
    PROVE  current[d][n].ver <= step["worker"].wl.ver
<1>0. /\ ShapeInv /\ EngineInv /\ DataInv /\ OfJob /\ PlainJobs /\ "worker" \in Thread
      /\ pc["worker"] \in Stepping
  BY DEF MonotoneInv, JobInv, ShapeInv, Thread, Stepping
<1>1. queue # <<>> /\ Head(queue).dl = d BY <1>0 DEF EngineInv, JobsOK, ShapeInv, Shape
<1>2. PICK j \in RealJob : j = Head(queue) /\ j = queue[1] /\ 1 \in 1 .. Len(queue) BY <1>0, <1>1, FirstJob
<1>3. PICK s \in RealStep : s = step["worker"] /\ s \in JobSteps(j)
  BY <1>0, <1>2 DEF EngineInv, ThreadsOK, OfJob
<1>4. s.op # "uninstall" BY <1>0, <1>3 DEF ShapeInv, Shape, ThreadShape, IsOkay
<1>5. PlainJob(j) /\ JobData(j) BY <1>0, <1>2 DEF PlainJobs, DataInv, JobsData
<1>6. s.wl.ver \in Nat /\ j.ver \in Nat BY GridAssumption DEF RealStep, Entry, RealJob
<1>7. CASE j.op \in {"provision", "update"}
  <2>1. s.wl.ver = j.ver BY <1>3, <1>4, <1>5, <1>7, PlainSteps
  <2>2. ValidAt(d, j.ver) BY <1>0, <1>2, <1>7 DEF ValidAt
  <2>3. Ceiling(d, n, j.ver) BY <1>6, <2>2 DEF MonotoneInv, ValidData
  <2> QED BY <1>3, <2>1, <2>3 DEF Ceiling
<1>8. CASE j.op = "reprovision"
  <2>1. s \in Steps("install", j.target) BY <1>3, <1>8 DEF JobSteps
  <2>2. PICK k \in Active(j.target) : s = Step("install", k, j.target[k]) BY <2>1 DEF Steps
  <2>3. s.name = k /\ s.wl = j.target[k] BY <2>2, SMT DEF Step
  <2>4. BootAt(d, n, s.wl.ver) BY <1>1, <1>2, <1>3, <1>8, <2>2, <2>3 DEF BootAt
  <2>5. Ceiling(d, n, s.wl.ver) BY <1>6, <2>4 DEF MonotoneInv, BootData
  <2> QED BY <1>3, <2>5 DEF Ceiling
<1>9. j.op \in {"provision", "reprovision", "update"}
  BY <1>3, <1>4, <1>5, StepJob DEF PlainJob, RealStep, StepOp
<1> QED BY <1>7, <1>8, <1>9

\* No step stores an okay workload that is older than the one it replaces.
LEMMA NoneOlder ==
    ASSUME MonotoneInv, [EngineNext]_engineVars, NEW d \in Dl,
           NEW n \in Active(current[d]) \cap Active(current'[d]), IsOkay(current'[d][n].state)
    PROVE  current'[d][n].ver >= current[d][n].ver
<1>0. EngineInv /\ ShapeInv /\ AbsentIsEmpty /\ current \in [Dl -> Workloads] /\ n \in Name
      /\ "worker" \in Thread /\ "api" \in Thread
  BY DEF MonotoneInv, JobInv, ShapeInv, EngineInv, StoreInv, StoreTypeOK, Active, Thread
<1>1. current[d][n].ver \in Nat
  <2>1. current[d][n] \in Entry BY <1>0 DEF Workloads, Active
  <2> QED BY <2>1, GridAssumption DEF Entry
<1>2. CASE current'[d][n] = current[d][n] BY <1>1, <1>2, SMTT(30)
<1>3. CASE Record("worker") /\ current'[d][n] # current[d][n]
  <2>1. PICK x \in Dl, m \in Name : x = dl["worker"] /\ m = step["worker"].name
    BY <1>0, <1>3 DEF Record, EngineInv, ThreadsOK, Stepping, RealStep
  <2>2. PICK e : e = WithResult(step["worker"].wl, result["worker"]) OBVIOUS
  <2>3. e.ver = step["worker"].wl.ver /\ e.state = result["worker"] BY <2>2, SMT DEF WithResult
  <2>4. pc["worker"] = "record" /\ Puts(x, m, e)
    BY <1>3, <2>1, <2>2 DEF Record, Transaction, storeVars, Puts
  <2>5. d = x /\ n = m /\ current'[d][n] = e BY <1>0, <1>3, <2>4, PutsThere, SMTT(30)
  <2>6. current[d][n].ver <= e.ver BY <2>1, <2>3, <2>4, <2>5, OkayNotOlder
  <2>7. e.ver \in Nat
    BY <1>0, <2>3, <2>4, GridAssumption DEF EngineInv, ThreadsOK, Stepping, RealStep, Entry
  <2> QED BY <1>1, <2>5, <2>6, <2>7, SMTT(30)
<1>4. ~Record("worker") => current'[d][n] = current[d][n]
  <2> SUFFICES ASSUME ~Record("worker") PROVE current'[d][n] = current[d][n]
    OBVIOUS
  <2>1. d \in present BY <1>0 DEF AbsentIsEmpty, NoWorkloads, Active
  <2>2. ASSUME NEW e \in Dl, NEW r \in Requests, Provision(e, r) PROVE current'[d] = current[d]
    <3>1. e \notin present /\ current' = [current EXCEPT ![e] = WithState(r.ws, "init")]
      BY <2>2 DEF Provision, Create, CreateOk
    <3> QED BY <1>0, <2>1, <3>1
  <2>3. CASE \/ \E e \in Dl : \/ \E r \in Requests : UpdateDeployment(e, r)
                              \/ \E k \in Name : DecommissionCached(e, k)
                              \/ SyncOne(e)
             \/ \E p \in Poster : Enqueue(p)
             \/ Chain \/ HandleEvent \/ SyncStart \/ StartJob \/ Dequeue \/ UNCHANGED engineVars
             \/ \E t \in Thread : CallManager(t)
    BY <2>3 DEF UpdateDeployment, Update, DecommissionCached, SyncOne, Enqueue, Chain, HandleEvent,
                SyncStart, StartJob, Dequeue, engineVars, CallManager, storeVars
  <2>4. CASE StoreError
    <3>1. CASE UNCHANGED current BY <3>1
    <3>2. CASE Error(dl["worker"], reading)
      <4>1. PICK x \in Dl : x = dl["worker"] BY <1>0, <2>4 DEF StoreError, EngineInv, ThreadsOK
      <4>2. current' = [current EXCEPT ![x] = [k \in Name |->
                  IF k \in Active(reading) THEN WithResult(reading[k], "error") ELSE current[x][k]]]
        BY <3>2, <4>1 DEF Error
      <4>3. current'[d][n] = current[d][n] \/ current'[d][n] = WithResult(reading[n], "error")
        BY <1>0, <4>2
      <4>4. ~IsOkay(WithResult(reading[n], "error").state) BY SMT DEF WithResult, IsOkay
      <4> QED BY <4>3, <4>4
    <3> QED BY <2>4, <3>1, <3>2 DEF StoreError, storeVars
  <2>5. ASSUME NEW t \in Thread, TakeStep(t) PROVE current'[d][n] = current[d][n]
    <3>1. PICK s \in todo[t] : TakenUp(t, s) BY <1>0, <2>5, Taken
    <3>0. s \in RealStep /\ dl[t] \in Dl BY <1>0, <2>5 DEF TakeStep, EngineInv, ThreadsOK
    <3>2. PICK x \in Dl, m \in Name : x = dl[t] /\ m = s.name BY <3>0 DEF RealStep
    <3>3. CASE Add(x, m, s.wl)
      <4>1. Puts(x, m, WithResult(s.wl, "init")) BY <3>3 DEF Add, Puts
      <4>2. OnlyPuts(x, WithResult(s.wl, "init")) BY <1>0, <4>1, EntryWritten
      <4>3. ~IsOkay(WithResult(s.wl, "init").state) BY SMT DEF WithResult, IsOkay
      <4> QED BY <1>0, <4>2, <4>3 DEF OnlyPuts
    <3> QED BY <3>1, <3>2, <3>3 DEF TakenUp, storeVars
  <2>6. ASSUME NEW t \in Thread, Record(t) \/ RemoveWorkload(t) PROVE current'[d][n] = current[d][n]
    <3>1. PICK x \in Dl : x = dl[t] BY <1>0, <2>6 DEF Record, RemoveWorkload, EngineInv, ThreadsOK
    <3>2. PICK m \in Name : m = step[t].name
      BY <1>0, <2>6 DEF Record, RemoveWorkload, EngineInv, ThreadsOK, Stepping, RealStep
    <3>3. CASE RemoveWorkload(t)
      <4>1. Puts(x, m, NoEntry) \/ UNCHANGED current
        BY <3>1, <3>2, <3>3 DEF RemoveWorkload, Remove, Puts, storeVars
      <4>2. OnlyPuts(x, NoEntry) \/ UNCHANGED current BY <1>0, <4>1, EntryWritten
      <4>3. current'[d][n] # NoEntry BY DEF Active
      <4> QED BY <1>0, <4>2, <4>3 DEF OnlyPuts
    <3>4. CASE Record(t)
      <4>1. t = "api" BY <3>4 DEF Thread
      <4>2. step[t].op = "uninstall" /\ result[t] \in {"deleted", "error"}
        BY <1>0, <3>4, <4>1 DEF Record, ShapeInv, Shape, ThreadShape, Stepping
      <4>3. \A e \in Dl : \A k \in Name : \/ current'[e][k] = current[e][k]
                                          \/ ~IsOkay(current'[e][k].state)
        BY <1>0, <2>6, <3>1, <4>2, Recorded
      <4> QED BY <1>0, <4>3
    <3> QED BY <2>6, <3>3, <3>4
  <2>7. ASSUME NEW t \in Thread, EndSteps(t) PROVE current'[d][n] = current[d][n]
    <3>1. current'[d] = current[d] \/ current'[d] = NoWorkloads
      BY <2>7 DEF EndSteps, storeVars, Delete, Drop
    <3> QED BY <1>0, <3>1 DEF NoWorkloads, Active
  <2>8. ASSUME NEW kind, Restart(kind) PROVE current'[d][n] = current[d][n]
    <3>1. current'[d] = current[d] \/ current'[d] = NoWorkloads BY <2>8 DEF Restart, CleanDeleted, Drop
    <3> QED BY <1>0, <3>1 DEF NoWorkloads, Active
  <2> QED BY <2>2, <2>3, <2>4, <2>5, <2>6, <2>7, <2>8
          DEF EngineNext, UserStep, SystemStep, Worker, Work
<1> QED BY <1>2, <1>3, <1>4

\* The data of an okay workload never goes back to an older version: for any
\* number of deployments and versions, with stale jobs, failures of the managers
\* and of the chain, crashes and reboots.  The hypothesis is needed: pause and
\* resume write back the workload as it was when the event came.
THEOREM VersionMonotoneAlways == NoLocks => (EngineSpec => VersionMonotone)
<1> SUFFICES ASSUME NoLocks PROVE EngineSpec => VersionMonotone
  OBVIOUS
<1>1. MonotoneInv /\ [EngineNext]_engineVars => MonotoneInv' BY MonotoneStep
<1>2. MonotoneInv /\ [EngineNext]_engineVars =>
        [\A d \in Dl : \A n \in Active(current[d]) \cap Active(current'[d]) :
            IsOkay(current'[d][n].state) => current'[d][n].ver >= current[d][n].ver]_engineVars
  BY NoneOlder
<1> QED BY MonotoneInit, <1>1, <1>2, PTL DEF EngineSpec, VersionMonotone
=============================================================================
