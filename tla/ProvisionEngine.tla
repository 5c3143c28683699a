-------------------------- MODULE ProvisionEngine --------------------------
(***************************************************************************)
(* The provision engine (pkg/provision/engine.go), the contract event      *)
(* handler that feeds it (cmds/modules/provisiond/events.go) and the       *)
(* restarts of provisiond (cmds/modules/provisiond/main.go).               *)
(*                                                                         *)
(* Four actors run concurrently over one storage and one persistent queue: *)
(* the engine worker (Run), the zbus server with its single worker (calls  *)
(* of users and of other daemons), the event loop, and the hourly sync.    *)
(* A storage call is one step, a call of a provisioner another: between    *)
(* any two of them the other actors run, and provisiond may die.           *)
(***************************************************************************)
EXTENDS WorkloadStore, Integers, Sequences, FiniteSets

CONSTANTS Order,      \* typeIndex: the startup order of the types
          Lazy,       \* types whose Provision answers ErrNoActionNeeded if deployed
          Updatable,  \* types whose manager is an Updater
          Upsert,     \* those of them that create the resource if it is missing
          Pausable,   \* types whose manager is a Pauser
          Volatile,   \* types whose resources do not survive a reboot
          Requests,   \* deployments users send: [ver, ws] accepted by Valid
          Calls,      \* the zbus calls made: "provision", "update", "decommission"
          ChainOps,   \* what happens on chain: "hash", "lock", "unlock", "cancel"
          Faults,     \* what may fail: "provision", ..., "chain", "events"
          Restarts,   \* "crash" (provisiond restarts), "reboot" (the node does)
          MaxQueue,   \* bound on the jobs queued or about to be
          MaxRestart, \* bound on the restarts
          MaxLock     \* bound on the lock events not yet handled

ASSUME EngineAssumption ==
    /\ \A ds \in SUBSET Dl : Cardinality(ds) \in Nat  \* finitely many deployments
    /\ Order \in [Type -> Nat \ {0}]
    /\ Requests \subseteq [ver : Version, ws : Workloads]
    /\ \A r \in Requests : \A n \in Active(r.ws) : r.ws[n].ver <= r.ver
    /\ {MaxQueue, MaxRestart, MaxLock} \subseteq Nat

VARIABLES queue,      \* the job queue (dque), on disk
          posting,    \* the job each poster is about to enqueue
          pc,         \* where the worker and the zbus server are
          dl,         \* the deployment each of them works on
          todo,       \* the steps they still have to take
          step,       \* the step they are taking
          result,     \* its result, about to be stored
          failed,     \* a step of this job returned an error
          reading,    \* what storage.Error has read
          res,        \* the resources on the node: <<deployment, name, type>>
          contract,   \* state of the contract on chain
          hash,       \* version whose hash is in the contract
          cancels,    \* cancellation events to handle
          locks,      \* lock and unlock events to handle, in order
          sync,       \* the round of synchronization in progress
          restarts    \* restarts so far

threadVars == <<pc, dl, todo, step, result, failed, reading>>
chainVars == <<contract, hash, cancels, locks>>
engineVars == <<storeVars, queue, posting, threadVars, res, chainVars, sync, restarts>>

Thread == {"worker", "api"}

Poster == {"api", "events", "sync"}

Job(op, d, v, target, source) ==
    [op |-> op, dl |-> d, ver |-> v, target |-> target, source |-> source]

JobOp == {"provision", "reprovision", "deprovision", "update", "pause", "resume"}

NoJob == Job("none", NoDl, 0, NoWorkloads, NoWorkloads)

StepOp == {"install", "uninstall", "update", "pause", "resume"}

NoStep == Step("none", NoDl, NoEntry)

NoSync == [todo |-> {}, gone |-> {}, locked |-> {}]

Room == Len(queue) + Cardinality({p \in Poster : posting[p] # NoJob}) < MaxQueue
-----------------------------------------------------------------------------
\* users create the contract before they send the deployment
EngineInit ==
    /\ StoreInit
    /\ queue = <<>>
    /\ posting = [p \in Poster |-> NoJob]
    /\ pc = [t \in Thread |-> "idle"]
    /\ dl = [t \in Thread |-> NoDl]
    /\ todo = [t \in Thread |-> {}]
    /\ step = [t \in Thread |-> NoStep]
    /\ result = [t \in Thread |-> "none"]
    /\ failed = FALSE
    /\ reading = NoWorkloads
    /\ res = {}
    /\ contract = [d \in Dl |-> "created"]
    /\ hash = [d \in Dl |-> 0]
    /\ cancels = {}
    /\ locks = <<>>
    /\ sync = NoSync
    /\ restarts = 0

(***************************************************************************)
(* Posting jobs.  Every operation stores or reads first and enqueues in a  *)
(* later step.                                                             *)
(***************************************************************************)
Post(p, j) ==
    /\ posting[p] = NoJob
    /\ Room
    /\ posting' = [posting EXCEPT ![p] = j]

Enqueue(p) ==
    /\ posting[p] # NoJob
    /\ queue' = Append(queue, posting[p])
    /\ posting' = [posting EXCEPT ![p] = NoJob]
    /\ UNCHANGED <<storeVars, threadVars, res, chainVars, sync, restarts>>

\* Get of the deployment, then the job with what it returned; nothing if the
\* deployment does not exist
PostCurrent(p, op, d) ==
    IF d \in present
    THEN Post(p, Job(op, d, version[d], current[d], NoWorkloads))
    ELSE UNCHANGED posting

ApiIdle == pc["api"] = "idle" /\ posting["api"] = NoJob

Provision(d, r) ==
    /\ "provision" \in Calls
    /\ ApiIdle
    /\ r.ver = 0
    /\ Create(d, 0, r.ws)
    /\ Post("api", Job("provision", d, 0, WithState(r.ws, "init"), NoWorkloads))
    /\ UNCHANGED <<queue, threadVars, res, chainVars, sync, restarts>>

\* mutant: the version field is not stored
MutUpdateDeployment(d, r) ==
    /\ "update" \in Calls
    /\ ApiIdle
    /\ d \in present
    /\ UpgradeOk(current[d], version[d], r.ws, r.ver)
    /\ Post("api", Job("update", d, r.ver, WithState(r.ws, "init"), current[d]))
    /\ UNCHANGED <<storeVars, queue, threadVars, res, chainVars, sync, restarts>>

\* Get, Upgrade, CanUpdate and the update of the version field
UpdateDeployment(d, r) ==
    /\ "update" \in Calls
    /\ ApiIdle
    /\ UpgradeOk(current[d], version[d], r.ws, r.ver)
    /\ \A s \in UpgradeSteps(current[d], r.ws, r.ver) : s.op = "update" => s.wl.type \in Updatable
    /\ Update(d, r.ver)
    /\ Post("api", Job("update", d, r.ver, WithState(r.ws, "init"), current[d]))
    /\ UNCHANGED <<queue, threadVars, res, chainVars, sync, restarts>>

DecommissionCached(d, n) ==
    /\ "decommission" \in Calls
    /\ ApiIdle
    /\ n \in Active(current[d])
    /\ current[d][n].state \notin {"deleted", "error"}
    /\ pc' = [pc EXCEPT !["api"] = "run"]
    /\ dl' = [dl EXCEPT !["api"] = d]
    /\ todo' = [todo EXCEPT !["api"] = {Step("uninstall", n, current[d][n])}]
    /\ UNCHANGED <<storeVars, queue, posting, step, result, failed, reading, res, chainVars, sync, restarts>>
-----------------------------------------------------------------------------
(***************************************************************************)
(* The worker takes the first job of the queue and leaves it there until   *)
(* it is done.  Jobs that install are checked against the chain first.     *)
(***************************************************************************)
Steps(op, ws) == {Step(op, n, ws[n]) : n \in Active(ws)}

\* mutant: only okay workloads are deprovisioned
MutJobSteps(j) ==
    CASE j.op = "deprovision" -> {s \in Steps("uninstall", j.target) : IsOkay(s.wl.state)}
      [] j.op = "update"      -> UpgradeSteps(j.source, j.target, j.ver)
      [] j.op \in {"pause", "resume"} -> Steps(j.op, j.target)
      [] OTHER -> Steps("install", j.target)

JobSteps(j) ==
    CASE j.op \in {"provision", "reprovision"} -> Steps("install", j.target)
      [] j.op = "deprovision" -> Steps("uninstall", j.target)
      [] j.op = "update"      -> UpgradeSteps(j.source, j.target, j.ver)
      [] j.op = "pause"       -> Steps("pause", j.target)
      [] j.op = "resume"      -> Steps("resume", j.target)

OnChain(d) == contract[d] \in {"created", "grace"}

\* mutant: the hash of an update is not compared
MutValidates(j) == j.op \notin {"provision", "update", "reprovision"} \/ OnChain(j.dl)

Validates(j) ==
    \/ j.op \notin {"provision", "update", "reprovision"}
    \/ OnChain(j.dl) /\ (j.op = "reprovision" \/ hash[j.dl] = j.ver)

MayFail(j) == ~Validates(j) \/ ("chain" \in Faults /\ j.op \in {"provision", "update", "reprovision"})

StartJob ==
    LET j == Head(queue)
    IN /\ pc["worker"] = "idle"
       /\ queue # <<>>
       /\ dl' = [dl EXCEPT !["worker"] = j.dl]
       /\ \/ /\ Validates(j)
             /\ pc' = [pc EXCEPT !["worker"] = "run"]
             /\ todo' = [todo EXCEPT !["worker"] = JobSteps(j)]
             /\ UNCHANGED reading
          \/ /\ MayFail(j)
             /\ pc' = [pc EXCEPT !["worker"] = IF j.dl \in present THEN "error" ELSE "dequeue"]
             /\ reading' = current[j.dl]
             /\ UNCHANGED todo
       /\ UNCHANGED <<storeVars, queue, posting, step, result, failed, res, chainVars, sync, restarts>>

\* mutant: the error is not stored
MutStoreError ==
    /\ pc["worker"] = "error"
    /\ pc' = [pc EXCEPT !["worker"] = "dequeue"]
    /\ reading' = NoWorkloads
    /\ UNCHANGED <<storeVars, queue, posting, dl, todo, step, result, failed, res, chainVars, sync, restarts>>

\* the write of storage.Error
StoreError ==
    /\ pc["worker"] = "error"
    /\ pc' = [pc EXCEPT !["worker"] = "dequeue"]
    /\ \/ Error(dl["worker"], reading)
       \/ ~ErrorOk(dl["worker"], reading) /\ UNCHANGED storeVars
    /\ reading' = NoWorkloads
    /\ UNCHANGED <<queue, posting, dl, todo, step, result, failed, res, chainVars, sync, restarts>>

Dequeue ==
    /\ pc["worker"] = "dequeue"
    /\ queue' = Tail(queue)
    /\ pc' = [pc EXCEPT !["worker"] = "idle"]
    /\ dl' = [dl EXCEPT !["worker"] = NoDl]
    /\ failed' = FALSE
    /\ reading' = NoWorkloads
    /\ UNCHANGED <<storeVars, posting, todo, step, result, res, chainVars, sync, restarts>>

(***************************************************************************)
(* Steps of a job.  Removals go first and in reverse order of types, then  *)
(* the rest in order; workloads of one type go in any order.               *)
(***************************************************************************)
Rank(s) == IF s.op \in {"uninstall", "pause"} THEN -Order[s.wl.type] ELSE Order[s.wl.type]

NextSteps(t) == {s \in todo[t] : \A x \in todo[t] : Rank(s) <= Rank(x)}

Begin(t, s, at) ==
    /\ todo' = [todo EXCEPT ![t] = @ \ {s}]
    /\ pc' = [pc EXCEPT ![t] = at]
    /\ step' = [step EXCEPT ![t] = s]
    /\ UNCHANGED failed

\* the step ends before it calls the provisioner
Skip(t, s) ==
    /\ todo' = [todo EXCEPT ![t] = @ \ {s}]
    /\ UNCHANGED <<pc, step>>

Install(t, s) ==
    LET d == dl[t]
        n == s.name
    IN /\ s.op = "install"
       /\ \/ /\ n \notin Active(current[d])
             /\ Add(d, n, s.wl)
             /\ Begin(t, s, "provision")
          \/ /\ n \notin Active(current[d])
             /\ ~AddOk(d, n, s.wl)
             /\ Skip(t, s)
             /\ UNCHANGED <<storeVars, failed>>
          \/ /\ n \in Active(current[d])
             /\ current[d][n].state \in {"deleted", "error"}
             /\ Skip(t, s)
             /\ UNCHANGED <<storeVars, failed>>
          \/ /\ n \in Active(current[d])
             /\ current[d][n].state \notin {"deleted", "error"}
             /\ Begin(t, s, "provision")
             /\ UNCHANGED storeVars

Uninstall(t, s) ==
    LET d == dl[t]
    IN /\ s.op = "uninstall"
       /\ \/ /\ s.name \notin Active(current[d])
             /\ Skip(t, s)
             /\ failed' = (failed \/ (t = "worker" /\ d \notin present))
          \/ /\ s.name \in Active(current[d])
             /\ Begin(t, s, "deprovision")
       /\ UNCHANGED storeVars

UpdateWorkload(t, s) ==
    /\ s.op = "update"
    /\ Begin(t, s, "update")
    /\ UNCHANGED storeVars

\* the current workload has to be okay, the one in the job ok (to pause it)
\* or paused (to resume it)
LockWorkload(t, s) ==
    LET c == current[dl[t]][s.name]
    IN /\ s.op \in {"pause", "resume"}
       /\ IF /\ IsOkay(c.state)
             /\ s.wl.state = IF s.op = "pause" THEN "ok" ELSE "paused"
          THEN Begin(t, s, "lock")
          ELSE Skip(t, s) /\ UNCHANGED failed
       /\ UNCHANGED storeVars

TakeStep(t) ==
    /\ pc[t] = "run"
    /\ \E s \in NextSteps(t) :
         Install(t, s) \/ Uninstall(t, s) \/ UpdateWorkload(t, s) \/ LockWorkload(t, s)
    /\ UNCHANGED <<queue, posting, dl, result, reading, res, chainVars, sync, restarts>>
(***************************************************************************)
(* What a call of a workload manager does, seen from the engine: the       *)
(* resource exists or not afterwards, and there is a result or none.       *)
(***************************************************************************)
Done(t) ==
    /\ pc' = [pc EXCEPT ![t] = "run"]
    /\ step' = [step EXCEPT ![t] = NoStep]
    /\ result' = [result EXCEPT ![t] = "none"]

Answer(t, s) ==
    /\ pc' = [pc EXCEPT ![t] = "record"]
    /\ result' = [result EXCEPT ![t] = s]
    /\ UNCHANGED step

Resource(t) == <<dl[t], step[t].name, step[t].wl.type>>

CallProvision(t) ==
    /\ pc[t] = "provision"
    /\ \/ /\ Resource(t) \in res /\ step[t].wl.type \in Lazy
          /\ Done(t)
          /\ UNCHANGED res
       \/ /\ ~(Resource(t) \in res /\ step[t].wl.type \in Lazy)
          /\ Answer(t, "ok")
          /\ res' = res \cup {Resource(t)}
       \/ /\ "provision" \in Faults
          /\ Answer(t, "error")
          /\ UNCHANGED res

CallDeprovision(t) ==
    /\ pc[t] = "deprovision"
    /\ \/ /\ Answer(t, "deleted")
          /\ res' = res \ {Resource(t)}
       \/ /\ "deprovision" \in Faults
          /\ Answer(t, "error")
          /\ UNCHANGED res

\* with ErrNoActionNeeded the new workload gets the result of the current one
CallUpdate(t) ==
    LET c == current[dl[t]][step[t].name]
    IN /\ pc[t] = "update"
       /\ \/ /\ Resource(t) \in res \/ step[t].wl.type \in Upsert
             /\ Answer(t, "ok")
             /\ res' = res \cup {Resource(t)}
          \/ /\ Resource(t) \notin res /\ step[t].wl.type \notin Upsert
             /\ Answer(t, "error")
             /\ UNCHANGED res
          \/ /\ IF c # NoEntry THEN Answer(t, c.state) ELSE Done(t)
             /\ UNCHANGED res
          \/ /\ "update" \in Faults
             /\ Answer(t, "error") \/ Answer(t, "unchanged")
             /\ UNCHANGED res

CallLock(t) ==
    /\ pc[t] = "lock"
    /\ \/ Answer(t, IF step[t].op = "pause" THEN "paused" ELSE "ok")
       \/ /\ "lock" \in Faults
          /\ step[t].wl.type \in Pausable
          /\ Answer(t, "unchanged")
       \/ /\ step[t].wl.type \in Pausable
          /\ Resource(t) \notin res
          /\ Answer(t, "ok")
    /\ UNCHANGED res

CallManager(t) ==
    /\ CallProvision(t) \/ CallDeprovision(t) \/ CallUpdate(t) \/ CallLock(t)
    /\ UNCHANGED <<storeVars, queue, posting, dl, todo, failed, reading, chainVars, sync, restarts>>

\* the transaction with the result of the step
Record(t) ==
    LET d == dl[t]
        s == step[t]
    IN /\ pc[t] = "record"
       /\ \/ /\ Transaction(d, s.name, WithResult(s.wl, result[t]))
             /\ IF s.op = "uninstall" /\ result[t] = "deleted"
                THEN pc' = [pc EXCEPT ![t] = "remove"] /\ UNCHANGED <<step, result>>
                ELSE Done(t)
             /\ UNCHANGED failed
          \/ /\ ~TransactionOk(d, s.name, s.wl.type)
             /\ Done(t)
             /\ failed' = (failed \/ (t = "worker" /\ s.op = "uninstall"))
             /\ UNCHANGED storeVars
       /\ UNCHANGED <<queue, posting, dl, todo, reading, res, chainVars, sync, restarts>>

RemoveWorkload(t) ==
    LET d == dl[t]
        n == step[t].name
    IN /\ pc[t] = "remove"
       /\ IF n \in Active(current[d]) THEN Remove(d, n) ELSE UNCHANGED storeVars
       /\ Done(t)
       /\ UNCHANGED <<queue, posting, dl, todo, failed, reading, res, chainVars, sync, restarts>>

\* uninstallDeployment ends with the deletion of the record of the deployment
EndSteps(t) ==
    /\ pc[t] = "run"
    /\ todo[t] = {}
    /\ IF t = "worker" /\ Head(queue).op = "deprovision" /\ ~failed
       THEN Delete(dl[t])
       ELSE UNCHANGED storeVars
    /\ pc' = [pc EXCEPT ![t] = IF t = "worker" THEN "dequeue" ELSE "idle"]
    /\ dl' = [dl EXCEPT ![t] = IF t = "worker" THEN @ ELSE NoDl]
    /\ UNCHANGED <<queue, posting, todo, step, result, failed, reading, res, chainVars, sync, restarts>>
-----------------------------------------------------------------------------
(***************************************************************************)
(* The chain, and the events it sends.                                     *)
(***************************************************************************)
ChangeHash(d) ==
    /\ "hash" \in ChainOps
    /\ OnChain(d)
    /\ hash[d] + 1 \in Version
    /\ hash' = [hash EXCEPT ![d] = @ + 1]
    /\ UNCHANGED <<contract, cancels, locks>>

SetGrace(d, lock) ==
    /\ (IF lock THEN "lock" ELSE "unlock") \in ChainOps
    /\ contract[d] = IF lock THEN "created" ELSE "grace"
    /\ Len(locks) < MaxLock
    /\ contract' = [contract EXCEPT ![d] = IF lock THEN "grace" ELSE "created"]
    /\ locks' = Append(locks, [dl |-> d, lock |-> lock])
    /\ UNCHANGED <<hash, cancels>>

Cancel(d) ==
    /\ "cancel" \in ChainOps
    /\ OnChain(d)
    /\ contract' = [contract EXCEPT ![d] = "deleted"]
    /\ cancels' = cancels \cup {d}
    /\ UNCHANGED <<hash, locks>>

\* a missed event, of either kind
LoseEvent ==
    /\ "events" \in Faults
    /\ \/ locks # <<>> /\ locks' = Tail(locks) /\ UNCHANGED cancels
       \/ \E d \in cancels : cancels' = cancels \ {d} /\ UNCHANGED locks
    /\ UNCHANGED <<contract, hash>>

Chain ==
    /\ LoseEvent \/ \E d \in Dl : \/ ChangeHash(d) \/ Cancel(d)
                                  \/ \E lock \in BOOLEAN : SetGrace(d, lock)
    /\ UNCHANGED <<storeVars, queue, posting, threadVars, res, sync, restarts>>
-----------------------------------------------------------------------------
(***************************************************************************)
(* The contract event handler: the event loop, and the synchronization at  *)
(* start and every hour.                                                   *)
(***************************************************************************)
HandleCancel(d) ==
    /\ d \in cancels
    /\ cancels' = cancels \ {d}
    /\ PostCurrent("events", "deprovision", d)
    /\ UNCHANGED <<contract, hash, locks>>

HandleLock ==
    /\ locks # <<>>
    /\ locks' = Tail(locks)
    /\ PostCurrent("events", IF Head(locks).lock THEN "pause" ELSE "resume", Head(locks).dl)
    /\ UNCHANGED <<contract, hash, cancels>>

HandleEvent ==
    /\ posting["events"] = NoJob
    /\ HandleLock \/ \E d \in Dl : HandleCancel(d)
    /\ UNCHANGED <<storeVars, queue, threadVars, res, sync, restarts>>

\* the deployments with an okay workload, which of them are locked (some
\* workload is paused), and which are not on chain any more
IsLocked(ws) == \E n \in Active(ws) : ws[n].state = "paused"

\* mutant: deployments that are not on chain any more are not found
MutSyncStart ==
    LET active == {d \in present : HasOkay(current[d]) /\ OnChain(d)}
    IN /\ sync = NoSync
       /\ active # {}
       /\ sync' = [todo |-> active, gone |-> {}, locked |-> {d \in active : IsLocked(current[d])}]
       /\ UNCHANGED <<storeVars, queue, posting, threadVars, res, chainVars, restarts>>

SyncStart ==
    LET active == {d \in present : HasOkay(current[d])}
    IN /\ sync = NoSync
       /\ active # {}
       /\ sync' = [todo   |-> active,
                   gone   |-> {d \in active : ~OnChain(d)},
                   locked |-> {d \in active : IsLocked(current[d])}]
       /\ UNCHANGED <<storeVars, queue, posting, threadVars, res, chainVars, restarts>>

\* one deployment of the round; the ones to deprovision go first
SyncOne(d) ==
    LET grace == contract[d] = "grace"
        left == sync.todo \ {d}
    IN /\ d \in sync.todo
       /\ sync.todo \cap sync.gone = {} \/ d \in sync.gone
       /\ posting["sync"] = NoJob
       /\ \/ d \in sync.gone /\ PostCurrent("sync", "deprovision", d)
          \/ /\ d \notin sync.gone /\ OnChain(d)
             /\ IF grace # (d \in sync.locked)
                THEN PostCurrent("sync", IF grace THEN "pause" ELSE "resume", d)
                ELSE UNCHANGED posting
          \/ /\ d \notin sync.gone
             /\ ~OnChain(d) \/ "chain" \in Faults
             /\ UNCHANGED posting
       /\ sync' = IF left = {} THEN NoSync
                  ELSE [todo |-> left, gone |-> sync.gone, locked |-> sync.locked]
       /\ UNCHANGED <<storeVars, queue, threadVars, res, chainVars, restarts>>

(***************************************************************************)
(* provisiond starts again.  Storage is cleaned first.  After a reboot the *)
(* queue is dropped and every active deployment is queued for reinstall.   *)
(***************************************************************************)
Kept == {d \in present : HasOkay(current[d])}

\* the boot jobs of the deployments ds, in any order
BootJobs(ds) ==
    {[i \in DOMAIN f |-> Job("reprovision", f[i], version[f[i]], current[f[i]], NoWorkloads)] :
        f \in {g \in [1..Cardinality(ds) -> ds] : \A d \in ds : \E i \in DOMAIN g : g[i] = d}}

\* mutant: paused deployments are not reinstalled
MutBootQueues == BootJobs({d \in Kept : ~IsLocked(current[d])})

BootQueues == BootJobs({d \in Kept : IsActive(current[d])})

\* mutant: the jobs of before the reboot are kept
MutRestart(kind) ==
    /\ kind \in Restarts
    /\ restarts < MaxRestart
    /\ restarts' = restarts + 1
    /\ CleanDeleted
    /\ IF kind = "reboot"
       THEN \E boot \in BootQueues : queue' = queue \o boot
       ELSE UNCHANGED queue
    /\ posting' = [p \in Poster |-> NoJob]
    /\ pc' = [t \in Thread |-> "idle"]
    /\ dl' = [t \in Thread |-> NoDl]
    /\ todo' = [t \in Thread |-> {}]
    /\ step' = [t \in Thread |-> NoStep]
    /\ result' = [t \in Thread |-> "none"]
    /\ failed' = FALSE
    /\ reading' = NoWorkloads
    /\ sync' = NoSync
    /\ UNCHANGED <<chainVars, res>>

Restart(kind) ==
    /\ kind \in Restarts
    /\ restarts < MaxRestart
    /\ restarts' = restarts + 1
    /\ CleanDeleted
    /\ IF kind = "reboot"
       THEN /\ queue' \in BootQueues
            /\ res' = {r \in res : r[3] \notin Volatile}
       ELSE UNCHANGED <<queue, res>>
    /\ posting' = [p \in Poster |-> NoJob]
    /\ pc' = [t \in Thread |-> "idle"]
    /\ dl' = [t \in Thread |-> NoDl]
    /\ todo' = [t \in Thread |-> {}]
    /\ step' = [t \in Thread |-> NoStep]
    /\ result' = [t \in Thread |-> "none"]
    /\ failed' = FALSE
    /\ reading' = NoWorkloads
    /\ sync' = NoSync
    /\ UNCHANGED chainVars
-----------------------------------------------------------------------------
Worker == StartJob \/ StoreError \/ Dequeue

Work(t) == TakeStep(t) \/ CallManager(t) \/ Record(t) \/ RemoveWorkload(t) \/ EndSteps(t)

\* calls for the deployments ds, with the requests rs
UserStep(ds, rs) ==
    \E d \in ds : \/ \E r \in rs : Provision(d, r) \/ UpdateDeployment(d, r)
                  \/ \E n \in Name : DecommissionCached(d, n)

SystemStep ==
    \/ \E d \in Dl : SyncOne(d)
    \/ \E p \in Poster : Enqueue(p)
    \/ Worker
    \/ \E t \in Thread : Work(t)
    \/ Chain
    \/ HandleEvent
    \/ SyncStart
    \/ \E kind \in {"crash", "reboot"} : Restart(kind)

EngineNext == UserStep(Dl, Requests) \/ SystemStep

EngineSpec == EngineInit /\ [][EngineNext]_engineVars

\* The worker loops forever, calls and posts that have started run to their
\* end, events are handled, and the ticker starts a synchronization each hour.
Fairness ==
    /\ WF_engineVars(Worker)
    /\ \A t \in Thread : WF_engineVars(Work(t))
    /\ \A p \in Poster : WF_engineVars(Enqueue(p))
    /\ WF_engineVars(HandleEvent)
    /\ WF_engineVars(SyncStart)
    /\ \A d \in Dl : WF_engineVars(SyncOne(d))

LiveSpec == EngineSpec /\ Fairness
-----------------------------------------------------------------------------
JobType == [op : JobOp \cup {"none"}, dl : Dl \cup {NoDl}, ver : Version,
            target : Workloads, source : Workloads]

StepType == [op : StepOp \cup {"none"}, name : Name \cup {NoDl}, wl : Entry \cup {NoEntry}]

\* Shape of the queue, the threads, the chain and the synchronization.
EngineTypeOK ==
    /\ StoreTypeOK
    /\ queue \in Seq(JobType)
    /\ posting \in [Poster -> JobType]
    /\ pc \in [Thread -> {"idle", "run", "provision", "deprovision", "update", "lock",
                          "record", "remove", "error", "dequeue"}]
    /\ dl \in [Thread -> Dl \cup {NoDl}]
    /\ todo \in [Thread -> SUBSET StepType]
    /\ step \in [Thread -> StepType]
    /\ result \in [Thread -> ResultState \cup {"none"}]
    /\ failed \in BOOLEAN
    /\ reading \in Workloads
    /\ res \subseteq Dl \X Name \X Type
    /\ contract \in [Dl -> {"created", "grace", "deleted"}]
    /\ hash \in [Dl -> Version]
    /\ cancels \subseteq Dl
    /\ locks \in Seq([dl : Dl, lock : BOOLEAN])
    /\ sync \in [todo : SUBSET Dl, gone : SUBSET Dl, locked : SUBSET Dl]
    /\ restarts \in 0..MaxRestart

\* No okay workload is newer than the version of its deployment, as Update
\* stores the version before it queues the job (until a restart drops stored
\* deployments whose jobs are queued).
VersionBound ==
    restarts = 0 =>
      \A d \in Dl : \A n \in Active(current[d]) :
        IsOkay(current[d][n].state) => current[d][n].ver <= version[d]

\* Storage reports a workload okay only if its resource is on the node, unless
\* somebody is working on the deployment or a reboot has queued its reinstall.
Working(d) ==
    \/ \E t \in Thread : dl[t] = d
    \/ \E i \in DOMAIN queue : queue[i].dl = d /\ queue[i].op \in {"reprovision", "update", "deprovision"}

OkayIsDeployed ==
    \A d \in Dl : \A n \in Active(current[d]) :
        IsOkay(current[d][n].state) /\ ~Working(d) => <<d, n, current[d][n].type>> \in res

\* Until a restart a resource on the node is that of a stored workload: one that
\* is cancelled, in error, paused or competes for a name leaves nothing behind
\* (uninstallDeployment, uninstallWorkload, Storage.Delete).
NoOrphan ==
    restarts = 0 => \A r \in res : r[2] \in Active(current[r[1]]) /\ current[r[1]][r[2]].type = r[3]

\* The data of a stored workload never goes back to an older version.
VersionMonotone ==
    [][\A d \in Dl : \A n \in Active(current[d]) \cap Active(current'[d]) :
          IsOkay(current'[d][n].state) => current'[d][n].ver >= current[d][n].ver]_engineVars

\* What is queued for a reinstall without validation was validated when it was
\* first installed (the comment of opProvisionNoValidation): the contract had
\* the hash of its version.
ReinstallValidated ==
    \A i \in DOMAIN queue : LET j == queue[i] IN
        j.op = "reprovision" => \A n \in Active(j.target) : j.target[n].ver <= hash[j.dl]

\* A deployment whose Provision has succeeded (its job is queued) stays stored
\* until the engine has processed it, as long as its contract exists (comment
\* of Engine.Provision).
AcceptedStays ==
    [][\A i \in DOMAIN queue :
          queue[i].op = "provision" /\ queue[i].dl \in present /\ OnChain(queue[i].dl)
            => queue[i].dl \in present']_engineVars

\* Once every job is done, no workload that the last accepted version does not
\* have is still up (comment of Workload.Version: removed workloads are
\* deleted), when at most one request is made per version.
RemovedIsDeleted ==
    \A d \in Dl : \A r \in Requests :
        /\ queue = <<>> /\ \A p \in Poster : posting[p] = NoJob
        /\ r.ver = version[d]
        => \A n \in Active(current[d]) : current[d][n].state = "ok" => n \in Active(r.ws)

\* Accepted workloads are processed: none stays in init, whatever fails, unless
\* provisiond is restarted meanwhile (comment of Engine.Provision).
Processed ==
    \A d \in Dl : (\E n \in Active(current[d]) : current[d][n].state = "init") /\ restarts = 0
                  ~> (\A n \in Active(current[d]) : current[d][n].state # "init") \/ restarts > 0

\* When its contract is gone for good, a deployment ends with no okay workload.
CancelledEnds == \A d \in Dl : [](contract[d] = "deleted" => <>~HasOkay(current[d]))

\* A deployment whose contract stays in grace period ends paused.
GraceConverges ==
    \A d \in Dl : <>[](contract[d] = "grace")
                   => <>[](\A n \in Active(current[d]) : current[d][n].state # "ok")
=============================================================================
