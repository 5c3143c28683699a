---------------------------- MODULE EngineProofs ----------------------------
(***************************************************************************)
(* The storage of workloads: type correctness and exclusive ownership of   *)
(* sharable names, whatever calls are made.  And the engine uses it as     *)
(* WorkloadStore describes: every step of its four actors is one storage   *)
(* call with proper arguments, or leaves the storage alone.  So what holds *)
(* of the storage holds of the engine, for any deployments, requests,      *)
(* faults and restarts.  The invariant is about the arguments: what jobs,  *)
(* steps and results hold while the actors carry them between calls.       *)
(* Then what the actors have in their hands (ShapeInv), and how the        *)
(* worker's steps come from the first job (JobInv); what is said of the    *)
(* versions and of the resources rests on these.                           *)
(***************************************************************************)
EXTENDS ProvisionEngine, TLAPS

\* first-order steps; those that need arithmetic or sequences cite SMT
USE Zenon

\* NoEntry is not the state of a workload.
LEMMA NoEntryDistinct == ASSUME NEW e \in Entry \cup Result PROVE e # NoEntry
  BY GridAssumption, SMT DEF Entry, Result, NoEntry

\* A deployment may have no workloads.
LEMMA NoWorkloadsType == NoWorkloads \in Workloads
  BY DEF NoWorkloads, Workloads

\* Changing the state of all workloads keeps which of them are active, and
\* their types.
LEMMA WithStateType ==
  ASSUME NEW ws \in Workloads, NEW s \in State
  PROVE  /\ WithState(ws, s) \in Workloads
         /\ Active(WithState(ws, s)) = Active(ws)
         /\ \A n \in Active(ws) : WithState(ws, s)[n].type = ws[n].type
         /\ SharableIn(WithState(ws, s)) = SharableIn(ws)
<1> DEFINE w == WithState(ws, s)
<1>1. ASSUME NEW n \in Active(ws)
      PROVE  w[n] = WithResult(ws[n], s) /\ w[n] \in Entry /\ w[n].type = ws[n].type
  <2>1. n \in Name /\ ws[n] \in Entry
    BY DEF Active, Workloads
  <2>2. w[n] = WithResult(ws[n], s)
    BY <2>1 DEF WithState, Active
  <2> QED BY <2>1, <2>2, SMT DEF Entry, WithResult
<1>2. ASSUME NEW n \in Name \ Active(ws) PROVE w[n] = NoEntry
  BY DEF WithState, Active
<1>3. w \in Workloads
  <2>1. w = [n \in Name |-> w[n]]
    BY DEF WithState
  <2> QED BY <1>1, <1>2, <2>1 DEF Workloads
<1>4. Active(w) = Active(ws)
  BY <1>1, <1>2, NoEntryDistinct DEF Active
<1>5. SharableIn(w) = SharableIn(ws)
  BY <1>1, <1>4 DEF SharableIn
<1> QED BY <1>1, <1>3, <1>4, <1>5
-----------------------------------------------------------------------------
\* An empty store satisfies the invariant.
LEMMA InitInv == StoreInit => StoreInv
<1> SUFFICES ASSUME StoreInit PROVE StoreInv
  OBVIOUS
<1>1. StoreTypeOK
  BY GridAssumption, NoWorkloadsType DEF StoreInit, StoreTypeOK
<1>2. AbsentIsEmpty
  BY DEF StoreInit, AbsentIsEmpty
<1>3. SharedOwner
  BY DEF StoreInit, SharedOwner, SharableIn, Active, NoWorkloads
<1> QED BY <1>1, <1>2, <1>3 DEF StoreInv

-----------------------------------------------------------------------------
\* Every storage call keeps the invariant.
LEMMA StoreStepInv ==
  ASSUME StoreInv, [StoreNext]_storeVars
  PROVE  StoreInv'
\* Taking names for one deployment touches the names it takes and no other.
<1>TakeNamesEffect. ASSUME StoreTypeOK, NEW d \in Dl, NEW ns \in SUBSET Name, TakeNames(d, ns)
    PROVE  /\ shared' \in [Twin -> [Name -> Dl \cup {NoDl}]]
           /\ \A n \in ns : shared'[TwinOf[d]][n] = d
           /\ \A t \in Twin, n \in Name :
                 t # TwinOf[d] \/ n \notin ns => shared'[t][n] = shared[t][n]
  BY <1>TakeNamesEffect, GridAssumption DEF StoreTypeOK, TakeNames
\* Create takes the sharable names it needs, or fails.
<1>CreateInv. ASSUME StoreInv, NEW d \in Dl, NEW v \in Version, NEW ws \in Workloads, Create(d, v, ws)
    PROVE  StoreInv'
  <2> USE <1>CreateInv
  <2> USE DEF StoreInv
  <2> DEFINE w == WithState(ws, "init")
  <2>1. w \in Workloads /\ SharableIn(w) = SharableIn(ws)
    BY WithStateType DEF State
  <2>2. SharableIn(ws) \in SUBSET Name
    BY DEF SharableIn, Active
  <2>3. /\ d \notin present /\ NoConflict(d, ws)
        /\ present' = present \cup {d}
        /\ version' = [version EXCEPT ![d] = v]
        /\ current' = [current EXCEPT ![d] = w]
        /\ TakeNames(d, SharableIn(ws))
    BY DEF Create, CreateOk
  <2>4. StoreTypeOK'
    BY <2>1, <2>2, <2>3, <1>TakeNamesEffect DEF StoreTypeOK
  <2>5. AbsentIsEmpty'
    BY <2>3 DEF AbsentIsEmpty, StoreTypeOK
  <2>6. SharedOwner'
    <3> SUFFICES ASSUME NEW e \in Dl, NEW n \in SharableIn(current'[e])
                 PROVE  shared'[TwinOf[e]][n] = e
      BY DEF SharedOwner, SharableIn, Active
    <3>0. n \in Name
      BY DEF SharableIn, Active
    <3>1. CASE e = d
      <4>1. current'[d] = w
        BY <2>3 DEF StoreTypeOK
      <4> QED BY <2>1, <2>2, <2>3, <3>1, <4>1, <1>TakeNamesEffect, SMT
    <3>2. CASE e # d
      <4>1. current'[e] = current[e]
        BY <2>3, <3>2 DEF StoreTypeOK
      <4>2. shared[TwinOf[e]][n] = e
        BY <4>1 DEF SharedOwner
      <4>3. TwinOf[e] # TwinOf[d] \/ n \notin SharableIn(ws)
        BY <2>3, <4>2, GridAssumption DEF NoConflict
      <4>4. TwinOf[e] \in Twin
        BY GridAssumption
      <4> QED BY <2>2, <2>3, <3>0, <4>2, <4>3, <4>4, <1>TakeNamesEffect, SMT
    <3> QED BY <3>1, <3>2
  <2> QED BY <2>4, <2>5, <2>6
\* Update changes the version only.
<1>UpdateInv. ASSUME StoreInv, NEW d \in Dl, NEW v \in Version, Update(d, v)
    PROVE  StoreInv'
  BY <1>UpdateInv DEF StoreInv, StoreTypeOK, AbsentIsEmpty, SharedOwner, Update
\* Add takes the name of a sharable workload, or fails.
<1>AddInv. ASSUME StoreInv, NEW d \in Dl, NEW n \in Name, NEW e \in Entry, Add(d, n, e)
    PROVE  StoreInv'
  <2> USE <1>AddInv
  <2> USE DEF StoreInv
  <2> DEFINE w == WithResult(e, "init")
             ns == IF e.type \in Sharable THEN {n} ELSE {}
  <2>1. w \in Entry /\ w.type = e.type /\ w # NoEntry
    BY NoEntryDistinct DEF Entry, WithResult, State
  <2>2. ns \in SUBSET Name
    OBVIOUS
  <2>3. /\ d \in present /\ current[d][n] = NoEntry
        /\ e.type \in Sharable => shared[TwinOf[d]][n] = NoDl
        /\ present' = present /\ version' = version
        /\ current' = [current EXCEPT ![d][n] = w]
        /\ TakeNames(d, ns)
    BY DEF Add, AddOk, Active
  <2> HIDE DEF w, ns
  <2>4. current' \in [Dl -> Workloads]
    BY <2>1, <2>3 DEF StoreTypeOK, Workloads
  <2>5. StoreTypeOK'
    BY <2>2, <2>3, <2>4, <1>TakeNamesEffect DEF StoreTypeOK
  <2>6. AbsentIsEmpty'
    BY <2>3 DEF AbsentIsEmpty, StoreTypeOK
  <2>7. SharedOwner'
    <3> SUFFICES ASSUME NEW b \in Dl, NEW m \in SharableIn(current'[b])
                 PROVE  shared'[TwinOf[b]][m] = b
      BY DEF SharedOwner, SharableIn, Active
    <3>0. m \in Name /\ TwinOf[b] \in Twin
      BY GridAssumption DEF SharableIn, Active
    <3>1. CASE b = d /\ m = n
      <4>1. current'[d][n] = w
        BY <2>3 DEF StoreTypeOK, Workloads
      <4>2. n \in ns
        BY <2>1, <3>1, <4>1 DEF SharableIn, ns
      <4> QED BY <2>2, <2>3, <3>1, <4>2, <1>TakeNamesEffect, SMT
    <3>2. CASE ~(b = d /\ m = n)
      <4>1. current'[b][m] = current[b][m]
        BY <2>3, <3>0, <3>2 DEF StoreTypeOK, Workloads
      <4>2. shared[TwinOf[b]][m] = b
        BY <4>1 DEF SharedOwner, SharableIn, Active
      <4>3. TwinOf[b] # TwinOf[d] \/ m \notin ns
        BY <2>3, <4>2, GridAssumption DEF ns
      <4> QED BY <2>2, <2>3, <3>0, <4>2, <4>3, <1>TakeNamesEffect, SMT
    <3> QED BY <3>1, <3>2
  <2> QED BY <2>5, <2>6, <2>7
\* Remove gives the name back with the workload.
<1>RemoveInv. ASSUME StoreInv, NEW d \in Dl, NEW n \in Name, Remove(d, n)
    PROVE  StoreInv'
  <2> USE <1>RemoveInv
  <2> USE DEF StoreInv
  <2>1. /\ n \in Active(current[d])
        /\ shared' = IF current[d][n].type \in Sharable
                     THEN [shared EXCEPT ![TwinOf[d]][n] = NoDl] ELSE shared
        /\ current' = [current EXCEPT ![d][n] = NoEntry]
        /\ present' = present /\ version' = version
    BY DEF Remove
  <2>2. current' \in [Dl -> Workloads]
    BY <2>1 DEF StoreTypeOK, Workloads
  <2>3. shared' \in [Twin -> [Name -> Dl \cup {NoDl}]]
    BY <2>1, GridAssumption DEF StoreTypeOK
  <2>4. StoreTypeOK'
    BY <2>1, <2>2, <2>3 DEF StoreTypeOK
  <2>5. AbsentIsEmpty'
    BY <2>1 DEF AbsentIsEmpty, StoreTypeOK, Active, NoWorkloads
  <2>6. SharedOwner'
    <3> SUFFICES ASSUME NEW b \in Dl, NEW m \in SharableIn(current'[b])
                 PROVE  shared'[TwinOf[b]][m] = b
      BY DEF SharedOwner, SharableIn, Active
    <3>0. m \in Name /\ TwinOf[b] \in Twin /\ TwinOf[d] \in Twin
      BY GridAssumption DEF SharableIn, Active
    <3>1. ~(b = d /\ m = n)
      BY <2>1 DEF SharableIn, Active, StoreTypeOK, Workloads
    <3>2. current'[b][m] = current[b][m]
      BY <2>1, <3>0, <3>1 DEF StoreTypeOK, Workloads
    <3>3. shared[TwinOf[b]][m] = b
      BY <3>2 DEF SharedOwner, SharableIn, Active
    <3>4. CASE current[d][n].type \in Sharable
      <4>1. shared[TwinOf[d]][n] = d
        BY <2>1, <3>4 DEF SharedOwner, SharableIn
      <4>2. TwinOf[b] # TwinOf[d] \/ m # n
        BY <3>1, <3>3, <4>1
      <4> QED BY <2>1, <3>0, <3>3, <3>4, <4>2 DEF StoreTypeOK
    <3>5. CASE current[d][n].type \notin Sharable
      BY <2>1, <3>3, <3>5
    <3> QED BY <3>4, <3>5
  <2> QED BY <2>4, <2>5, <2>6
\* A step that only changes the states of active workloads keeps the owners.
<1>StateOnlyInv. ASSUME StoreInv, UNCHANGED <<present, version, shared>>, current' \in [Dl -> Workloads],
           \A d \in Dl, n \in Name :
              \/ current'[d][n] = current[d][n]
              \/ /\ d \in present
                 /\ current[d][n] # NoEntry
                 /\ current'[d][n].type = current[d][n].type
    PROVE  StoreInv'
  <2> USE <1>StateOnlyInv
  <2> USE DEF StoreInv
  <2>1. StoreTypeOK'
    BY DEF StoreTypeOK
  <2>2. AbsentIsEmpty'
    <3> SUFFICES ASSUME NEW d \in Dl \ present PROVE current'[d] = NoWorkloads
      BY DEF AbsentIsEmpty
    <3>1. current[d] = NoWorkloads
      BY DEF AbsentIsEmpty
    <3>2. \A n \in Name : current'[d][n] = NoEntry
      BY <3>1 DEF NoWorkloads
    <3> QED BY <3>2 DEF Workloads, NoWorkloads
  <2>3. SharedOwner'
    <3> SUFFICES ASSUME NEW d \in Dl, NEW n \in SharableIn(current'[d])
                 PROVE  shared[TwinOf[d]][n] = d
      BY DEF SharedOwner
    <3>1. n \in SharableIn(current[d])
      BY DEF SharableIn, Active
    <3> QED BY <3>1 DEF SharedOwner
  <2> QED BY <2>1, <2>2, <2>3
\* Transaction records a result, and neither takes nor gives names.
<1>TransactionInv. ASSUME StoreInv, NEW d \in Dl, NEW n \in Name, NEW e \in Result, Transaction(d, n, e)
    PROVE  StoreInv'
  <2> USE <1>TransactionInv
  <2>0. /\ UNCHANGED <<present, version, shared>>
        /\ current[d][n] # NoEntry /\ current[d][n].type = e.type
        /\ current' = IF e.state = "unchanged" THEN current ELSE [current EXCEPT ![d][n] = e]
    BY DEF Transaction, TransactionOk, Active
  <2>1. CASE e.state = "unchanged"
    BY <2>0, <2>1, <1>StateOnlyInv DEF StoreInv, StoreTypeOK
  <2>2. CASE e.state # "unchanged"
    <3>1. e \in Entry
      BY <2>2 DEF Result, Entry, ResultState
    <3>2. current' = [current EXCEPT ![d][n] = e]
      BY <2>0, <2>2
    <3>3. current' \in [Dl -> Workloads]
      BY <3>1, <3>2 DEF StoreInv, StoreTypeOK, Workloads
    <3>4. d \in present
      BY <2>0 DEF StoreInv, AbsentIsEmpty, NoWorkloads
    <3>5. \A b \in Dl, m \in Name : current'[b][m] = IF b = d /\ m = n THEN e ELSE current[b][m]
      BY <3>2 DEF StoreInv, StoreTypeOK, Workloads
    <3> QED BY <2>0, <3>3, <3>4, <3>5, <1>StateOnlyInv, SMT
  <2> QED BY <2>1, <2>2
\* Error writes over the workloads it read, and takes no names.
<1>ErrorInv. ASSUME StoreInv, NEW d \in Dl, NEW ws \in Workloads, Error(d, ws)
    PROVE  StoreInv'
  <2> USE <1>ErrorInv
  <2> DEFINE new == [n \in Name |-> IF n \in Active(ws) THEN WithResult(ws[n], "error")
                                    ELSE current[d][n]]
  <2>0. /\ UNCHANGED <<present, version, shared>>
        /\ d \in present
        /\ \A n \in Active(ws) : current[d][n] # NoEntry /\ current[d][n].type = ws[n].type
        /\ current' = [current EXCEPT ![d] = new]
    BY DEF Error, ErrorOk, TransactionOk, Active, StoreInv, StoreTypeOK
  <2>1. \A n \in Active(ws) : /\ WithResult(ws[n], "error") \in Entry
                              /\ WithResult(ws[n], "error").type = ws[n].type
    BY DEF Active, Workloads, WithResult, Entry, State
  <2>2. new \in Workloads
    BY <2>1, SMT DEF Workloads, StoreInv, StoreTypeOK
  <2>3. \A n \in Name : \/ new[n] = current[d][n]
                        \/ current[d][n] # NoEntry /\ new[n].type = current[d][n].type
    BY <2>0, <2>1
  <2> HIDE DEF new
  <2>4. current' \in [Dl -> Workloads] /\ current'[d] = new
        /\ \A b \in Dl : b # d => current'[b] = current[b]
    BY <2>0, <2>2 DEF StoreInv, StoreTypeOK
  <2> QED BY <2>0, <2>3, <2>4, <1>StateOnlyInv, SMT
\* A dropped deployment has no workloads; the names of a twin go with its last
\* deployment.
<1>DropInv. ASSUME StoreInv, NEW ds \in SUBSET Dl, Drop(ds)
    PROVE  StoreInv'
  <2> USE <1>DropInv
  <2> USE DEF StoreInv
  <2>0. /\ present' = present \ ds
        /\ version' = [d \in Dl |-> IF d \in ds THEN 0 ELSE version[d]]
        /\ current' = [d \in Dl |-> IF d \in ds THEN NoWorkloads ELSE current[d]]
        /\ shared' = [t \in Twin |-> IF \E d \in present \ ds : TwinOf[d] = t
                                     THEN shared[t] ELSE [n \in Name |-> NoDl]]
    BY DEF Drop
  <2>1. StoreTypeOK'
    BY <2>0, GridAssumption, NoWorkloadsType DEF StoreTypeOK
  <2>2. AbsentIsEmpty'
    BY <2>0 DEF AbsentIsEmpty
  <2>3. SharedOwner'
    <3> SUFFICES ASSUME NEW d \in Dl, NEW n \in SharableIn(current'[d])
                 PROVE  shared'[TwinOf[d]][n] = d
      BY DEF SharedOwner
    <3>1. d \notin ds /\ current'[d] = current[d]
      BY <2>0 DEF SharableIn, Active, NoWorkloads
    <3>2. d \in present
      BY <3>1, SMT DEF AbsentIsEmpty, SharableIn, Active, NoWorkloads
    <3>3. shared'[TwinOf[d]] = shared[TwinOf[d]]
      BY <2>0, <3>1, <3>2, GridAssumption
    <3> QED BY <3>1, <3>3 DEF SharedOwner
  <2> QED BY <2>1, <2>2, <2>3
<1>1. CASE UNCHANGED storeVars
  BY <1>1 DEF storeVars, StoreInv, StoreTypeOK, AbsentIsEmpty, SharedOwner
<1>2. ASSUME NEW d \in Dl, NEW v \in Version, NEW ws \in Workloads, Create(d, v, ws)
      PROVE  StoreInv'
  BY <1>2, <1>CreateInv
<1>3. ASSUME NEW d \in Dl, NEW v \in Version, Update(d, v) PROVE StoreInv'
  BY <1>3, <1>UpdateInv
<1>4. ASSUME NEW d \in Dl, NEW ws \in Workloads, Error(d, ws) PROVE StoreInv'
  BY <1>4, <1>ErrorInv
<1>5. ASSUME NEW d \in Dl, Delete(d) PROVE StoreInv'
  BY <1>5, <1>DropInv DEF Delete
<1>6. ASSUME NEW d \in Dl, NEW n \in Name, NEW e \in Entry, Add(d, n, e) PROVE StoreInv'
  BY <1>6, <1>AddInv
<1>7. ASSUME NEW d \in Dl, NEW n \in Name, Remove(d, n) PROVE StoreInv'
  BY <1>7, <1>RemoveInv
<1>8. ASSUME NEW d \in Dl, NEW n \in Name, NEW e \in Result, Transaction(d, n, e)
      PROVE  StoreInv'
  BY <1>8, <1>TransactionInv
<1>9. ASSUME CleanDeleted PROVE StoreInv'
  BY <1>9, <1>DropInv DEF CleanDeleted, StoreInv, StoreTypeOK
<1> QED BY <1>1, <1>2, <1>3, <1>4, <1>5, <1>6, <1>7, <1>8, <1>9 DEF StoreNext

\* The storage keeps its shape, holds nothing for deployments it does not
\* have, and knows the owner of every active sharable name, for any number of
\* twins, deployments and workloads.
THEOREM StoreInvariant == StoreSpec => []StoreInv
<1>1. StoreInv /\ [StoreNext]_storeVars => StoreInv'
  BY StoreStepInv
<1> QED BY InitInv, <1>1, PTL DEF StoreSpec

\* Whatever the order of storage calls, two deployments of a twin never have
\* an active sharable workload (a network) of the same name.
THEOREM SharedExclusiveHolds == StoreSpec => []SharedExclusive
<1>1. StoreInv => SharedExclusive
  <2> SUFFICES ASSUME StoreInv, NEW a \in Dl, NEW b \in Dl,
                      TwinOf[a] = TwinOf[b], a # b,
                      NEW n \in SharableIn(current[a]) \cap SharableIn(current[b])
               PROVE  FALSE
    BY DEF SharedExclusive
  <2> QED BY SMT DEF StoreInv, SharedOwner
<1> QED BY <1>1, StoreInvariant, PTL
-----------------------------------------------------------------------------
\* a job
RealJob == [op : JobOp, dl : Dl, ver : Version, target : Workloads, source : Workloads]

\* a step of a job
RealStep == [op : StepOp, name : Name, wl : Entry]

\* a lock event of the chain
LockEvent == [dl : Dl, lock : BOOLEAN]

\* where a thread has a step in its hands
Stepping == {"provision", "deprovision", "update", "lock", "record", "remove"}

\* jobs
JobsOK ==
    /\ queue \in Seq(RealJob)
    /\ posting \in [Poster -> RealJob \cup {NoJob}]
    /\ pc["worker"] # "idle" => queue # <<>>

\* threads
ThreadsOK ==
    /\ pc \in [Thread -> {"idle", "run", "error", "dequeue"} \cup Stepping]
    /\ dl \in [Thread -> Dl \cup {NoDl}]
    /\ todo \in [Thread -> SUBSET RealStep]
    /\ step \in [Thread -> RealStep \cup {NoStep}]
    /\ result \in [Thread -> ResultState \cup {"none"}]
    /\ reading \in Workloads
    /\ \A t \in Thread : /\ pc[t] # "idle" => dl[t] \in Dl
                         /\ pc[t] \in Stepping => step[t] \in RealStep
                         /\ pc[t] = "record" => result[t] \in ResultState

\* events and the synchronization
EventsOK ==
    /\ cancels \subseteq Dl
    /\ locks \in Seq(LockEvent)
    /\ sync.todo \subseteq Dl

\* the inductive invariant
EngineInv == StoreInv /\ JobsOK /\ ThreadsOK /\ EventsOK
-----------------------------------------------------------------------------
\* The steps of a job are about workloads.
LEMMA JobStepsType ==
    ASSUME NEW j \in RealJob
    PROVE  JobSteps(j) \subseteq RealStep
\* A step of a job has the current data of an active workload.
<1>StepsType. ASSUME NEW op \in StepOp, NEW ws \in Workloads
    PROVE  Steps(op, ws) \subseteq RealStep
  BY <1>StepsType, SMT DEF Steps, Step, RealStep, Active, Workloads
\* The steps of an upgrade have the data of the new workloads, or of the old
\* ones that are removed.
<1>UpgradeStepsType. ASSUME NEW old \in Workloads, NEW new \in Workloads, NEW v
    PROVE  UpgradeSteps(old, new, v) \subseteq RealStep
  <2> USE <1>UpgradeStepsType
  <2>1. \A n \in Active(new) : n \in Name /\ new[n] \in Entry
    BY DEF Active, Workloads
  <2>2. \A n \in Active(old) : n \in Name /\ old[n] \in Entry
    BY DEF Active, Workloads
  <2>3. ASSUME NEW n \in Active(new) \cap Active(old)
        PROVE  WithResult(new[n], old[n].state) \in Entry
    BY <2>1, <2>2 DEF WithResult, Entry
  <2> QED BY <2>1, <2>2, <2>3, SMT DEF UpgradeSteps, Step, RealStep, StepOp
<1>1. j.target \in Workloads /\ j.source \in Workloads /\ j.op \in JobOp
  BY SMT DEF RealJob
<1> QED BY <1>1, <1>StepsType, <1>UpgradeStepsType DEF JobSteps, JobOp, StepOp
-----------------------------------------------------------------------------
\* Every step of the engine is a storage call, or none.
LEMMA EngineStoreStep ==
    ASSUME EngineInv, [EngineNext]_engineVars
    PROVE  [StoreNext]_storeVars
<1> SUFFICES ASSUME ~UNCHANGED storeVars PROVE StoreNext
  OBVIOUS
<1> USE DEF storeVars
<1>1. ASSUME NEW d \in Dl, NEW r \in Requests, Provision(d, r) PROVE StoreNext
  <2>1. Create(d, 0, r.ws) /\ r.ws \in Workloads /\ 0 \in Version
    BY <1>1, EngineAssumption, GridAssumption DEF Provision
  <2> QED BY <2>1 DEF StoreNext
<1>2. ASSUME NEW d \in Dl, NEW r \in Requests, UpdateDeployment(d, r) PROVE StoreNext
  <2>1. Update(d, r.ver) /\ r.ver \in Version
    BY <1>2, EngineAssumption DEF UpdateDeployment
  <2> QED BY <2>1 DEF StoreNext
<1>3. CASE StoreError
  <2>1. dl["worker"] \in Dl /\ reading \in Workloads
    BY <1>3 DEF StoreError, EngineInv, ThreadsOK, Thread
  <2>2. Error(dl["worker"], reading)
    BY <1>3 DEF StoreError
  <2> QED BY <2>1, <2>2 DEF StoreNext
<1>4. ASSUME NEW t \in Thread, TakeStep(t) PROVE StoreNext
  <2>1. dl[t] \in Dl /\ todo[t] \subseteq RealStep
    BY <1>4 DEF TakeStep, EngineInv, ThreadsOK
  <2>2. PICK s \in NextSteps(t) : Install(t, s)
    BY <1>4 DEF TakeStep, Uninstall, UpdateWorkload, LockWorkload
  <2>3. s.name \in Name /\ s.wl \in Entry
    BY <2>1 DEF NextSteps, RealStep
  <2>4. Add(dl[t], s.name, s.wl)
    BY <2>2 DEF Install
  <2> QED BY <2>1, <2>3, <2>4 DEF StoreNext
<1>5. ASSUME NEW t \in Thread, Record(t) PROVE StoreNext
  <2>1. dl[t] \in Dl /\ step[t] \in RealStep /\ result[t] \in ResultState
    BY <1>5 DEF Record, EngineInv, ThreadsOK, Stepping
  <2>2. Transaction(dl[t], step[t].name, WithResult(step[t].wl, result[t]))
    BY <1>5 DEF Record
  <2>3. step[t].name \in Name /\ WithResult(step[t].wl, result[t]) \in Result
    BY <2>1 DEF RealStep, Entry, Result, WithResult
  <2> QED BY <2>1, <2>2, <2>3 DEF StoreNext
<1>6. ASSUME NEW t \in Thread, RemoveWorkload(t) PROVE StoreNext
  <2>1. dl[t] \in Dl /\ step[t].name \in Name
    BY <1>6 DEF RemoveWorkload, EngineInv, ThreadsOK, Stepping, RealStep
  <2>2. Remove(dl[t], step[t].name)
    BY <1>6 DEF RemoveWorkload
  <2> QED BY <2>1, <2>2 DEF StoreNext
<1>7. ASSUME NEW t \in Thread, EndSteps(t) PROVE StoreNext
  <2>1. dl[t] \in Dl
    BY <1>7 DEF EndSteps, EngineInv, ThreadsOK
  <2>2. Delete(dl[t])
    BY <1>7 DEF EndSteps
  <2> QED BY <2>1, <2>2 DEF StoreNext
<1>8. ASSUME NEW kind, Restart(kind) PROVE StoreNext
  BY <1>8 DEF Restart, StoreNext
<1>9. ASSUME NEW d \in Dl, NEW n \in Name, DecommissionCached(d, n) PROVE StoreNext
  BY <1>9 DEF DecommissionCached
<1>10. ASSUME NEW d \in Dl, SyncOne(d) PROVE StoreNext
  BY <1>10 DEF SyncOne
<1>11. ASSUME NEW p \in Poster, Enqueue(p) PROVE StoreNext
  BY <1>11 DEF Enqueue
<1>12. ASSUME NEW t \in Thread, CallManager(t) PROVE StoreNext
  BY <1>12 DEF CallManager
<1>13. CASE StartJob \/ Dequeue \/ Chain \/ HandleEvent \/ SyncStart
  BY <1>13 DEF StartJob, Dequeue, Chain, HandleEvent, SyncStart
<1>14. CASE UNCHANGED engineVars
  BY <1>14 DEF engineVars
<1> QED
  BY <1>1, <1>2, <1>3, <1>4, <1>5, <1>6, <1>7, <1>8, <1>9, <1>10, <1>11, <1>12, <1>13, <1>14, SMT
     DEF EngineNext, UserStep, SystemStep, Worker, Work
-----------------------------------------------------------------------------
\* The first state satisfies the invariant: no jobs and no calls.
LEMMA EngineInvInit == EngineInit => EngineInv
<1> SUFFICES ASSUME EngineInit PROVE EngineInv
  OBVIOUS
<1>1. StoreInv
  BY InitInv DEF EngineInit
<1>2. JobsOK
  BY SMT DEF EngineInit, JobsOK, Thread
<1>3. ThreadsOK
  BY NoWorkloadsType DEF EngineInit, ThreadsOK, Stepping
<1>4. EventsOK
  BY SMT DEF EngineInit, EventsOK, NoSync
<1> QED BY <1>1, <1>2, <1>3, <1>4 DEF EngineInv

\* Every step of the engine keeps the invariant.
LEMMA EngineStepInv ==
    ASSUME EngineInv, [EngineNext]_engineVars
    PROVE  EngineInv'
\* A job with the current data of a deployment is a proper job.
<1>PostCurrentType. ASSUME EngineInv, NEW p \in Poster, NEW op \in JobOp, NEW d \in Dl, PostCurrent(p, op, d)
    PROVE  posting' \in [Poster -> RealJob \cup {NoJob}]
  <2> USE <1>PostCurrentType
  <2>1. Job(op, d, version[d], current[d], NoWorkloads) \in RealJob
    BY NoWorkloadsType DEF Job, RealJob, EngineInv, StoreInv, StoreTypeOK
  <2> QED BY <2>1 DEF PostCurrent, Post, EngineInv, JobsOK
\* The calls of users keep the shape of jobs.
<1>ApiOK. ASSUME EngineInv, NEW d \in Dl, NEW r \in Requests,
           Provision(d, r) \/ UpdateDeployment(d, r)
    PROVE  JobsOK' /\ ThreadsOK' /\ EventsOK'
  <2> USE <1>ApiOK
  <2>1. r.ver \in Version /\ WithState(r.ws, "init") \in Workloads
    BY EngineAssumption, WithStateType DEF State
  <2>2. /\ Job("provision", d, 0, WithState(r.ws, "init"), NoWorkloads) \in RealJob
        /\ Job("update", d, r.ver, WithState(r.ws, "init"), current[d]) \in RealJob
    BY <2>1, NoWorkloadsType, GridAssumption DEF Job, RealJob, JobOp, EngineInv, StoreInv, StoreTypeOK
  <2>3. posting' \in [Poster -> RealJob \cup {NoJob}]
    BY <2>2 DEF Provision, UpdateDeployment, Post, EngineInv, JobsOK
  <2> QED BY <2>3 DEF Provision, UpdateDeployment, EngineInv, JobsOK, ThreadsOK, EventsOK,
             threadVars, chainVars
\* DecommissionCached starts the zbus server on one step.
<1>DecommissionOK. ASSUME EngineInv, NEW d \in Dl, NEW n \in Name, DecommissionCached(d, n)
    PROVE  JobsOK' /\ ThreadsOK' /\ EventsOK'
  <2> USE <1>DecommissionOK
  <2>1. Step("uninstall", n, current[d][n]) \in RealStep
    BY SMT DEF DecommissionCached, Step, RealStep, StepOp, Active, EngineInv, StoreInv, StoreTypeOK,
       Workloads
  <2>2. ThreadsOK'
    <3>1. todo' \in [Thread -> SUBSET RealStep]
      BY <2>1 DEF DecommissionCached, EngineInv, ThreadsOK, Thread
    <3>2. /\ pc' = [pc EXCEPT !["api"] = "run"] /\ dl' = [dl EXCEPT !["api"] = d]
          /\ UNCHANGED <<step, result, reading>>
      BY DEF DecommissionCached
    <3> QED BY <3>1, <3>2 DEF EngineInv, ThreadsOK, Thread, Stepping
  <2>3. JobsOK'
    BY DEF DecommissionCached, EngineInv, ThreadsOK, Thread, JobsOK
  <2> QED BY <2>2, <2>3 DEF DecommissionCached, EngineInv, EventsOK, chainVars
\* Jobs are put in the queue and taken out of it.
<1>QueueOK. ASSUME EngineInv, (\E p \in Poster : Enqueue(p)) \/ Dequeue
    PROVE  JobsOK' /\ ThreadsOK' /\ EventsOK'
  <2> USE <1>QueueOK
  <2>1. ASSUME NEW p \in Poster, Enqueue(p) PROVE JobsOK' /\ ThreadsOK' /\ EventsOK'
    <3>1. JobsOK'
      BY <2>1, SMT DEF Enqueue, EngineInv, JobsOK, threadVars
    <3> QED BY <2>1, <3>1 DEF Enqueue, EngineInv, ThreadsOK, EventsOK, threadVars, chainVars
  <2>2. CASE Dequeue
    <3>1. JobsOK'
      BY <2>2, SMT DEF Dequeue, EngineInv, JobsOK, ThreadsOK, Thread
    <3>2. ThreadsOK'
      BY <2>2, NoWorkloadsType DEF Dequeue, EngineInv, ThreadsOK, Thread, Stepping
    <3> QED BY <2>2, <3>1, <3>2 DEF Dequeue, EngineInv, EventsOK, chainVars
  <2> QED BY <2>1, <2>2
\* The worker starts the steps of the first job, or puts it in error.
<1>StartJobOK. ASSUME EngineInv, StartJob
    PROVE  JobsOK' /\ ThreadsOK' /\ EventsOK'
  <2> USE <1>StartJobOK
  <2> DEFINE j == Head(queue)
  <2>1. j \in RealJob /\ queue # <<>>
    BY SMT DEF StartJob, EngineInv, JobsOK
  <2>2. j.dl \in Dl /\ JobSteps(j) \subseteq RealStep /\ current[j.dl] \in Workloads
    BY <2>1, JobStepsType DEF RealJob, EngineInv, StoreInv, StoreTypeOK
  <2>3. /\ dl' = [dl EXCEPT !["worker"] = j.dl]
        /\ todo' = [todo EXCEPT !["worker"] = JobSteps(j)] \/ todo' = todo
        /\ reading' \in {reading, current[j.dl]}
        /\ \E at \in {"run", "error", "dequeue"} : pc' = [pc EXCEPT !["worker"] = at]
        /\ UNCHANGED <<queue, posting, step, result, cancels, locks, sync>>
    BY DEF StartJob, chainVars
  <2> HIDE DEF j
  <2>4. ThreadsOK'
    BY <2>2, <2>3, SMT DEF EngineInv, ThreadsOK, Thread, Stepping
  <2> QED BY <2>1, <2>3, <2>4 DEF EngineInv, JobsOK, EventsOK
\* storage.Error, and the end of the steps of a job.
<1>EndOK. ASSUME EngineInv, StoreError \/ \E t \in Thread : EndSteps(t)
    PROVE  JobsOK' /\ ThreadsOK' /\ EventsOK'
  <2> USE <1>EndOK
  <2> USE DEF EngineInv, JobsOK, ThreadsOK, EventsOK, Thread, Stepping, chainVars
  <2>1. CASE StoreError BY <2>1, NoWorkloadsType DEF StoreError
  <2>2. ASSUME NEW t \in Thread, EndSteps(t) PROVE JobsOK' /\ ThreadsOK' /\ EventsOK'
    BY <2>2 DEF EndSteps
  <2> QED BY <2>1, <2>2
\* A step begins with an element of todo.
<1>TakeStepOK. ASSUME EngineInv, NEW t \in Thread, TakeStep(t)
    PROVE  JobsOK' /\ ThreadsOK' /\ EventsOK'
  <2> USE <1>TakeStepOK
  <2>1. PICK s \in todo[t] :
           \/ \E at \in Stepping \ {"record"} : Begin(t, s, at)
           \/ Skip(t, s)
    BY DEF TakeStep, NextSteps, Install, Uninstall, UpdateWorkload, LockWorkload, Stepping
  <2>2. s \in RealStep /\ pc[t] = "run"
    BY DEF TakeStep, EngineInv, ThreadsOK
  <2>3. UNCHANGED <<queue, posting, dl, result, reading, cancels, locks, sync>>
    BY DEF TakeStep, chainVars
  <2>4. todo' = [todo EXCEPT ![t] = @ \ {s}] /\ todo' \in [Thread -> SUBSET RealStep]
    BY <2>1 DEF Begin, Skip, EngineInv, ThreadsOK
  <2>5. CASE \E at \in Stepping \ {"record"} : Begin(t, s, at)
    <3>1. PICK at \in Stepping \ {"record"} : Begin(t, s, at)
      BY <2>5
    <3>2. pc' = [pc EXCEPT ![t] = at] /\ step' = [step EXCEPT ![t] = s]
      BY <3>1 DEF Begin
    <3>3. ThreadsOK'
      BY <2>2, <2>3, <2>4, <3>2 DEF EngineInv, ThreadsOK, Stepping
    <3>4. JobsOK'
      BY <2>2, <2>3, <3>2 DEF EngineInv, ThreadsOK, JobsOK, Thread
    <3> QED BY <2>3, <3>3, <3>4 DEF EngineInv, EventsOK
  <2>6. CASE Skip(t, s)
    BY <2>3, <2>4, <2>6 DEF Skip, EngineInv, JobsOK, ThreadsOK, EventsOK
  <2> QED BY <2>1, <2>5, <2>6
\* Workload managers answer with a result.
<1>CallOK. ASSUME EngineInv, NEW t \in Thread, CallManager(t)
    PROVE  JobsOK' /\ ThreadsOK' /\ EventsOK'
  <2> USE <1>CallOK
  <2>1. UNCHANGED <<queue, posting, dl, todo, reading, cancels, locks, sync>>
    BY DEF CallManager, chainVars
  <2>2. pc[t] \in Stepping
    BY DEF CallManager, CallProvision, CallDeprovision, CallUpdate, CallLock, Stepping
  <2>3. Done(t) \/ \E s \in ResultState : Answer(t, s)
    <3>1. CASE CallProvision(t) BY <3>1 DEF CallProvision, ResultState, State
    <3>2. CASE CallDeprovision(t) BY <3>2 DEF CallDeprovision, ResultState, State
    <3>3. CASE CallUpdate(t)
      <4> DEFINE c == current[dl[t]][step[t].name]
      <4>1. dl[t] \in Dl /\ step[t].name \in Name
        BY <2>2 DEF EngineInv, ThreadsOK, Stepping, RealStep
      <4>2. c # NoEntry => c.state \in ResultState
        BY <4>1, SMT DEF EngineInv, StoreInv, StoreTypeOK, Workloads, Entry, ResultState
      <4>3. \/ Done(t)
            \/ c # NoEntry /\ Answer(t, c.state)
            \/ Answer(t, "ok")
            \/ Answer(t, "error")
            \/ Answer(t, "unchanged")
        BY <3>3 DEF CallUpdate
      <4>4. "ok" \in ResultState /\ "error" \in ResultState /\ "unchanged" \in ResultState
        BY DEF ResultState, State
      <4> HIDE DEF c
      <4> QED BY <4>2, <4>3, <4>4
    <3>4. CASE CallLock(t) BY <3>4 DEF CallLock, ResultState, State
    <3> QED BY <3>1, <3>2, <3>3, <3>4 DEF CallManager
  <2>4. CASE Done(t)
    BY <2>1, <2>2, <2>4 DEF Done, EngineInv, JobsOK, ThreadsOK, EventsOK, Thread, Stepping
  <2>5. ASSUME NEW s \in ResultState, Answer(t, s) PROVE JobsOK' /\ ThreadsOK' /\ EventsOK'
    BY <2>1, <2>2, <2>5 DEF Answer, EngineInv, JobsOK, ThreadsOK, EventsOK, Thread, Stepping
  <2> QED BY <2>3, <2>4, <2>5
\* The result is stored, and a deleted workload removed.
<1>RecordOK. ASSUME EngineInv, NEW t \in Thread, Record(t) \/ RemoveWorkload(t)
    PROVE  JobsOK' /\ ThreadsOK' /\ EventsOK'
  <2> USE <1>RecordOK
  <2>1. UNCHANGED <<queue, posting, dl, todo, reading, cancels, locks, sync>>
    BY DEF Record, RemoveWorkload, chainVars
  <2>2. pc[t] = "record" \/ pc[t] = "remove"
    <3>1. CASE Record(t) BY <3>1 DEF Record
    <3>2. CASE RemoveWorkload(t) BY <3>2 DEF RemoveWorkload
    <3> QED BY <3>1, <3>2
  <2>3. \/ Done(t)
        \/ pc' = [pc EXCEPT ![t] = "remove"] /\ UNCHANGED <<step, result>>
    <3>1. CASE Record(t) BY <3>1 DEF Record
    <3>2. CASE RemoveWorkload(t) BY <3>2 DEF RemoveWorkload
    <3> QED BY <3>1, <3>2
  <2> QED BY <2>1, <2>2, <2>3, SMT
          DEF Done, EngineInv, JobsOK, ThreadsOK, EventsOK, Thread, Stepping
\* The chain sends events about deployments, which become jobs.
<1>ChainOK. ASSUME EngineInv, Chain \/ HandleEvent \/ SyncStart \/ \E d \in Dl : SyncOne(d)
    PROVE  JobsOK' /\ ThreadsOK' /\ EventsOK'
  <2> USE <1>ChainOK
  <2>1. UNCHANGED <<queue, threadVars>>
    BY DEF Chain, HandleEvent, SyncStart, SyncOne
  <2>2. ThreadsOK'
    BY <2>1 DEF EngineInv, ThreadsOK, threadVars
  <2>3. posting' \in [Poster -> RealJob \cup {NoJob}] /\ EventsOK'
    <3>1. CASE Chain
      <4>1. /\ posting' = posting /\ sync' = sync
            /\ cancels' \subseteq cancels \/ \E d \in Dl : cancels' = cancels \cup {d}
        BY <3>1 DEF Chain, LoseEvent, ChangeHash, Cancel, SetGrace
      <4>2. ASSUME NEW d \in Dl, NEW lock \in BOOLEAN, SetGrace(d, lock)
            PROVE  locks' \in Seq(LockEvent)
        <5>1. [dl |-> d, lock |-> lock] \in LockEvent
          BY DEF LockEvent
        <5> QED BY <4>2, <5>1, SMT DEF SetGrace, EngineInv, EventsOK
      <4>3. locks' \in Seq(LockEvent)
        <5>0. locks \in Seq(LockEvent)
          BY DEF EngineInv, EventsOK
        <5>1. CASE LoseEvent
          <6>1. locks' = locks \/ (locks # <<>> /\ locks' = Tail(locks))
            BY <5>1 DEF LoseEvent
          <6>2. locks # <<>> => Tail(locks) \in Seq(LockEvent)
            BY <5>0, SMT
          <6> QED BY <5>0, <6>1, <6>2
        <5>2. ASSUME NEW d \in Dl, ChangeHash(d) \/ Cancel(d) PROVE locks' = locks
          BY <5>2 DEF ChangeHash, Cancel
        <5> QED BY <3>1, <4>2, <5>0, <5>1, <5>2 DEF Chain
      <4> QED BY <4>1, <4>3 DEF EngineInv, JobsOK, EventsOK
    <3>2. CASE HandleEvent
      <4>1. ASSUME NEW d \in Dl, HandleCancel(d)
            PROVE  posting' \in [Poster -> RealJob \cup {NoJob}]
        BY <4>1, <1>PostCurrentType DEF HandleCancel, Poster, JobOp
      <4>2. ASSUME HandleLock PROVE posting' \in [Poster -> RealJob \cup {NoJob}]
        <5>1. Head(locks) \in LockEvent
          BY <4>2, SMT DEF HandleLock, EngineInv, EventsOK
        <5>2. Head(locks).dl \in Dl
          BY <5>1 DEF LockEvent
        <5> QED BY <4>2, <5>2, <1>PostCurrentType DEF HandleLock, Poster, JobOp
      <4>3. EventsOK'
        BY <3>2, SMT DEF HandleEvent, HandleCancel, HandleLock, EngineInv, EventsOK
      <4> QED BY <3>2, <4>1, <4>2, <4>3 DEF HandleEvent
    <3>3. CASE SyncStart
      BY <3>3 DEF SyncStart, EngineInv, JobsOK, EventsOK, StoreInv, StoreTypeOK, chainVars
    <3>4. ASSUME NEW d \in Dl, SyncOne(d)
          PROVE  posting' \in [Poster -> RealJob \cup {NoJob}] /\ EventsOK'
      <4>1. posting' \in [Poster -> RealJob \cup {NoJob}]
        BY <3>4, <1>PostCurrentType DEF SyncOne, Poster, JobOp, EngineInv, JobsOK
      <4>2. EventsOK'
        BY <3>4 DEF SyncOne, NoSync, EngineInv, EventsOK, chainVars
      <4> QED BY <4>1, <4>2
    <3> QED BY <3>1, <3>2, <3>3, <3>4
  <2> QED BY <2>1, <2>2, <2>3 DEF EngineInv, JobsOK, threadVars
\* After a restart nothing is under way; after a reboot the queue has a job for
\* every active deployment.
<1>RestartOK. ASSUME EngineInv, NEW kind, Restart(kind)
    PROVE  JobsOK' /\ ThreadsOK' /\ EventsOK'
  <2> USE <1>RestartOK
  <2>1. ASSUME NEW ds \in SUBSET Dl, NEW q \in BootJobs(ds) PROVE q \in Seq(RealJob)
    <3>1. PICK f \in [1 .. Cardinality(ds) -> ds] :
             q = [i \in DOMAIN f |-> Job("reprovision", f[i], version[f[i]], current[f[i]],
                                         NoWorkloads)]
      BY DEF BootJobs
    <3>2. Cardinality(ds) \in Nat
      BY EngineAssumption
    <3>3. \A d \in Dl : Job("reprovision", d, version[d], current[d], NoWorkloads) \in RealJob
      BY NoWorkloadsType DEF Job, RealJob, JobOp, EngineInv, StoreInv, StoreTypeOK
    <3>4. q \in [1 .. Cardinality(ds) -> RealJob]
      BY <3>1, <3>3
    <3> QED BY <3>2, <3>4, SMT
  <2>2. {d \in Kept : IsActive(current[d])} \in SUBSET Dl
    BY DEF Kept, EngineInv, StoreInv, StoreTypeOK
  <2>3. queue' \in Seq(RealJob)
    BY <2>1, <2>2 DEF Restart, BootQueues, EngineInv, JobsOK
  <2>4. JobsOK'
    BY <2>3 DEF Restart, JobsOK, Thread
  <2>5. ThreadsOK'
    BY NoWorkloadsType DEF Restart, ThreadsOK, Stepping
  <2>6. EventsOK'
    BY DEF Restart, NoSync, EngineInv, EventsOK, chainVars
  <2> QED BY <2>4, <2>5, <2>6
<1>1. StoreInv'
  BY EngineStoreStep, StoreStepInv DEF EngineInv
<1>2. CASE UNCHANGED engineVars
  BY <1>1, <1>2, ZenonT(30) DEF engineVars, threadVars, chainVars, EngineInv, JobsOK, ThreadsOK, EventsOK
<1>3. CASE EngineNext
  <2>1. CASE UserStep(Dl, Requests) BY <1>1, <2>1, <1>ApiOK, <1>DecommissionOK DEF UserStep, EngineInv
  <2>2. CASE Worker BY <1>1, <2>2, <1>QueueOK, <1>StartJobOK, <1>EndOK DEF Worker, EngineInv
  <2>3. ASSUME NEW t \in Thread, Work(t) PROVE EngineInv'
    BY <1>1, <2>3, <1>TakeStepOK, <1>CallOK, <1>RecordOK, <1>EndOK DEF Work, EngineInv
  <2>4. CASE Chain \/ HandleEvent \/ SyncStart \/ \E d \in Dl : SyncOne(d)
    BY <1>1, <2>4, <1>ChainOK DEF EngineInv
  <2>5. CASE \E p \in Poster : Enqueue(p) BY <1>1, <2>5, <1>QueueOK DEF EngineInv
  <2>6. ASSUME NEW kind \in {"crash", "reboot"}, Restart(kind) PROVE EngineInv'
    BY <1>1, <2>6, <1>RestartOK DEF EngineInv
  <2> QED BY <1>3, <2>1, <2>2, <2>3, <2>4, <2>5, <2>6 DEF EngineNext, SystemStep
<1> QED BY <1>2, <1>3

\* Every behaviour of the engine is one of the storage of WorkloadStore: the
\* calls of the worker, of the zbus server and of the start of provisiond are
\* the transactions it allows, in some order.
THEOREM EngineImplementsStore == EngineSpec => StoreSpec
<1>1. EngineInit => StoreInit
  BY DEF EngineInit
<1>2. EngineSpec => []EngineInv
  BY EngineInvInit, EngineStepInv, PTL DEF EngineSpec
<1>3. EngineInv /\ [EngineNext]_engineVars => [StoreNext]_storeVars
  BY EngineStoreStep
<1> QED BY <1>1, <1>2, <1>3, PTL DEF EngineSpec, StoreSpec

\* Two deployments of a twin never have an active network of the same name,
\* however the worker, the calls of users, events, restarts and faults of the
\* engine interleave.
THEOREM EngineSharedExclusive == EngineSpec => []SharedExclusive
BY EngineImplementsStore, SharedExclusiveHolds, PTL
-----------------------------------------------------------------------------
\* the rest of the state
RestOK ==
    /\ failed \in BOOLEAN
    /\ res \subseteq Dl \X Name \X Type
    /\ contract \in [Dl -> {"created", "grace", "deleted"}]
    /\ hash \in [Dl -> Version]
    /\ sync \in [todo : SUBSET Dl, gone : SUBSET Dl, locked : SUBSET Dl]
    /\ restarts \in 0 .. MaxRestart

\* Initially nothing is on the node, no contract is gone and nothing is synchronized.
LEMMA RestInit == EngineInit => RestOK
<1> SUFFICES ASSUME EngineInit PROVE RestOK
  OBVIOUS
<1>1. 0 \in 0 .. MaxRestart BY EngineAssumption, SMT
<1>2. NoSync \in [todo : SUBSET Dl, gone : SUBSET Dl, locked : SUBSET Dl] BY DEF NoSync
<1> QED BY <1>1, <1>2, GridAssumption DEF EngineInit, RestOK

\* Every step of the engine keeps the types of the rest of the state.
LEMMA RestStep ==
    ASSUME EngineInv, RestOK, [EngineNext]_engineVars
    PROVE  RestOK'
\* The resource of a step is one of a deployment, a name and a type.
<1>ResourceType. ASSUME EngineInv, NEW t \in Thread, pc[t] \in Stepping
    PROVE  Resource(t) \in Dl \X Name \X Type
  <2> USE <1>ResourceType
  <2>1. dl[t] \in Dl /\ step[t] \in RealStep BY DEF EngineInv, ThreadsOK, Stepping
  <2>2. step[t].name \in Name /\ step[t].wl.type \in Type BY <2>1 DEF RealStep, Entry
  <2> QED BY <2>1, <2>2 DEF Resource
\* A step of a thread changes at most the resource of its own step, and its
\* error flag.
<1>RestThreads. ASSUME EngineInv, RestOK, NEW t \in Thread, Work(t)
    PROVE  RestOK'
  <2> USE <1>RestThreads
  <2>1. UNCHANGED <<contract, hash, sync, restarts>>
    BY DEF Work, TakeStep, CallManager, Record, RemoveWorkload, EndSteps, chainVars
  <2>2. CASE TakeStep(t)
    <3>1. UNCHANGED res BY <2>2 DEF TakeStep
    <3>2. failed' \in BOOLEAN
      BY <2>2 DEF TakeStep, Install, Uninstall, UpdateWorkload, LockWorkload, Begin, RestOK
    <3> QED BY <2>1, <3>1, <3>2 DEF RestOK
  <2>3. CASE CallManager(t)
    <3>1. UNCHANGED failed BY <2>3 DEF CallManager
    <3>2. pc[t] \in Stepping
      BY <2>3 DEF CallManager, CallProvision, CallDeprovision, CallUpdate, CallLock, Stepping
    <3>3. res' \in {res, res \cup {Resource(t)}, res \ {Resource(t)}}
      BY <2>3 DEF CallManager, CallProvision, CallDeprovision, CallUpdate, CallLock
    <3>4. res' \subseteq Dl \X Name \X Type BY <3>2, <3>3, <1>ResourceType, ZenonT(30) DEF RestOK
    <3> QED BY <2>1, <3>1, <3>4 DEF RestOK
  <2>4. CASE Record(t)
    <3>1. UNCHANGED res BY <2>4 DEF Record
    <3>2. failed' \in BOOLEAN BY <2>4 DEF Record, RestOK
    <3> QED BY <2>1, <3>1, <3>2 DEF RestOK
  <2>5. CASE RemoveWorkload(t) \/ EndSteps(t)
    BY <2>1, <2>5 DEF RemoveWorkload, EndSteps, RestOK
  <2> QED BY <2>2, <2>3, <2>4, <2>5 DEF Work
\* A contract is created, in its grace period or deleted, and its hash is the
\* hash of a version.
<1>RestChain. ASSUME RestOK, Chain
    PROVE  RestOK'
  <2> USE <1>RestChain
  <2>1. UNCHANGED <<failed, res, sync, restarts>> BY DEF Chain, threadVars
  <2>2. hash' \in [Dl -> Version]
    BY DEF Chain, LoseEvent, ChangeHash, Cancel, SetGrace, RestOK
  <2>3. contract' \in [Dl -> {"created", "grace", "deleted"}]
    BY DEF Chain, LoseEvent, ChangeHash, Cancel, SetGrace, RestOK
  <2> QED BY <2>1, <2>2, <2>3 DEF RestOK
\* A round of synchronization is about stored deployments.
<1>RestSync. ASSUME EngineInv, RestOK, SyncStart \/ \E d \in Dl : SyncOne(d)
    PROVE  RestOK'
  <2> USE <1>RestSync
  <2>1. UNCHANGED <<failed, res, contract, hash, restarts>>
    BY DEF SyncStart, SyncOne, threadVars, chainVars
  <2>2. sync' \in [todo : SUBSET Dl, gone : SUBSET Dl, locked : SUBSET Dl]
    <3>1. CASE SyncStart
      <4>1. present \subseteq Dl BY DEF EngineInv, StoreInv, StoreTypeOK
      <4> QED BY <3>1, <4>1 DEF SyncStart
    <3>2. ASSUME NEW d \in Dl, SyncOne(d)
          PROVE  sync' \in [todo : SUBSET Dl, gone : SUBSET Dl, locked : SUBSET Dl]
      <4>1. sync.todo \subseteq Dl /\ sync.gone \subseteq Dl /\ sync.locked \subseteq Dl BY DEF RestOK
      <4>2. sync' = NoSync \/ sync' = [todo |-> sync.todo \ {d}, gone |-> sync.gone, locked |-> sync.locked]
        BY <3>2 DEF SyncOne
      <4>3. NoSync \in [todo : SUBSET Dl, gone : SUBSET Dl, locked : SUBSET Dl] BY DEF NoSync
      <4>4. sync.todo \ {d} \in SUBSET Dl BY <4>1
      <4>5. [todo |-> sync.todo \ {d}, gone |-> sync.gone, locked |-> sync.locked]
              \in [todo : SUBSET Dl, gone : SUBSET Dl, locked : SUBSET Dl]
        BY <4>1, <4>4
      <4> QED BY <4>2, <4>3, <4>5
    <3> QED BY <3>1, <3>2
  <2> QED BY <2>1, <2>2 DEF RestOK
\* A restart keeps the types, and counts.
<1>RestRestart. ASSUME RestOK, NEW kind, Restart(kind)
    PROVE  RestOK'
  <2> USE <1>RestRestart
  <2>1. UNCHANGED <<contract, hash>> /\ failed' = FALSE /\ res' \subseteq res /\ sync' = NoSync
    BY DEF Restart, chainVars
  <2>2. restarts' \in 0 .. MaxRestart
    <3>1. restarts < MaxRestart /\ restarts' = restarts + 1 BY DEF Restart
    <3>2. restarts \in 0 .. MaxRestart BY DEF RestOK
    <3> QED BY <3>1, <3>2, EngineAssumption, SMT
  <2>3. NoSync \in [todo : SUBSET Dl, gone : SUBSET Dl, locked : SUBSET Dl] BY DEF NoSync
  <2> QED BY <2>1, <2>2, <2>3 DEF RestOK
<1>1. CASE UNCHANGED engineVars BY <1>1 DEF engineVars, threadVars, chainVars, RestOK
<1>2. CASE EngineNext
  <2>1. CASE UserStep(Dl, Requests)
    <3>1. UNCHANGED <<failed, res, contract, hash, sync, restarts>>
      <4>1. ASSUME NEW d, NEW r, Provision(d, r) \/ UpdateDeployment(d, r)
            PROVE  UNCHANGED <<failed, res, contract, hash, sync, restarts>>
        BY <4>1 DEF Provision, UpdateDeployment, threadVars, chainVars
      <4>2. ASSUME NEW d, NEW n, DecommissionCached(d, n)
            PROVE  UNCHANGED <<failed, res, contract, hash, sync, restarts>>
        BY <4>2 DEF DecommissionCached, chainVars
      <4> QED BY <2>1, <4>1, <4>2 DEF UserStep
    <3> QED BY <3>1 DEF RestOK
  <2>2. CASE Worker
    BY <2>2 DEF Worker, StartJob, StoreError, Dequeue, chainVars, RestOK
  <2>3. CASE (\E p \in Poster : Enqueue(p)) \/ HandleEvent
    BY <2>3 DEF Enqueue, HandleEvent, HandleCancel, HandleLock, threadVars, chainVars, RestOK
  <2> QED BY <1>2, <2>1, <2>2, <2>3, <1>RestThreads, <1>RestChain, <1>RestSync, <1>RestRestart
          DEF EngineNext, SystemStep
<1> QED BY <1>1, <1>2

\* Together with the invariant of the arguments this is the type invariant.
LEMMA RestTypes == EngineInv /\ RestOK => EngineTypeOK
<1> SUFFICES ASSUME EngineInv, RestOK PROVE EngineTypeOK
  OBVIOUS
<1>1. RealJob \subseteq JobType /\ NoJob \in JobType
  BY NoWorkloadsType, GridAssumption DEF RealJob, JobType, NoJob, Job
<1>2. RealStep \subseteq StepType /\ NoStep \in StepType
  BY DEF RealStep, StepType, NoStep, Step
<1>3. queue \in Seq(JobType) BY <1>1, SMT DEF EngineInv, JobsOK
<1>4. posting \in [Poster -> JobType] BY <1>1 DEF EngineInv, JobsOK
<1>5. /\ todo \in [Thread -> SUBSET StepType] /\ step \in [Thread -> StepType]
      /\ pc \in [Thread -> {"idle", "run", "provision", "deprovision", "update", "lock",
                            "record", "remove", "error", "dequeue"}]
      /\ dl \in [Thread -> Dl \cup {NoDl}]
      /\ result \in [Thread -> ResultState \cup {"none"}]
      /\ reading \in Workloads
  BY <1>2 DEF EngineInv, ThreadsOK, Stepping
<1>6. cancels \subseteq Dl /\ locks \in Seq([dl : Dl, lock : BOOLEAN])
  BY DEF EngineInv, EventsOK, LockEvent
<1>7. StoreTypeOK BY DEF EngineInv, StoreInv
<1> QED BY <1>3, <1>4, <1>5, <1>6, <1>7 DEF EngineTypeOK, RestOK

\* The type invariant of the engine holds for any deployments, requests,
\* faults and restarts: no actor ever passes a wrong job, step or result.
THEOREM EngineTypeAlways == EngineSpec => []EngineTypeOK
BY EngineInvInit, EngineStepInv, RestInit, RestStep, RestTypes, PTL DEF EngineSpec

-----------------------------------------------------------------------------
\* Where the threads are, and what contracts the jobs that remove are about.

\* where a thread is, and what it has in its hands there
ThreadShape(t) ==
    /\ pc[t] \in {"idle", "error", "dequeue"} => todo[t] = {}
    /\ pc[t] = "provision" => step[t].op = "install"
    /\ pc[t] = "update" => step[t].op = "update"
    /\ pc[t] = "lock" => step[t].op \in {"pause", "resume"}
    /\ pc[t] = "deprovision" => step[t].op = "uninstall"
    /\ pc[t] = "record" /\ step[t].op = "uninstall" => result[t] \in {"deleted", "error"}

\* a thread has steps of its own kind, for the deployment of its job
Shape ==
    /\ \A t \in Thread : ThreadShape(t)
    /\ \A s \in todo["api"] : s.op = "uninstall"
    /\ pc["api"] \in Stepping => step["api"].op = "uninstall"
    /\ pc["worker"] # "idle" => dl["worker"] = Head(queue).dl

\* deployments are deprovisioned only when their contract is deleted
GoneJob(j) == j.op = "deprovision" => contract[j.dl] = "deleted"

\* the same for all jobs, queued or about to be
GoneJobs ==
    /\ \A i \in 1 .. Len(queue) : GoneJob(queue[i])
    /\ \A p \in Poster : posting[p] # NoJob => GoneJob(posting[p])

\* and the events and the round of synchronization that lead to such jobs
GoneEvents == \A d \in cancels \cup sync.gone : contract[d] = "deleted"

\* the inductive invariant of what the threads do
ShapeInv == EngineInv /\ RestOK /\ Shape /\ GoneJobs /\ GoneEvents

\* Initially the threads are idle.
LEMMA ShapeInvInit == EngineInit => ShapeInv
<1> SUFFICES ASSUME EngineInit PROVE ShapeInv
  OBVIOUS
<1>1. Shape BY DEF EngineInit, Shape, ThreadShape, Stepping, Thread
<1>2. GoneJobs
  <2>1. queue = <<>> /\ Len(<<>>) = 0 /\ 1 .. 0 = {} BY SMT DEF EngineInit
  <2> QED BY <2>1 DEF EngineInit, GoneJobs
<1>3. GoneEvents BY DEF EngineInit, GoneEvents, NoSync
<1> QED BY <1>1, <1>2, <1>3, EngineInvInit, RestInit DEF ShapeInv

\* the first job of the queue stays first while others are added
LEMMA FirstStays ==
    ASSUME NEW q \in Seq(RealJob), NEW j \in RealJob
    PROVE  /\ q # <<>> => Head(Append(q, j)) = Head(q)
           /\ \A i \in 1 .. Len(Append(q, j)) :
                (i \in 1 .. Len(q) /\ Append(q, j)[i] = q[i]) \/ Append(q, j)[i] = j
BY SMT

\* The job in work is the first of the queue.
LEMMA FirstJob ==
    ASSUME EngineInv, queue # <<>>
    PROVE  Head(queue) \in RealJob /\ Head(queue) = queue[1] /\ 1 \in 1 .. Len(queue)
<1>1. queue \in Seq(RealJob) BY DEF EngineInv, JobsOK
<1> QED BY <1>1, SMT

\* The jobs that stay when the first is removed.
LEMMA RestOfJobs ==
    ASSUME EngineInv, queue # <<>>
    PROVE  \A i \in 1 .. Len(Tail(queue)) : i + 1 \in 1 .. Len(queue) /\ Tail(queue)[i] = queue[i + 1]
<1>1. queue \in Seq(RealJob) BY DEF EngineInv, JobsOK
<1> QED BY <1>1, SMT

\* thread t takes up the step s: it begins it or skips it
TakenUp(t, s) ==
    /\ todo'[t] = todo[t] \ {s}
    /\ \/ pc'[t] = "run"
       \/ step'[t] = s /\ pc'[t] \in {"provision", "deprovision", "update", "lock"}
    /\ pc'[t] = "deprovision" => s.op = "uninstall"
    /\ pc'[t] = "provision" => s.op = "install"
    /\ pc'[t] = "update" => s.op = "update"
    /\ pc'[t] = "lock" => /\ s.op \in {"pause", "resume"} /\ IsOkay(s.wl.state)
                          /\ IsOkay(current[dl[t]][s.name].state)
    /\ s.op \in {"install", "uninstall"} /\ s.name \in Active(current[dl[t]])
       /\ IsOkay(current[dl[t]][s.name].state) => pc'[t] \in {"provision", "deprovision"}
    /\ \/ UNCHANGED storeVars
       \/ s.op = "install" /\ Add(dl[t], s.name, s.wl)

\* What TakeStep does with the step it takes.
LEMMA Taken ==
    ASSUME ShapeInv, NEW t \in Thread, TakeStep(t)
    PROVE  \E s \in todo[t] : TakenUp(t, s)
<1>1. pc[t] = "run" /\ pc \in [Thread -> {"idle", "run", "error", "dequeue"} \cup Stepping]
      /\ step \in [Thread -> RealStep \cup {NoStep}] /\ todo \in [Thread -> SUBSET RealStep]
  BY DEF TakeStep, ShapeInv, EngineInv, ThreadsOK
<1>2. PICK s \in todo[t] : Install(t, s) \/ Uninstall(t, s) \/ UpdateWorkload(t, s) \/ LockWorkload(t, s)
  BY DEF TakeStep, NextSteps
<1>3. ASSUME NEW at, Begin(t, s, at) PROVE todo'[t] = todo[t] \ {s} /\ pc'[t] = at /\ step'[t] = s
  BY <1>1, <1>3 DEF Begin
<1>4. ASSUME Skip(t, s) PROVE todo'[t] = todo[t] \ {s} /\ pc'[t] = "run"
  BY <1>1, <1>4 DEF Skip
<1>5. ASSUME Install(t, s) PROVE TakenUp(t, s)
  <2>1. /\ s.op = "install"
        /\ \/ Begin(t, s, "provision")
           \/ /\ Skip(t, s)
              /\ ~(s.name \in Active(current[dl[t]]) /\ IsOkay(current[dl[t]][s.name].state))
        /\ UNCHANGED storeVars \/ Add(dl[t], s.name, s.wl)
    BY <1>5 DEF Install, IsOkay
  <2>2. CASE Begin(t, s, "provision")
    <3>1. todo'[t] = todo[t] \ {s} /\ pc'[t] = "provision" /\ step'[t] = s BY <1>3, <2>2
    <3> QED BY <2>1, <3>1 DEF TakenUp
  <2>3. CASE /\ Skip(t, s)
             /\ ~(s.name \in Active(current[dl[t]]) /\ IsOkay(current[dl[t]][s.name].state))
    BY <1>4, <2>1, <2>3 DEF TakenUp
  <2> QED BY <2>1, <2>2, <2>3
<1>6. ASSUME Uninstall(t, s) PROVE TakenUp(t, s)
  <2>1. /\ s.op = "uninstall" /\ UNCHANGED storeVars
        /\ \/ Begin(t, s, "deprovision")
           \/ Skip(t, s) /\ s.name \notin Active(current[dl[t]])
    BY <1>6 DEF Uninstall
  <2>2. CASE Begin(t, s, "deprovision")
    <3>1. todo'[t] = todo[t] \ {s} /\ pc'[t] = "deprovision" /\ step'[t] = s BY <1>3, <2>2
    <3> QED BY <2>1, <3>1 DEF TakenUp
  <2>3. CASE Skip(t, s) /\ s.name \notin Active(current[dl[t]]) BY <1>4, <2>1, <2>3 DEF TakenUp
  <2> QED BY <2>1, <2>2, <2>3
<1>7. ASSUME UpdateWorkload(t, s) PROVE TakenUp(t, s)
  <2>1. s.op = "update" /\ Begin(t, s, "update") /\ UNCHANGED storeVars
    BY <1>7 DEF UpdateWorkload
  <2> QED BY <1>3, <2>1 DEF TakenUp
<1>8. ASSUME LockWorkload(t, s) PROVE TakenUp(t, s)
  <2>1. /\ s.op \in {"pause", "resume"} /\ UNCHANGED storeVars
        /\ \/ Skip(t, s)
           \/ /\ Begin(t, s, "lock") /\ IsOkay(current[dl[t]][s.name].state)
              /\ IsOkay(s.wl.state)
    BY <1>8 DEF LockWorkload, IsOkay
  <2>2. CASE Begin(t, s, "lock") /\ IsOkay(current[dl[t]][s.name].state) /\ IsOkay(s.wl.state)
    <3>1. todo'[t] = todo[t] \ {s} /\ pc'[t] = "lock" /\ step'[t] = s BY <1>3, <2>2
    <3> QED BY <2>1, <2>2, <3>1 DEF TakenUp
  <2>3. CASE Skip(t, s) BY <1>4, <2>1, <2>3 DEF TakenUp
  <2> QED BY <2>1, <2>2, <2>3
<1> QED BY <1>2, <1>5, <1>6, <1>7, <1>8

\* A step of a thread leaves the jobs, the chain and the other thread alone.
LEMMA OtherThread ==
    ASSUME EngineInv, NEW t \in Thread, Work(t)
    PROVE  /\ UNCHANGED <<queue, posting, contract, cancels, sync, restarts>>
           /\ \A u \in Thread \ {t} : /\ pc'[u] = pc[u] /\ dl'[u] = dl[u] /\ todo'[u] = todo[u]
                                      /\ step'[u] = step[u] /\ result'[u] = result[u]
           /\ dl'[t] = dl[t] \/ EndSteps(t)
<1>1. /\ pc \in [Thread -> {"idle", "run", "error", "dequeue"} \cup Stepping]
      /\ dl \in [Thread -> Dl \cup {NoDl}] /\ todo \in [Thread -> SUBSET RealStep]
      /\ step \in [Thread -> RealStep \cup {NoStep}] /\ result \in [Thread -> ResultState \cup {"none"}]
  BY DEF EngineInv, ThreadsOK
<1>2. UNCHANGED <<queue, posting, contract, cancels, sync, restarts>>
  BY DEF Work, TakeStep, CallManager, Record, RemoveWorkload, EndSteps, chainVars
<1>3. /\ \E x : dl' = [dl EXCEPT ![t] = x]
      /\ UNCHANGED dl \/ EndSteps(t)
  <2>1. UNCHANGED dl => dl' = [dl EXCEPT ![t] = dl[t]] BY <1>1
  <2> QED BY <2>1 DEF Work, TakeStep, CallManager, Record, RemoveWorkload, EndSteps
<1>4. CASE TakeStep(t)
  <2>1. \E s : \/ \E at : Begin(t, s, at)
               \/ Skip(t, s)
    BY <1>4 DEF TakeStep, Install, Uninstall, UpdateWorkload, LockWorkload
  <2>2. UNCHANGED result BY <1>4 DEF TakeStep
  <2> QED BY <1>1, <1>2, <1>3, <2>1, <2>2 DEF Begin, Skip
<1>5. CASE CallManager(t)
  <2>1. Done(t) \/ \E r : Answer(t, r)
    BY <1>5 DEF CallManager, CallProvision, CallDeprovision, CallUpdate, CallLock
  <2>2. UNCHANGED todo BY <1>5 DEF CallManager
  <2> QED BY <1>1, <1>2, <1>3, <2>1, <2>2 DEF Done, Answer
<1>6. CASE Record(t) \/ RemoveWorkload(t)
  <2>1. Done(t) \/ (pc' = [pc EXCEPT ![t] = "remove"] /\ UNCHANGED <<step, result>>)
    BY <1>6 DEF Record, RemoveWorkload
  <2>2. UNCHANGED todo BY <1>6 DEF Record, RemoveWorkload
  <2> QED BY <1>1, <1>2, <1>3, <2>1, <2>2 DEF Done
<1>7. CASE EndSteps(t)
  BY <1>1, <1>2, <1>3, <1>7 DEF EndSteps
<1> QED BY <1>4, <1>5, <1>6, <1>7 DEF Work

\* a manager answers, or says that there was nothing to do
Answered(t) ==
    \/ pc'[t] = "run"
    \/ /\ pc'[t] = "record" /\ step'[t] = step[t]
       /\ pc[t] = "deprovision" => result'[t] \in {"deleted", "error"}

\* Deprovision answers deleted or error, nothing else.
LEMMA Answers ==
    ASSUME EngineInv, NEW t \in Thread, CallManager(t)
    PROVE  Answered(t) /\ pc[t] \in {"provision", "deprovision", "update", "lock"}
<1>1. pc \in [Thread -> {"idle", "run", "error", "dequeue"} \cup Stepping]
      /\ step \in [Thread -> RealStep \cup {NoStep}] /\ result \in [Thread -> ResultState \cup {"none"}]
  BY DEF EngineInv, ThreadsOK
<1>2. pc[t] \in {"provision", "deprovision", "update", "lock"}
  BY DEF CallManager, CallProvision, CallDeprovision, CallUpdate, CallLock
<1>3. CASE pc[t] = "deprovision"
  <2>1. Answer(t, "deleted") \/ Answer(t, "error")
    BY <1>3 DEF CallManager, CallProvision, CallDeprovision, CallUpdate, CallLock
  <2> QED BY <1>1, <1>2, <2>1 DEF Answer, Answered
<1>4. CASE pc[t] # "deprovision"
  <2>1. Done(t) \/ \E r : Answer(t, r)
    BY DEF CallManager, CallProvision, CallDeprovision, CallUpdate, CallLock
  <2> QED BY <1>1, <1>2, <1>4, <2>1 DEF Answer, Done, Answered
<1> QED BY <1>3, <1>4

\* a contract that is deleted stays deleted
LEMMA DeletedStays ==
    ASSUME RestOK, Chain
    PROVE  \A d \in Dl : contract[d] = "deleted" => contract'[d] = "deleted"
<1>1. contract \in [Dl -> {"created", "grace", "deleted"}] BY DEF RestOK
<1>2. \/ UNCHANGED contract
      \/ \E d \in Dl : \E x : contract' = [contract EXCEPT ![d] = x] /\ contract[d] # "deleted"
  <2>1. CASE UNCHANGED contract BY <2>1
  <2>2. ASSUME NEW d \in Dl, Cancel(d) PROVE contract' = [contract EXCEPT ![d] = "deleted"] /\ contract[d] # "deleted"
    BY <2>2 DEF Cancel, OnChain
  <2>3. ASSUME NEW d \in Dl, NEW lock \in BOOLEAN, SetGrace(d, lock)
        PROVE  /\ contract' = [contract EXCEPT ![d] = IF lock THEN "grace" ELSE "created"]
               /\ contract[d] # "deleted"
    BY <2>3 DEF SetGrace
  <2> QED BY <2>1, <2>2, <2>3 DEF Chain, LoseEvent, ChangeHash
<1> QED BY <1>1, <1>2

\* Every step keeps the shape of the threads and the reason to deprovision.
LEMMA ShapeStep ==
    ASSUME ShapeInv, [EngineNext]_engineVars
    PROVE  ShapeInv'
\* A step that leaves the threads and the queue alone.
<1>ShapeSame. ASSUME ShapeInv, UNCHANGED <<pc, dl, todo, step, result, queue>>
    PROVE  Shape'
  BY <1>ShapeSame DEF ShapeInv, Shape, ThreadShape
\* A step that leaves the jobs and the contracts alone.
<1>GoneJobsSame. ASSUME ShapeInv, UNCHANGED <<queue, posting, contract>>
    PROVE  GoneJobs'
  BY <1>GoneJobsSame DEF ShapeInv, GoneJobs, GoneJob
\* A step that leaves the events, the synchronization and the contracts alone.
<1>GoneEventsSame. ASSUME ShapeInv, UNCHANGED <<cancels, sync, contract>>
    PROVE  GoneEvents'
  BY <1>GoneEventsSame DEF ShapeInv, GoneEvents
\* a thread t takes a step; the other one stays as it is
<1>ShapeThread. ASSUME ShapeInv, NEW t \in Thread, UNCHANGED queue, ThreadShape(t)',
           \A u \in Thread \ {t} : /\ pc'[u] = pc[u] /\ dl'[u] = dl[u] /\ todo'[u] = todo[u]
                                   /\ step'[u] = step[u] /\ result'[u] = result[u],
           t = "api" => /\ \A s \in todo'["api"] : s.op = "uninstall"
                        /\ pc'["api"] \in Stepping => step'["api"].op = "uninstall",
           t = "worker" /\ pc'[t] # "idle" => dl'[t] = Head(queue).dl
    PROVE  Shape'
  <2> USE <1>ShapeThread
  <2>1. \A u \in Thread : ThreadShape(u)'
    <3> SUFFICES ASSUME NEW u \in Thread, u # t PROVE ThreadShape(u)'
      OBVIOUS
    <3>1. ThreadShape(u) BY DEF ShapeInv, Shape
    <3> QED BY <3>1 DEF ThreadShape
  <2>2. CASE t = "api"
    <3>1. pc'["worker"] = pc["worker"] /\ dl'["worker"] = dl["worker"] BY <2>2 DEF Thread
    <3> QED BY <2>1, <2>2, <3>1 DEF ShapeInv, Shape
  <2>3. CASE t = "worker"
    <3>1. pc'["api"] = pc["api"] /\ todo'["api"] = todo["api"] /\ step'["api"] = step["api"]
      BY <2>3 DEF Thread
    <3> QED BY <2>1, <2>3, <3>1 DEF ShapeInv, Shape
  <2> QED BY <2>2, <2>3 DEF Thread
\* A poster is about to enqueue a job.
<1>PostedGone. ASSUME ShapeInv, UNCHANGED <<queue, contract>>, NEW p \in Poster, NEW j, GoneJob(j), Post(p, j)
    PROVE  GoneJobs'
  <2> USE <1>PostedGone
  <2>1. posting' = [posting EXCEPT ![p] = j] /\ posting \in [Poster -> RealJob \cup {NoJob}]
    BY DEF Post, ShapeInv, EngineInv, JobsOK
  <2>2. \A k : GoneJob(k) => GoneJob(k)' BY DEF GoneJob
  <2>3. \A q \in Poster : posting'[q] = posting[q] \/ posting'[q] = j BY <2>1
  <2> QED BY <2>2, <2>3 DEF ShapeInv, GoneJobs
\* A job with what is stored; to deprovision it the contract has to be deleted.
<1>PostCurrentGone. ASSUME ShapeInv, UNCHANGED <<queue, contract>>, NEW p \in Poster, NEW d \in Dl, NEW op,
           op = "deprovision" => contract[d] = "deleted", PostCurrent(p, op, d)
    PROVE  GoneJobs'
  <2> USE <1>PostCurrentGone
  <2>1. CASE d \in present
    <3>1. GoneJob(Job(op, d, version[d], current[d], NoWorkloads)) BY DEF GoneJob, Job
    <3> QED BY <2>1, <3>1, <1>PostedGone DEF PostCurrent
  <2>2. CASE d \notin present BY <2>2, <1>GoneJobsSame DEF PostCurrent
  <2> QED BY <2>1, <2>2
\* Provision and Update start no thread and deprovision nothing.
<1>ApiShape. ASSUME ShapeInv, NEW d \in Dl, NEW r \in Requests, Provision(d, r) \/ UpdateDeployment(d, r)
    PROVE  Shape' /\ GoneJobs' /\ GoneEvents'
  <2> USE <1>ApiShape
  <2>1. UNCHANGED <<pc, dl, todo, step, result, queue, contract, cancels, sync>>
    BY DEF Provision, UpdateDeployment, threadVars, chainVars
  <2>2. \E op \in {"provision", "update"} : \E v, a, b : Post("api", Job(op, d, v, a, b))
    BY DEF Provision, UpdateDeployment
  <2>3. \A op \in {"provision", "update"} : \A v, a, b : GoneJob(Job(op, d, v, a, b))
    BY DEF GoneJob, Job
  <2>4. GoneJobs' BY <2>1, <2>2, <2>3, <1>PostedGone DEF Poster
  <2> QED BY <2>1, <2>4, <1>ShapeSame, <1>GoneEventsSame
\* DecommissionCached only uninstalls.
<1>DecommissionShape. ASSUME ShapeInv, NEW d \in Dl, NEW n \in Name, DecommissionCached(d, n)
    PROVE  Shape' /\ GoneJobs' /\ GoneEvents'
  <2> USE <1>DecommissionShape
  <2>1. /\ UNCHANGED <<queue, posting, contract, cancels, sync, step, result>>
        /\ pc' = [pc EXCEPT !["api"] = "run"] /\ dl' = [dl EXCEPT !["api"] = d]
        /\ todo' = [todo EXCEPT !["api"] = {Step("uninstall", n, current[d][n])}]
    BY DEF DecommissionCached, chainVars
  <2>2. /\ pc'["api"] = "run" /\ todo'["api"] = {Step("uninstall", n, current[d][n])}
        /\ \A u \in Thread \ {"api"} : pc'[u] = pc[u] /\ dl'[u] = dl[u] /\ todo'[u] = todo[u]
    BY <2>1 DEF ShapeInv, EngineInv, ThreadsOK, Thread
  <2>3. Step("uninstall", n, current[d][n]).op = "uninstall" BY DEF Step
  <2>4. ThreadShape("api")' BY <2>2 DEF ThreadShape
  <2>5. "api" \in Thread BY DEF Thread
  <2>6. Shape' BY <2>1, <2>2, <2>3, <2>4, <2>5, <1>ShapeThread DEF Stepping
  <2> QED BY <2>1, <2>6, <1>GoneJobsSame, <1>GoneEventsSame
\* The job in work stays the first one until it is removed.
<1>QueueShape. ASSUME ShapeInv, (\E p \in Poster : Enqueue(p)) \/ Dequeue
    PROVE  Shape' /\ GoneJobs' /\ GoneEvents'
  <2> USE <1>QueueShape
  <2>0. queue \in Seq(RealJob) /\ EngineInv BY DEF ShapeInv, EngineInv, JobsOK
  <2>1. ASSUME NEW p \in Poster, Enqueue(p) PROVE Shape' /\ GoneJobs' /\ GoneEvents'
    <3>1. /\ UNCHANGED <<pc, dl, todo, step, result, contract, cancels, sync>>
          /\ queue' = Append(queue, posting[p]) /\ posting[p] # NoJob
          /\ posting' = [posting EXCEPT ![p] = NoJob] /\ posting \in [Poster -> RealJob \cup {NoJob}]
      BY <2>1 DEF Enqueue, threadVars, chainVars, ShapeInv, EngineInv, JobsOK
    <3>2. posting[p] \in RealJob BY <3>1
    <3>3. \A q \in Poster : posting'[q] = posting[q] \/ posting'[q] = NoJob BY <3>1
    <3>4. \A k : GoneJob(k) => GoneJob(k)' BY <3>1 DEF GoneJob
    <3>5. GoneJob(posting[p]) BY <3>1 DEF ShapeInv, GoneJobs
    <3>6. GoneJobs' BY <2>0, <3>1, <3>2, <3>3, <3>4, <3>5, FirstStays DEF ShapeInv, GoneJobs
    <3>7. pc["worker"] # "idle" => Head(queue') = Head(queue)
      BY <2>0, <3>1, <3>2, FirstStays DEF EngineInv, JobsOK
    <3>8. Shape' BY <3>1, <3>7 DEF ShapeInv, Shape, ThreadShape
    <3> QED BY <3>1, <3>6, <3>8, <1>GoneEventsSame
  <2>2. CASE Dequeue
    <3>1. /\ UNCHANGED <<posting, todo, step, result, contract, cancels, sync>> /\ queue' = Tail(queue)
          /\ pc' = [pc EXCEPT !["worker"] = "idle"] /\ dl' = [dl EXCEPT !["worker"] = NoDl]
          /\ pc["worker"] = "dequeue" /\ queue # <<>>
      BY <2>2 DEF Dequeue, chainVars, ShapeInv, EngineInv, JobsOK
    <3>2. \A k : GoneJob(k) => GoneJob(k)' BY <3>1 DEF GoneJob
    <3>3. GoneJobs' BY <2>0, <3>1, <3>2, RestOfJobs DEF ShapeInv, GoneJobs
    <3>4. pc'["worker"] = "idle" /\ pc'["api"] = pc["api"]
      BY <3>1 DEF ShapeInv, EngineInv, ThreadsOK, Thread
    <3>5. todo["worker"] = {} BY <3>1 DEF ShapeInv, Shape, ThreadShape, Thread
    <3>6. ThreadShape("worker")' BY <3>1, <3>4, <3>5 DEF ThreadShape
    <3>7. ThreadShape("api")' BY <3>1, <3>4 DEF ShapeInv, Shape, ThreadShape, Thread
    <3>8. Shape' BY <3>1, <3>4, <3>6, <3>7 DEF ShapeInv, Shape, Thread
    <3> QED BY <3>1, <3>3, <3>8, <1>GoneEventsSame
  <2> QED BY <2>1, <2>2
\* The worker starts the first job, or gives it up.
<1>StartShape. ASSUME ShapeInv, StartJob \/ StoreError
    PROVE  Shape' /\ GoneJobs' /\ GoneEvents'
  <2> USE <1>StartShape
  <2>1. UNCHANGED <<queue, posting, step, result, contract, cancels, sync>>
    BY DEF StartJob, StoreError, chainVars
  <2>2. "worker" \in Thread BY DEF Thread
  <2>3. CASE StartJob
    <3>1. /\ pc["worker"] = "idle" /\ dl' = [dl EXCEPT !["worker"] = Head(queue).dl]
          /\ \/ /\ pc' = [pc EXCEPT !["worker"] = "run"]
                /\ \E ss : todo' = [todo EXCEPT !["worker"] = ss]
             \/ /\ \E at \in {"error", "dequeue"} : pc' = [pc EXCEPT !["worker"] = at]
                /\ UNCHANGED todo
      BY <2>3 DEF StartJob
    <3>2. /\ dl'["worker"] = Head(queue).dl
          /\ pc'["worker"] \in {"run", "error", "dequeue"}
          /\ pc'["worker"] = "run" \/ todo'["worker"] = todo["worker"]
          /\ \A u \in Thread \ {"worker"} : pc'[u] = pc[u] /\ dl'[u] = dl[u] /\ todo'[u] = todo[u]
      BY <3>1 DEF ShapeInv, EngineInv, ThreadsOK, Thread
    <3>3. todo["worker"] = {} BY <2>2, <3>1 DEF ShapeInv, Shape, ThreadShape
    <3>4. ThreadShape("worker")' BY <3>2, <3>3 DEF ThreadShape
    <3>5. Shape' BY <2>1, <2>2, <3>2, <3>4, <1>ShapeThread
    <3> QED BY <2>1, <3>5, <1>GoneJobsSame, <1>GoneEventsSame
  <2>4. CASE StoreError
    <3>1. pc["worker"] = "error" /\ pc' = [pc EXCEPT !["worker"] = "dequeue"] /\ UNCHANGED <<dl, todo>>
      BY <2>4 DEF StoreError
    <3>2. pc'["worker"] = "dequeue" /\ \A u \in Thread \ {"worker"} : pc'[u] = pc[u]
      BY <3>1 DEF ShapeInv, EngineInv, ThreadsOK, Thread
    <3>3. todo["worker"] = {} /\ dl["worker"] = Head(queue).dl
      BY <2>2, <3>1 DEF ShapeInv, Shape, ThreadShape
    <3>4. ThreadShape("worker")' BY <3>1, <3>2, <3>3 DEF ThreadShape
    <3>5. Shape' BY <2>1, <2>2, <3>1, <3>2, <3>3, <3>4, <1>ShapeThread
    <3> QED BY <2>1, <3>5, <1>GoneJobsSame, <1>GoneEventsSame
  <2> QED BY <2>3, <2>4
\* A thread is done with its steps.
<1>EndShape. ASSUME ShapeInv, NEW t \in Thread, EndSteps(t)
    PROVE  Shape' /\ GoneJobs' /\ GoneEvents'
  <2> USE <1>EndShape
  <2>1. /\ UNCHANGED <<queue, posting, todo, step, result, contract, cancels, sync>>
        /\ pc[t] = "run" /\ todo[t] = {}
        /\ \E at \in {"dequeue", "idle"} : pc' = [pc EXCEPT ![t] = at]
        /\ \E x : dl' = [dl EXCEPT ![t] = x] /\ (t = "worker" => x = dl[t])
    BY DEF EndSteps, chainVars
  <2>2. pc'[t] \in {"dequeue", "idle"} /\ (t = "worker" => dl'[t] = dl[t])
        /\ \A u \in Thread \ {t} : pc'[u] = pc[u] /\ dl'[u] = dl[u]
    BY <2>1 DEF ShapeInv, EngineInv, ThreadsOK
  <2>3. t = "worker" => dl[t] = Head(queue).dl BY <2>1 DEF ShapeInv, Shape
  <2>4. ThreadShape(t)' BY <2>1, <2>2 DEF ThreadShape
  <2>5. Shape' BY <2>1, <2>2, <2>3, <2>4, <1>ShapeThread DEF Stepping
  <2> QED BY <2>1, <2>5, <1>GoneJobsSame, <1>GoneEventsSame
\* The provisioner called fits the step.
<1>TakeShape. ASSUME ShapeInv, NEW t \in Thread, TakeStep(t)
    PROVE  Shape' /\ GoneJobs' /\ GoneEvents'
  <2> USE <1>TakeShape
  <2>1. PICK s \in todo[t] : TakenUp(t, s) BY Taken
  <2>2. Work(t) /\ EngineInv /\ pc[t] = "run" /\ UNCHANGED dl BY DEF Work, ShapeInv, TakeStep
  <2>3. ThreadShape(t)' BY <2>1 DEF TakenUp, ThreadShape
  <2>4. t = "api" => /\ \A x \in todo'["api"] : x.op = "uninstall"
                     /\ pc'["api"] \in Stepping => step'["api"].op = "uninstall"
    BY <2>1 DEF TakenUp, ShapeInv, Shape, Stepping
  <2>5. t = "worker" => dl'[t] = Head(queue).dl BY <2>2 DEF ShapeInv, Shape
  <2>6. Shape' BY <2>2, <2>3, <2>4, <2>5, OtherThread, <1>ShapeThread
  <2> QED BY <2>2, <2>6, OtherThread, <1>GoneJobsSame, <1>GoneEventsSame
\* A manager answers.
<1>CallShape. ASSUME ShapeInv, NEW t \in Thread, CallManager(t)
    PROVE  Shape' /\ GoneJobs' /\ GoneEvents'
  <2> USE <1>CallShape
  <2>1. Work(t) /\ EngineInv /\ UNCHANGED <<dl, todo>> BY DEF Work, ShapeInv, CallManager
  <2>2. Answered(t) /\ pc[t] \in {"provision", "deprovision", "update", "lock"} BY <2>1, Answers
  <2>3. ThreadShape(t) BY DEF ShapeInv, Shape
  <2>4. ThreadShape(t)' BY <2>2, <2>3 DEF Answered, ThreadShape
  <2>5. t = "api" => /\ \A x \in todo'["api"] : x.op = "uninstall"
                     /\ pc'["api"] \in Stepping => step'["api"].op = "uninstall"
    BY <2>1, <2>2 DEF Answered, ShapeInv, Shape, Stepping
  <2>6. t = "worker" => dl'[t] = Head(queue).dl BY <2>1, <2>2 DEF ShapeInv, Shape
  <2>7. Shape' BY <2>1, <2>4, <2>5, <2>6, OtherThread, <1>ShapeThread
  <2> QED BY <2>1, <2>7, OtherThread, <1>GoneJobsSame, <1>GoneEventsSame
\* The result is stored, or the workload removed.
<1>RecordShape. ASSUME ShapeInv, NEW t \in Thread, Record(t) \/ RemoveWorkload(t)
    PROVE  Shape' /\ GoneJobs' /\ GoneEvents'
  <2> USE <1>RecordShape
  <2>1. Work(t) /\ EngineInv /\ UNCHANGED <<dl, todo>> /\ pc[t] \in {"record", "remove"}
    BY DEF Work, ShapeInv, Record, RemoveWorkload
  <2>2. pc'[t] = "run" \/ (pc'[t] = "remove" /\ step'[t] = step[t])
    <3>1. Done(t) \/ (pc' = [pc EXCEPT ![t] = "remove"] /\ UNCHANGED <<step, result>>)
      BY DEF Record, RemoveWorkload
    <3> QED BY <3>1 DEF Done, ShapeInv, EngineInv, ThreadsOK
  <2>3. ThreadShape(t)' BY <2>2 DEF ThreadShape
  <2>4. t = "api" => /\ \A x \in todo'["api"] : x.op = "uninstall"
                     /\ pc'["api"] \in Stepping => step'["api"].op = "uninstall"
    BY <2>1, <2>2 DEF ShapeInv, Shape, Stepping
  <2>5. t = "worker" => dl'[t] = Head(queue).dl BY <2>1 DEF ShapeInv, Shape
  <2>6. Shape' BY <2>1, <2>3, <2>4, <2>5, OtherThread, <1>ShapeThread
  <2> QED BY <2>1, <2>6, OtherThread, <1>GoneJobsSame, <1>GoneEventsSame
\* A cancellation event follows the deletion of the contract.
<1>ChainShape. ASSUME ShapeInv, Chain
    PROVE  Shape' /\ GoneJobs' /\ GoneEvents'
  <2> USE <1>ChainShape
  <2>1. UNCHANGED <<pc, dl, todo, step, result, queue, posting, sync>> BY DEF Chain, threadVars
  <2>2. Shape' BY <2>1, <1>ShapeSame
  <2>3. \A d \in Dl : contract[d] = "deleted" => contract'[d] = "deleted"
    BY DeletedStays DEF ShapeInv
  <2>4. GoneJobs'
    <3>1. \A j \in RealJob : GoneJob(j) => GoneJob(j)' BY <2>3 DEF GoneJob, RealJob
    <3>2. \A i \in 1 .. Len(queue) : queue[i] \in RealJob
      <4>1. queue \in Seq(RealJob) BY DEF ShapeInv, EngineInv, JobsOK
      <4> QED BY <4>1, SMT
    <3>3. \A p \in Poster : posting[p] # NoJob => posting[p] \in RealJob
      BY DEF ShapeInv, EngineInv, JobsOK
    <3> QED BY <2>1, <3>1, <3>2, <3>3 DEF ShapeInv, GoneJobs
  <2>5. \A d \in cancels' : d \in cancels \/ contract'[d] = "deleted"
    <3>1. ASSUME NEW d \in Dl, Cancel(d) PROVE \A e \in cancels' : e \in cancels \/ contract'[e] = "deleted"
      BY <3>1 DEF Cancel, ShapeInv, RestOK
    <3>2. CASE cancels' \subseteq cancels BY <3>2
    <3>3. cancels' \subseteq cancels \/ \E d \in Dl : Cancel(d)
      BY DEF Chain, LoseEvent, ChangeHash, SetGrace
    <3> QED BY <3>1, <3>2, <3>3
  <2>6. cancels \cup sync.gone \subseteq Dl BY DEF ShapeInv, EngineInv, EventsOK, RestOK
  <2>7. GoneEvents' BY <2>1, <2>3, <2>5, <2>6 DEF ShapeInv, GoneEvents
  <2> QED BY <2>2, <2>4, <2>7
\* Cancellation events queue a job to deprovision.
<1>EventShape. ASSUME ShapeInv, HandleEvent
    PROVE  Shape' /\ GoneJobs' /\ GoneEvents'
  <2> USE <1>EventShape
  <2>1. UNCHANGED <<pc, dl, todo, step, result, queue, contract, sync>>
    BY DEF HandleEvent, HandleLock, HandleCancel, threadVars
  <2>2. cancels' \subseteq cancels BY DEF HandleEvent, HandleLock, HandleCancel
  <2>3. GoneEvents' BY <2>1, <2>2 DEF ShapeInv, GoneEvents
  <2>4. ASSUME NEW d \in Dl, HandleCancel(d) PROVE GoneJobs'
    <3>1. contract[d] = "deleted" BY <2>4 DEF HandleCancel, ShapeInv, GoneEvents
    <3> QED BY <2>1, <2>4, <3>1, <1>PostCurrentGone DEF HandleCancel, Poster
  <2>5. ASSUME HandleLock PROVE GoneJobs'
    <3>1. locks \in Seq(LockEvent) /\ locks # <<>> BY <2>5 DEF HandleLock, ShapeInv, EngineInv, EventsOK
    <3>2. Head(locks) \in LockEvent BY <3>1, SMT
    <3>3. Head(locks).dl \in Dl BY <3>2 DEF LockEvent
    <3> QED BY <2>1, <2>5, <3>3, <1>PostCurrentGone DEF HandleLock, Poster
  <2>6. Shape' BY <2>1, <1>ShapeSame
  <2> QED BY <2>3, <2>4, <2>5, <2>6 DEF HandleEvent
\* The synchronization deprovisions what is not on chain any more.
<1>SyncShape. ASSUME ShapeInv, SyncStart \/ \E d \in Dl : SyncOne(d)
    PROVE  Shape' /\ GoneJobs' /\ GoneEvents'
  <2> USE <1>SyncShape
  <2>1. UNCHANGED <<pc, dl, todo, step, result, queue, contract, cancels>>
    BY DEF SyncStart, SyncOne, threadVars, chainVars
  <2>2. Shape' BY <2>1, <1>ShapeSame
  <2>3. CASE SyncStart
    <3>1. UNCHANGED posting BY <2>3 DEF SyncStart
    <3>2. present \subseteq Dl BY DEF ShapeInv, EngineInv, StoreInv, StoreTypeOK
    <3>3. \A d \in sync'.gone : d \in Dl /\ ~OnChain(d) BY <2>3, <3>2 DEF SyncStart
    <3>4. \A d \in sync'.gone : contract[d] = "deleted" BY <3>3 DEF OnChain, ShapeInv, RestOK
    <3>5. GoneEvents' BY <2>1, <3>4 DEF ShapeInv, GoneEvents
    <3> QED BY <2>1, <2>2, <3>1, <3>5, <1>GoneJobsSame
  <2>4. ASSUME NEW d \in Dl, SyncOne(d) PROVE Shape' /\ GoneJobs' /\ GoneEvents'
    <3>1. \/ UNCHANGED posting
          \/ d \in sync.gone /\ PostCurrent("sync", "deprovision", d)
          \/ \E op \in {"pause", "resume"} : PostCurrent("sync", op, d)
      BY <2>4 DEF SyncOne
    <3>2. d \in sync.gone => contract[d] = "deleted" BY DEF ShapeInv, GoneEvents
    <3>3. GoneJobs' BY <2>1, <3>1, <3>2, <1>GoneJobsSame, <1>PostCurrentGone DEF Poster
    <3>4. sync' = NoSync \/ sync' = [todo |-> sync.todo \ {d}, gone |-> sync.gone, locked |-> sync.locked]
      BY <2>4 DEF SyncOne
    <3>5. sync'.gone \subseteq sync.gone BY <3>4, SMT DEF NoSync
    <3>6. GoneEvents' BY <2>1, <3>5 DEF ShapeInv, GoneEvents
    <3> QED BY <2>2, <3>3, <3>6
  <2> QED BY <2>3, <2>4
\* A reboot queues no job to deprovision.
<1>RestartShape. ASSUME ShapeInv, NEW kind, Restart(kind)
    PROVE  Shape' /\ GoneJobs' /\ GoneEvents'
  <2> USE <1>RestartShape
  <2>1. /\ UNCHANGED <<contract, cancels>> /\ sync' = NoSync /\ posting' = [p \in Poster |-> NoJob]
        /\ pc' = [t \in Thread |-> "idle"] /\ todo' = [t \in Thread |-> {}]
    BY DEF Restart, chainVars
  <2>2. Shape' BY <2>1 DEF Shape, ThreadShape, Stepping, Thread
  <2>3. GoneEvents' BY <2>1 DEF ShapeInv, GoneEvents, NoSync
  <2>4. CASE queue' = queue BY <2>1, <2>2, <2>3, <2>4 DEF ShapeInv, GoneJobs, GoneJob
  <2>5. CASE queue' \in BootQueues
    <3>1. PICK ds \in SUBSET Dl : queue' \in BootJobs(ds)
      BY <2>5 DEF BootQueues, Kept, ShapeInv, EngineInv, StoreInv, StoreTypeOK
    <3>2. PICK f \in [1 .. Cardinality(ds) -> ds] :
             queue' = [i \in DOMAIN f |-> Job("reprovision", f[i], version[f[i]], current[f[i]],
                                              NoWorkloads)]
      BY <3>1 DEF BootJobs
    <3>3. Cardinality(ds) \in Nat BY EngineAssumption
    <3>4. Len(queue') = Cardinality(ds) BY <3>2, <3>3, SMT
    <3>5. \A i \in 1 .. Len(queue') : queue'[i] = Job("reprovision", f[i], version[f[i]], current[f[i]], NoWorkloads)
      BY <3>2, <3>4
    <3>6. \A d : GoneJob(Job("reprovision", d, version[d], current[d], NoWorkloads)) BY DEF GoneJob, Job
    <3>7. \A i \in 1 .. Len(queue') : GoneJob(queue'[i]) BY <3>5, <3>6
    <3>8. \A k : GoneJob(k) => GoneJob(k)' BY <2>1 DEF GoneJob
    <3> QED BY <2>1, <2>2, <2>3, <3>7, <3>8 DEF GoneJobs
  <2> QED BY <2>4, <2>5 DEF Restart
<1>1. EngineInv' /\ RestOK' BY EngineStepInv, RestStep DEF ShapeInv
<1>2. Shape' /\ GoneJobs' /\ GoneEvents'
  <2>1. CASE UNCHANGED engineVars
    BY <2>1, <1>ShapeSame, <1>GoneJobsSame, <1>GoneEventsSame DEF engineVars, threadVars, chainVars
  <2>2. CASE EngineNext
    <3>1. ASSUME NEW t \in Thread, Work(t) PROVE Shape' /\ GoneJobs' /\ GoneEvents'
      BY <3>1, <1>TakeShape, <1>CallShape, <1>RecordShape, <1>EndShape DEF Work
    <3>2. CASE Worker BY <3>2, <1>StartShape, <1>QueueShape DEF Worker
    <3>3. CASE UserStep(Dl, Requests) BY <3>3, <1>ApiShape, <1>DecommissionShape DEF UserStep
    <3> QED BY <2>2, <3>1, <3>2, <3>3, <1>QueueShape, <1>ChainShape, <1>EventShape, <1>SyncShape, <1>RestartShape
            DEF EngineNext, SystemStep
  <2> QED BY <2>1, <2>2
<1> QED BY <1>1, <1>2 DEF ShapeInv

\* the worker stays where it is
WorkerSame ==
    /\ pc'["worker"] = pc["worker"] /\ dl'["worker"] = dl["worker"]
    /\ todo'["worker"] = todo["worker"] /\ step'["worker"] = step["worker"]

\* a workload is written in deployment d under the name n
Puts(d, n, x) == current' = [current EXCEPT ![d][n] = x]

\* no other workload is written
OnlyPuts(d, x) ==
    \A e \in Dl : \A m \in Name : current'[e][m] = current[e][m] \/ (e = d /\ current'[e][m] = x)

\* One workload is written.
LEMMA EntryWritten ==
    ASSUME EngineInv, NEW d \in Dl, NEW n \in Name, NEW x, Puts(d, n, x)
    PROVE  OnlyPuts(d, x)
<1>1. current \in [Dl -> Workloads] BY DEF EngineInv, StoreInv, StoreTypeOK
<1>2. current[d] = [m \in Name |-> current[d][m]] BY <1>1 DEF Workloads
<1> QED BY <1>1, <1>2 DEF Puts, OnlyPuts

-----------------------------------------------------------------------------
\* The jobs the worker takes its steps from.

\* the jobs of a reboot come first, and two of one deployment reinstall the same
BootFirst ==
    /\ \A i, k \in 1 .. Len(queue) :
         i < k /\ queue[k].op = "reprovision" => queue[i].op = "reprovision"
    /\ \A i, k \in 1 .. Len(queue) :
         /\ queue[i].op = "reprovision" /\ queue[k].op = "reprovision" /\ queue[i].dl = queue[k].dl
         => queue[i].target = queue[k].target
    /\ \A p \in Poster : posting[p].op # "reprovision"

\* the worker takes each step of its job once
OfJob ==
    /\ \A s \in todo["worker"] : s \in JobSteps(Head(queue))
    /\ pc["worker"] \in Stepping => /\ step["worker"] \in JobSteps(Head(queue))
                                    /\ step["worker"] \notin todo["worker"]

\* the inductive invariant of the jobs
JobInv == ShapeInv /\ BootFirst /\ OfJob

\* One workload is written, and no other.
LEMMA PutsThere ==
    ASSUME EngineInv, NEW x \in Dl, NEW m \in Name, NEW e, Puts(x, m, e)
    PROVE  \A d \in Dl, n \in Name : current'[d][n] = IF d = x /\ n = m THEN e ELSE current[d][n]
<1>1. current \in [Dl -> Workloads] BY DEF EngineInv, StoreInv, StoreTypeOK
<1>2. current[x] = [n \in Name |-> current[x][n]] BY <1>1 DEF Workloads
<1> QED BY <1>1, <1>2 DEF Puts

\* The job a kind of step is of.
LEMMA StepJob ==
    ASSUME NEW j \in RealJob, NEW s \in JobSteps(j)
    PROVE  /\ s.op = "install" => j.op \in {"provision", "reprovision", "update"}
           /\ s.op = "uninstall" => j.op \in {"deprovision", "update"}
           /\ s.op = "update" => j.op = "update"
           /\ s.op \in {"pause", "resume"} => j.op = s.op
<1>1. j.op \in JobOp BY DEF RealJob
<1>2. ASSUME NEW op, s \in Steps(op, j.target) PROVE s.op = op
  BY <1>2, SMT DEF Steps, Step
<1>3. ASSUME s \in UpgradeSteps(j.source, j.target, j.ver)
      PROVE  s.op \in {"install", "update", "uninstall"}
  BY <1>3, SMT DEF UpgradeSteps, Step
<1> QED BY <1>1, <1>2, <1>3 DEF JobSteps, JobOp

\* A job has one step for a workload.
LEMMA OneStep ==
    ASSUME NEW j \in RealJob, NEW s \in JobSteps(j), NEW x \in JobSteps(j), s.name = x.name
    PROVE  s = x
<1>1. j.op \in JobOp BY DEF RealJob
<1>2. ASSUME NEW op, s \in Steps(op, j.target), x \in Steps(op, j.target) PROVE s = x
  <2>1. PICK n \in Active(j.target) : s = Step(op, n, j.target[n]) BY <1>2 DEF Steps
  <2>2. PICK m \in Active(j.target) : x = Step(op, m, j.target[m]) BY <1>2 DEF Steps
  <2>3. s.name = n /\ x.name = m BY <2>1, <2>2, SMT DEF Step
  <2> QED BY <2>1, <2>2, <2>3
<1>3. ASSUME s \in UpgradeSteps(j.source, j.target, j.ver),
             x \in UpgradeSteps(j.source, j.target, j.ver)
      PROVE  s = x
  <2> DEFINE Up(y, n) ==
        \/ n \in Active(j.target) \ Active(j.source) /\ y = Step("install", n, j.target[n])
        \/ /\ n \in Active(j.target) \cap Active(j.source)
           /\ y = Step("update", n, WithResult(j.target[n], j.source[n].state))
        \/ n \in Active(j.source) \ Active(j.target) /\ y = Step("uninstall", n, j.source[n])
  <2>1. \A y \in UpgradeSteps(j.source, j.target, j.ver) : \E n : Up(y, n)
    BY DEF UpgradeSteps
  <2>2. \A y, n : Up(y, n) => y.name = n
    BY SMT DEF Step
  <2>3. \A y, z, n : Up(y, n) /\ Up(z, n) => y = z
    BY SMT
  <2> HIDE DEF Up
  <2>4. Up(s, s.name) /\ Up(x, x.name) BY <1>3, <2>1, <2>2
  <2> QED BY <2>3, <2>4
<1> QED BY <1>1, <1>2, <1>3 DEF JobSteps, JobOp

\* the boot jobs, one by one
LEMMA BootJob ==
    ASSUME EngineInv, queue' \in BootQueues
    PROVE  \A i \in 1 .. Len(queue') : \E d \in Kept :
             queue'[i] = Job("reprovision", d, version[d], current[d], NoWorkloads)
<1>1. PICK ds \in SUBSET Kept : queue' \in BootJobs(ds) BY DEF BootQueues
<1>2. PICK f \in [1 .. Cardinality(ds) -> ds] :
         queue' = [i \in DOMAIN f |-> Job("reprovision", f[i], version[f[i]], current[f[i]],
                                          NoWorkloads)]
  BY <1>1 DEF BootJobs
<1>3. ds \in SUBSET Dl BY DEF Kept, EngineInv, StoreInv, StoreTypeOK
<1>4. Cardinality(ds) \in Nat BY <1>3, EngineAssumption
<1>5. Len(queue') = Cardinality(ds) BY <1>2, <1>4, SMT
<1>6. \A i \in 1 .. Len(queue') : f[i] \in Kept /\
         queue'[i] = Job("reprovision", f[i], version[f[i]], current[f[i]], NoWorkloads)
  BY <1>2, <1>5
<1> QED BY <1>6

\* Every step keeps the order of the jobs and the steps of the worker.
LEMMA JobStep ==
    ASSUME JobInv, [EngineNext]_engineVars
    PROVE  JobInv'
\* A step that leaves the queue alone and posts no reinstall.
<1>BootFirstSame. ASSUME BootFirst, UNCHANGED queue, \A p \in Poster : posting'[p].op # "reprovision"
    PROVE  BootFirst'
  BY <1>BootFirstSame DEF BootFirst
\* A job is posted; only a reboot reinstalls.
<1>PostedFirst. ASSUME JobInv, UNCHANGED queue, NEW p \in Poster, NEW j, j.op # "reprovision", Post(p, j)
    PROVE  BootFirst'
  <2> USE <1>PostedFirst
  <2>1. posting' = [posting EXCEPT ![p] = j] /\ posting \in [Poster -> RealJob \cup {NoJob}]
    BY DEF Post, JobInv, ShapeInv, EngineInv, JobsOK
  <2>2. \A q \in Poster : posting'[q] = posting[q] \/ posting'[q] = j BY <2>1
  <2> QED BY <2>2 DEF JobInv, BootFirst
\* A job with what is stored.
<1>PostCurrentFirst. ASSUME JobInv, UNCHANGED queue, NEW p \in Poster, NEW d, NEW op \in {"deprovision", "pause", "resume"},
           PostCurrent(p, op, d)
    PROVE  BootFirst'
  <2> USE <1>PostCurrentFirst
  <2>1. CASE d \in present
    BY <2>1, <1>PostedFirst DEF PostCurrent, Job
  <2>2. CASE d \notin present
    BY <2>2, <1>BootFirstSame DEF PostCurrent, JobInv, BootFirst
  <2> QED BY <2>1, <2>2
\* Jobs enter at the end of the queue and leave at its head.
<1>QueueFirst. ASSUME JobInv, (\E p \in Poster : Enqueue(p)) \/ Dequeue
    PROVE  BootFirst' /\ OfJob'
  <2> USE <1>QueueFirst
  <2>0. queue \in Seq(RealJob) /\ EngineInv BY DEF JobInv, ShapeInv, EngineInv, JobsOK
  <2>1. ASSUME NEW p \in Poster, Enqueue(p) PROVE BootFirst' /\ OfJob'
    <3>1. /\ UNCHANGED <<pc, todo, step>> /\ queue' = Append(queue, posting[p])
          /\ posting' = [posting EXCEPT ![p] = NoJob] /\ posting \in [Poster -> RealJob \cup {NoJob}]
          /\ posting[p] # NoJob
      BY <2>1 DEF Enqueue, threadVars, JobInv, ShapeInv, EngineInv, JobsOK
    <3>2. PICK j \in RealJob : j = posting[p] /\ j.op # "reprovision"
      BY <3>1 DEF JobInv, BootFirst
    <3>3. \A i \in 1 .. Len(queue') :
            \/ i \in 1 .. Len(queue) /\ queue'[i] = queue[i]
            \/ i = Len(queue) + 1 /\ queue'[i] = j
      BY <2>0, <3>1, <3>2, SMT
    <3>4. \A i \in 1 .. Len(queue') : queue'[i].op = "reprovision" =>
            i \in 1 .. Len(queue) /\ queue'[i] = queue[i]
      BY <3>2, <3>3
    <3>5. \A i, k \in 1 .. Len(queue') : i < k /\ k \in 1 .. Len(queue) =>
            i \in 1 .. Len(queue) /\ queue'[i] = queue[i]
      BY <2>0, <3>3, SMT
    <3>6. \A q \in Poster : posting'[q].op # "reprovision"
      BY <3>1 DEF JobInv, BootFirst, NoJob, Job
    <3>7. BootFirst' BY <3>4, <3>5, <3>6, SMT DEF JobInv, BootFirst
    <3>8. CASE queue # <<>>
      <4>1. Head(queue') = Head(queue) BY <2>0, <3>1, <3>2, <3>8, FirstStays
      <4> QED BY <3>1, <3>7, <4>1 DEF JobInv, OfJob
    <3>9. CASE queue = <<>>
      <4>1. pc["worker"] = "idle" BY <3>9 DEF JobInv, ShapeInv, EngineInv, JobsOK
      <4>2. todo["worker"] = {} BY <4>1 DEF JobInv, ShapeInv, Shape, ThreadShape, Thread
      <4> QED BY <3>1, <3>7, <4>1, <4>2 DEF OfJob, Stepping
    <3> QED BY <3>8, <3>9
  <2>2. CASE Dequeue
    <3>1. /\ UNCHANGED <<posting, todo>> /\ queue' = Tail(queue) /\ pc["worker"] = "dequeue"
          /\ pc' = [pc EXCEPT !["worker"] = "idle"] /\ queue # <<>>
      BY <2>2 DEF Dequeue, JobInv, ShapeInv, EngineInv, JobsOK
    <3>2. \A i \in 1 .. Len(queue') : i + 1 \in 1 .. Len(queue) /\ queue'[i] = queue[i + 1]
      BY <2>0, <3>1, RestOfJobs
    <3>3. \A i, k \in 1 .. Len(queue') : i < k => i + 1 < k + 1 BY SMT
    <3>4. BootFirst' BY <3>1, <3>2, <3>3, SMT DEF JobInv, BootFirst
    <3>5. pc'["worker"] = "idle" BY <3>1 DEF JobInv, ShapeInv, EngineInv, ThreadsOK, Thread
    <3>6. todo'["worker"] = {} BY <3>1 DEF JobInv, ShapeInv, Shape, ThreadShape, Thread
    <3> QED BY <3>4, <3>5, <3>6 DEF OfJob, Stepping
  <2> QED BY <2>1, <2>2
\* The worker takes the steps of the job it starts, or none.
<1>StartFirst. ASSUME JobInv, StartJob \/ StoreError
    PROVE  BootFirst' /\ OfJob'
  <2> USE <1>StartFirst
  <2>1. UNCHANGED <<queue, posting>> BY DEF StartJob, StoreError
  <2>2. BootFirst' BY <2>1 DEF JobInv, BootFirst
  <2>3. pc["worker"] \in {"idle", "error"} BY DEF StartJob, StoreError
  <2>4. todo["worker"] = {} BY <2>3 DEF JobInv, ShapeInv, Shape, ThreadShape, Thread
  <2>5. /\ \E at \in {"run", "error", "dequeue"} : pc' = [pc EXCEPT !["worker"] = at]
        /\ UNCHANGED todo \/ todo' = [todo EXCEPT !["worker"] = JobSteps(Head(queue))]
    BY DEF StartJob, StoreError
  <2>6. pc'["worker"] \notin Stepping
    BY <2>5 DEF JobInv, ShapeInv, EngineInv, ThreadsOK, Thread, Stepping
  <2>7. todo'["worker"] = {} \/ todo'["worker"] = JobSteps(Head(queue))
    BY <2>4, <2>5 DEF JobInv, ShapeInv, EngineInv, ThreadsOK, Thread
  <2> QED BY <2>1, <2>2, <2>6, <2>7 DEF OfJob
\* A thread works in the job it has.
<1>WorkFirst. ASSUME JobInv, NEW t \in Thread, Work(t)
    PROVE  BootFirst' /\ OfJob'
  <2> USE <1>WorkFirst
  <2>1. EngineInv /\ ShapeInv BY DEF JobInv, ShapeInv
  <2>2. UNCHANGED <<queue, posting>> BY <2>1, OtherThread
  <2>3. BootFirst' BY <2>2 DEF JobInv, BootFirst
  <2>4. CASE t = "api"
    <3>1. pc'["worker"] = pc["worker"] /\ todo'["worker"] = todo["worker"] /\ step'["worker"] = step["worker"]
      BY <2>1, <2>4, OtherThread DEF Thread
    <3> QED BY <2>2, <2>3, <3>1 DEF JobInv, OfJob
  <2>5. CASE t = "worker"
    <3>1. CASE TakeStep(t)
      <4>1. PICK s \in todo[t] : TakenUp(t, s) BY <2>1, <3>1, Taken
      <4> QED BY <2>2, <2>3, <2>5, <4>1 DEF TakenUp, JobInv, OfJob, Stepping
    <3>2. CASE CallManager(t)
      <4>1. UNCHANGED todo BY <3>2 DEF CallManager
      <4> QED BY <2>1, <2>2, <2>3, <2>5, <3>2, <4>1, Answers DEF Answered, JobInv, OfJob, Stepping
    <3>3. CASE Record(t) \/ RemoveWorkload(t)
      <4>1. UNCHANGED todo /\ pc[t] \in {"record", "remove"} BY <3>3 DEF Record, RemoveWorkload
      <4>2. Done(t) \/ (pc' = [pc EXCEPT ![t] = "remove"] /\ UNCHANGED <<step, result>>)
        BY <3>3 DEF Record, RemoveWorkload
      <4>3. pc'[t] = "run" \/ step'[t] = step[t] BY <2>1, <4>2 DEF Done, EngineInv, ThreadsOK
      <4> QED BY <2>2, <2>3, <2>5, <4>1, <4>3 DEF JobInv, OfJob, Stepping
    <3>4. CASE EndSteps(t)
      <4>1. UNCHANGED todo /\ \E at \in {"dequeue", "idle"} : pc' = [pc EXCEPT ![t] = at]
        BY <3>4 DEF EndSteps
      <4>2. pc'[t] \notin Stepping BY <2>1, <4>1 DEF EngineInv, ThreadsOK, Stepping
      <4> QED BY <2>2, <2>3, <2>5, <4>1, <4>2 DEF JobInv, OfJob
    <3> QED BY <3>1, <3>2, <3>3, <3>4 DEF Work
  <2> QED BY <2>4, <2>5 DEF Thread
\* A restart drops the posts; a reboot queues nothing but reinstalls.
<1>RestartFirst. ASSUME JobInv, NEW kind, Restart(kind)
    PROVE  BootFirst' /\ OfJob'
  <2> USE <1>RestartFirst
  <2>1. /\ posting' = [p \in Poster |-> NoJob] /\ pc' = [t \in Thread |-> "idle"]
        /\ todo' = [t \in Thread |-> {}] /\ (queue' = queue \/ queue' \in BootQueues)
    BY DEF Restart
  <2>2. OfJob' BY <2>1 DEF OfJob, Stepping, Thread
  <2>3. \A p \in Poster : posting'[p].op # "reprovision" BY <2>1 DEF NoJob, Job
  <2>4. CASE queue' = queue BY <2>2, <2>3, <2>4, <1>BootFirstSame DEF JobInv
  <2>5. CASE queue' \in BootQueues
    <3>1. \A i \in 1 .. Len(queue') : \E d \in Kept :
             queue'[i] = Job("reprovision", d, version[d], current[d], NoWorkloads)
      BY <2>5, BootJob DEF JobInv, ShapeInv
    <3>2. \A i \in 1 .. Len(queue') :
             queue'[i].op = "reprovision" /\ queue'[i].target = current[queue'[i].dl]
      <4> SUFFICES ASSUME NEW i \in 1 .. Len(queue')
                   PROVE  queue'[i].op = "reprovision" /\ queue'[i].target = current[queue'[i].dl]
        OBVIOUS
      <4>1. PICK d \in Kept : queue'[i] = Job("reprovision", d, version[d], current[d], NoWorkloads)
        BY <3>1
      <4>2. queue'[i].op = "reprovision" /\ queue'[i].dl = d /\ queue'[i].target = current[d]
        BY <4>1, SMT DEF Job
      <4> QED BY <4>2
    <3> QED BY <2>2, <2>3, <3>2 DEF BootFirst
  <2> QED BY <2>1, <2>4, <2>5
\* The other steps leave the worker alone.
<1>OthersFirst. ASSUME JobInv,
           \/ UserStep(Dl, Requests)
           \/ Chain \/ HandleEvent \/ SyncStart \/ (\E d \in Dl : SyncOne(d))
           \/ UNCHANGED engineVars
    PROVE  BootFirst' /\ OfJob'
  <2> USE <1>OthersFirst
  <2>0. {"api", "events", "sync"} = Poster BY DEF Poster
  <2>1. UNCHANGED queue
    BY DEF UserStep, Provision, UpdateDeployment, DecommissionCached, Chain, HandleEvent, SyncStart,
           SyncOne, engineVars
  <2>2. pc'["worker"] = pc["worker"] /\ todo'["worker"] = todo["worker"] /\ step'["worker"] = step["worker"]
    <3>1. ASSUME NEW d \in Dl, NEW n \in Name, DecommissionCached(d, n)
          PROVE  /\ pc'["worker"] = pc["worker"] /\ todo'["worker"] = todo["worker"]
                 /\ step'["worker"] = step["worker"]
      BY <3>1 DEF DecommissionCached, JobInv, ShapeInv, EngineInv, ThreadsOK, Thread
    <3>2. \/ \E d \in Dl : \E n \in Name : DecommissionCached(d, n)
          \/ UNCHANGED <<pc, todo, step>>
      BY DEF UserStep, Provision, UpdateDeployment, Chain, HandleEvent, SyncStart, SyncOne,
             engineVars, threadVars
    <3> QED BY <3>1, <3>2
  <2>3. OfJob' BY <2>1, <2>2 DEF JobInv, OfJob
  <2>4. CASE UNCHANGED posting BY <2>1, <2>3, <2>4, <1>BootFirstSame DEF JobInv, BootFirst
  <2>5. ASSUME NEW d \in Dl, NEW r \in Requests, Provision(d, r) \/ UpdateDeployment(d, r)
        PROVE  BootFirst'
    <3>1. \E op \in {"provision", "update"} : \E v, a, b : Post("api", Job(op, d, v, a, b))
      BY <2>5 DEF Provision, UpdateDeployment
    <3>2. \A op \in {"provision", "update"} : \A v, a, b : Job(op, d, v, a, b).op # "reprovision"
      BY DEF Job
    <3> QED BY <2>0, <2>1, <3>1, <3>2, <1>PostedFirst
  <2>6. ASSUME HandleEvent \/ \E d \in Dl : SyncOne(d) PROVE BootFirst'
    <3>1. \/ UNCHANGED posting
          \/ \E p \in Poster : \E op \in {"deprovision", "pause", "resume"} : \E d : PostCurrent(p, op, d)
      BY <2>0, <2>6 DEF HandleEvent, HandleLock, HandleCancel, SyncOne
    <3> QED BY <2>1, <2>4, <3>1, <1>PostCurrentFirst
  <2> QED BY <2>3, <2>4, <2>5, <2>6
          DEF UserStep, DecommissionCached, Chain, SyncStart, engineVars
<1>1. ShapeInv' BY ShapeStep DEF JobInv
<1>2. BootFirst' /\ OfJob'
  BY <1>QueueFirst, <1>StartFirst, <1>WorkFirst, <1>RestartFirst, <1>OthersFirst
     DEF EngineNext, SystemStep, Worker
<1> QED BY <1>1, <1>2 DEF JobInv

\* Initially there is no job.
LEMMA JobInvInit == EngineInit => JobInv
<1> SUFFICES ASSUME EngineInit PROVE JobInv
  OBVIOUS
<1>1. queue = <<>> /\ Len(<<>>) = 0 /\ 1 .. 0 = {} BY SMT DEF EngineInit
<1>2. BootFirst BY <1>1 DEF EngineInit, BootFirst, NoJob, Job
<1>3. OfJob BY DEF EngineInit, OfJob, Stepping, Thread
<1> QED BY <1>2, <1>3, ShapeInvInit DEF JobInv

\* Who is not the worker leaves it alone.
LEMMA OthersKeepWorker ==
    ASSUME JobInv,
           \/ UserStep(Dl, Requests)
           \/ Chain \/ HandleEvent \/ SyncStart \/ (\E d \in Dl : SyncOne(d))
           \/ (\E p \in Poster : Enqueue(p)) \/ Work("api") \/ UNCHANGED engineVars
    PROVE  /\ WorkerSame /\ result'["worker"] = result["worker"] /\ reading' = reading
           /\ pc["worker"] # "idle" => Head(queue') = Head(queue)
<1>0. EngineInv /\ "api" \in Thread /\ "worker" \in Thread \ {"api"} BY DEF JobInv, ShapeInv, Thread
<1>1. CASE Work("api")
  <2>1. UNCHANGED reading
    BY <1>1 DEF Work, TakeStep, CallManager, Record, RemoveWorkload, EndSteps
  <2> QED BY <1>0, <1>1, <2>1, OtherThread DEF WorkerSame
<1>2. ASSUME NEW d \in Dl, NEW n \in Name, DecommissionCached(d, n)
      PROVE  /\ WorkerSame /\ result'["worker"] = result["worker"] /\ reading' = reading
             /\ UNCHANGED queue
  BY <1>2 DEF DecommissionCached, WorkerSame, JobInv, ShapeInv, EngineInv, ThreadsOK, Thread
<1>3. ASSUME NEW p \in Poster, Enqueue(p)
      PROVE  /\ UNCHANGED threadVars
             /\ pc["worker"] # "idle" => Head(queue') = Head(queue)
  <2>1. queue \in Seq(RealJob) /\ posting[p] \in RealJob /\ queue' = Append(queue, posting[p])
        /\ UNCHANGED threadVars /\ (pc["worker"] # "idle" => queue # <<>>)
    BY <1>3 DEF Enqueue, JobInv, ShapeInv, EngineInv, JobsOK
  <2> QED BY <2>1, FirstStays
<1>4. ASSUME \/ \E d \in Dl : \E r \in Requests : Provision(d, r) \/ UpdateDeployment(d, r)
             \/ Chain \/ HandleEvent \/ SyncStart \/ (\E d \in Dl : SyncOne(d))
             \/ UNCHANGED engineVars
      PROVE  UNCHANGED threadVars /\ UNCHANGED queue
  BY <1>4 DEF Provision, UpdateDeployment, Chain, HandleEvent, SyncStart, SyncOne, engineVars
<1>5. UNCHANGED threadVars => WorkerSame /\ result'["worker"] = result["worker"] /\ reading' = reading
  BY DEF threadVars, WorkerSame
<1> QED BY <1>1, <1>2, <1>3, <1>4, <1>5 DEF UserStep
=============================================================================
