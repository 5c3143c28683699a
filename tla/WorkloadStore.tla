--------------------------- MODULE WorkloadStore ---------------------------
(***************************************************************************)
(* What the provision engine relies on when it talks to its storage        *)
(* (provision.Storage, pkg/provision/interface.go): the deployments that   *)
(* are stored, the current state of every active workload, and the names   *)
(* of sharable workloads that are taken in a twin.  One action per storage *)
(* transaction; a call that returns an error changes nothing, so it is a   *)
(* stuttering step here and callers test the matching ...Ok predicate.     *)
(*                                                                         *)
(* BoltStorage (buckets and an append-only log) implements this module.    *)
(***************************************************************************)
EXTENDS GridTypes

VARIABLES present,   \* the deployments stored
          version,   \* the version field of each deployment
          current,   \* last state of each active workload, NoEntry if inactive
          shared     \* the global bucket of each twin: name -> deployment

storeVars == <<present, version, current, shared>>

-----------------------------------------------------------------------------
StoreInit ==
    /\ present = {}
    /\ version = [d \in Dl |-> 0]
    /\ current = [d \in Dl |-> NoWorkloads]
    /\ shared  = [t \in Twin |-> [n \in Name |-> NoDl]]

\* mutant: a name taken by another deployment is no conflict
MutNoConflict(d, ws) == \A n \in SharableIn(ws) : shared[TwinOf[d]][n] # d

\* the sharable names that are free to take for workloads ws of deployment d
NoConflict(d, ws) == \A n \in SharableIn(ws) : shared[TwinOf[d]][n] = NoDl

TakeNames(d, ns) ==
    shared' = [shared EXCEPT ![TwinOf[d]] = [n \in Name |-> IF n \in ns THEN d ELSE @[n]]]

CreateOk(d, ws) == d \notin present /\ NoConflict(d, ws)

Create(d, v, ws) ==
    /\ CreateOk(d, ws)
    /\ present' = present \cup {d}
    /\ version' = [version EXCEPT ![d] = v]
    /\ current' = [current EXCEPT ![d] = WithState(ws, "init")]
    /\ TakeNames(d, SharableIn(ws))

Update(d, v) ==
    /\ d \in present
    /\ version' = [version EXCEPT ![d] = v]
    /\ UNCHANGED <<present, current, shared>>

AddOk(d, n, e) ==
    /\ d \in present
    /\ n \notin Active(current[d])
    /\ e.type \in Sharable => shared[TwinOf[d]][n] = NoDl

Add(d, n, e) ==
    /\ AddOk(d, n, e)
    /\ current' = [current EXCEPT ![d][n] = WithResult(e, "init")]
    /\ TakeNames(d, IF e.type \in Sharable THEN {n} ELSE {})
    /\ UNCHANGED <<present, version>>

Remove(d, n) ==
    /\ n \in Active(current[d])
    /\ shared' = IF current[d][n].type \in Sharable
                 THEN [shared EXCEPT ![TwinOf[d]][n] = NoDl]
                 ELSE shared
    /\ current' = [current EXCEPT ![d][n] = NoEntry]
    /\ UNCHANGED <<present, version>>

TransactionOk(d, n, type) == n \in Active(current[d]) /\ current[d][n].type = type

\* mutant: an "unchanged" result is read back as the state of the workload
MutTransaction(d, n, e) ==
    /\ TransactionOk(d, n, e.type)
    /\ current' = [current EXCEPT ![d][n] = e]
    /\ UNCHANGED <<present, version, shared>>

\* e is the workload with the result of an operation.  An "unchanged" result
\* is logged but never read back as the state of the workload.
Transaction(d, n, e) ==
    /\ TransactionOk(d, n, e.type)
    /\ current' = IF e.state = "unchanged" THEN current
                  ELSE [current EXCEPT ![d][n] = e]
    /\ UNCHANGED <<present, version, shared>>

\* Error(): ws are the workloads read before the transaction started.  All
\* of them are put in error, or none of them if one has gone in between.
ErrorOk(d, ws) ==
    d \in present /\ \A n \in Active(ws) : TransactionOk(d, n, ws[n].type)

Error(d, ws) ==
    /\ ErrorOk(d, ws)
    /\ current' = [current EXCEPT ![d] = [n \in Name |->
                      IF n \in Active(ws) THEN WithResult(ws[n], "error") ELSE @[n]]]
    /\ UNCHANGED <<present, version, shared>>

\* Deletes the deployments ds.  The global bucket goes with the bucket of the
\* twin, which is dropped when it has no deployment left, and only then.
Drop(ds) ==
    /\ present' = present \ ds
    /\ version' = [d \in Dl |-> IF d \in ds THEN 0 ELSE version[d]]
    /\ current' = [d \in Dl |-> IF d \in ds THEN NoWorkloads ELSE current[d]]
    /\ shared'  = [t \in Twin |-> IF \E d \in present \ ds : TwinOf[d] = t
                                  THEN shared[t] ELSE [n \in Name |-> NoDl]]

Delete(d) == Drop({d})

CleanDeleted == Drop({d \in present : ~HasOkay(current[d])})
-----------------------------------------------------------------------------
StoreNext ==
    \/ \E d \in Dl :
         \/ \E v \in Version, ws \in Workloads : Create(d, v, ws)
         \/ \E v \in Version : Update(d, v)
         \/ \E ws \in Workloads : Error(d, ws)
         \/ Delete(d)
         \/ \E n \in Name :
              \/ \E e \in Entry : Add(d, n, e)
              \/ Remove(d, n)
              \/ \E e \in Result : Transaction(d, n, e)
    \/ CleanDeleted

StoreSpec == StoreInit /\ [][StoreNext]_storeVars
-----------------------------------------------------------------------------
\* Shape of the stored data.
StoreTypeOK ==
    /\ present \subseteq Dl
    /\ version \in [Dl -> Version]
    /\ current \in [Dl -> Workloads]
    /\ shared  \in [Twin -> [Name -> Dl \cup {NoDl}]]

\* A deployment that is not stored has no workloads.
AbsentIsEmpty == \A d \in Dl \ present : current[d] = NoWorkloads

\* The global bucket names the owner of every active sharable workload: the
\* check in add (storage.go:299) and the clean up in Remove (storage.go:365)
\* never lose track of a name that is in use.
SharedOwner ==
    \A d \in Dl : \A n \in SharableIn(current[d]) : shared[TwinOf[d]][n] = d

\* No two deployments of a twin have an active sharable workload of the same
\* name, whatever the order of create, add, remove, delete and clean up: this
\* is what lets other deployments refer to a network by its name only.
SharedExclusive ==
    \A d1, d2 \in Dl :
        TwinOf[d1] = TwinOf[d2] /\ d1 # d2
          => SharableIn(current[d1]) \cap SharableIn(current[d2]) = {}

StoreInv == StoreTypeOK /\ AbsentIsEmpty /\ SharedOwner
=============================================================================
