---------------------------- MODULE BoltStorage ----------------------------
(***************************************************************************)
(* The bolt database of provisiond (pkg/provision/storage/storage.go).     *)
(* Every action is one bolt transaction: bolt runs one writer at a time    *)
(* and rolls back a transaction whose function returns an error, so a call *)
(* that fails leaves the database as it was and is not a step.             *)
(***************************************************************************)
EXTENDS GridTypes, Sequences

CONSTANTS MaxLog,    \* bound on the length of a transaction log
          MaxSent,   \* bound on the workloads sent in one deployment
          Logged     \* the result states callers log with Transaction

ASSUME BoundAssumption ==
    MaxLog \in Nat /\ MaxSent \in Nat /\ Logged \subseteq ResultState

VARIABLES twins,     \* twin buckets
          dls,       \* deployment buckets
          ver,       \* key "version" of each deployment
          types,     \* bucket "workloads" of each deployment: name -> type
          logs,      \* bucket "transactions" of each deployment
          global,    \* bucket "global" of each twin: name -> deployment
          reading    \* what an Error call has read before it writes

boltVars == <<twins, dls, ver, types, logs, global, reading>>

\* a transaction log record: a workload with its result
Txn == [name : Name, type : Type, ver : Version, state : ResultState]

\* a workload as sent by the user
Sent == [name : Name, type : Type, ver : Version]

Record(w, s) == [name |-> w.name, type |-> w.type, ver |-> w.ver, state |-> s]

NoTypes == [n \in Name |-> "none"]

NoNames == [n \in Name |-> NoDl]

Idle == [dl |-> NoDl, ws |-> NoWorkloads]

Room(d, k) == Len(logs[d]) + k <= MaxLog

(***************************************************************************)
(* Reading the log: from its end, the first record of the name that is not *)
(* "unchanged".                                                            *)
(***************************************************************************)
Settled(log, n) == {i \in DOMAIN log : log[i].name = n /\ log[i].state # "unchanged"}

Last(log, n) == CHOOSE i \in Settled(log, n) : \A j \in Settled(log, n) : j <= i

AsEntry(x) == [type |-> x.type, ver |-> x.ver, state |-> x.state]

Current(d, n) == IF types[d][n] = "none" THEN NoEntry ELSE AsEntry(logs[d][Last(logs[d], n)])

Get(d) == [n \in Name |-> Current(d, n)]
-----------------------------------------------------------------------------
BoltInit ==
    /\ twins  = {}
    /\ dls    = {}
    /\ ver    = [d \in Dl |-> 0]
    /\ types  = [d \in Dl |-> NoTypes]
    /\ logs   = [d \in Dl |-> <<>>]
    /\ global = [t \in Twin |-> NoNames]
    /\ reading = Idle

\* the global names in the way of workload w of deployment d
Taken(d, w) == w.type \in Sharable /\ global[TwinOf[d]][w.name] # NoDl

Put(d, ns) ==
    global' = [global EXCEPT ![TwinOf[d]] = [n \in Name |-> IF n \in ns THEN d ELSE @[n]]]

\* ws is the list of workloads of the deployment; Deployment.Valid has made
\* sure that no name appears twice
Create(d, v, ws) ==
    /\ d \notin dls
    /\ \A i \in DOMAIN ws : ~Taken(d, ws[i])
    /\ Room(d, Len(ws))
    /\ twins' = twins \cup {TwinOf[d]}
    /\ dls' = dls \cup {d}
    /\ ver' = [ver EXCEPT ![d] = v]
    /\ types' = [types EXCEPT ![d] = [n \in Name |->
                    IF \E i \in DOMAIN ws : ws[i].name = n
                    THEN ws[CHOOSE i \in DOMAIN ws : ws[i].name = n].type
                    ELSE "none"]]
    /\ logs' = [logs EXCEPT ![d] = [i \in 1..Len(ws) |-> Record(ws[i], "init")]]
    /\ Put(d, {ws[i].name : i \in {j \in DOMAIN ws : ws[j].type \in Sharable}})
    /\ UNCHANGED reading

Update(d, v) ==
    /\ d \in dls
    /\ ver' = [ver EXCEPT ![d] = v]
    /\ UNCHANGED <<twins, dls, types, logs, global, reading>>

Add(d, w) ==
    /\ d \in dls
    /\ ~Taken(d, w)
    /\ types[d][w.name] = "none"
    /\ Room(d, 1)
    /\ types' = [types EXCEPT ![d][w.name] = w.type]
    /\ logs' = [logs EXCEPT ![d] = Append(@, Record(w, "init"))]
    /\ Put(d, IF w.type \in Sharable THEN {w.name} ELSE {})
    /\ UNCHANGED <<twins, dls, ver, reading>>

\* mutant: the global name is left behind
MutRemove(d, n) ==
    /\ d \in dls
    /\ types[d][n] # "none"
    /\ types' = [types EXCEPT ![d][n] = "none"]
    /\ UNCHANGED <<twins, dls, ver, logs, global, reading>>

Remove(d, n) ==
    /\ d \in dls
    /\ types[d][n] # "none"
    /\ global' = IF types[d][n] \in Sharable
                 THEN [global EXCEPT ![TwinOf[d]][n] = NoDl]
                 ELSE global
    /\ types' = [types EXCEPT ![d][n] = "none"]
    /\ UNCHANGED <<twins, dls, ver, logs, reading>>

Transaction(d, x) ==
    /\ d \in dls
    /\ types[d][x.name] = x.type
    /\ Room(d, 1)
    /\ logs' = [logs EXCEPT ![d] = Append(@, x)]
    /\ UNCHANGED <<twins, dls, ver, types, global, reading>>

(***************************************************************************)
(* Error reads the deployment with Get and opens its write transaction     *)
(* afterwards: other calls run in between.  It logs one record per         *)
(* workload it has read, in the order of a Go map.                         *)
(***************************************************************************)

ErrorRead(d) ==
    /\ reading = Idle
    /\ d \in dls
    /\ reading' = [dl |-> d, ws |-> Get(d)]
    /\ UNCHANGED <<twins, dls, ver, types, logs, global>>

ErrorFits(d, ws) == d \in dls /\ \A n \in Active(ws) : types[d][n] = ws[n].type

Orders(S) == UNION {{f \in [1..k -> S] : \A n \in S : \E i \in 1..k : f[i] = n
                                         /\ \A j \in 1..k : f[j] = n => j = i} : k \in 0..MaxLog}

ErrorWrite ==
    LET d == reading.dl
        ws == reading.ws
    IN /\ reading # Idle
       /\ reading' = Idle
       /\ \/ /\ ErrorFits(d, ws)
             /\ \E f \in Orders(Active(ws)) :
                  /\ Room(d, Len(f))
                  /\ logs' = [logs EXCEPT ![d] = @ \o [i \in 1..Len(f) |->
                        [name |-> f[i], type |-> ws[f[i]].type, ver |-> ws[f[i]].ver, state |-> "error"]]]
          \/ /\ ~ErrorFits(d, ws)
             /\ UNCHANGED logs
       /\ UNCHANGED <<twins, dls, ver, types, global>>

\* Delete removes the bucket of the deployment, and the bucket of its twin,
\* the global names in it included, when no deployment is left in it.
Left(ds) == {TwinOf[d] : d \in dls \ ds}

\* mutant: the bucket of the twin is never removed
MutDropKeepTwin(ds) ==
    /\ dls' = dls \ ds
    /\ ver' = [d \in Dl |-> IF d \in ds THEN 0 ELSE ver[d]]
    /\ types' = [d \in Dl |-> IF d \in ds THEN NoTypes ELSE types[d]]
    /\ logs' = [d \in Dl |-> IF d \in ds THEN <<>> ELSE logs[d]]
    /\ UNCHANGED <<twins, global, reading>>

Drop(ds) ==
    /\ dls' = dls \ ds
    /\ twins' = twins \ {t \in {TwinOf[d] : d \in ds} : t \notin Left(ds)}
    /\ ver' = [d \in Dl |-> IF d \in ds THEN 0 ELSE ver[d]]
    /\ types' = [d \in Dl |-> IF d \in ds THEN NoTypes ELSE types[d]]
    /\ logs' = [d \in Dl |-> IF d \in ds THEN <<>> ELSE logs[d]]
    /\ global' = [t \in Twin |-> IF t \in {TwinOf[d] : d \in ds} \ Left(ds)
                                 THEN NoNames ELSE global[t]]
    /\ UNCHANGED reading

Delete(d) == Drop({d})

\* run once when provisiond starts, before anything else uses the database
CleanDeleted == reading = Idle /\ Drop({d \in dls : ~HasOkay(Get(d))})
-----------------------------------------------------------------------------
\* the lists of workloads Deployment.Valid accepts
SentLists == {ws \in UNION {[1..k -> Sent] : k \in 0..MaxSent} :
                 \A i, j \in DOMAIN ws : ws[i].name = ws[j].name => i = j}

BoltNext ==
    \/ \E d \in Dl :
         \/ \E v \in Version, ws \in SentLists : Create(d, v, ws)
         \/ \E v \in Version : Update(d, v)
         \/ \E w \in Sent : Add(d, w)
         \/ \E n \in Name : Remove(d, n)
         \/ \E w \in Sent, s \in Logged : Transaction(d, Record(w, s))
         \/ ErrorRead(d)
         \/ Delete(d)
    \/ ErrorWrite
    \/ CleanDeleted

BoltSpec == BoltInit /\ [][BoltNext]_boltVars
-----------------------------------------------------------------------------
\* Shape of the buckets.
BoltTypeOK ==
    /\ twins \subseteq Twin
    /\ dls \subseteq Dl
    /\ ver \in [Dl -> Version]
    /\ types \in [Dl -> [Name -> Type \cup {"none"}]]
    /\ logs \in [Dl -> Seq(Txn)]
    /\ global \in [Twin -> [Name -> Dl \cup {NoDl}]]
    /\ reading \in [dl : Dl \cup {NoDl}, ws : Workloads]

\* A twin has a bucket exactly while it has deployments, so the twins listed
\* by Twins() are the ones that own something and no bucket is left behind.
TwinBuckets == twins = {TwinOf[d] : d \in dls}

\* Get and Current never meet "missing workload transactions" or "wrong
\* workload type" (storage.go:529, 552, 609): every active workload has a
\* settled record, and its records from that one on have its type, even when
\* the name was removed and added again with another type.
ReadConsistent ==
    \A d \in dls : \A n \in Name : types[d][n] # "none" =>
        /\ Settled(logs[d], n) # {}
        /\ \A i \in DOMAIN logs[d] :
             i >= Last(logs[d], n) /\ logs[d][i].name = n => logs[d][i].type = types[d][n]

(***************************************************************************)
(* The database implements the storage the engine is written against.      *)
(***************************************************************************)
Store == INSTANCE WorkloadStore WITH present <- dls, version <- ver,
                                     current <- [d \in Dl |-> Get(d)], shared <- global

\* Every bolt transaction is a step, or a stutter, of WorkloadStore: reading
\* the log backwards for the last settled record gives the current state.
ImplementsStore == Store!StoreSpec

\* The global bucket names the owner of every active sharable workload.
SharedOwner == Store!SharedOwner

\* The buckets agree with each other: those of twins, deployments, workloads,
\* transactions and shared names, whatever transactions ran (storage.go).
StoreBuckets == TwinBuckets /\ ReadConsistent /\ SharedOwner
=============================================================================
