-------------------------- MODULE ProvisiondProofs --------------------------
(***************************************************************************)
(* What provisiond keeps and reports beside the engine, for any twins,     *)
(* deployments, workloads, contracts, slots, hours, faults and restarts:   *)
(* the bolt database implements WorkloadStore; a change of the used        *)
(* capacity is not forgotten by the capacity setter; network use is in a   *)
(* report, and a report leaves the queue for the chain.                    *)
(***************************************************************************)
EXTENDS BoltStorage, CapacitySetter, Reporter, TLAPS

\* first-order steps; those that need arithmetic or sequences cite SMT
USE Zenon

\* The database.  The argument is about the append-only log: which record of a
\* name is its last settled one, and how that changes when records are appended.

\* record i of the log is the one Current finds for name n of type ty
LastOf(ty, log, n, i) ==
    /\ i \in Settled(log, n) /\ \A j \in Settled(log, n) : j <= i
    /\ \A k \in DOMAIN log : k >= i /\ log[k].name = n => log[k].type = ty

\* what Current makes of it
Read(ty, log, n) == IF ty = "none" THEN NoEntry ELSE AsEntry(log[Last(log, n)])

\* every workload has such a record
Readable ==
    \A d \in Dl, n \in Name :
        types[d][n] # "none" => \E i \in DOMAIN logs[d] : LastOf(types[d][n], logs[d], n, i)

\* a deployment that is not stored has no workloads, a twin without any
\* deployment has no names
NothingLeft ==
    /\ \A d \in Dl \ dls : types[d] = NoTypes
    /\ \A t \in Twin : (\A d \in dls : TwinOf[d] # t) => global[t] = NoNames

\* a sharable workload owns its name
NamesOwned ==
    \A d \in Dl, n \in Name : types[d][n] \in Sharable => global[TwinOf[d]][n] = d

\* the inductive invariant of the database
BoltInv == BoltTypeOK /\ Readable /\ NothingLeft /\ NamesOwned /\ TwinBuckets
-----------------------------------------------------------------------------
\* Current reads the record LastOf describes.
LEMMA ReadLast ==
    ASSUME NEW ty \in Type, NEW log \in Seq(Txn), NEW n \in Name, NEW i \in DOMAIN log,
           LastOf(ty, log, n, i)
    PROVE  /\ Last(log, n) = i
           /\ Read(ty, log, n) = AsEntry(log[i])
           /\ AsEntry(log[i]) \in Entry /\ AsEntry(log[i]) # NoEntry
           /\ AsEntry(log[i]).type = ty
<1>1. Last(log, n) = i
  <2>1. \A j \in Settled(log, n) : j \in Nat
    BY SMT DEF Settled
  <2>2. \A k \in Settled(log, n) : (\A j \in Settled(log, n) : j <= k) => k = i
    BY <2>1, SMT DEF LastOf
  <2> QED BY <2>2 DEF Last, LastOf
<1>2. ty # "none"
  BY GridAssumption
<1>3. log[i] \in Txn /\ log[i].type = ty /\ log[i].state # "unchanged"
  <2>1. log[i].name = n /\ i \in Nat
    BY SMT DEF LastOf, Settled
  <2> QED BY <2>1, SMTT(30) DEF LastOf, Settled
<1>4. AsEntry(log[i]) \in Entry /\ AsEntry(log[i]).type = ty
  BY <1>3 DEF AsEntry, Entry, Txn, ResultState
<1> QED BY <1>1, <1>2, <1>4, SMT DEF Read, NoEntry

-----------------------------------------------------------------------------
\* The workloads that are read are those of the bucket "workloads".
LEMMA CurrentRead ==
    ASSUME BoltTypeOK, Readable, NEW d \in Dl, NEW n \in Name
    PROVE  /\ Current(d, n) = Read(types[d][n], logs[d], n)
           /\ Current(d, n) \in Entry \cup {NoEntry}
           /\ Current(d, n) = NoEntry <=> types[d][n] = "none"
           /\ Current(d, n).type = types[d][n]
<1>1. Current(d, n) = Read(types[d][n], logs[d], n)
  BY DEF Current, Read
<1>2. CASE types[d][n] = "none"
  BY <1>1, <1>2, SMTT(30) DEF Read, NoEntry
<1>3. CASE types[d][n] # "none"
  <2>1. types[d][n] \in Type /\ logs[d] \in Seq(Txn)
    BY <1>3, SMT DEF BoltTypeOK
  <2>2. PICK i \in DOMAIN logs[d] : LastOf(types[d][n], logs[d], n, i)
    BY <1>3 DEF Readable
  <2> QED BY <1>1, <1>3, <2>1, <2>2, ReadLast, SMTT(30)
<1> QED BY <1>2, <1>3

\* what Error appends for workloads ws, in the order of f
ErrorRecords(ws, f) ==
    [i \in 1..Len(f) |->
        [name |-> f[i], type |-> ws[f[i]].type, ver |-> ws[f[i]].ver, state |-> "error"]]

\* the workloads a list holds
Held(ws) ==
    [n \in Name |-> IF \E i \in DOMAIN ws : ws[i].name = n
                    THEN AsEntry(Record(ws[CHOOSE i \in DOMAIN ws : ws[i].name = n], "init"))
                    ELSE NoEntry]

-----------------------------------------------------------------------------
\* An empty database is an empty store.
LEMMA BoltInitInv == BoltInit => BoltInv /\ Store!StoreInit
<1> SUFFICES ASSUME BoltInit
             PROVE  BoltInv /\ Store!StoreInit
  OBVIOUS
<1>1. BoltTypeOK
  BY GridAssumption, SMT DEF BoltInit, BoltTypeOK, NoTypes, NoNames, Idle, NoWorkloads, Workloads
<1>2. Readable /\ NothingLeft /\ NamesOwned /\ TwinBuckets
  BY GridAssumption DEF BoltInit, Readable, NothingLeft, NamesOwned, TwinBuckets, NoTypes
<1>3. \A d \in Dl : Get(d) = Store!NoWorkloads
  BY DEF Get, Current, BoltInit, NoTypes, Store!NoWorkloads, Store!NoEntry, NoEntry
<1>4. Store!StoreInit
  BY <1>3 DEF Store!StoreInit, BoltInit, NoNames
<1> QED BY <1>1, <1>2, <1>4 DEF BoltInv

\* Every transaction keeps the invariant and is a step of the store, or a
\* stutter.
LEMMA BoltStep ==
    ASSUME BoltInv, [BoltNext]_boltVars
    PROVE  BoltInv' /\ [Store!StoreNext]_(Store!storeVars)
\* Records of other names, or that are not settled, leave what is read.
<1>ExtendOther. ASSUME NEW ty \in Type, NEW log \in Seq(Txn), NEW new \in Seq(Txn), NEW n \in Name,
           NEW i \in DOMAIN log, LastOf(ty, log, n, i),
           Len(log) <= Len(new), \A k \in 1 .. Len(log) : new[k] = log[k],
           \A k \in Len(log) + 1 .. Len(new) :
               new[k].name = n => new[k].state = "unchanged" /\ new[k].type = ty
    PROVE  i \in DOMAIN new /\ LastOf(ty, new, n, i) /\ Read(ty, new, n) = Read(ty, log, n)
  <2> USE <1>ExtendOther
  <2>1. i \in DOMAIN new /\ new[i] = log[i]
    BY SMTT(30)
  <2>2. Settled(new, n) = Settled(log, n)
    BY SMTT(30) DEF Settled
  <2>3. LastOf(ty, new, n, i)
    BY <2>1, <2>2, SMTT(30) DEF LastOf
  <2>4. Read(ty, new, n) = AsEntry(new[i]) /\ Read(ty, log, n) = AsEntry(log[i])
    BY <2>1, <2>3, ReadLast, SMTT(30)
  <2> QED BY <2>1, <2>3, <2>4
\* A settled record that is the only new one of its name is read.
<1>ExtendSettled. ASSUME NEW log \in Seq(Txn), NEW new \in Seq(Txn), NEW n \in Name,
           Len(log) <= Len(new), \A k \in 1 .. Len(log) : new[k] = log[k],
           NEW i \in Len(log) + 1 .. Len(new), new[i].name = n, new[i].state # "unchanged",
           \A k \in Len(log) + 1 .. Len(new) : new[k].name = n => k = i
    PROVE  /\ i \in DOMAIN new /\ LastOf(new[i].type, new, n, i)
           /\ Read(new[i].type, new, n) = AsEntry(new[i])
  <2> USE <1>ExtendSettled
  <2>1. i \in DOMAIN new /\ new[i] \in Txn
    BY SMT
  <2>2. i \in Settled(new, n)
    BY <2>1 DEF Settled
  <2>3. \A k \in DOMAIN new : k > i => new[k].name # n
    BY SMTT(30)
  <2>4. LastOf(new[i].type, new, n, i)
    BY <2>1, <2>2, <2>3, SMT DEF LastOf, Settled
  <2>5. new[i].type \in Type
    BY <2>1 DEF Txn
  <2> QED BY <2>1, <2>4, <2>5, ReadLast, SMTT(30)
\* Current in the old and in the new state
<1>ReadBoth. ASSUME NEW d \in Dl, NEW n \in Name
    PROVE  /\ Current(d, n) = Read(types[d][n], logs[d], n)
           /\ Current(d, n)' = Read(types'[d][n], logs'[d], n)
  BY <1>ReadBoth DEF Current, Read
\* A step that changes the buckets of one deployment only.
<1>OneBucket. ASSUME Readable, NEW d \in Dl,
           \A b \in Dl \ {d} : types'[b] = types[b] /\ logs'[b] = logs[b],
           \A n \in Name : types'[d][n] # "none" =>
               \E i \in DOMAIN logs'[d] : LastOf(types'[d][n], logs'[d], n, i)
    PROVE  Readable' /\ \A b \in Dl \ {d}, n \in Name : Current(b, n)' = Current(b, n)
  <2> USE <1>OneBucket
  <2>1. Readable'
    <3> SUFFICES ASSUME NEW b \in Dl, NEW n \in Name, types'[b][n] # "none"
                 PROVE  \E i \in DOMAIN logs'[b] : LastOf(types'[b][n], logs'[b], n, i)
      BY DEF Readable
    <3> QED BY DEF Readable
  <2>2. ASSUME NEW b \in Dl \ {d}, NEW n \in Name
        PROVE  Current(b, n)' = Current(b, n)
    BY <1>ReadBoth, SMT
  <2> QED BY <2>1, <2>2
\* Transaction appends one record.
<1>TransactionStep. ASSUME BoltInv, NEW d \in Dl, NEW x \in Txn, Transaction(d, x)
    PROVE  Store!Transaction(d, x.name, AsEntry(x)) /\ BoltInv'
  <2> USE <1>TransactionStep
  <2> DEFINE log == logs[d]
             new == Append(log, x)
  <2> USE DEF BoltInv
  <2>1. /\ x.name \in Name /\ x.type \in Type /\ types[d][x.name] = x.type
        /\ log \in Seq(Txn)
    BY DEF BoltTypeOK, Transaction, Txn
  <2>2. /\ new \in Seq(Txn) /\ Len(new) = Len(log) + 1
        /\ \A k \in 1 .. Len(log) : new[k] = log[k]
        /\ new[Len(log) + 1] = x
    BY <2>1, SMT
  <2>3. logs' = [logs EXCEPT ![d] = new] /\ types' = types /\ logs'[d] = new
    BY DEF Transaction, BoltTypeOK
  <2>4. BoltTypeOK' /\ NothingLeft' /\ NamesOwned' /\ TwinBuckets'
    BY <2>2, <2>3 DEF Transaction, BoltTypeOK, NothingLeft, NamesOwned, TwinBuckets
  <2>5. ASSUME NEW n \in Name, types[d][n] # "none", n # x.name \/ x.state = "unchanged"
        PROVE  /\ \E i \in DOMAIN new : LastOf(types[d][n], new, n, i)
               /\ Read(types[d][n], new, n) = Read(types[d][n], log, n)
    <3>1. PICK i \in DOMAIN log : LastOf(types[d][n], log, n, i)
      BY <2>5 DEF Readable
    <3>2. types[d][n] \in Type
      BY <2>5, SMT DEF BoltTypeOK
    <3>3. \A k \in Len(log) + 1 .. Len(new) :
              new[k].name = n => new[k].state = "unchanged" /\ new[k].type = types[d][n]
      BY <2>1, <2>2, <2>5, SMTT(30)
    <3> HIDE DEF new, log
    <3> QED BY <2>1, <2>2, <3>1, <3>2, <3>3, <1>ExtendOther, SMTT(30)
  <2>6. ASSUME x.state # "unchanged"
        PROVE  /\ \E i \in DOMAIN new : LastOf(types[d][x.name], new, x.name, i)
               /\ Read(types[d][x.name], new, x.name) = AsEntry(x)
    <3>1. Len(log) + 1 \in Len(log) + 1 .. Len(new)
      BY <2>1, <2>2, SMTT(30)
    <3>2. \A k \in Len(log) + 1 .. Len(new) : new[k].name = x.name => k = Len(log) + 1
      BY <2>1, <2>2, SMT
    <3> HIDE DEF new, log
    <3> QED BY <2>1, <2>2, <2>6, <3>1, <3>2, <1>ExtendSettled, SMTT(30)
  <2>7. Readable' /\ \A b \in Dl \ {d}, n \in Name : Current(b, n)' = Current(b, n)
    <3>1. \A b \in Dl \ {d} : types'[b] = types[b] /\ logs'[b] = logs[b]
      BY <2>3, SMT
    <3>2. \A n \in Name : types'[d][n] # "none" =>
              \E i \in DOMAIN logs'[d] : LastOf(types'[d][n], logs'[d], n, i)
      <4> HIDE DEF new
      <4> QED BY <2>3, <2>5, <2>6
    <3> QED BY <3>1, <3>2, <1>OneBucket
  <2>8. \A n \in Name :
          Current(d, n)' = IF n = x.name /\ x.state # "unchanged" THEN AsEntry(x) ELSE Current(d, n)
    <3> SUFFICES ASSUME NEW n \in Name
                 PROVE  Current(d, n)' = IF n = x.name /\ x.state # "unchanged"
                                         THEN AsEntry(x) ELSE Current(d, n)
      OBVIOUS
    <3>1. /\ Current(d, n)' = Read(types[d][n], new, n)
          /\ Current(d, n) = Read(types[d][n], log, n)
      <4> HIDE DEF new
      <4> QED BY <2>3, <1>ReadBoth
    <3>2. CASE n = x.name /\ x.state # "unchanged"
      BY <2>6, <3>1, <3>2
    <3>3. CASE types[d][n] # "none" /\ (n # x.name \/ x.state = "unchanged")
      BY <2>5, <3>1, <3>3
    <3>4. CASE types[d][n] = "none"
      BY <2>1, <3>1, <3>4, GridAssumption DEF Read
    <3> QED BY <3>2, <3>3, <3>4
  <2>9. Current(d, x.name) # NoEntry /\ Current(d, x.name).type = x.type
    BY <2>1, CurrentRead, GridAssumption
  <2>10. Store!Transaction(d, x.name, AsEntry(x))
    <3>1. AsEntry(x).type = x.type /\ AsEntry(x).state = x.state
      BY DEF AsEntry
    <3>2. Store!TransactionOk(d, x.name, AsEntry(x).type)
      BY <2>1, <2>9, <3>1 DEF Store!TransactionOk, Store!Active, Store!NoEntry, NoEntry, Get
    <3>3. ([b \in Dl |-> Get(b)])' = IF AsEntry(x).state = "unchanged" THEN [b \in Dl |-> Get(b)]
                 ELSE [[b \in Dl |-> Get(b)] EXCEPT ![d][x.name] = AsEntry(x)]
      BY <2>1, <2>7, <2>8, <3>1, ZenonT(30) DEF Get
    <3> QED BY <3>2, <3>3 DEF Store!Transaction, Transaction
  <2> QED BY <2>4, <2>7, <2>10
\* Add puts the workload in its bucket and appends its first record.
<1>AddStep. ASSUME BoltInv, NEW d \in Dl, NEW w \in Sent, Add(d, w)
    PROVE  Store!Add(d, w.name, AsEntry(Record(w, "init"))) /\ BoltInv'
  <2> USE <1>AddStep
  <2> DEFINE log == logs[d]
             x == Record(w, "init")
             new == Append(log, x)
  <2> USE DEF BoltInv
  <2>1. /\ x \in Txn /\ x.state = "init" /\ log \in Seq(Txn)
        /\ x.name = w.name /\ w.name \in Name /\ x.type = w.type /\ w.type \in Type
        /\ types[d][w.name] = "none"
    BY DEF BoltTypeOK, Add, Txn, Sent, Record, ResultState, State
  <2>2. /\ new \in Seq(Txn) /\ Len(new) = Len(log) + 1
        /\ \A k \in 1 .. Len(log) : new[k] = log[k]
        /\ new[Len(log) + 1] = x
    BY <2>1, SMT
  <2> HIDE DEF new, x
  <2>3. /\ logs' = [logs EXCEPT ![d] = new] /\ logs'[d] = new
        /\ types' = [types EXCEPT ![d][w.name] = w.type]
        /\ \A n \in Name : types'[d][n] = IF n = w.name THEN w.type ELSE types[d][n]
    BY DEF Add, BoltTypeOK, new, x
  <2>4. global' = [global EXCEPT ![TwinOf[d]] = [n \in Name |->
                      IF n = w.name /\ w.type \in Sharable THEN d ELSE global[TwinOf[d]][n]]]
    BY DEF Add, Put
  <2>5. BoltTypeOK'
    <3>1. TwinOf[d] \in Twin
      BY GridAssumption
    <3>2. types' \in [Dl -> [Name -> Type \cup {"none"}]] /\ logs' \in [Dl -> Seq(Txn)]
      BY <2>1, <2>2, <2>3 DEF BoltTypeOK
    <3>3. global' \in [Twin -> [Name -> Dl \cup {NoDl}]]
      BY <2>4, <3>1 DEF BoltTypeOK
    <3> QED BY <3>2, <3>3 DEF BoltTypeOK, Add
  <2>6. NothingLeft' /\ TwinBuckets'
    <3>1. d \in dls /\ dls' = dls /\ twins' = twins
      BY DEF Add
    <3>2. \A b \in Dl \ dls : types'[b] = types[b]
      BY <2>3, <3>1, SMT
    <3>3. \A t \in Twin : (\A b \in dls : TwinOf[b] # t) => global'[t] = global[t]
      BY <2>4, <3>1 DEF BoltTypeOK
    <3> QED BY <3>1, <3>2, <3>3 DEF NothingLeft, TwinBuckets
  <2>7. NamesOwned'
    <3> SUFFICES ASSUME NEW b \in Dl, NEW n \in Name, types'[b][n] \in Sharable
                 PROVE  global'[TwinOf[b]][n] = b
      BY DEF NamesOwned
    <3>1. TwinOf[b] \in Twin /\ TwinOf[d] \in Twin /\ b # NoDl
      BY GridAssumption
    <3>2. CASE b = d /\ n = w.name
      BY <2>1, <2>3, <2>4, <3>1, <3>2 DEF BoltTypeOK
    <3>3. CASE b # d \/ n # w.name
      <4>1. types[b][n] = types'[b][n]
        BY <2>3, <3>3 DEF BoltTypeOK
      <4>2. global[TwinOf[b]][n] = b
        BY <4>1 DEF NamesOwned
      <4>3. w.type \in Sharable => global[TwinOf[d]][w.name] = NoDl
        BY DEF Add, Taken
      <4> QED BY <2>4, <3>1, <3>3, <4>2, <4>3 DEF BoltTypeOK
    <3> QED BY <3>2, <3>3
  <2>8. ASSUME NEW n \in Name, types[d][n] # "none", n # w.name
        PROVE  /\ \E i \in DOMAIN new : LastOf(types[d][n], new, n, i)
               /\ Read(types[d][n], new, n) = Read(types[d][n], log, n)
    <3>1. PICK i \in DOMAIN log : LastOf(types[d][n], log, n, i)
      BY <2>8 DEF Readable
    <3>2. types[d][n] \in Type
      BY <2>8, SMTT(30) DEF BoltTypeOK
    <3>3. \A k \in Len(log) + 1 .. Len(new) :
              new[k].name = n => new[k].state = "unchanged" /\ new[k].type = types[d][n]
      BY <2>1, <2>2, <2>8, SMTT(30)
    <3> HIDE DEF log
    <3> QED BY <2>1, <2>2, <3>1, <3>2, <3>3, <1>ExtendOther, SMTT(60)
  <2>9. /\ \E i \in DOMAIN new : LastOf(w.type, new, w.name, i)
        /\ Read(w.type, new, w.name) = AsEntry(x)
    <3>1. Len(log) + 1 \in Len(log) + 1 .. Len(new)
      BY <2>1, <2>2, SMTT(30)
    <3>2. \A k \in Len(log) + 1 .. Len(new) : new[k].name = w.name => k = Len(log) + 1
      BY <2>1, <2>2, SMTT(30)
    <3> HIDE DEF log
    <3> QED BY <2>1, <2>2, <3>1, <3>2, <1>ExtendSettled, SMTT(30)
  <2>10. Readable' /\ \A b \in Dl \ {d}, n \in Name : Current(b, n)' = Current(b, n)
    <3>1. \A b \in Dl \ {d} : types'[b] = types[b] /\ logs'[b] = logs[b]
      BY <2>3, SMTT(30)
    <3>2. \A n \in Name : types'[d][n] # "none" =>
              \E i \in DOMAIN logs'[d] : LastOf(types'[d][n], logs'[d], n, i)
      BY <2>3, <2>8, <2>9, SMTT(30)
    <3> QED BY <3>1, <3>2, <1>OneBucket
  <2>11. ASSUME NEW n \in Name
         PROVE  Current(d, n)' = IF n = w.name THEN AsEntry(x) ELSE Current(d, n)
    <3>1. /\ Current(d, n)' = Read(types'[d][n], new, n)
          /\ Current(d, n) = Read(types[d][n], log, n)
      BY <2>3, <1>ReadBoth
    <3>2. CASE n = w.name
      BY <2>3, <2>9, <3>1, <3>2
    <3>3. CASE n # w.name /\ types[d][n] # "none"
      BY <2>3, <2>8, <3>1, <3>3
    <3>4. CASE n # w.name /\ types[d][n] = "none"
      BY <2>3, <3>1, <3>4 DEF Read
    <3> QED BY <3>2, <3>3, <3>4
  <2>12. Store!Add(d, w.name, AsEntry(x))
    <3>1. AsEntry(x).type = w.type /\ Store!WithResult(AsEntry(x), "init") = AsEntry(x)
      BY <2>1 DEF AsEntry, Store!WithResult
    <3>2. Current(d, w.name) = NoEntry
      BY <2>1, CurrentRead
    <3>3. Store!AddOk(d, w.name, AsEntry(x))
      BY <2>1, <3>1, <3>2 DEF Store!AddOk, Store!Active, Store!NoEntry, NoEntry, Get, Add, Taken
    <3>4. ([b \in Dl |-> Get(b)])' = [[b \in Dl |-> Get(b)] EXCEPT ![d][w.name] = AsEntry(x)]
      BY <2>1, <2>10, <2>11 DEF Get
    <3>5. Store!TakeNames(d, IF AsEntry(x).type \in Sharable THEN {w.name} ELSE {})
      BY <2>4, <3>1 DEF Store!TakeNames
    <3> QED BY <3>1, <3>3, <3>4, <3>5 DEF Store!Add, Add
  <2> QED BY <2>5, <2>6, <2>7, <2>10, <2>12 DEF x
\* Remove takes the workload out of its bucket, the log keeps its records.
<1>RemoveStep. ASSUME BoltInv, NEW d \in Dl, NEW n \in Name, Remove(d, n)
    PROVE  Store!Remove(d, n) /\ BoltInv'
  <2> USE <1>RemoveStep
  <2> USE DEF BoltInv
  <2>1. /\ types' = [types EXCEPT ![d][n] = "none"] /\ logs' = logs
        /\ \A m \in Name : types'[d][m] = IF m = n THEN "none" ELSE types[d][m]
        /\ \A b \in Dl \ {d} : types'[b] = types[b]
    BY DEF Remove, BoltTypeOK
  <2>2. TwinOf[d] \in Twin
    BY GridAssumption
  <2>3. global' = IF types[d][n] \in Sharable
                  THEN [global EXCEPT ![TwinOf[d]][n] = NoDl] ELSE global
    BY DEF Remove
  <2>4. \A t \in Twin, m \in Name :
          global'[t][m] = IF t = TwinOf[d] /\ m = n /\ types[d][n] \in Sharable
                          THEN NoDl ELSE global[t][m]
    BY <2>2, <2>3 DEF BoltTypeOK
  <2>5. BoltTypeOK'
    BY <2>1, <2>2, <2>3, SMTT(30) DEF BoltTypeOK, Remove
  <2>6. NothingLeft' /\ TwinBuckets'
    <3>1. d \in dls /\ dls' = dls /\ twins' = twins
      BY DEF Remove
    <3>2. \A t \in Twin : (\A b \in dls : TwinOf[b] # t) => global'[t] = global[t]
      BY <2>2, <2>3, <3>1 DEF BoltTypeOK
    <3> QED BY <2>1, <3>1, <3>2 DEF NothingLeft, TwinBuckets
  <2>7. NamesOwned'
    <3> SUFFICES ASSUME NEW b \in Dl, NEW m \in Name, types'[b][m] \in Sharable
                 PROVE  global'[TwinOf[b]][m] = b
      BY DEF NamesOwned
    <3>1. TwinOf[b] \in Twin
      BY GridAssumption
    <3>2. types[b][m] \in Sharable /\ (b # d \/ m # n)
      BY <2>1, GridAssumption
    <3>3. global[TwinOf[b]][m] = b
      BY <3>2 DEF NamesOwned
    <3>4. types[d][n] \in Sharable => global[TwinOf[d]][n] = d
      BY DEF NamesOwned
    <3> QED BY <2>4, <3>1, <3>2, <3>3, <3>4
  <2>8. Readable' /\ \A b \in Dl \ {d}, m \in Name : Current(b, m)' = Current(b, m)
    <3>1. \A m \in Name : types'[d][m] # "none" =>
              \E i \in DOMAIN logs'[d] : LastOf(types'[d][m], logs'[d], m, i)
      BY <2>1 DEF Readable
    <3> QED BY <2>1, <3>1, <1>OneBucket
  <2>9. \A m \in Name : Current(d, m)' = IF m = n THEN NoEntry ELSE Current(d, m)
    BY <2>1, <1>ReadBoth, SMT DEF Read
  <2>10. Store!Remove(d, n)
    <3>1. Current(d, n) # NoEntry /\ Current(d, n).type = types[d][n]
      BY CurrentRead DEF Remove
    <3>2. /\ n \in Store!Active([b \in Dl |-> Get(b)][d])
          /\ [b \in Dl |-> Get(b)][d][n].type = types[d][n]
      BY <3>1 DEF Store!Active, Store!NoEntry, NoEntry, Get
    <3>3. ([b \in Dl |-> Get(b)])' = [[b \in Dl |-> Get(b)] EXCEPT ![d][n] = Store!NoEntry]
      BY <2>8, <2>9 DEF Get, Store!NoEntry, NoEntry
    <3> QED BY <2>3, <3>2, <3>3 DEF Store!Remove, Remove
  <2> QED BY <2>5, <2>6, <2>7, <2>8, <2>10
\* Steps that leave the buckets of types, logs and names.
<1>QuietStep. ASSUME BoltInv, UNCHANGED <<twins, dls, types, logs, global>>,
           ver' \in [Dl -> Version], reading' \in [dl : Dl \cup {NoDl}, ws : Workloads]
    PROVE  BoltInv' /\ ([b \in Dl |-> Get(b)])' = [b \in Dl |-> Get(b)]
  <2> USE <1>QuietStep
  <2>1. ([b \in Dl |-> Get(b)])' = [b \in Dl |-> Get(b)]
    BY DEF Get, Current
  <2>2. BoltTypeOK' /\ Readable' /\ NothingLeft' /\ NamesOwned' /\ TwinBuckets'
    BY DEF BoltInv, BoltTypeOK, Readable, NothingLeft, NamesOwned, TwinBuckets
  <2> QED BY <2>1, <2>2 DEF BoltInv
\* Update writes the version of a stored deployment, as the store does.
<1>UpdateStep. ASSUME BoltInv, NEW d \in Dl, NEW v \in Version, Update(d, v)
    PROVE  Store!Update(d, v) /\ BoltInv'
  <2> USE <1>UpdateStep
  <2>1. ver' \in [Dl -> Version] /\ reading' \in [dl : Dl \cup {NoDl}, ws : Workloads]
    BY DEF BoltInv, BoltTypeOK, Update
  <2>2. BoltInv' /\ ([b \in Dl |-> Get(b)])' = [b \in Dl |-> Get(b)]
    BY <2>1, <1>QuietStep DEF Update
  <2> QED BY <2>2 DEF Store!Update, Update
\* Error reads the deployment first, which changes nothing.
<1>ErrorReadStep. ASSUME BoltInv, NEW d \in Dl, ErrorRead(d)
    PROVE  UNCHANGED Store!storeVars /\ BoltInv'
  <2> USE <1>ErrorReadStep
  <2>1. Get(d) \in Workloads
    BY CurrentRead DEF BoltInv, Get, Workloads
  <2>2. ver' \in [Dl -> Version] /\ reading' \in [dl : Dl \cup {NoDl}, ws : Workloads]
    BY <2>1 DEF BoltInv, BoltTypeOK, ErrorRead
  <2>3. BoltInv' /\ ([b \in Dl |-> Get(b)])' = [b \in Dl |-> Get(b)]
    BY <2>2, <1>QuietStep DEF ErrorRead
  <2> QED BY <2>3 DEF Store!storeVars, ErrorRead
\* Delete and CleanDeleted: the buckets of the deployments, and of the twins
\* that have none left.
<1>DropStep. ASSUME BoltInv, NEW ds \in SUBSET Dl, Drop(ds)
    PROVE  Store!Drop(ds) /\ BoltInv'
  <2> USE <1>DropStep
  <2> USE DEF BoltInv
  <2>1. \A t \in Twin : t \in Left(ds) <=> \E d \in dls \ ds : TwinOf[d] = t
    BY DEF Left
  <2>2. \A d \in Dl : TwinOf[d] \in Twin
    BY GridAssumption
  <2>3. global' = [t \in Twin |-> IF \E d \in dls \ ds : TwinOf[d] = t THEN global[t] ELSE NoNames]
    <3>1. \A t \in Twin : global'[t] = IF \E d \in dls \ ds : TwinOf[d] = t
                                       THEN global[t] ELSE NoNames
      <4> SUFFICES ASSUME NEW t \in Twin
                   PROVE  global'[t] = IF \E d \in dls \ ds : TwinOf[d] = t
                                       THEN global[t] ELSE NoNames
        OBVIOUS
      <4>1. global'[t] = IF t \in {TwinOf[d] : d \in ds} \ Left(ds) THEN NoNames ELSE global[t]
        BY DEF Drop
      <4>2. CASE \E d \in dls \ ds : TwinOf[d] = t
        BY <2>1, <4>1, <4>2
      <4>3. CASE (\A d \in dls \ ds : TwinOf[d] # t) /\ \E d \in ds : TwinOf[d] = t
        BY <2>1, <4>1, <4>3
      <4>4. CASE (\A d \in dls \ ds : TwinOf[d] # t) /\ \A d \in ds : TwinOf[d] # t
        <5>1. \A d \in dls : TwinOf[d] # t
          BY <4>4
        <5> QED BY <4>1, <4>4, <5>1 DEF NothingLeft
      <4> QED BY <4>2, <4>3, <4>4
    <3> QED BY <3>1 DEF Drop
  <2>4. BoltTypeOK'
    <3>1. /\ \A d \in Dl : ver'[d] \in Version
          /\ types' \in [Dl -> [Name -> Type \cup {"none"}]]
          /\ logs' \in [Dl -> Seq(Txn)]
      BY GridAssumption, SMT DEF Drop, BoltTypeOK, NoTypes
    <3>2. global' \in [Twin -> [Name -> Dl \cup {NoDl}]]
      BY <2>3 DEF BoltTypeOK, NoNames
    <3> QED BY <3>1, <3>2 DEF Drop, BoltTypeOK
  <2>5. TwinBuckets'
    <3>1. \A t \in twins : t \in Twin
      BY DEF BoltTypeOK
    <3>2. twins' = {TwinOf[d] : d \in dls \ ds}
      BY <2>1, <3>1 DEF TwinBuckets, Drop, Left
    <3> QED BY <3>2 DEF TwinBuckets, Drop
  <2>6. NothingLeft'
    <3>1. \A d \in Dl \ dls' : types'[d] = NoTypes
      BY DEF Drop, NothingLeft
    <3>2. \A t \in Twin : (\A d \in dls' : TwinOf[d] # t) => global'[t] = NoNames
      BY <2>3 DEF Drop
    <3> QED BY <3>1, <3>2 DEF NothingLeft
  <2>7. NamesOwned'
    <3> SUFFICES ASSUME NEW b \in Dl, NEW n \in Name, types'[b][n] \in Sharable
                 PROVE  global'[TwinOf[b]][n] = b
      BY DEF NamesOwned
    <3>1. b \notin ds /\ b \in dls /\ types'[b] = types[b]
      BY GridAssumption DEF Drop, NothingLeft, NoTypes
    <3>2. global'[TwinOf[b]] = global[TwinOf[b]]
      BY <2>2, <2>3, <3>1
    <3> QED BY <3>1, <3>2 DEF NamesOwned
  <2>8. Readable'
    BY DEF Readable, Drop, NoTypes
  <2>9. ASSUME NEW b \in Dl
        PROVE  Get(b)' = IF b \in ds THEN NoWorkloads ELSE Get(b)
    <3>1. CASE b \in ds
      BY <3>1, <1>ReadBoth DEF Drop, NoTypes, Read, Get, NoWorkloads
    <3>2. CASE b \notin ds
      BY <3>2, <1>ReadBoth, ZenonT(30) DEF Drop, Get
    <3> QED BY <3>1, <3>2
  <2>10. Store!Drop(ds)
    <3>1. ([b \in Dl |-> Get(b)])' = [b \in Dl |-> IF b \in ds THEN Store!NoWorkloads
                                                ELSE [c \in Dl |-> Get(c)][b]]
      BY <2>9 DEF Store!NoWorkloads, NoWorkloads, Store!NoEntry, NoEntry
    <3> QED BY <2>3, <3>1 DEF Store!Drop, Drop, NoNames
  <2> QED BY <2>4, <2>5, <2>6, <2>7, <2>8, <2>10
\* CleanDeleted drops what the store drops: the deployments without an okay
\* workload in their logs.
<1>CleanDeletedStep. ASSUME BoltInv, CleanDeleted
    PROVE  Store!CleanDeleted /\ BoltInv'
  <2> USE <1>CleanDeletedStep
  <2> DEFINE ds == {d \in dls : ~HasOkay(Get(d))}
  <2>1. dls \subseteq Dl
    BY DEF BoltInv, BoltTypeOK
  <2>2. ds = {d \in dls : ~Store!HasOkay([b \in Dl |-> Get(b)][d])}
    BY <2>1 DEF HasOkay, Active, IsOkay, NoEntry,
                Store!HasOkay, Store!Active, Store!IsOkay, Store!NoEntry
  <2>3. Drop(ds) /\ ds \in SUBSET Dl
    BY <2>1 DEF CleanDeleted
  <2>4. Store!Drop(ds) /\ BoltInv'
    BY <2>3, <1>DropStep
  <2> QED BY <2>2, <2>4 DEF Store!CleanDeleted
\* Error appends one record per workload it has read, in any order.
<1>ErrorLogStep. ASSUME BoltInv, NEW d \in Dl, NEW ws \in Workloads, ErrorFits(d, ws),
           NEW f \in Orders(Active(ws)),
           logs' = [logs EXCEPT ![d] = @ \o ErrorRecords(ws, f)],
           UNCHANGED <<twins, dls, ver, types, global>>, reading' = Idle
    PROVE  Store!Error(d, ws) /\ BoltInv'
  <2> USE <1>ErrorLogStep
  <2> DEFINE log == logs[d]
             tail == ErrorRecords(ws, f)
             new == log \o tail
             S == Active(ws)
  <2> USE DEF BoltInv
  <2>1. PICK k \in 0 .. MaxLog :
          f \in [1..k -> S] /\ \A n \in S : \E i \in 1..k : f[i] = n /\ \A j \in 1..k : f[j] = n => j = i
    BY DEF Orders
  <2>2. f \in Seq(S) /\ Len(f) = k /\ k \in Nat
    BY <2>1, BoundAssumption, SMT
  <2>3. \A n \in S : n \in Name /\ ws[n] \in Entry /\ types[d][n] = ws[n].type
    BY DEF Active, Workloads, ErrorFits
  <2>4. \A i \in 1..k : /\ tail[i] \in Txn /\ tail[i].name = f[i] /\ tail[i].name \in S
                        /\ AsEntry(tail[i]) = WithResult(ws[f[i]], "error")
                        /\ tail[i].state = "error" /\ tail[i].type = ws[f[i]].type
    BY <2>1, <2>2, <2>3 DEF ErrorRecords, Txn, Entry, ResultState, State, AsEntry, WithResult
  <2>5. tail \in Seq(Txn) /\ Len(tail) = k
    <3>1. tail = [i \in 1..k |-> tail[i]]
      BY <2>2 DEF ErrorRecords
    <3> HIDE DEF tail
    <3>2. tail \in [1..k -> Txn]
      BY <2>4, <3>1
    <3> QED BY <2>2, <3>2, SMT
  <2>6. log \in Seq(Txn)
    BY DEF BoltTypeOK
  <2> HIDE DEF tail, log
  <2>7. /\ new \in Seq(Txn) /\ Len(new) = Len(log) + k
        /\ \A i \in 1 .. Len(log) : new[i] = log[i]
        /\ \A i \in Len(log) + 1 .. Len(new) : i - Len(log) \in 1..k /\ new[i] = tail[i - Len(log)]
        /\ \A i \in 1..k : new[Len(log) + i] = tail[i] /\ Len(log) + i \in Len(log) + 1 .. Len(new)
    BY <2>2, <2>5, <2>6, SMTT(30)
  <2> HIDE DEF new
  <2>8. logs' = [logs EXCEPT ![d] = new] /\ types' = types /\ logs'[d] = new
    BY DEF BoltTypeOK, new, log, tail
  <2>9. BoltTypeOK' /\ NothingLeft' /\ NamesOwned' /\ TwinBuckets'
    <3>1. reading' \in [dl : Dl \cup {NoDl}, ws : Workloads]
      BY DEF Idle, NoWorkloads, Workloads
    <3> QED BY <2>7, <2>8, <3>1 DEF BoltTypeOK, NothingLeft, NamesOwned, TwinBuckets
  <2>10. ASSUME NEW n \in Name, types[d][n] # "none", n \notin S
         PROVE  /\ \E i \in DOMAIN new : LastOf(types[d][n], new, n, i)
                /\ Read(types[d][n], new, n) = Read(types[d][n], log, n)
    <3>1. PICK i \in DOMAIN log : LastOf(types[d][n], log, n, i)
      BY <2>10 DEF Readable, log
    <3>2. types[d][n] \in Type
      BY <2>10, SMT DEF BoltTypeOK
    <3>3. ASSUME NEW j \in Len(log) + 1 .. Len(new)
          PROVE  new[j].name # n
      <4>1. j - Len(log) \in 1..k /\ new[j] = tail[j - Len(log)]
        BY <2>7
      <4>2. tail[j - Len(log)].name \in S
        BY <2>4, <4>1
      <4> QED BY <2>10, <4>1, <4>2
    <3>4. Len(log) <= Len(new)
      BY <2>2, <2>6, <2>7, SMT
    <3>5. \A j \in Len(log) + 1 .. Len(new) :
              new[j].name = n => new[j].state = "unchanged" /\ new[j].type = types[d][n]
      BY <3>3
    <3>6. new \in Seq(Txn) /\ \A j \in 1 .. Len(log) : new[j] = log[j]
      BY <2>7
    <3> HIDE DEF S
    <3> QED BY <2>6, <3>1, <3>2, <3>4, <3>5, <3>6, <1>ExtendOther, SMTT(60)
  <2>11. ASSUME NEW n \in Name, n \in S
         PROVE  /\ \E i \in DOMAIN new : LastOf(types[d][n], new, n, i)
                /\ Read(types[d][n], new, n) = WithResult(ws[n], "error")
    <3>1. PICK i \in 1..k : f[i] = n /\ \A j \in 1..k : f[j] = n => j = i
      BY <2>1, <2>11
    <3>2. /\ new[Len(log) + i] = tail[i] /\ new[Len(log) + i].name = n
          /\ Len(log) + i \in Len(log) + 1 .. Len(new)
          /\ new[Len(log) + i].state # "unchanged" /\ new[Len(log) + i].type = types[d][n]
          /\ AsEntry(new[Len(log) + i]) = WithResult(ws[n], "error")
      BY <2>3, <2>4, <2>7, <3>1, SMTT(60)
    <3>3. \A j \in Len(log) + 1 .. Len(new) : new[j].name = n => j = Len(log) + i
      <4> SUFFICES ASSUME NEW j \in Len(log) + 1 .. Len(new), new[j].name = n
                   PROVE  j = Len(log) + i
        OBVIOUS
      <4>1. j - Len(log) \in 1..k /\ f[j - Len(log)] = n
        BY <2>4, <2>7
      <4>2. j - Len(log) = i
        BY <3>1, <4>1
      <4> QED BY <2>6, <3>1, <4>2, SMTT(30)
    <3>4. Len(log) <= Len(new)
      BY <2>2, <2>6, <2>7, SMTT(30)
    <3>5. new \in Seq(Txn) /\ \A j \in 1 .. Len(log) : new[j] = log[j]
      BY <2>7
    <3> DEFINE e == Len(log) + i
    <3>6. e \in Len(log) + 1 .. Len(new) /\ new[e].name = n /\ new[e].state # "unchanged"
      BY <3>2
    <3>7. \A j \in Len(log) + 1 .. Len(new) : new[j].name = n => j = e
      BY <3>3
    <3>8. new[e].type = types[d][n] /\ AsEntry(new[e]) = WithResult(ws[n], "error")
      BY <3>2
    <3> HIDE DEF e, S
    <3>9. /\ e \in DOMAIN new /\ LastOf(new[e].type, new, n, e)
          /\ Read(new[e].type, new, n) = AsEntry(new[e])
      BY <2>6, <3>4, <3>5, <3>6, <3>7, <1>ExtendSettled
    <3> QED BY <3>8, <3>9
  <2>12. Readable' /\ \A b \in Dl \ {d}, n \in Name : Current(b, n)' = Current(b, n)
    <3>1. \A b \in Dl \ {d} : types'[b] = types[b] /\ logs'[b] = logs[b]
      BY <2>8, SMT
    <3>2. \A n \in Name : types'[d][n] # "none" =>
              \E i \in DOMAIN logs'[d] : LastOf(types'[d][n], logs'[d], n, i)
      BY <2>8, <2>10, <2>11
    <3> QED BY <3>1, <3>2, <1>OneBucket
  <2>13. ASSUME NEW n \in Name
         PROVE  Current(d, n)' = IF n \in S THEN WithResult(ws[n], "error") ELSE Current(d, n)
    <3>1. /\ Current(d, n)' = Read(types[d][n], new, n)
          /\ Current(d, n) = Read(types[d][n], log, n)
      BY <2>8, <1>ReadBoth DEF log
    <3>2. CASE n \in S
      BY <2>11, <3>1, <3>2
    <3>3. CASE n \notin S /\ types[d][n] # "none"
      BY <2>10, <3>1, <3>3
    <3>4. CASE n \notin S /\ types[d][n] = "none"
      BY <3>1, <3>4 DEF Read
    <3> QED BY <3>2, <3>3, <3>4
  <2>14. Store!Error(d, ws)
    <3>1. Store!Active(ws) = S
      BY DEF Store!Active, Active, Store!NoEntry, NoEntry
    <3>2. ASSUME NEW n \in S
          PROVE  Store!TransactionOk(d, n, ws[n].type)
      <4>1. Current(d, n) # NoEntry /\ Current(d, n).type = ws[n].type
        BY <2>3, CurrentRead, GridAssumption, SMTT(30) DEF Entry
      <4> QED BY <2>3, <4>1 DEF Store!TransactionOk, Store!Active, Store!NoEntry, NoEntry, Get
    <3>3. Store!ErrorOk(d, ws)
      BY <3>1, <3>2 DEF Store!ErrorOk, ErrorFits
    <3>4. ([b \in Dl |-> Get(b)])' = [[b \in Dl |-> Get(b)] EXCEPT ![d] = [n \in Name |->
                IF n \in Store!Active(ws) THEN Store!WithResult(ws[n], "error") ELSE @[n]]]
      BY <2>12, <2>13, <3>1 DEF Get, Store!WithResult, WithResult
    <3> QED BY <3>3, <3>4 DEF Store!Error
  <2> QED BY <2>9, <2>12, <2>14
\* Error writes what it read: one step of the store, or none where a
\* workload is gone.
<1>ErrorWriteStep. ASSUME BoltInv, ErrorWrite
    PROVE  [Store!StoreNext]_(Store!storeVars) /\ BoltInv'
  <2> USE <1>ErrorWriteStep
  <2> DEFINE d == reading.dl
             ws == reading.ws
  <2>1. ws \in Workloads /\ dls \subseteq Dl
    BY DEF BoltInv, BoltTypeOK
  <2>2. CASE ErrorFits(d, ws)
    <3>1. d \in Dl
      BY <2>1, <2>2 DEF ErrorFits
    <3>2. PICK f \in Orders(Active(ws)) : logs' = [logs EXCEPT ![d] = @ \o ErrorRecords(ws, f)]
      BY <2>2 DEF ErrorWrite, ErrorRecords
    <3>3. Store!Error(d, ws) /\ BoltInv'
      BY <2>1, <2>2, <3>1, <3>2, <1>ErrorLogStep DEF ErrorWrite
    <3>4. ws \in Store!Workloads
      BY <2>1 DEF Store!Workloads, Workloads, Store!Entry, Entry, Store!State, State,
                  Store!NoEntry, NoEntry
    <3> QED BY <3>1, <3>3, <3>4 DEF Store!StoreNext
  <2>3. CASE ~ErrorFits(d, ws)
    <3>1. ver' \in [Dl -> Version] /\ reading' \in [dl : Dl \cup {NoDl}, ws : Workloads]
      BY DEF BoltInv, BoltTypeOK, ErrorWrite, Idle, NoWorkloads, Workloads
    <3>2. UNCHANGED <<twins, dls, ver, types, logs, global>>
      BY <2>3 DEF ErrorWrite
    <3>3. BoltInv' /\ ([b \in Dl |-> Get(b)])' = [b \in Dl |-> Get(b)]
      BY <3>1, <3>2, <1>QuietStep
    <3> QED BY <3>2, <3>3 DEF Store!storeVars
  <2> QED BY <2>2, <2>3
\* A list Deployment.Valid accepts names each workload once.
<1>HeldFacts. ASSUME NEW ws \in SentLists
    PROVE  /\ ws \in Seq(Sent)
           /\ \A i \in DOMAIN ws :
                /\ ws[i] \in Sent /\ ws[i].name \in Name /\ ws[i].type \in Type
                /\ (CHOOSE j \in DOMAIN ws : ws[j].name = ws[i].name) = i
                /\ Held(ws)[ws[i].name] = AsEntry(Record(ws[i], "init"))
           /\ Held(ws) \in Store!Workloads
           /\ Store!WithState(Held(ws), "init") = Held(ws)
           /\ Store!SharableIn(Held(ws)) =
                {ws[i].name : i \in {j \in DOMAIN ws : ws[j].type \in Sharable}}
  <2> USE <1>HeldFacts
  <2>1. PICK k \in 0 .. MaxSent : ws \in [1..k -> Sent]
    BY DEF SentLists
  <2>2. ws \in Seq(Sent)
    BY <2>1, BoundAssumption, SMT
  <2>3. \A i, j \in DOMAIN ws : ws[i].name = ws[j].name => i = j
    BY DEF SentLists
  <2>4. ASSUME NEW i \in DOMAIN ws
        PROVE  /\ ws[i] \in Sent /\ ws[i].name \in Name /\ ws[i].type \in Type /\ ws[i].ver \in Version
               /\ (CHOOSE j \in DOMAIN ws : ws[j].name = ws[i].name) = i
               /\ Held(ws)[ws[i].name] = AsEntry(Record(ws[i], "init"))
    <3>1. ws[i] \in Sent
      BY <2>1
    <3>2. ws[i].name \in Name /\ ws[i].type \in Type /\ ws[i].ver \in Version
      BY <3>1 DEF Sent
    <3>3. (CHOOSE j \in DOMAIN ws : ws[j].name = ws[i].name) = i
      BY <2>3
    <3> QED BY <3>1, <3>2, <3>3 DEF Held
  <2>5. \A n \in Name : \/ Held(ws)[n] = NoEntry /\ \A i \in DOMAIN ws : ws[i].name # n
                        \/ \E i \in DOMAIN ws : ws[i].name = n /\ Held(ws)[n] = AsEntry(Record(ws[i], "init"))
    BY <2>4 DEF Held
  <2>6. \A i \in DOMAIN ws :
          /\ AsEntry(Record(ws[i], "init")) = [type |-> ws[i].type, ver |-> ws[i].ver, state |-> "init"]
          /\ AsEntry(Record(ws[i], "init")) \in Entry
          /\ AsEntry(Record(ws[i], "init")) # NoEntry
          /\ AsEntry(Record(ws[i], "init")).type = ws[i].type
    BY <2>4, GridAssumption DEF AsEntry, Record, Entry, State, NoEntry
  <2>7. Held(ws) = [n \in Name |-> Held(ws)[n]]
    BY DEF Held
  <2>8. Held(ws) \in Store!Workloads
    <3>1. \A n \in Name : Held(ws)[n] \in Entry \cup {NoEntry}
      BY <2>5, <2>6
    <3> QED BY <2>7, <3>1 DEF Store!Workloads, Store!Entry, Entry, Store!State, State,
                              Store!NoEntry, NoEntry
  <2>9. Store!WithState(Held(ws), "init") = Held(ws)
    <3>1. \A n \in Name : Held(ws)[n] # NoEntry => Store!WithResult(Held(ws)[n], "init") = Held(ws)[n]
      BY <2>5, <2>6, SMTT(30) DEF Store!WithResult
    <3>2. Store!NoEntry = NoEntry
      BY DEF Store!NoEntry, NoEntry
    <3> QED BY <2>7, <3>1, <3>2 DEF Store!WithState
  <2>10. Store!SharableIn(Held(ws)) = {ws[i].name : i \in {j \in DOMAIN ws : ws[j].type \in Sharable}}
    <3>1. Store!SharableIn(Held(ws)) = {n \in Name : Held(ws)[n] # NoEntry /\ Held(ws)[n].type \in Sharable}
      BY DEF Store!SharableIn, Store!Active, Store!NoEntry, NoEntry
    <3>2. \A n \in Name : (Held(ws)[n] # NoEntry /\ Held(ws)[n].type \in Sharable)
                            <=> \E i \in DOMAIN ws : ws[i].name = n /\ ws[i].type \in Sharable
      BY <2>4, <2>5, <2>6, SMT
    <3> QED BY <2>4, <3>1, <3>2, SMT
  <2> QED BY <2>2, <2>4, <2>8, <2>9, <2>10
\* Create fills the buckets of a new deployment.
<1>CreateStep. ASSUME BoltInv, NEW d \in Dl, NEW v \in Version, NEW ws \in SentLists, Create(d, v, ws)
    PROVE  Store!Create(d, v, Held(ws)) /\ BoltInv'
  <2> USE <1>CreateStep
  <2> DEFINE new == [i \in 1..Len(ws) |-> Record(ws[i], "init")]
             shared == {ws[i].name : i \in {j \in DOMAIN ws : ws[j].type \in Sharable}}
             H == Held(ws)
             none == <<>>
  <2> USE DEF BoltInv
  <2>1. /\ ws \in Seq(Sent) /\ DOMAIN ws = 1..Len(ws) /\ Len(ws) \in Nat
        /\ \A i \in DOMAIN ws :
             /\ ws[i] \in Sent /\ ws[i].name \in Name /\ ws[i].type \in Type
             /\ (CHOOSE j \in DOMAIN ws : ws[j].name = ws[i].name) = i
             /\ H[ws[i].name] = AsEntry(Record(ws[i], "init"))
        /\ H \in Store!Workloads /\ Store!WithState(H, "init") = H
        /\ Store!SharableIn(H) = shared
    <3>1. /\ ws \in Seq(Sent)
          /\ \A i \in DOMAIN ws :
               /\ ws[i] \in Sent /\ ws[i].name \in Name /\ ws[i].type \in Type
               /\ (CHOOSE j \in DOMAIN ws : ws[j].name = ws[i].name) = i
               /\ H[ws[i].name] = AsEntry(Record(ws[i], "init"))
          /\ H \in Store!Workloads /\ Store!WithState(H, "init") = H
          /\ Store!SharableIn(H) = shared
      BY <1>HeldFacts
    <3> HIDE DEF H, shared
    <3>2. DOMAIN ws = 1..Len(ws) /\ Len(ws) \in Nat
      BY <3>1, SMTT(30)
    <3> QED BY <3>1, <3>2
  <2>2. \A i \in DOMAIN ws : /\ Record(ws[i], "init") \in Txn
                             /\ Record(ws[i], "init").name = ws[i].name
                             /\ Record(ws[i], "init").type = ws[i].type
                             /\ Record(ws[i], "init").state = "init"
    BY <2>1 DEF Record, Sent, Txn, ResultState, State
  <2>3. new \in Seq(Txn) /\ Len(new) = Len(ws) /\ \A i \in DOMAIN ws : new[i] = Record(ws[i], "init")
    BY <2>1, <2>2, SMTT(30)
  <2> HIDE DEF new, H
  <2>4. \A i, j \in DOMAIN ws : ws[i].name = ws[j].name => i = j
    BY DEF SentLists
  <2>5. /\ logs' = [logs EXCEPT ![d] = new] /\ logs'[d] = new
        /\ \A b \in Dl \ {d} : types'[b] = types[b] /\ logs'[b] = logs[b]
    BY DEF Create, BoltTypeOK, new
  <2>6. types'[d] = [n \in Name |-> IF \E i \in DOMAIN ws : ws[i].name = n
                                    THEN ws[CHOOSE i \in DOMAIN ws : ws[i].name = n].type
                                    ELSE "none"]
    BY DEF Create, BoltTypeOK
  <2>7. \A n \in Name : \/ types'[d][n] = "none" /\ (\A i \in DOMAIN ws : ws[i].name # n)
                        \/ \E i \in DOMAIN ws : ws[i].name = n /\ types'[d][n] = ws[i].type
    <3> TAKE n \in Name
    <3>1. CASE \A i \in DOMAIN ws : ws[i].name # n
      BY <2>6, <3>1
    <3>2. ASSUME NEW i \in DOMAIN ws, ws[i].name = n
          PROVE  types'[d][n] = ws[i].type
      <4>1. (CHOOSE j \in DOMAIN ws : ws[j].name = n) = i
        BY <2>1, <3>2, SMT
      <4> QED BY <2>6, <3>2, <4>1, SMTT(30)
    <3> QED BY <3>1, <3>2
  <2>8. \A n \in Name : (\A i \in DOMAIN ws : ws[i].name # n) => H[n] = NoEntry
    BY DEF H, Held
  <2>9. global' = [global EXCEPT ![TwinOf[d]] = [n \in Name |->
                      IF n \in shared THEN d ELSE global[TwinOf[d]][n]]]
    BY DEF Create, Put
  <2>10. TwinOf[d] \in Twin /\ dls' = dls \cup {d} /\ twins' = twins \cup {TwinOf[d]}
    BY GridAssumption DEF Create
  <2> HIDE DEF shared
  <2>11. \A n \in shared : global[TwinOf[d]][n] = NoDl
    BY DEF shared, Create, Taken
  <2>12. BoltTypeOK'
    <3>1. \A n \in Name : types'[d][n] \in Type \cup {"none"}
      BY <2>1, <2>7
    <3>2. types'[d] \in [Name -> Type \cup {"none"}]
      BY <2>6, <3>1
    <3>3. types' \in [Dl -> [Name -> Type \cup {"none"}]] /\ logs' \in [Dl -> Seq(Txn)]
      <4>1. DOMAIN types' = Dl /\ types' = [b \in Dl |-> types'[b]]
        BY DEF Create, BoltTypeOK
      <4> QED BY <2>3, <2>5, <3>2, <4>1 DEF BoltTypeOK
    <3>4. global' \in [Twin -> [Name -> Dl \cup {NoDl}]]
      BY <2>9, <2>10 DEF BoltTypeOK
    <3> QED BY <2>10, <3>3, <3>4 DEF BoltTypeOK, Create
  <2>13. NothingLeft' /\ TwinBuckets'
    <3>1. \A t \in Twin : (\A b \in dls' : TwinOf[b] # t) => global'[t] = global[t]
      BY <2>9, <2>10 DEF BoltTypeOK
    <3> QED BY <2>5, <2>10, <3>1, SMTT(30) DEF NothingLeft, TwinBuckets
  <2>14. NamesOwned'
    <3> SUFFICES ASSUME NEW b \in Dl, NEW n \in Name, types'[b][n] \in Sharable
                 PROVE  global'[TwinOf[b]][n] = b
      BY DEF NamesOwned
    <3>1. TwinOf[b] \in Twin /\ b # NoDl
      BY GridAssumption
    <3>2. CASE b = d
      <4>1. n \in shared
        BY <2>7, <3>2, GridAssumption DEF shared
      <4> QED BY <2>9, <2>10, <3>2, <4>1 DEF BoltTypeOK
    <3>3. CASE b # d
      <4>1. global[TwinOf[b]][n] = b
        BY <2>5, <3>3 DEF NamesOwned
      <4> QED BY <2>9, <2>10, <2>11, <3>1, <4>1 DEF BoltTypeOK
    <3> QED BY <3>2, <3>3
  <2>15. ASSUME NEW i \in DOMAIN ws
         PROVE  /\ \E j \in DOMAIN new : LastOf(ws[i].type, new, ws[i].name, j)
                /\ Read(ws[i].type, new, ws[i].name) = H[ws[i].name]
    <3>1. none \in Seq(Txn) /\ Len(none) = 0
      BY SMTT(30)
    <3> HIDE DEF none
    <3>2. /\ Len(none) <= Len(new) /\ \A k \in 1 .. Len(none) : new[k] = none[k]
          /\ i \in Len(none) + 1 .. Len(new)
      BY <2>1, <2>3, <3>1, SMTT(30)
    <3>3. /\ new[i].name = ws[i].name /\ new[i].state # "unchanged" /\ new[i].type = ws[i].type
          /\ AsEntry(new[i]) = H[ws[i].name] /\ ws[i].name \in Name
      BY <2>1, <2>2, <2>3
    <3>4. \A k \in Len(none) + 1 .. Len(new) : new[k].name = ws[i].name => k = i
      BY <2>1, <2>2, <2>3, <2>4, <3>1, SMTT(30)
    <3>5. /\ i \in DOMAIN new /\ LastOf(new[i].type, new, ws[i].name, i)
          /\ Read(new[i].type, new, ws[i].name) = AsEntry(new[i])
      <4> DEFINE n == ws[i].name
      <4>1. n \in Name /\ new[i].name = n /\ \A k \in Len(none) + 1 .. Len(new) : new[k].name = n => k = i
        BY <3>3, <3>4
      <4> HIDE DEF n
      <4>2. new \in Seq(Txn)
        BY <2>3
      <4>3. /\ i \in DOMAIN new /\ LastOf(new[i].type, new, n, i)
            /\ Read(new[i].type, new, n) = AsEntry(new[i])
        BY <3>1, <3>2, <3>3, <4>1, <4>2, <1>ExtendSettled
      <4> QED BY <4>3 DEF n
    <3> QED BY <3>3, <3>5
  <2>16. Readable' /\ \A b \in Dl \ {d}, n \in Name : Current(b, n)' = Current(b, n)
    <3>1. \A n \in Name : types'[d][n] # "none" =>
              \E i \in DOMAIN logs'[d] : LastOf(types'[d][n], logs'[d], n, i)
      BY <2>5, <2>7, <2>15, SMT
    <3> QED BY <2>5, <3>1, <1>OneBucket
  <2>17. ASSUME NEW n \in Name
         PROVE  Current(d, n)' = H[n]
    <3>1. Current(d, n)' = Read(types'[d][n], new, n)
      BY <2>5, <1>ReadBoth
    <3>2. CASE \E i \in DOMAIN ws : ws[i].name = n /\ types'[d][n] = ws[i].type
      BY <2>15, <3>1, <3>2
    <3>3. CASE types'[d][n] = "none" /\ \A i \in DOMAIN ws : ws[i].name # n
      BY <2>8, <3>1, <3>3 DEF Read
    <3> QED BY <2>7, <3>2, <3>3
  <2>18. Store!Create(d, v, H)
    <3>1. Store!CreateOk(d, H)
      BY <2>1, <2>11 DEF Store!CreateOk, Store!NoConflict, Create
    <3>2. ([b \in Dl |-> Get(b)])' = [[b \in Dl |-> Get(b)] EXCEPT ![d] = H]
      <4>1. Get(d)' = H
        BY <2>17 DEF Get, H, Held
      <4>2. \A b \in Dl \ {d} : Get(b)' = Get(b)
        BY <2>16 DEF Get
      <4> QED BY <4>1, <4>2
    <3>3. Store!TakeNames(d, Store!SharableIn(H))
      BY <2>1, <2>9 DEF Store!TakeNames
    <3> QED BY <2>1, <2>10, <3>1, <3>2, <3>3 DEF Store!Create, Create
  <2> QED BY <2>12, <2>13, <2>14, <2>16, <2>18 DEF H
<1>1. ASSUME NEW d \in Dl, NEW v \in Version, NEW ws \in SentLists, Create(d, v, ws)
      PROVE  BoltInv' /\ Store!StoreNext
  <2>1. Held(ws) \in Store!Workloads
    BY <1>HeldFacts
  <2> QED BY <1>1, <2>1, <1>CreateStep DEF Store!StoreNext
<1>2. ASSUME NEW d \in Dl, NEW v \in Version, Update(d, v)
      PROVE  BoltInv' /\ Store!StoreNext
  BY <1>2, <1>UpdateStep DEF Store!StoreNext
<1>3. ASSUME NEW d \in Dl, NEW w \in Sent, Add(d, w)
      PROVE  BoltInv' /\ Store!StoreNext
  <2>1. w.name \in Name /\ AsEntry(Record(w, "init")) \in Store!Entry
    BY DEF Sent, Record, AsEntry, Store!Entry, Store!State
  <2> QED BY <1>3, <2>1, <1>AddStep DEF Store!StoreNext
<1>4. ASSUME NEW d \in Dl, NEW n \in Name, Remove(d, n)
      PROVE  BoltInv' /\ Store!StoreNext
  BY <1>4, <1>RemoveStep DEF Store!StoreNext
<1>5. ASSUME NEW d \in Dl, NEW w \in Sent, NEW s \in Logged, Transaction(d, Record(w, s))
      PROVE  BoltInv' /\ Store!StoreNext
  <2>1. Record(w, s) \in Txn /\ Record(w, s).name \in Name
    BY BoundAssumption DEF Sent, Record, Txn
  <2>2. AsEntry(Record(w, s)) \in Store!Result
    BY BoundAssumption DEF Sent, Record, AsEntry, Store!Result, Store!ResultState, Store!State,
                           ResultState, State
  <2> QED BY <1>5, <2>1, <2>2, <1>TransactionStep DEF Store!StoreNext
<1>6. ASSUME NEW d \in Dl, Delete(d)
      PROVE  BoltInv' /\ Store!StoreNext
  <2>1. {d} \in SUBSET Dl /\ Drop({d})
    BY <1>6 DEF Delete
  <2>2. Store!Delete(d) /\ BoltInv'
    BY <2>1, <1>DropStep DEF Store!Delete
  <2> QED BY <2>2 DEF Store!StoreNext
<1>7. ASSUME CleanDeleted
      PROVE  BoltInv' /\ Store!StoreNext
  BY <1>7, <1>CleanDeletedStep DEF Store!StoreNext
<1>8. ASSUME UNCHANGED boltVars
      PROVE  BoltInv' /\ UNCHANGED Store!storeVars
  <2>1. ver' \in [Dl -> Version] /\ reading' \in [dl : Dl \cup {NoDl}, ws : Workloads]
    BY <1>8 DEF BoltInv, BoltTypeOK, boltVars
  <2>2. BoltInv' /\ ([b \in Dl |-> Get(b)])' = [b \in Dl |-> Get(b)]
    BY <1>8, <2>1, <1>QuietStep DEF boltVars
  <2> QED BY <1>8, <2>2 DEF Store!storeVars, boltVars
<1> QED BY <1>1, <1>2, <1>3, <1>4, <1>5, <1>6, <1>7, <1>8,
           <1>ErrorReadStep, <1>ErrorWriteStep DEF BoltNext

\* The bolt database implements the storage the engine is written against:
\* whatever transactions storage.go runs, reading the logs backwards gives a
\* behaviour of WorkloadStore.
THEOREM BoltImplementsStore == BoltSpec => ImplementsStore
<1>1. BoltSpec => []BoltInv
  BY BoltInitInv, BoltStep, PTL DEF BoltSpec
<1> QED BY <1>1, BoltInitInv, BoltStep, PTL DEF BoltSpec, ImplementsStore, Store!StoreSpec

\* The buckets agree with each other: twins without deployments have no
\* bucket, every workload has a settled record of its type to be read, and a
\* sharable workload owns its name (add, remove and delete of storage.go).
THEOREM StoreBucketsAlways == BoltSpec => []StoreBuckets
<1>1. BoltSpec => []BoltInv
  BY BoltInitInv, BoltStep, PTL DEF BoltSpec
<1>2. ASSUME BoltInv
      PROVE  StoreBuckets
  <2> USE <1>2 DEF BoltInv
  <2>1. ReadConsistent
    <3> SUFFICES ASSUME NEW d \in dls, NEW n \in Name, types[d][n] # "none"
                 PROVE  /\ Settled(logs[d], n) # {}
                        /\ \A i \in DOMAIN logs[d] :
                             i >= Last(logs[d], n) /\ logs[d][i].name = n
                               => logs[d][i].type = types[d][n]
      BY DEF ReadConsistent
    <3>1. d \in Dl /\ types[d][n] \in Type /\ logs[d] \in Seq(Txn)
      BY SMT DEF BoltTypeOK
    <3>2. PICK i \in DOMAIN logs[d] : LastOf(types[d][n], logs[d], n, i)
      BY <3>1 DEF Readable
    <3>3. Last(logs[d], n) = i
      BY <3>1, <3>2, ReadLast, SMT
    <3> QED BY <3>2, <3>3 DEF LastOf
  <2>2. SharedOwner
    <3> SUFFICES ASSUME NEW d \in Dl, NEW n \in Store!SharableIn(Get(d))
                 PROVE  global[TwinOf[d]][n] = d
      BY DEF SharedOwner, Store!SharedOwner
    <3>1. n \in Name /\ Current(d, n).type \in Sharable
      BY DEF Store!SharableIn, Store!Active, Get
    <3>2. types[d][n] \in Sharable
      BY <3>1, CurrentRead
    <3> QED BY <3>1, <3>2 DEF NamesOwned
  <2> QED BY <2>1, <2>2 DEF StoreBuckets
<1> QED BY <1>1, <1>2, PTL
-----------------------------------------------------------------------------
\* The capacity setter: at rest it holds nothing, so that the report it takes
\* next replaces none, and what it holds is stale only with another report behind.

\* the part of the types the proof needs
CapTypes ==
    /\ used = [c \in Contracts |-> used[c]]
    /\ channel \in Seq(Contracts) /\ capEngine \subseteq Contracts
    /\ setter = [busy |-> setter.busy, values |-> setter.values, left |-> setter.left,
                 running |-> setter.running]

\* the engine takes one job at a time
OneInEngine == \A c, d \in capEngine : c = d

\* a setter that is not busy has no values
RestIsEmpty == ~setter.busy => DOMAIN setter.values = {}

\* the contract will be taken out of the channel
ToBeRead(c) == c \in capEngine \/ \E i \in 1 .. Len(channel) : channel[i] = c

\* a value the setter holds is current, or the contract will be read again;
\* for reports that were given up before, NothingForgotten does not say so
SetIsCurrent == \A c \in DOMAIN setter.values : setter.values[c] = used[c] \/ ToBeRead(c)

\* the inductive invariant of the capacity setter
CapInv == CapTypes /\ OneInEngine /\ RestIsEmpty /\ SetIsCurrent /\ NothingForgotten
-----------------------------------------------------------------------------
\* No change of a deployment is forgotten: whatever overtakes, fails or
\* restarts, what the chain does not have yet is with the engine, in the channel
\* or in the setter, or its report was given up (Callback, Run, setWithClient).
THEOREM NothingForgottenAlways == CapSpec => []NothingForgotten
\* The first state satisfies the invariant: nothing is used nor reported.
<1>CapInvInit. CapInit => CapInv
  BY SMTT(30) DEF CapInit, CapInv, CapTypes, OneInEngine, RestIsEmpty, SetIsCurrent,
     NothingForgotten, Resting, NoValues
\* The engine keeps it: the contract it changes is in its hands.
<1>CapInvEngine. ASSUME CapInv, NEW c \in Contracts, EngineChange(c)
    PROVE  CapInv'
  BY <1>CapInvEngine, SMTT(20) DEF EngineChange, CapInv, CapTypes, OneInEngine, RestIsEmpty, SetIsCurrent, ToBeRead,
     NothingForgotten
\* Callback keeps it: the contract goes from the engine to the channel.
<1>CapInvCallback. ASSUME CapInv, Callback
    PROVE  CapInv'
  <2> USE <1>CapInvCallback
  <2> USE DEF CapInv, CapTypes, OneInEngine, RestIsEmpty
  <2>1. PICK e \in capEngine : channel' = Append(channel, e)
    BY DEF Callback
  <2>2. CapTypes' /\ OneInEngine' /\ RestIsEmpty'
    BY <2>1, SMTT(30) DEF Callback
  <2>3. /\ Len(channel') = Len(channel) + 1 /\ channel'[Len(channel) + 1] = e
        /\ \A i \in 1 .. Len(channel) : channel'[i] = channel[i]
    BY <2>1, SMTT(30)
  <2>4. \A c : ToBeRead(c) => ToBeRead(c)'
    <3> SUFFICES ASSUME NEW c, ToBeRead(c) PROVE ToBeRead(c)'
      OBVIOUS
    <3>1. c = e \/ \E i \in 1 .. Len(channel) : channel[i] = c
      BY DEF ToBeRead
    <3> QED BY <2>3, <3>1, SMT DEF ToBeRead
  <2>5. SetIsCurrent' /\ NothingForgotten'
    BY <2>4 DEF SetIsCurrent, NothingForgotten, ToBeRead, Callback
  <2> QED BY <2>2, <2>5
\* The setter keeps it: it reads what the deployment uses when it takes a
\* contract out of the channel.
<1>CapInvTake. ASSUME CapInv, TakeContract
    PROVE  CapInv'
  <2> USE <1>CapInvTake
  <2> USE DEF CapInv, CapTypes, OneInEngine, RestIsEmpty
  <2>1. /\ channel' = Tail(channel) /\ Head(channel) \in Contracts
        /\ DOMAIN setter.values = {}
    BY SMT DEF TakeContract
  <2>2. /\ DOMAIN setter'.values = {Head(channel)} /\ setter'.busy
        /\ setter'.values[Head(channel)] = used[Head(channel)]
    BY DEF TakeContract, Setting
  <2>3. CapTypes' /\ OneInEngine' /\ RestIsEmpty'
    BY <2>1, <2>2, SMT DEF TakeContract, Setting
  <2>4. SetIsCurrent'
    BY <2>2 DEF SetIsCurrent, TakeContract
  <2>5. NothingForgotten'
    <3> SUFFICES ASSUME NEW c \in Contracts \ unreported, onChain[c] # used[c], c \notin capEngine,
                        c # Head(channel)
                 PROVE  \E i \in 1 .. Len(channel') : channel'[i] = c
      BY <2>2 DEF NothingForgotten, TakeContract
    <3>1. PICK i \in 1 .. Len(channel) : channel[i] = c
      BY <2>1 DEF NothingForgotten
    <3>2. i # 1
      BY <3>1, SMTT(30) DEF TakeContract
    <3>3. i - 1 \in 1 .. Len(channel') /\ channel'[i - 1] = c
      BY <2>1, <3>1, <3>2, SMT DEF TakeContract
    <3> QED BY <3>3
  <2> QED BY <2>3, <2>4, <2>5
\* The setter keeps it: what it sets is then on the chain, and what it gives up
\* is unreported.
<1>CapInvSet. ASSUME CapInv, SetConsumption
    PROVE  CapInv'
  <2> USE <1>CapInvSet
  <2> USE DEF CapInv, CapTypes, OneInEngine, RestIsEmpty, SetIsCurrent, ToBeRead, NothingForgotten
  <2> used' = used /\ channel' = channel /\ capEngine' = capEngine
    BY DEF SetConsumption
  <2>1. CASE setter' = Resting
    <3>1. CapTypes' /\ OneInEngine'
      BY <2>1 DEF Resting
    <3>2. DOMAIN setter'.values = {}
      BY <2>1 DEF Resting, NoValues
    <3>3. CASE /\ onChain' = [c \in Contracts |-> IF c \in DOMAIN setter.values
                                                 THEN setter.values[c] ELSE onChain[c]]
               /\ unreported' = unreported \ DOMAIN setter.values
      <4>1. ASSUME NEW c \in Contracts, c \in DOMAIN setter.values
            PROVE  onChain'[c] = used[c] \/ ToBeRead(c)
        BY <3>3, <4>1
      <4>2. ASSUME NEW c \in Contracts \ unreported, c \notin DOMAIN setter.values
            PROVE  onChain'[c] = used[c] \/ ToBeRead(c)
        BY <3>3, <4>2
      <4> QED BY <3>1, <3>2, <3>3, <4>1, <4>2
    <3>4. CASE onChain' = onChain /\ unreported' = unreported \cup DOMAIN setter.values
      BY <3>1, <3>2, <3>4
    <3> QED BY <2>1, <3>3, <3>4 DEF SetConsumption, OneLess, Resting
  <2>2. CASE setter' = OneLess /\ UNCHANGED <<onChain, unreported>>
    BY <2>2, ZenonT(30) DEF OneLess
  <2> QED BY <2>1, <2>2 DEF SetConsumption
\* A restart of provisiond keeps it: what the channel held is set at once where
\* it is active, and is unreported where it is not.
<1>CapInvRestart. ASSUME CapInv, ProvisiondRestart
    PROVE  CapInv'
  <2> USE <1>CapInvRestart
  <2> DEFINE active == {c \in Contracts : used[c] > 0}
  <2>1. /\ setter' = [busy |-> active # {}, values |-> [c \in active |-> used[c]],
                       left |-> MaxAttempts, running |-> (active = {})]
        /\ unreported' = unreported \cup (Contracts \ active)
        /\ channel' = <<>> /\ capEngine' = {} /\ used' = used /\ onChain' = onChain
    BY DEF ProvisiondRestart, Setting
  <2>2. DOMAIN setter'.values = active /\ \A c \in active : setter'.values[c] = used[c]
    BY <2>1
  <2>3. CapTypes' /\ OneInEngine'
    BY <2>1, SMT DEF CapInv, CapTypes, OneInEngine
  <2>4. RestIsEmpty' /\ SetIsCurrent'
    BY <2>1, <2>2 DEF RestIsEmpty, SetIsCurrent
  <2>5. NothingForgotten'
    <3> SUFFICES ASSUME NEW c \in Contracts \ unreported'
                 PROVE  c \in DOMAIN setter'.values /\ setter'.values[c] = used'[c]
      BY DEF NothingForgotten
    <3>1. c \in active
      BY <2>1
    <3> QED BY <2>1, <2>2, <3>1
  <2> QED BY <2>3, <2>4, <2>5 DEF CapInv
<1>1. CapInv /\ [CapNext]_capVars => CapInv'
  <2> SUFFICES ASSUME CapInv, [CapNext]_capVars PROVE CapInv'
    OBVIOUS
  <2>1. CASE CapNext
    BY <2>1, <1>CapInvEngine, <1>CapInvCallback, <1>CapInvTake, <1>CapInvSet, <1>CapInvRestart DEF CapNext
  <2>2. CASE UNCHANGED capVars
    BY <2>2 DEF capVars, CapInv, CapTypes, OneInEngine, RestIsEmpty, SetIsCurrent, ToBeRead,
       NothingForgotten
  <2> QED BY <2>1, <2>2
<1>2. CapInv => NothingForgotten
  BY DEF CapInv
<1> QED BY <1>CapInvInit, <1>1, <1>2, PTL DEF CapSpec
-----------------------------------------------------------------------------
\* The reporter.  Before the first turn nothing is collected; after it the
\* window starts at the time on disk, and a report ends it at a later time.

\* the part of the types the proof needs: of the collection,
MetricsType ==
    /\ metrics = [next |-> metrics.next, slot |-> metrics.slot]
    /\ metrics.next \in Nat /\ metrics.slot \in Int

\* of Run,
RunType ==
    /\ reporter = [at |-> reporter.at, since |-> reporter.since, now |-> reporter.now]
    /\ reporter.since \in Nat /\ reporter.now \in Nat

\* of the queue,
QueueType == queue \in Seq(Nat \ {0}) /\ nextReport \in Nat \ {0}

\* and of the times
ReporterTypes ==
    /\ clock \in Nat /\ lastReport \in Nat \cup {None}
    /\ MetricsType /\ RunType /\ QueueType

\* the ticker has not fired before the first turn of Run
NothingBefore ==
    lastReport = None =>
        /\ reporter.at = "start" /\ DOMAIN slots = {}
        /\ metrics.slot = None /\ clock < metrics.next

\* Run has the time on disk, and reads a later one for its report
WindowInv ==
    /\ lastReport # None => reporter.since = lastReport
    /\ reporter.at \in {"report", "stamp"} => reporter.since <= reporter.now

\* the report that is not stamped yet skips nothing either
PassedInv == \A k \in DOMAIN slots \ seen : k >= SlotOf(Passed) \/ k \in late

\* the only pusher has the first report in hand, and has billed it when sent
InHand ==
    ~overlapped =>
        /\ pusher = <<pusher[1]>> /\ pusher[1] \in Int
        /\ pusher[1] > 0 => queue # <<>> /\ queue[1] = pusher[1]
        /\ pusher[1] < 0 => queue # <<>> /\ queue[1] = 0 - pusher[1] /\ queue[1] \in billed

\* what is collected gets into a report
CollectInv == NothingBefore /\ WindowInv /\ PassedInv /\ NoneSkipped

\* what is reported gets to the chain
PushInv == InHand /\ RemovedIsBilled

\* the inductive invariant of the reporter
ReporterInv == ReporterTypes /\ CollectInv /\ PushInv
-----------------------------------------------------------------------------
\* The first state satisfies the invariant: nothing is collected or reported.
LEMMA ReporterInvInit == ReporterInit => ReporterInv
<1> SUFFICES ASSUME ReporterInit PROVE ReporterInv
  OBVIOUS
<1> USE ReporterAssumption DEF ReporterInit, None
<1>1. ReporterTypes
  <2>1. clock \in Nat /\ clock + SlotWidth \in Nat /\ 0 - 1 \in Int
    BY SMTT(30)
  <2>2. MetricsType
    BY <2>1, SMTT(30) DEF MetricsType
  <2>3. RunType
    BY SMTT(30) DEF RunType
  <2>4. QueueType
    BY SMTT(30) DEF QueueType
  <2> QED BY <2>1, <2>2, <2>3, <2>4 DEF ReporterTypes
<1>2. CollectInv
  BY SMTT(30) DEF CollectInv, NothingBefore, WindowInv, PassedInv, NoneSkipped
<1>3. PushInv
  BY SMT DEF PushInv, InHand, RemovedIsBilled, ReporterIdle
<1> QED BY <1>1, <1>2, <1>3 DEF ReporterInv

\* Every step of the reporter keeps the invariant.
LEMMA ReporterInvNext ==
    ASSUME ReporterInv, [ReporterNext]_reporterVars
    PROVE  ReporterInv'
\* A sequence with an element more.
<1>AppendType. ASSUME NEW S, NEW q \in Seq(S), NEW x \in S
    PROVE  Append(q, x) \in Seq(S)
  BY <1>AppendType, SMT
\* A later time has no earlier slot.
<1>SlotOfMonotone. ASSUME NEW a \in Nat, NEW b \in Nat, a <= b
    PROVE  SlotOf(a) \in Int /\ SlotOf(b) \in Int /\ SlotOf(a) <= SlotOf(b)
  <2> USE <1>SlotOfMonotone
  <2> DEFINE p == a \div SlotWidth
  <2> DEFINE q == b \div SlotWidth
  <2>1. SlotWidth \in Nat /\ SlotWidth > 0
    BY ReporterAssumption, SMT
  <2>2. p \in Int /\ q \in Int
    BY <2>1, SMT
  <2>3. p <= q
    BY <2>1, SMT
  <2> HIDE DEF p, q
  <2>4. p * SlotWidth \in Int /\ q * SlotWidth \in Int /\ p * SlotWidth <= q * SlotWidth
    BY <2>1, <2>2, <2>3, SMTT(30)
  <2> QED BY <2>4 DEF SlotOf, p, q
\* A slot is a number.
<1>SlotOfType. ASSUME NEW a \in Nat PROVE SlotOf(a) \in Int
  BY <1>SlotOfType, <1>SlotOfMonotone, SMT
\* Run changes the record of where it is by fields.
<1>RunRecord. ASSUME NEW a, NEW b, NEW c, NEW x, NEW y, NEW run, run = [at |-> a, since |-> b, now |-> c]
    PROVE  /\ [run EXCEPT !.at = x, !.now = y] = [at |-> x, since |-> b, now |-> y]
           /\ [run EXCEPT !.at = x, !.since = y] = [at |-> x, since |-> y, now |-> c]
  <2> USE <1>RunRecord
  <2> DEFINE next == [run EXCEPT !.at = x]
  <2>1. next = [at |-> x, since |-> b, now |-> c]
    BY SMT
  <2>2. /\ [run EXCEPT !.at = x, !.now = y] = [next EXCEPT !.now = y]
        /\ [run EXCEPT !.at = x, !.since = y] = [next EXCEPT !.since = y]
    OBVIOUS
  <2> HIDE DEF next
  <2>3. [next EXCEPT !.now = y] = [at |-> x, since |-> b, now |-> y]
    BY <2>1, SMT
  <2>4. [next EXCEPT !.since = y] = [at |-> x, since |-> y, now |-> c]
    BY <2>1, SMT
  <2> QED BY <2>2, <2>3, <2>4
\* The collection changes nothing the pusher uses.
<1>PushInvCollect. ASSUME ReporterInv, UNCHANGED <<queue, pusher, nextReport, billed, overlapped>>
    PROVE  PushInv'
  BY <1>PushInvCollect DEF ReporterInv, PushInv, InHand, RemovedIsBilled
\* The pusher changes nothing the collection uses.
<1>CollectInvPush. ASSUME ReporterInv, UNCHANGED <<clock, slots, lastReport, metrics, reporter, seen, late>>
    PROVE  CollectInv'
  BY <1>CollectInvPush DEF ReporterInv, CollectInv, NothingBefore, WindowInv, PassedInv, NoneSkipped, Passed
\* Time and traffic keep it: a turn has begun when time passes.
<1>ReporterInvTime. ASSUME ReporterInv, ReporterTick \/ Traffic
    PROVE  ReporterInv'
  <2> USE <1>ReporterInvTime
  <2> USE DEF ReporterInv, CollectInv
  <2>1. clock' \in Nat
    BY SMT DEF ReporterTick, Traffic, ReporterTypes
  <2>2. UNCHANGED <<slots, lastReport, metrics, reporter, queue, pusher, nextReport, billed, seen,
                    late, overlapped>>
    BY DEF ReporterTick, Traffic
  <2>3. ReporterTypes'
    BY <2>1, <2>2 DEF ReporterTypes, MetricsType, RunType, QueueType
  <2>4. PushInv'
    BY <2>2, <1>PushInvCollect
  <2>5. clock' = clock \/ reporter.at = "wait"
    BY DEF ReporterTick, Traffic
  <2>6. NothingBefore'
    BY <2>2, <2>5 DEF NothingBefore
  <2>7. WindowInv' /\ PassedInv' /\ NoneSkipped'
    BY <2>2 DEF WindowInv, PassedInv, NoneSkipped, Passed
  <2> QED BY <2>3, <2>4, <2>6, <2>7
\* Slots that go take nothing that was reported with them.
<1>RetainSkipsNone. ASSUME PassedInv, NoneSkipped, slots' = [k \in Retained(clock) |-> slots[k]],
           UNCHANGED <<reporter, seen, late>>
    PROVE  PassedInv' /\ NoneSkipped'
  <2> USE <1>RetainSkipsNone
  <2>1. DOMAIN slots' \subseteq DOMAIN slots
    BY DEF Retained
  <2> QED BY <2>1 DEF PassedInv, NoneSkipped, Passed
\* The collection keeps it: the ticker fires after the first turn began, and a
\* slot that is stored is in the window of a report to come, or late.
<1>ReporterInvMetrics. ASSUME ReporterInv, MetricsSlot \/ MetricsStore \/ MetricsFail
    PROVE  ReporterInv'
  <2> USE <1>ReporterInvMetrics
  <2> USE DEF ReporterInv, CollectInv
  <2>1. PushInv'
    BY <1>PushInvCollect DEF MetricsSlot, MetricsStore, MetricsFail
  <2>2. CASE MetricsSlot
    <3>1. ReporterTypes'
      <4>1. SlotOf(clock) \in Int
        BY <1>SlotOfType DEF ReporterTypes
      <4>2. metrics.next + SlotWidth \in Nat
        BY ReporterAssumption, SMTT(30) DEF ReporterTypes, MetricsType
      <4>3. MetricsType'
        BY <2>2, <4>1, <4>2, SMTT(30) DEF MetricsSlot, MetricsType
      <4> QED BY <2>2, <4>3 DEF MetricsSlot, ReporterTypes, RunType, QueueType
    <3>2. lastReport # None
      BY <2>2, SMT DEF MetricsSlot, NothingBefore, ReporterTypes, MetricsType
    <3>3. NothingBefore' /\ WindowInv'
      BY <2>2, <3>2 DEF MetricsSlot, NothingBefore, WindowInv
    <3>4. PassedInv' /\ NoneSkipped'
      BY <2>2, <1>RetainSkipsNone DEF MetricsSlot
    <3> QED BY <2>1, <3>1, <3>3, <3>4
  <2>3. CASE MetricsStore
    <3>1. ReporterTypes'
      <4>1. MetricsType'
        BY <2>3, SMT DEF MetricsStore, ReporterTypes, MetricsType, None
      <4> QED BY <2>3, <4>1 DEF MetricsStore, ReporterTypes, RunType, QueueType
    <3>2. NothingBefore' /\ WindowInv'
      BY <2>3 DEF MetricsStore, NothingBefore, WindowInv
    <3>3. SlotOf(Passed) \in Int /\ SlotOf(reporter.since) \in Int
          /\ SlotOf(reporter.since) <= SlotOf(Passed)
      BY <1>SlotOfMonotone, <1>SlotOfType, SMT DEF Passed, WindowInv, ReporterTypes, RunType
    <3>4. metrics.slot \in Int /\ reporter' = reporter /\ Passed' = Passed
      BY <2>3 DEF MetricsStore, ReporterTypes, MetricsType, Passed
    <3>5. CASE lastValue = None
      BY <2>1, <2>3, <3>1, <3>2, <3>4, <3>5 DEF MetricsStore, PassedInv, NoneSkipped
    <3>6. CASE lastValue # None
      <4> SUFFICES ASSUME NEW k \in DOMAIN slots' \ seen'
                   PROVE  /\ k >= SlotOf(Passed) \/ k \in late'
                          /\ k >= SlotOf(reporter.since) \/ k \in late'
        BY <2>1, <3>1, <3>2, <3>4 DEF PassedInv, NoneSkipped, SlotOf
      <4>1. CASE k = metrics.slot
        <5>1. CASE metrics.slot < SlotOf(Passed)
          BY <2>3, <3>6, <4>1, <5>1 DEF MetricsStore
        <5>2. CASE ~(metrics.slot < SlotOf(Passed))
          BY <3>3, <3>4, <4>1, <5>2, SMT
        <5> QED BY <5>1, <5>2
      <4>2. CASE k # metrics.slot
        <5>1. k \in DOMAIN slots \ seen /\ late \subseteq late'
          BY <2>3, <3>6, <4>2, SMT DEF MetricsStore
        <5> QED BY <5>1 DEF PassedInv, NoneSkipped
      <4> QED BY <4>1, <4>2
    <3> QED BY <3>5, <3>6
  <2>4. CASE MetricsFail
    <3>1. ReporterTypes'
      <4>1. MetricsType'
        BY <2>4, SMT DEF MetricsFail, ReporterTypes, MetricsType, None
      <4> QED BY <2>4, <4>1 DEF MetricsFail, ReporterTypes, RunType, QueueType
    <3>2. NothingBefore' /\ WindowInv' /\ PassedInv' /\ NoneSkipped'
      BY <2>4 DEF MetricsFail, NothingBefore, WindowInv, PassedInv, NoneSkipped, Passed
    <3> QED BY <2>1, <3>1, <3>2
  <2> QED BY <2>2, <2>3, <2>4
\* Run keeps it: a turn takes the time on disk, a report what is unseen in its
\* window, and the time goes to the disk after the report.
<1>ReporterInvTurn. ASSUME ReporterInv, ReporterStart \/ ReportNow \/ Stamp
    PROVE  ReporterInv'
  <2> USE <1>ReporterInvTurn
  <2> USE DEF ReporterInv, CollectInv
  <2>1. PushInv'
    BY <1>PushInvCollect DEF ReporterStart, ReportNow, Stamp
  <2>2. CASE ReporterStart
    <3>1. Since \in Nat /\ Since # None /\ clock \in Nat
      BY SMT DEF Since, ReporterTypes, None
    <3>2. ReporterTypes'
      <4>1. RunType'
        BY <2>2, <3>1, SMTT(30) DEF ReporterStart, RunType
      <4> QED BY <2>2, <3>1, <4>1 DEF ReporterStart, ReporterTypes, MetricsType, QueueType
    <3>3. reporter'.at = "wait" /\ reporter'.since = Since /\ lastReport' = Since
          /\ UNCHANGED <<slots, seen, late>> /\ reporter.at = "start"
      BY <2>2, SMT DEF ReporterStart
    <3>4. NothingBefore' /\ WindowInv'
      BY <3>1, <3>3 DEF NothingBefore, WindowInv
    <3>5. CASE lastReport = None
      BY <2>1, <3>2, <3>3, <3>4, <3>5 DEF NothingBefore, PassedInv, NoneSkipped
    <3>6. CASE lastReport # None
      <4>1. reporter'.since = reporter.since /\ Passed' = reporter.since
        BY <3>3, <3>6 DEF Since, WindowInv, Passed
      <4> QED BY <2>1, <3>2, <3>3, <3>4, <4>1 DEF PassedInv, NoneSkipped
    <3> QED BY <3>5, <3>6
  <2>3. CASE ReportNow
    <3>1. reporter'.at = "report" /\ reporter'.since = reporter.since /\ reporter'.now = clock
          /\ reporter.at = "wait" /\ UNCHANGED <<slots, seen, late, lastReport>>
      BY <2>3, SMTT(30) DEF ReportNow, ReporterTypes, RunType
    <3>2. reporter.since <= clock
      BY <2>3, ReporterAssumption, SMT DEF ReportNow, ReporterTypes, RunType
    <3>4. ReporterTypes'
      <4>1. reporter' = [at |-> "report", since |-> reporter.since, now |-> clock]
        BY <2>3, <1>RunRecord DEF ReportNow, ReporterTypes, RunType
      <4>2. RunType'
        BY <4>1, SMT DEF ReporterTypes, RunType
      <4> QED BY <2>3, <4>2 DEF ReportNow, ReporterTypes, MetricsType, QueueType
    <3>3. NothingBefore' /\ WindowInv'
      BY <3>1, <3>2 DEF NothingBefore, WindowInv
    <3> QED BY <2>1, <3>1, <3>3, <3>4 DEF PassedInv, NoneSkipped, Passed
  <2>4. CASE Stamp
    <3>1. reporter'.at = "start" /\ reporter'.since = reporter.now /\ lastReport' = reporter.now
          /\ reporter.at = "stamp" /\ UNCHANGED <<seen, late>>
      BY <2>4, SMT DEF Stamp, ReporterTypes, RunType
    <3>2. ReporterTypes' /\ reporter.now # None
      <4>0. reporter' = [at |-> "start", since |-> reporter.now, now |-> reporter.now]
        BY <2>4, <1>RunRecord DEF Stamp, ReporterTypes, RunType
      <4>1. RunType'
        BY <4>0, SMTT(30) DEF ReporterTypes, RunType
      <4>2. reporter.now \in Nat /\ reporter.now # None
        BY SMT DEF ReporterTypes, RunType, None
      <4> QED BY <2>4, <3>1, <4>1, <4>2 DEF Stamp, ReporterTypes, MetricsType, QueueType
    <3>3. DOMAIN slots' \subseteq DOMAIN slots
      BY <2>4 DEF Stamp, Retained
    <3>4. NothingBefore' /\ WindowInv'
      BY <3>1, <3>2 DEF NothingBefore, WindowInv
    <3>5. Passed = reporter.now /\ Passed' = reporter.now
      BY <3>1 DEF Passed
    <3> QED BY <2>1, <3>1, <3>2, <3>3, <3>4, <3>5 DEF PassedInv, NoneSkipped
  <2> QED BY <2>2, <2>3, <2>4
\* A report keeps it: the window is seen, and its number is on the queue.
<1>ReporterInvReport. ASSUME ReporterInv, Report
    PROVE  ReporterInv'
  <2> USE <1>ReporterInvReport
  <2> USE DEF ReporterInv, CollectInv
  <2>1. reporter'.at = "stamp" /\ reporter'.since = reporter.since /\ reporter'.now = reporter.now
        /\ reporter.at = "report" /\ UNCHANGED <<slots, late, lastReport, pusher, billed, overlapped>>
        /\ seen' = seen \cup Window(reporter.since)
    BY SMT DEF Report, ReporterTypes, RunType
  <2>2. \/ UNCHANGED <<queue, nextReport>>
        \/ queue' = Append(queue, nextReport) /\ nextReport' = nextReport + 1
    BY DEF Report
  <2>3. ReporterTypes'
    <3>1. RunType'
      BY SMT DEF Report, ReporterTypes, RunType
    <3>2. QueueType'
      <4>1. nextReport + 1 \in Nat \ {0}
        BY SMT DEF ReporterTypes, QueueType
      <4> QED BY <2>2, <4>1, <1>AppendType DEF ReporterTypes, QueueType
    <3> QED BY <3>1, <3>2 DEF Report, ReporterTypes, MetricsType
  <2>4. NothingBefore' /\ WindowInv'
    BY <2>1 DEF NothingBefore, WindowInv
  <2>5. \A k \in DOMAIN slots' \ seen' : k \in late'
    BY <2>1 DEF Window, NoneSkipped
  <2>6. InHand'
    <3>1. queue # <<>> => queue' # <<>> /\ queue'[1] = queue[1]
      BY <2>2, SMTT(30) DEF ReporterTypes, QueueType
    <3> QED BY <2>1, <3>1 DEF PushInv, InHand
  <2>7. RemovedIsBilled'
    <3> SUFFICES ASSUME ~overlapped, NEW r \in 1 .. nextReport' - 1
                 PROVE  r \in billed \/ r \in Range(queue')
      BY <2>1 DEF RemovedIsBilled
    <3>1. CASE UNCHANGED <<queue, nextReport>>
      BY <3>1 DEF PushInv, RemovedIsBilled
    <3>2. CASE queue' = Append(queue, nextReport) /\ nextReport' = nextReport + 1
      <4>1. r = nextReport \/ r \in 1 .. nextReport - 1
        BY <3>2, SMT DEF ReporterTypes, QueueType
      <4>2. nextReport \in Range(queue') /\ Range(queue) \subseteq Range(queue')
        <5>1. queue \in Seq(Nat) /\ nextReport \in Nat
          BY SMTT(30) DEF ReporterTypes, QueueType
        <5>2. DOMAIN queue' = 1 .. Len(queue) + 1 /\ queue'[Len(queue) + 1] = nextReport
              /\ DOMAIN queue = 1 .. Len(queue) /\ Len(queue) \in Nat
              /\ \A i \in 1 .. Len(queue) : queue'[i] = queue[i]
          BY <3>2, <5>1, SMTT(30)
        <5>3. Len(queue) + 1 \in DOMAIN queue' /\ DOMAIN queue \subseteq DOMAIN queue'
          BY <5>2, SMT
        <5> QED BY <5>2, <5>3 DEF Range
      <4> QED BY <4>1, <4>2 DEF PushInv, RemovedIsBilled
    <3> QED BY <2>2, <3>1, <3>2
  <2> QED BY <2>3, <2>4, <2>5, <2>6, <2>7 DEF PushInv, PassedInv, NoneSkipped
\* A failed Run and a restart keep it: the window starts again at the time on
\* disk, and a second pusher is noted.
<1>ReporterInvFails. ASSUME ReporterInv, RunFails \/ ReporterRestart
    PROVE  ReporterInv'
  <2> USE <1>ReporterInvFails
  <2> USE DEF ReporterInv, CollectInv
  <2>1. Since \in Nat /\ Since # None /\ clock \in Nat /\ clock + SlotWidth \in Nat
        /\ clock < clock + SlotWidth
    BY ReporterAssumption, SMT DEF Since, ReporterTypes, None
  <2>2. metrics' = [next |-> clock + SlotWidth, slot |-> None]
        /\ UNCHANGED <<clock, slots, lastReport, queue, nextReport, billed, seen, late>>
    BY DEF RunFails, ReporterRestart
  <2>3. PICK now \in Nat : reporter' = [at |-> "start", since |-> Since, now |-> now]
    <3>1. CASE RunFails
      <4>1. reporter' = [at |-> "start", since |-> Since, now |-> reporter.now]
        BY <3>1, <1>RunRecord DEF RunFails, ReporterTypes, RunType
      <4> QED BY <4>1 DEF ReporterTypes, RunType
    <3>2. CASE ReporterRestart
      BY <2>1, <3>2 DEF ReporterRestart
    <3> QED BY <3>1, <3>2
  <2>4. reporter'.at = "start" /\ reporter'.since = Since /\ metrics'.slot = None
        /\ metrics'.next = clock + SlotWidth
    BY <2>2, <2>3, SMT
  <2>5. ReporterTypes'
    <3>1. MetricsType'
      BY <2>1, <2>2, SMTT(30) DEF MetricsType, None
    <3>2. RunType'
      BY <2>1, <2>3, SMT DEF RunType
    <3> QED BY <2>2, <3>1, <3>2 DEF ReporterTypes, QueueType
  <2>6. NothingBefore' /\ WindowInv'
    BY <2>1, <2>2, <2>4 DEF NothingBefore, WindowInv, Since
  <2>7. PassedInv' /\ NoneSkipped'
    <3>1. CASE lastReport = None
      BY <2>2, <3>1 DEF NothingBefore, PassedInv, NoneSkipped
    <3>2. CASE lastReport # None
      <4>1. reporter'.since = reporter.since /\ Passed' = reporter.since
        BY <2>4, <3>2 DEF Since, WindowInv, Passed
      <4> QED BY <2>2, <4>1 DEF PassedInv, NoneSkipped
    <3> QED BY <3>1, <3>2
  <2>8. PushInv'
    <3>1. RemovedIsBilled'
      <4>1. overlapped' = TRUE \/ overlapped' = overlapped
        BY DEF RunFails, ReporterRestart
      <4> QED BY <2>2, <4>1 DEF PushInv, RemovedIsBilled
    <3>2. InHand'
      <4>1. CASE overlapped' = TRUE
        BY <4>1 DEF InHand
      <4>2. CASE UNCHANGED <<pusher, overlapped>>
        BY <2>2, <4>2 DEF PushInv, InHand
      <4>3. CASE pusher' = <<ReporterIdle>>
        BY <4>3, SMT DEF InHand, ReporterIdle
      <4> QED BY <4>1, <4>2, <4>3 DEF RunFails, ReporterRestart
    <3> QED BY <3>1, <3>2 DEF PushInv
  <2> QED BY <2>5, <2>6, <2>7, <2>8
\* The pusher keeps it: it removes the report it had in hand and sent.
<1>ReporterInvPusher. ASSUME ReporterInv, NEW p \in Pushers, Peek(p) \/ Send(p) \/ Dequeue(p)
    PROVE  ReporterInv'
  <2> USE <1>ReporterInvPusher
  <2> USE DEF ReporterInv
  <2>1. CollectInv'
    BY <1>CollectInvPush DEF Peek, Send, Dequeue
  <2>2. UNCHANGED <<clock, lastReport, metrics, reporter, nextReport, overlapped>>
    BY DEF Peek, Send, Dequeue
  <2>3. queue' = queue \/ (queue # <<>> /\ queue' = Tail(queue))
    BY DEF Peek, Send, Dequeue
  <2>4. QueueType'
    <3>1. ASSUME NEW S, NEW q \in Seq(S), q # <<>> PROVE Tail(q) \in Seq(S)
      BY <3>1, SMT
    <3> QED BY <2>2, <2>3, <3>1 DEF ReporterTypes, QueueType
  <2>5. ReporterTypes'
    BY <2>2, <2>4 DEF ReporterTypes, MetricsType, RunType
  <2>6. CASE overlapped
    BY <2>1, <2>2, <2>5, <2>6 DEF PushInv, InHand, RemovedIsBilled
  <2>7. CASE ~overlapped
    <3> DEFINE h == pusher[1]
    <3>1. h \in Int /\ Len(pusher) = 1 /\ p = 1
      BY <2>7, SMTT(30) DEF PushInv, InHand, Pushers
    <3>2. \A x : [pusher EXCEPT ![p] = x] = <<x>>
      BY <2>7, <3>1, SMTT(30) DEF PushInv, InHand
    <3>3. Back(p) => pusher' = <<ReporterIdle>>
      BY <3>1, <3>2, SMT DEF Back
    <3>4. /\ h > 0 => queue # <<>> /\ queue[1] = h
          /\ h < 0 => queue # <<>> /\ queue[1] = 0 - h /\ queue[1] \in billed
      BY <2>7 DEF PushInv, InHand
    <3>5. CASE Peek(p)
      <4>1. queue[1] \in Nat \ {0} /\ pusher' = <<queue[1]>> /\ queue # <<>> /\ UNCHANGED <<queue, billed>>
        <5>1. ASSUME NEW S, NEW q \in Seq(S), q # <<>> PROVE q[1] \in S
          BY <5>1, SMTT(30)
        <5> QED BY <3>2, <3>5, <5>1 DEF Peek, ReporterTypes, QueueType
      <4>2. InHand'
        BY <4>1, SMT DEF InHand
      <4> QED BY <2>1, <2>2, <2>5, <4>1, <4>2 DEF PushInv, RemovedIsBilled
    <3>6. CASE Send(p)
      <4>1. h > 0 /\ billed \subseteq billed' /\ UNCHANGED queue
        BY <3>1, <3>6 DEF Send
      <4>2. \/ pusher' = <<0 - h>> /\ h \in billed'
            \/ pusher' = <<ReporterIdle>>
        BY <3>1, <3>2, <3>3, <3>6 DEF Send, SentReport
      <4>3. InHand'
        BY <3>1, <3>4, <4>1, <4>2, SMT DEF InHand, ReporterIdle
      <4> QED BY <2>1, <2>2, <2>5, <4>1, <4>3 DEF PushInv, RemovedIsBilled
    <3>7. CASE Dequeue(p)
      <4>1. queue # <<>> /\ queue[1] \in billed /\ queue' = Tail(queue) /\ UNCHANGED billed
        BY <3>1, <3>4, <3>7 DEF Dequeue
      <4>2. pusher' = <<ReporterIdle>>
        BY <3>3, <3>7 DEF Dequeue
      <4>3. InHand'
        BY <4>2, SMT DEF InHand, ReporterIdle
      <4>4. \A r \in Range(queue) : r = queue[1] \/ r \in Range(queue')
        <5>1. queue \in Seq(Nat)
          BY SMT DEF ReporterTypes, QueueType
        <5>2. ASSUME NEW i \in DOMAIN queue, i # 1
              PROVE  i - 1 \in DOMAIN queue' /\ queue'[i - 1] = queue[i]
          BY <4>1, <5>1, <5>2, SMTT(30)
        <5> QED BY <5>2 DEF Range
      <4> QED BY <2>1, <2>2, <2>5, <2>7, <4>1, <4>3, <4>4 DEF PushInv, RemovedIsBilled
    <3> QED BY <3>5, <3>6, <3>7
  <2> QED BY <2>6, <2>7
<1>1. CASE UNCHANGED reporterVars
  <2>1. PushInv' /\ CollectInv'
    BY <1>1, <1>PushInvCollect, <1>CollectInvPush DEF reporterVars
  <2> QED BY <1>1, <2>1 DEF reporterVars, ReporterInv, ReporterTypes, MetricsType, RunType, QueueType
<1> QED BY <1>1, <1>ReporterInvTime, <1>ReporterInvMetrics, <1>ReporterInvTurn, <1>ReporterInvReport,
           <1>ReporterInvFails, <1>ReporterInvPusher DEF ReporterNext, ReporterStep, PusherStep

\* What was used is in a report, and a report leaves the queue only for the
\* chain, for any slots, hours, traffic, failures and restarts (UseReported).
THEOREM UseReportedAlways == ReporterSpec => []UseReported
<1>1. ReporterInv => UseReported
  BY DEF ReporterInv, CollectInv, PushInv, UseReported
<1> QED BY <1>1, ReporterInvInit, ReporterInvNext, PTL DEF ReporterSpec
=============================================================================
