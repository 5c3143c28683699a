------------------------------- MODULE MCHost -------------------------------
(***************************************************************************)
(* What keeps the resources of a node: the workload store, storaged, vmd,  *)
(* contd, flistd, the manager of zdb namespaces, qsfsd and networkd.  Each *)
(* of them is checked against everything its callers may do, so a          *)
(* behaviour runs one of them, the focus; the others rest in an initial    *)
(* state.                                                                  *)
(***************************************************************************)
EXTENDS BoltStorage, Storaged, Vmd, Contd, Flistd, ZdbManager, Qsfsd, Networkd

CONSTANTS d1, d2, t1, n1

VARIABLE focus

hostVars == <<focus, boltVars, storagedVars, vmVars, contdVars, flistVars, zdbVars, qsfsVars, netVars>>

OneTwin == [d \in Dl |-> t1]
MCSize == [p \in {"s1", "h1"} |-> IF p = "s1" THEN 5 ELSE 3]

HostInit ==
    /\ focus \in {"store", "storage", "cache", "vm", "container", "flist", "zdb", "qsfs", "network"}
    /\ BoltInit /\ StoragedInit /\ VmdInit /\ ContdInit /\ FlistInit /\ ZdbInit
    /\ QsfsInit /\ NetworkdInit
    /\ focus = "zdb" \/ wanted = [z \in Zdbs |-> 1]

\* storaged is looked at twice: with disks of machines and an empty cache, and
\* with files in the cache and volumes only
Storing == focus \in {"storage", "cache"}

\* A is a step of the component that has the focus
InStore(A) == /\ focus = "store" /\ A
              /\ UNCHANGED <<focus, storagedVars, vmVars, contdVars, flistVars, zdbVars, qsfsVars, netVars>>
InStorage(A) == /\ Storing /\ A
                /\ IF focus = "cache" THEN busy'.name \notin Disks ELSE cacheUse' = 0
                /\ UNCHANGED <<focus, boltVars, vmVars, contdVars, flistVars, zdbVars, qsfsVars, netVars>>
InVm(A) == /\ focus = "vm" /\ A
           /\ UNCHANGED <<focus, boltVars, storagedVars, contdVars, flistVars, zdbVars, qsfsVars, netVars>>
InContainer(A) == /\ focus = "container" /\ A
                  /\ UNCHANGED <<focus, boltVars, storagedVars, vmVars, flistVars, zdbVars, qsfsVars, netVars>>
InFlist(A) == /\ focus = "flist" /\ A
              /\ UNCHANGED <<focus, boltVars, storagedVars, vmVars, contdVars, zdbVars, qsfsVars, netVars>>
InZdb(A) == /\ focus = "zdb" /\ A
            /\ UNCHANGED <<focus, boltVars, storagedVars, vmVars, contdVars, flistVars, qsfsVars, netVars>>
InQsfs(A) == /\ focus = "qsfs" /\ A
             /\ UNCHANGED <<focus, boltVars, storagedVars, vmVars, contdVars, flistVars, zdbVars, netVars>>
InNetwork(A) == /\ focus = "network" /\ A
                /\ UNCHANGED <<focus, boltVars, storagedVars, vmVars, contdVars, flistVars, zdbVars, qsfsVars>>

HostNext ==
    \/ InStore(BoltNext) \/ InStorage(StoragedNext) \/ InVm(VmdNext)
    \/ InContainer(ContdNext) \/ InFlist(FlistNext) \/ InZdb(ZdbNext) \/ InQsfs(QsfsNext)
    \/ InNetwork(NetworkdNext)

\* the fairness of every component, while it has the focus
HostFairness ==
    /\ WF_storagedVars(Storing /\ (SetQuota \/ DiskAllocate \/ DiskWritten \/ EnsureCache
                                     \/ CacheCreated \/ ShutdownUnusedPools))
    /\ WF_storagedVars(Storing /\ WatchCache)
    /\ WF_storagedVars(Storing /\ ShutdownDisks)
    /\ WF_vmVars(focus = "vm" /\ EngineStep)
    /\ \A c \in Callers : WF_vmVars(focus = "vm" /\ CallStep(c))
    /\ WF_vmVars(focus = "vm" /\ MonitorStep)
    /\ WF_vmVars(focus = "vm" /\ DecommissionTimeout)
    /\ WF_contdVars(focus = "container" /\ WorkerStep)
    /\ WF_contdVars(focus = "container" /\ WatcherStep)
    /\ WF_qsfsVars(focus = "qsfs" /\ QsfsCall)
    /\ WF_qsfsVars(focus = "qsfs" /\ CleanerStep)

HostSpec == HostInit /\ [][HostNext]_hostVars /\ HostFairness
-----------------------------------------------------------------------------
\* Every variable of every component stays in its range.
HostTypeOK ==
    /\ BoltTypeOK /\ StoragedTypeOK /\ VmdTypeOK /\ ContdTypeOK /\ FlistTypeOK /\ ZdbTypeOK
    /\ QsfsTypeOK /\ NetworkdTypeOK

\* ImplementsStore, looked at while the store has the focus (no other component
\* writes its database): every transaction of the bolt storage is a step of
\* WorkloadStore or leaves what the engine sees of it as it was.
StoreImplemented ==
    Store!StoreInit /\ [][focus = "store" => Store!StoreNext]_(Store!storeVars)
=============================================================================
