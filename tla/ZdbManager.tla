----------------------------- MODULE ZdbManager -----------------------------
(***************************************************************************)
(* The zdb primitive (pkg/primitives/zdb): namespaces of users live in     *)
(* zdb containers, one per disk that storaged gave to zdb.  The engine     *)
(* makes one call at a time; provisiond may restart inside any of them,    *)
(* and zdb and its container may be down at any time.  A namespace is      *)
(* known to the running zdb and to the index on the disk alike.            *)
(***************************************************************************)
EXTENDS Integers, FiniteSets, Functions

CONSTANTS Devices,
          DeviceSize,
          Zdbs,            \* zdb workloads
          ZdbSizes,        \* sizes they ask for
          MaxZdbRestarts,  \* bound: restarts of provisiond
          MaxZdbFaults     \* bound: failed calls and containers

ASSUME ZdbAssumption ==
    /\ DeviceSize \in Nat /\ ZdbSizes \subseteq Nat \ {0} /\ IsFiniteSet(Zdbs)

VARIABLES allocated,   \* disks with a zdb volume
          containers,  \* disks with a zdb container
          answering,   \* disks whose zdb answers
          space,       \* size of a namespace on a disk: NoSpace, or 0 before it is set
          wanted,      \* size the workload has in the deployment
          zstate,      \* its result: "none", "ok", "error" or "deleted"
          todo,        \* workloads the engine has to provision
          zcall,       \* the call under way
          half,        \* namespaces a restart left without their size
          hidden,      \* namespaces whose container a call could not see
          kept,        \* namespaces zdb failed to delete
          zdbUse       \* restarts and faults so far

diskState == <<allocated, containers, answering>>
zdbVars == <<allocated, containers, answering, space, wanted, zstate, todo, zcall, half, hidden,
             kept, zdbUse>>

NoSpace == 0 - 1
NoCall == [at |-> "idle"]
ZdbHomes(z) == {d \in Devices : space[d][z] # NoSpace}
\* Index.Reserved: the sizes of the namespaces of the disk
ZdbSize(d) == [z \in Zdbs |-> IF space[d][z] = NoSpace THEN 0 ELSE space[d][z]]
ZdbReserved(d) == SumFunctionOnSet(ZdbSize(d), Zdbs)

ZdbInit ==
    /\ allocated = {} /\ containers = {} /\ answering = {}
    /\ space = [d \in Devices |-> [z \in Zdbs |-> NoSpace]]
    /\ wanted \in [Zdbs -> ZdbSizes] /\ zstate = [z \in Zdbs |-> "none"]
    /\ todo = Zdbs /\ zcall = NoCall
    /\ half = {} /\ hidden = {} /\ kept = {}
    /\ zdbUse = [restarts |-> 0, faults |-> 0]

ZdbFault == zdbUse.faults < MaxZdbFaults /\ zdbUse' = [zdbUse EXCEPT !.faults = @ + 1]
\* the engine stores the result
ZdbResult(z, s) ==
    /\ zstate' = [zstate EXCEPT ![z] = s]
    /\ todo' = todo \ {z} /\ zcall' = NoCall
-----------------------------------------------------------------------------

\* the containers that have the namespace
SeenHomes(z) == ZdbHomes(z) \cap containers

\* mutant: what a container has reserved is not looked at
MutZdbRoom(z) == {d \in containers : wanted[z] <= DeviceSize}

\* the containers with room for it
ZdbRoom(z) == {d \in containers : ZdbReserved(d) + wanted[z] <= DeviceSize}

\* zdbProvisionImpl: a container that has the namespace, else one with room,
\* else a new disk
ProvisionZdb(z) ==
    /\ zcall = NoCall /\ z \in todo
    /\ hidden' = IF ZdbHomes(z) \subseteq containers THEN hidden ELSE hidden \cup {z}
    /\ LET free == {d \in Devices \ allocated : wanted[z] <= DeviceSize}
       IN  \/ /\ SeenHomes(z) # {}
              /\ ZdbResult(z, "ok")
              /\ UNCHANGED allocated
           \/ /\ SeenHomes(z) = {} /\ ZdbRoom(z) # {}
              /\ \E d \in ZdbRoom(z) : zcall' = [at |-> "create", z |-> z, d |-> d]
              /\ UNCHANGED <<zstate, todo, allocated>>
           \/ /\ SeenHomes(z) = {} /\ ZdbRoom(z) = {} /\ free # {}
              /\ \E d \in free : /\ allocated' = allocated \cup {d}
                                 /\ zcall' = [at |-> "container", z |-> z, d |-> d]
              /\ UNCHANGED <<zstate, todo>>
           \/ /\ SeenHomes(z) = {} /\ ZdbRoom(z) = {} /\ free = {}
              /\ ZdbResult(z, "error")
              /\ UNCHANGED allocated
    /\ UNCHANGED <<containers, answering, space, wanted, half, kept, zdbUse>>

\* ensureZdbContainer; what fails is cleaned up, the volume stays
ProvisionContainer ==
    /\ zcall.at = "container"
    /\ \/ /\ containers' = containers \cup {zcall.d} /\ answering' = answering \cup {zcall.d}
          /\ zcall' = [zcall EXCEPT !.at = "create"]
          /\ UNCHANGED <<zstate, todo, zdbUse>>
       \/ /\ ZdbFault /\ ZdbResult(zcall.z, "error")
          /\ UNCHANGED <<containers, answering>>
    /\ UNCHANGED <<allocated, space, wanted, half, hidden, kept>>

\* createZDBNamespace: the namespace, which has no limit yet
CreateNamespace ==
    /\ zcall.at = "create"
    /\ IF zcall.d \in answering
       THEN /\ space' = [space EXCEPT ![zcall.d][zcall.z] = IF @ = NoSpace THEN 0 ELSE @]
            /\ zcall' = [zcall EXCEPT !.at = "size"]
            /\ UNCHANGED <<zstate, todo>>
       ELSE ZdbResult(zcall.z, "error") /\ UNCHANGED space
    /\ UNCHANGED <<diskState, wanted, half, hidden, kept, zdbUse>>

\* then mode, password and visibility, and at last the size
SetSize ==
    /\ zcall.at = "size"
    /\ IF zcall.d \in answering
       THEN /\ space' = [space EXCEPT ![zcall.d][zcall.z] = wanted[zcall.z]]
            /\ ZdbResult(zcall.z, "ok")
       ELSE ZdbResult(zcall.z, "error") /\ UNCHANGED space
    /\ UNCHANGED <<diskState, wanted, half, hidden, kept, zdbUse>>

\* zdbUpdateImpl: a namespace grows when what is reserved then fits what is free
\* on the disk; an error after the size is set leaves the larger size
UpdateZdb(z, size, free) ==
    /\ zcall = NoCall /\ zstate[z] = "ok" /\ size > wanted[z] /\ z \notin todo
    /\ \E d \in ZdbHomes(z) \cap answering :
         /\ free <= DeviceSize /\ ZdbReserved(d) + size - wanted[z] <= free
         /\ space' = [space EXCEPT ![d][z] = size]
         /\ \/ wanted' = [wanted EXCEPT ![z] = size] /\ UNCHANGED zdbUse
            \/ ZdbFault /\ UNCHANGED wanted
    /\ UNCHANGED <<diskState, zstate, todo, zcall, half, hidden, kept>>

\* zdbDecommissionImpl asks every zdb that answers, and ends at the first one
\* that does not and whose index has the namespace
DeprovisionZdb(z) ==
    /\ zcall = NoCall /\ zstate[z] \in {"ok", "error"}
    /\ LET seen == SeenHomes(z)
           down == seen \ answering
       IN  /\ hidden' = IF ZdbHomes(z) \subseteq containers THEN hidden ELSE hidden \cup {z}
           /\ \/ /\ \E gone \in SUBSET seen :
                      /\ down = {} => gone = seen
                      /\ down # {} => Cardinality(gone \cap down) = 1
                      /\ space' = [d \in Devices |->
                                     [space[d] EXCEPT ![z] = IF d \in gone THEN NoSpace ELSE @]]
                      /\ kept' = IF gone = seen THEN kept ELSE kept \cup {z}
                 /\ UNCHANGED zdbUse
              \/ /\ seen # {} /\ ZdbFault
                 /\ kept' = kept \cup {z}
                 /\ UNCHANGED space
    /\ ZdbResult(z, "deleted")
    /\ UNCHANGED <<diskState, wanted, half>>
-----------------------------------------------------------------------------
\* zdb crashes, and contd starts it again
ZdbDown(d) ==
    /\ d \in answering /\ ZdbFault
    /\ answering' = answering \ {d}
    /\ UNCHANGED <<allocated, containers, space, wanted, zstate, todo, zcall, half, hidden, kept>>

ZdbBack(d) ==
    /\ d \in containers \ answering
    /\ answering' = answering \cup {d}
    /\ UNCHANGED <<allocated, containers, space, wanted, zstate, todo, zcall, half, hidden, kept,
                   zdbUse>>

\* provisiond restarts, in a call or not: Initialize upgrades the containers and
\* makes the missing ones, one of which may fail; then the engine provisions
\* again what has no error and is not deleted
RestartZdb ==
    /\ zdbUse.restarts < MaxZdbRestarts
    /\ zdbUse' = [zdbUse EXCEPT !.restarts = @ + 1]
    /\ containers' \in {allocated} \cup {allocated \ {d} : d \in allocated}
    /\ answering' = containers'
    /\ todo' = {z \in Zdbs : zstate[z] \in {"none", "ok"}}
    /\ half' = half \cup {z \in Zdbs : zcall.at = "size" /\ zcall.z = z}
    /\ zcall' = NoCall
    /\ UNCHANGED <<allocated, space, wanted, zstate, hidden, kept>>

ZdbStep == ProvisionContainer \/ CreateNamespace \/ SetSize

ZdbNext ==
    \/ \E z \in Zdbs : ProvisionZdb(z) \/ DeprovisionZdb(z)
    \/ \E z \in Zdbs, size \in ZdbSizes, free \in 0 .. DeviceSize : UpdateZdb(z, size, free)
    \/ ZdbStep \/ RestartZdb
    \/ \E d \in Devices : ZdbDown(d) \/ ZdbBack(d)

ZdbSpec == ZdbInit /\ [][ZdbNext]_zdbVars
-----------------------------------------------------------------------------
ZdbTypeOK ==
    /\ answering \subseteq containers /\ containers \subseteq allocated
    /\ allocated \subseteq Devices
    /\ space \in [Devices -> [Zdbs -> {NoSpace, 0} \cup ZdbSizes]]
    /\ zstate \in [Zdbs -> {"none", "ok", "error", "deleted"}]

\* The namespaces of a disk never reserve more than it has, with updates that
\* fail half way and restarts in any step, unless a restart left one of them
\* without its size, which the sums then miss, or one has a second namespace,
\* whose size an update does not look at (zdbProvisionImpl, zdbUpdateImpl).
FitsDevice ==
    \A d \in Devices : \/ ZdbReserved(d) <= DeviceSize
                       \/ \E z \in half \cup hidden : space[d][z] # NoSpace

\* A workload that is ok has its namespace with at least the size it asked for,
\* except one whose creation a restart cut in two, which the next provision
\* takes as it is, and one whose container was missing (zdbProvisionImpl).
OkIsSized ==
    \A z \in Zdbs : zstate[z] = "ok" /\ z \notin half \cup hidden
                    => \E d \in ZdbHomes(z) : space[d][z] >= wanted[z]

\* A namespace lives on one disk, and after Deprovision on none, unless its
\* container was missing during a call or zdb failed to delete it.
OneSpace ==
    \A z \in Zdbs \ (hidden \cup kept) :
        /\ \A d, e \in ZdbHomes(z) : d = e
        /\ zstate[z] = "deleted" => ZdbHomes(z) = {}

\* The namespaces on the disks are those of the workloads: FitsDevice,
\* OkIsSized and OneSpace.
ZdbSpaces == FitsDevice /\ OkIsSized /\ OneSpace
=============================================================================
