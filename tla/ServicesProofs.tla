--------------------------- MODULE ServicesProofs ---------------------------
(***************************************************************************)
(* What runs beside the engine, for any domains, packages, farm, blocks,   *)
(* contracts, slots, hours, faults and restarts: the gateway, the power    *)
(* server, the registrar, the event stream, the public configuration, the  *)
(* capacity setter, the reporter and the upgrader.  Each component has its *)
(* own inductive invariant, explained where it is defined.                 *)
(***************************************************************************)
EXTENDS Gateway, PowerServer, Registrar, EventStream, PublicConfig, Upgrader, TLAPS

\* first-order steps; those that need arithmetic or sequences cite SMT
USE ZenonT(30)

\* The gateway: a route is written only for a domain that is free, over no other
\* route of the same proxy.

\* the part of the types the proof needs
RouteTypes ==
    /\ gwState \in [Proxies -> {"none", "init", "ok", "error", "deleted"}]
    /\ gwWants \in [Proxies -> Domains \cup {NoDomain}]
    /\ gwFile \in [Proxies -> Domains \cup {NoDomain, TornFile}]
    /\ reserved \in [Domains -> Proxies \cup {NoProxy}]
    /\ gwCall.at # "idle" => gwCall.p \in Proxies
    /\ \A x \in validator.todo : x[2] \in Proxies
    /\ validator.at \in {"decommission", "delete"} => validator.p \in Proxies

\* a workload that is to be provisioned has the route it asks for, or none
InitRoutes ==
    \A p \in Proxies :
        /\ gwState[p] = "none" => gwFile[p] = NoDomain
        /\ gwState[p] \in {"init", "ok"} => gwWants[p] \in Domains
        /\ gwState[p] = "init" => gwFile[p] \in {NoDomain, gwWants[p]}

\* what the call knows of its proxy
CallRoutes ==
    /\ gwCall.at \in {"set", "route", "write"} => gwState[gwCall.p] = "init"
    /\ gwCall.at = "write" => reserved[gwWants[gwCall.p]] = NoProxy
    /\ gwCall.at = "file" => gwCall.p \notin nnc \ strayNnc

\* the inductive invariant of the gateway
RouteInv == RouteTypes /\ InitRoutes /\ CallRoutes /\ GatewayRoutes
-----------------------------------------------------------------------------
\* Routes, reserved domains and states of workloads agree: whatever calls of the
\* engine and of the validator meet, fail or are cut short by a restart, a domain
\* is reserved for the workload whose file routes it (setupRouting,
\* DeleteNamedProxy, loadDomains).
THEOREM GatewayRoutesAlways == GatewaySpec => []GatewayRoutes
\* loadDomains finds the proxy of a domain when no two files have the same one.
<1>LoadedDomains. ASSUME NEW files, \A p, q \in Proxies : files[p] \in Domains /\ files[p] = files[q] => p = q
    PROVE  /\ LoadDomains(files) \in [Domains -> Proxies \cup {NoProxy}]
           /\ \A p \in Proxies, d \in Domains : (LoadDomains(files)[d] = p) <=> (files[p] = d)
  <2> USE <1>LoadedDomains
  <2>1. ASSUME NEW d \in Domains, NEW p \in Proxies, files[p] = d
        PROVE  LoadDomains(files)[d] = p
    <3>1. LoadDomains(files)[d] = CHOOSE q \in Proxies : files[q] = d
      BY <2>1 DEF LoadDomains
    <3>2. \A q \in Proxies : files[q] = d => q = p
      BY <2>1
    <3> QED BY <2>1, <3>1, <3>2
  <2>2. ASSUME NEW d \in Domains, \A p \in Proxies : files[p] # d
        PROVE  LoadDomains(files)[d] = NoProxy
    BY <2>2 DEF LoadDomains
  <2>3. \A d \in Domains : LoadDomains(files)[d] \in Proxies \cup {NoProxy}
    BY <2>1, <2>2
  <2>4. LoadDomains(files) = [d \in Domains |-> LoadDomains(files)[d]]
    BY DEF LoadDomains
  <2> QED BY <2>1, <2>2, <2>3, <2>4, GatewayAssumption, SMT
\* The first state satisfies the invariant: there are no routes.
<1>RouteInvInit. GatewayInit => RouteInv
  <2> SUFFICES ASSUME GatewayInit PROVE RouteInv
    OBVIOUS
  <2>1. RouteTypes /\ InitRoutes /\ CallRoutes
    <3>1. validator.todo = {} /\ validator.at = "wait" /\ gwCall.at = "idle"
      BY DEF GatewayInit, GwIdle
    <3>2. RouteTypes
      BY <3>1 DEF GatewayInit, RouteTypes, GwIdle
    <3>3. InitRoutes /\ CallRoutes
      BY <3>1 DEF GatewayInit, InitRoutes, CallRoutes
    <3> QED BY <3>2, <3>3
  <2>2. GatewayRoutes
    <3>1. \A p \in Proxies, d \in Domains : reserved[d] # p /\ gwFile[p] # d
      BY GatewayAssumption DEF GatewayInit
    <3> QED BY <3>1 DEF GatewayInit, GatewayRoutes
  <2> QED BY <2>1, <2>2 DEF RouteInv
\* The engine keeps it: it starts a call when the worker is idle.
<1>RouteInvEngine. ASSUME RouteInv, NEW p \in Proxies,
           GwDeprovision(p) \/ GwReprovision(p) \/ \E d \in Domains : GwProvision(p, d)
    PROVE  RouteInv'
  <2> USE <1>RouteInvEngine
  <2> USE GatewayAssumption DEF RouteInv, RouteTypes, InitRoutes, CallRoutes, GatewayRoutes,
          GwIdle, gwOnNode
  <2>1. CASE GwDeprovision(p) BY <2>1, SMTT(30) DEF GwDeprovision
  <2>2. CASE GwReprovision(p) BY <2>2, SMTT(30) DEF GwReprovision
  <2>3. ASSUME NEW d \in Domains, GwProvision(p, d) PROVE RouteInv'
    BY <2>3, SMT DEF GwProvision
  <2> QED BY <2>1, <2>2, <2>3
\* A call that ends keeps it when the routes fit the state it ends in.
<1>RouteInvResult. ASSUME RouteInv, gwCall.p \in Proxies, UNCHANGED gwWants,
           NEW state \in {"init", "ok", "error", "deleted"}, GwResult(state),
           gwFile' \in [Proxies -> Domains \cup {NoDomain, TornFile}],
           reserved' \in [Domains -> Proxies \cup {NoProxy}],
           \A p \in Proxies, d \in Domains : (reserved'[d] = p) <=> (gwFile'[p] = d),
           \A p \in Proxies \ {gwCall.p} : gwFile'[p] = gwFile[p],
           nnc' \ strayNnc' \subseteq (nnc \ strayNnc) \cup {gwCall.p},
           state \in {"init", "ok"} => gwWants[gwCall.p] \in Domains,
           state = "init" => gwFile'[gwCall.p] \in {NoDomain, gwWants[gwCall.p]},
           state = "ok" => gwFile'[gwCall.p] = gwWants[gwCall.p],
           state = "deleted" => /\ gwFile'[gwCall.p] = NoDomain
                                /\ gwCall.p \notin nnc' \ strayNnc'
    PROVE  RouteInv'
  <2> USE <1>RouteInvResult
  <2>1. /\ gwState' = [gwState EXCEPT ![gwCall.p] = state]
        /\ gwState \in [Proxies -> {"none", "init", "ok", "error", "deleted"}]
        /\ gwCall' = GwIdle
    BY DEF GwResult, RouteInv, RouteTypes
  <2>2. RouteTypes'
    <3>1. /\ \A x \in validator'.todo : x[2] \in Proxies
          /\ validator'.at \in {"decommission", "delete"} => validator'.p \in Proxies
      BY SMT DEF RouteInv, RouteTypes, GwResult, ValidatorAt
    <3>2. gwState' \in [Proxies -> {"none", "init", "ok", "error", "deleted"}]
      BY <2>1
    <3> QED BY <2>1, <3>1, <3>2 DEF RouteInv, RouteTypes, GwIdle
  <2>3. CallRoutes'
    BY <2>1 DEF CallRoutes, GwIdle
  <2>4. InitRoutes'
    BY <2>1, SMTT(30) DEF RouteInv, InitRoutes
  <2>5. GatewayRoutes'
    BY <2>1, SMT DEF RouteInv, GatewayRoutes
  <2> QED BY <2>2, <2>3, <2>4, <2>5 DEF RouteInv
\* A call that goes on keeps it when it leaves the routes alone.
<1>RouteInvGoesOn. ASSUME RouteInv, gwCall.p \in Proxies, UNCHANGED <<gwWants, gwFile, reserved>>,
           NEW at \in {"route", "write", "file"}, GwGoesOn(at),
           nnc' \ strayNnc' \subseteq (nnc \ strayNnc) \cup {gwCall.p},
           at \in {"route", "write"} => gwState[gwCall.p] = "init",
           at = "write" => reserved[gwWants[gwCall.p]] = NoProxy,
           at = "file" => gwCall.p \notin nnc' \ strayNnc'
    PROVE  RouteInv'
  <2> USE <1>RouteInvGoesOn
  <2>1. /\ gwCall'.at = at /\ gwCall'.p = gwCall.p
        /\ UNCHANGED <<gwState, validator>>
    BY DEF GwGoesOn, GwAt
  <2>2. RouteTypes' /\ InitRoutes' /\ CallRoutes'
    BY <2>1 DEF RouteInv, RouteTypes, InitRoutes, CallRoutes
  <2>3. GatewayRoutes'
    BY <2>1, SMT DEF RouteInv, GatewayRoutes
  <2> QED BY <2>2, <2>3 DEF RouteInv
\* The worker keeps it: SetNamedProxy takes a free domain, DeleteNamedProxy frees
\* the one in the file.
<1>RouteInvCall. ASSUME RouteInv, GwCallStep
    PROVE  RouteInv'
  <2> USE <1>RouteInvCall
  <2>1. gwCall.p \in Proxies
    BY DEF RouteInv, RouteTypes, GwIdle, GwCallStep, SetProxy, SetupRouting, WriteRoute,
       DestroyNNC, DeleteNamedProxy
  <2>2. /\ gwFile \in [Proxies -> Domains \cup {NoDomain, TornFile}]
        /\ reserved \in [Domains -> Proxies \cup {NoProxy}]
        /\ \A p \in Proxies, d \in Domains : (reserved[d] = p) <=> (gwFile[p] = d)
    BY DEF RouteInv, RouteTypes, GatewayRoutes
  <2>3. gwCall.at \in {"set", "route", "write"} =>
            gwState[gwCall.p] = "init" /\ gwWants[gwCall.p] \in Domains
    BY <2>1 DEF RouteInv, CallRoutes, InitRoutes
  <2>4. CASE SetProxy
    <3>1. CASE GwGoesOn("route")
      BY <2>1, <2>3, <2>4, <3>1, <1>RouteInvGoesOn DEF SetProxy, gwOnNode
    <3>2. CASE GwResult("error")
      BY <2>1, <2>2, <2>4, <3>2, <1>RouteInvResult DEF SetProxy, gwOnNode
    <3> QED BY <2>4, <3>1, <3>2 DEF SetProxy
  <2>5. CASE SetupRouting
    <3>1. CASE GwGoesOn("write") /\ reserved[gwWants[gwCall.p]] = NoProxy
      BY <2>1, <2>3, <2>5, <3>1, <1>RouteInvGoesOn DEF SetupRouting, GwResult, GwGoesOn
    <3>2. CASE GwResult("error")
      BY <2>1, <2>2, <2>5, <3>2, <1>RouteInvResult DEF SetupRouting
    <3> QED BY <2>5, <3>1, <3>2 DEF SetupRouting
  <2>6. CASE WriteRoute
    <3> DEFINE d == gwWants[gwCall.p]
    <3>1. d \in Domains /\ reserved[d] = NoProxy /\ gwFile[gwCall.p] = NoDomain
      <4>1. d \in Domains /\ reserved[d] = NoProxy /\ gwFile[gwCall.p] \in {NoDomain, d}
        BY <2>1, <2>3, <2>6 DEF WriteRoute, RouteInv, CallRoutes, InitRoutes
      <4>2. gwFile[gwCall.p] # d
        BY <2>1, <2>2, <4>1, GatewayAssumption, SMT
      <4> QED BY <4>1, <4>2
    <3>2. CASE /\ gwFile' = [gwFile EXCEPT ![gwCall.p] = d]
               /\ reserved' = [reserved EXCEPT ![d] = gwCall.p]
               /\ GwResult("ok") \/ GwResult("init")
      <4>1. \A p \in Proxies, e \in Domains : (reserved'[e] = p) <=> (gwFile'[p] = e)
        BY <2>1, <2>2, <3>1, <3>2, GatewayAssumption, SMT
      <4>2. /\ gwFile' \in [Proxies -> Domains \cup {NoDomain, TornFile}]
            /\ reserved' \in [Domains -> Proxies \cup {NoProxy}]
        BY <2>1, <2>2, <3>1, <3>2
      <4>3. /\ \A p \in Proxies \ {gwCall.p} : gwFile'[p] = gwFile[p]
            /\ gwFile'[gwCall.p] = d
        BY <2>1, <2>2, <3>2, SMT
      <4>4. UNCHANGED <<gwWants, nnc, strayNnc>>
        BY <2>6 DEF WriteRoute
      <4>5. CASE GwResult("ok")
        BY <2>1, <3>1, <4>1, <4>2, <4>3, <4>4, <4>5, <1>RouteInvResult
      <4>6. CASE GwResult("init")
        BY <2>1, <3>1, <4>1, <4>2, <4>3, <4>4, <4>6, <1>RouteInvResult
      <4> QED BY <3>2, <4>5, <4>6
    <3>3. CASE /\ gwFile' = [gwFile EXCEPT ![gwCall.p] = TornFile]
               /\ GwResult("error") /\ UNCHANGED reserved
      <4>1. \A p \in Proxies, e \in Domains : (reserved'[e] = p) <=> (gwFile'[p] = e)
        BY <2>1, <2>2, <3>1, <3>3, GatewayAssumption, SMT
      <4>2. /\ gwFile' \in [Proxies -> Domains \cup {NoDomain, TornFile}]
            /\ \A p \in Proxies \ {gwCall.p} : gwFile'[p] = gwFile[p]
        BY <2>1, <2>2, <3>3, SMT
      <4> QED BY <2>1, <2>2, <2>6, <3>3, <4>1, <4>2, <1>RouteInvResult DEF WriteRoute
    <3> QED BY <2>6, <3>2, <3>3 DEF WriteRoute
  <2>7. CASE DestroyNNC
    BY <2>1, <2>7, <1>RouteInvGoesOn DEF DestroyNNC
  <2>8. CASE DeleteNamedProxy
    <3>1. CASE /\ gwFile' = [gwFile EXCEPT ![gwCall.p] = NoDomain]
               /\ reserved' = [d \in Domains |->
                                 IF d = gwFile[gwCall.p] THEN NoProxy ELSE reserved[d]]
               /\ GwResult("deleted")
      <4>1. \A p \in Proxies, e \in Domains : (reserved'[e] = p) <=> (gwFile'[p] = e)
        BY <2>1, <2>2, <3>1, GatewayAssumption, SMT
      <4>2. /\ gwFile' \in [Proxies -> Domains \cup {NoDomain, TornFile}]
            /\ reserved' \in [Domains -> Proxies \cup {NoProxy}]
            /\ \A p \in Proxies \ {gwCall.p} : gwFile'[p] = gwFile[p]
            /\ gwFile'[gwCall.p] = NoDomain
        BY <2>1, <2>2, <3>1, SMT
      <4>3. gwCall.p \notin nnc \ strayNnc /\ UNCHANGED <<gwWants, nnc, strayNnc>>
        BY <2>8 DEF DeleteNamedProxy, RouteInv, CallRoutes
      <4> QED BY <2>1, <3>1, <4>1, <4>2, <4>3, <1>RouteInvResult
    <3>2. CASE GwResult("error") /\ UNCHANGED <<gwFile, reserved>>
      BY <2>1, <2>2, <2>8, <3>2, <1>RouteInvResult DEF DeleteNamedProxy
    <3> QED BY <2>8, <3>1, <3>2 DEF DeleteNamedProxy
  <2> QED BY <2>4, <2>5, <2>6, <2>7, <2>8 DEF GwCallStep
\* The validator keeps it: all it does to a route is to call DeleteNamedProxy.
<1>RouteInvValidator. ASSUME RouteInv, ValidatorStep
    PROVE  RouteInv'
  <2> USE <1>RouteInvValidator
  <2> USE GatewayAssumption DEF RouteInv, RouteTypes, InitRoutes, CallRoutes, GatewayRoutes,
          GwIdle, gwOnNode, ValidatorAt
  <2>1. CASE CopyReserved BY <2>1, SMTT(30) DEF CopyReserved, Domains
  <2>2. CASE ValidateNext BY <2>2, SMTT(30) DEF ValidateNext
  <2>3. CASE Decommission BY <2>3, SMTT(30) DEF Decommission
  <2>4. CASE DecommissionDelete BY <2>4, SMT DEF DecommissionDelete
  <2> QED BY <2>1, <2>2, <2>3, <2>4 DEF ValidatorStep
\* A restart keeps it: the files are what a call cut short left, which is no
\* domain of another proxy, and loadDomains reads them.
<1>RouteInvRestart. ASSUME RouteInv, GatewayRestart
    PROVE  RouteInv'
  <2> USE <1>RouteInvRestart
  <2>1. /\ gwFile \in [Proxies -> Domains \cup {NoDomain, TornFile}]
        /\ gwState \in [Proxies -> {"none", "init", "ok", "error", "deleted"}]
        /\ \A p \in Proxies, d \in Domains : (reserved[d] = p) <=> (gwFile[p] = d)
    BY DEF RouteInv, RouteTypes, GatewayRoutes
  <2>2. /\ gwCall' = GwIdle /\ validator'.todo = {} /\ validator'.at = "wait"
        /\ UNCHANGED <<gwWants, nnc, strayNnc>> /\ reserved' = LoadDomains(gwFile')
    BY DEF GatewayRestart
  <2>3. \/ gwFile' = gwFile
        \/ gwCall.at # "idle" /\ \E f \in LeftInFile : gwFile' = [gwFile EXCEPT ![gwCall.p] = f]
    BY DEF GatewayRestart, LeftInFile
  <2> gwCall.at # "idle" => gwCall.p \in Proxies
    BY DEF RouteInv, RouteTypes
  <2>4. /\ gwFile' \in [Proxies -> Domains \cup {NoDomain, TornFile}]
        /\ \A p, q \in Proxies : gwFile'[p] \in Domains /\ gwFile'[p] = gwFile'[q] => p = q
    <3>1. CASE gwFile' = gwFile
      BY <2>1, <3>1, SMTT(30)
    <3>2. CASE gwFile' # gwFile
      <4> PICK f \in LeftInFile : gwFile' = [gwFile EXCEPT ![gwCall.p] = f]
        BY <2>3, <3>2
      <4> gwCall.p \in Proxies
        BY <2>3, <3>2
      <4>1. /\ f \in Domains \cup {NoDomain, TornFile}
            /\ f \in Domains => \A p \in Proxies : gwFile[p] # f
        BY <2>1, GatewayAssumption, SMT DEF LeftInFile, RouteInv, CallRoutes, InitRoutes
      <4>2. gwFile' \in [Proxies -> Domains \cup {NoDomain, TornFile}]
        BY <2>1, <4>1
      <4>3. \A p \in Proxies : gwFile'[p] = IF p = gwCall.p THEN f ELSE gwFile[p]
        BY <2>1
      <4> QED BY <2>1, <4>1, <4>2, <4>3, GatewayAssumption, SMT
    <3> QED BY <3>1, <3>2
  <2>5. /\ reserved' \in [Domains -> Proxies \cup {NoProxy}]
        /\ \A p \in Proxies, d \in Domains : (reserved'[d] = p) <=> (gwFile'[p] = d)
    BY <2>2, <2>4, <1>LoadedDomains, SMT
  <2>6. /\ gwState' \in [Proxies -> {"none", "init", "ok", "error", "deleted"}]
        /\ \A p \in Proxies : \/ gwState'[p] = "error"
                              \/ gwState'[p] = gwState[p] /\ gwFile'[p] = gwFile[p]
    <3>1. CASE gwCall.at = "idle"
      BY <2>1, <2>3, <3>1 DEF GatewayRestart
    <3>2. CASE gwCall.at # "idle"
      <4>1. gwCall.p \in Proxies /\ gwState' = [gwState EXCEPT ![gwCall.p] = "error"]
        BY <3>2 DEF RouteInv, RouteTypes, GatewayRestart
      <4> QED BY <2>1, <2>3, <4>1, SMT
    <3> QED BY <3>1, <3>2
  <2>7. RouteTypes' /\ CallRoutes'
    BY <2>2, <2>4, <2>5, <2>6 DEF RouteInv, RouteTypes, CallRoutes, GwIdle
  <2>8. InitRoutes' /\ GatewayRoutes'
    BY <2>2, <2>5, <2>6, SMT DEF RouteInv, InitRoutes, GatewayRoutes
  <2> QED BY <2>7, <2>8 DEF RouteInv
\* A reboot and the chain keep it.
<1>RouteInvOthers. ASSUME RouteInv,
           \/ GatewayReboot
           \/ \E d \in NameDomains : \E holders \in SUBSET Proxies : ChangeName(d, holders)
    PROVE  RouteInv'
  <2> USE <1>RouteInvOthers
  <2>1. CASE GatewayReboot
    <3>1. /\ \A p \in Proxies : gwFile'[p] = NoDomain /\ p \notin nnc'
          /\ \A d \in Domains : reserved'[d] = NoProxy
          /\ validator'.todo = {} /\ validator'.at = "wait" /\ gwCall'.at = "idle"
          /\ gwCall' = GwIdle /\ gwWants' = gwWants
      BY <2>1 DEF GatewayReboot, GwIdle
    <3>2. \A p \in Proxies : gwState'[p] = IF gwState[p] = "ok" THEN "init" ELSE gwState[p]
      BY <2>1 DEF GatewayReboot
    <3>3. RouteTypes'
      BY <2>1, <3>1 DEF RouteInv, RouteTypes, GatewayReboot, GwIdle
    <3>4. InitRoutes' /\ CallRoutes'
      BY <3>1, <3>2 DEF RouteInv, RouteTypes, InitRoutes, CallRoutes
    <3>5. GatewayRoutes'
      BY <3>1, <3>2, GatewayAssumption DEF GatewayRoutes
    <3> QED BY <3>3, <3>4, <3>5 DEF RouteInv
  <2>2. ASSUME NEW d \in NameDomains, NEW holders \in SUBSET Proxies, ChangeName(d, holders)
        PROVE  RouteInv'
    BY <2>2, SMT DEF ChangeName, gwOnNode, RouteInv, RouteTypes, InitRoutes, CallRoutes, GatewayRoutes
  <2> QED BY <2>1, <2>2
<1>1. RouteInv /\ [GatewayNext]_gwVars => RouteInv'
  <2> SUFFICES ASSUME RouteInv, [GatewayNext]_gwVars PROVE RouteInv'
    OBVIOUS
  <2>1. CASE GatewayNext
    BY <2>1, <1>RouteInvEngine, <1>RouteInvCall, <1>RouteInvValidator, <1>RouteInvRestart, <1>RouteInvOthers
       DEF GatewayNext, GwEngine
  <2>2. CASE UNCHANGED gwVars
    BY <2>2, SMT DEF gwVars, gwOnNode, RouteInv, RouteTypes, InitRoutes, CallRoutes, GatewayRoutes
  <2> QED BY <2>1, <2>2
<1>2. RouteInv => GatewayRoutes
  BY DEF RouteInv
<1> QED BY <1>RouteInvInit, <1>1, <1>2, PTL DEF GatewaySpec
-----------------------------------------------------------------------------
\* The power server: a node that is off starts over with the sync, and a server
\* about to shut its node down has set the state.

\* the type the proof needs: a server on every node
ServerTypes == server = [n \in PowerNodes |-> server[n]]

\* a node that is off starts over with the sync when it is woken up
OffStartsOver == \A n \in PowerNodes \ powered : server[n].at = "sync"

\* the state is set before the shutdown
HaltIsAnnounced ==
    \A n \in PowerNodes : server[n].at = "halt" /\ n \in WakeOnLan => n \notin stateUp

\* the inductive invariant of the power server
PowerInv == ServerTypes /\ OffStartsOver /\ HaltIsAnnounced /\ OffIsAnnounced
-----------------------------------------------------------------------------
\* A node is never off while the chain says it is up: whatever targets are set,
\* events are stale and calls fail, the power server announces the shutdown
\* first, and nothing announces the node up before it is on again.
THEOREM OffIsAnnouncedAlways == PowerSpec => []OffIsAnnounced
\* The first state satisfies the invariant: every node is on and syncs.
<1>PowerInvInit. PowerInit => PowerInv
  BY SMT DEF PowerInit, PowerInv, ServerTypes, OffStartsOver, HaltIsAnnounced, OffIsAnnounced, At
\* The loop of a node keeps it: the server sets the state of its own node only,
\* and shuts down after it did.
<1>PowerInvLoop. ASSUME PowerInv, NEW n \in PowerNodes, PowerLoop(n)
    PROVE  PowerInv'
  <2> USE <1>PowerInvLoop
  <2> USE DEF PowerInv, ServerTypes, OffStartsOver, HaltIsAnnounced, OffIsAnnounced, At, Goto,
          InOrOut, chainVars
  <2>1. CASE SyncSelf(n) BY <2>1, SMTT(30) DEF SyncSelf
  <2>2. CASE SetNodePowerState(n) BY <2>2, SMTT(30) DEF SetNodePowerState
  <2>3. CASE Shutdown(n) BY <2>3, SMTT(30) DEF Shutdown
  <2>4. CASE Event(n) BY <2>4, SMT DEF Event
  <2>5. CASE PowerUp(n) BY <2>5 DEF PowerUp
  <2> QED BY <2>1, <2>2, <2>3, <2>4, <2>5 DEF PowerLoop
\* The farmer, noded and a restart of powerd keep it.
<1>PowerInvOthers. ASSUME PowerInv, NEW n \in PowerNodes,
           StartFeed(n) \/ SetTarget(n) \/ PowerdRestart(n)
    PROVE  PowerInv'
  <2> USE <1>PowerInvOthers
  <2> USE DEF PowerInv, ServerTypes, OffStartsOver, HaltIsAnnounced, OffIsAnnounced, At, Goto,
          chainVars
  <2>1. CASE StartFeed(n) BY <2>1 DEF StartFeed
  <2>2. CASE SetTarget(n) BY <2>2 DEF SetTarget
  <2>3. CASE PowerdRestart(n) BY <2>3 DEF PowerdRestart
  <2> QED BY <2>1, <2>2, <2>3
<1>1. PowerInv /\ [PowerNext]_powerVars => PowerInv'
  <2> SUFFICES ASSUME PowerInv, [PowerNext]_powerVars PROVE PowerInv'
    OBVIOUS
  <2>1. CASE PowerNext
    BY <2>1, <1>PowerInvLoop, <1>PowerInvOthers DEF PowerNext
  <2>2. CASE UNCHANGED powerVars
    BY <2>2 DEF powerVars, chainVars, PowerInv, ServerTypes, OffStartsOver, HaltIsAnnounced,
       OffIsAnnounced
  <2> QED BY <2>1, <2>2
<1>2. PowerInv => OffIsAnnounced
  BY DEF PowerInv
<1> QED BY <1>PowerInvInit, <1>1, <1>2, PTL DEF PowerSpec
-----------------------------------------------------------------------------
\* The registrar: its steps are in order, and each is seen on the chain.

\* a registration passes its steps in order, each leaves its mark on the chain
RegTypes ==
    /\ chainTwins \in {0, 1} /\ chainNodes \in {0, 1}
    /\ regStep = [at |-> regStep.at, addr |-> regStep.addr]
    /\ idCall = [at |-> idCall.at, id |-> idCall.id, done |-> idCall.done]

\* what the steps passed have put on the chain
OnChain ==
    /\ regStep.at \in {"node", "update", "subscribe", "watch"} => chainTwins = 1
    /\ regStep.at \in {"update", "subscribe", "watch"} => chainNodes = 1
    /\ regStep.at \in {"subscribe", "watch"} => chainAddress = regStep.addr

\* an id that is known, or about to be answered, is on the chain
KnownWhenDone ==
    /\ registration.state = "Done" => registration.node = 1 /\ registration.twin = 1 /\ chainNodes = 1
    /\ idCall.at \in {"state", "answer"} /\ idCall.done => idCall.id = 1 /\ chainNodes = 1
    /\ idCall.at = "answer" => chainNodes = 1

\* the inductive invariant of the registrar
RegInv == RegTypes /\ OnChain /\ KnownWhenDone

\* The registrar and the chain agree on who the node is: one twin and one node,
\* Done only once both are there, and NodeID answers with what is on the chain
\* (register, NodeID, returnIfDone).
THEOREM RegistrationKnownAlways == RegistrarSpec => []RegistrationKnown
\* The first state satisfies the invariant: nothing is registered.
<1>RegInvInit. RegistrarInit => RegInv
  BY SMT DEF RegistrarInit, RegInv, RegTypes, OnChain, KnownWhenDone, InProgress, Done, NoIDCall
\* A registration keeps it: it creates the twin and the node it does not find.
<1>RegInvRegister. ASSUME RegInv, RegisterStep
    PROVE  RegInv'
  <2> USE <1>RegInvRegister
  <2> USE DEF RegInv, RegTypes, OnChain, KnownWhenDone, RegGoto, Retry, Failed, Done, regChain
  <2>1. CASE ReadAddrs BY <2>1, SMTT(30) DEF ReadAddrs
  <2>2. CASE EnsureTwin BY <2>2, SMTT(30) DEF EnsureTwin
  <2>3. CASE EnsureNode BY <2>3, SMTT(30) DEF EnsureNode
  <2>4. CASE UpdateNode BY <2>4, SMT DEF UpdateNode
  <2>5. CASE Subscribe BY <2>5 DEF Subscribe
  <2> QED BY <2>1, <2>2, <2>3, <2>4, <2>5 DEF RegisterStep
\* The callers of NodeID, address changes, timers and restarts keep it: the chain
\* forgets no node.
<1>RegInvOthers. ASSUME RegInv,
           \/ AddressChange \/ AddressUpdate \/ Tick \/ AccountTimer \/ UpdateTimer
           \/ RegistrarRestart \/ NodeIDRead \/ NodeIDReturn
    PROVE  RegInv'
  <2> USE <1>RegInvOthers
  <2> USE DEF RegInv, RegTypes, OnChain, KnownWhenDone, RegGoto, Done, regChain
  <2>1. CASE AddressChange BY <2>1 DEF AddressChange
  <2>2. CASE AddressUpdate BY <2>2 DEF AddressUpdate
  <2>3. CASE Tick BY <2>3 DEF Tick
  <2>4. CASE AccountTimer BY <2>4 DEF AccountTimer
  <2>5. CASE UpdateTimer BY <2>5 DEF UpdateTimer
  <2>6. CASE RegistrarRestart BY <2>6 DEF RegistrarRestart, InProgress, NoIDCall
  <2>7. CASE NodeIDRead
    <3>1. /\ idCall'.at = "state" /\ idCall'.id = registration.node
          /\ idCall'.done = (registration.state = "Done")
          /\ idCall' = [at |-> idCall'.at, id |-> idCall'.id, done |-> idCall'.done]
      BY <2>7 DEF NodeIDRead
    <3>2. idCall'.done => idCall'.id = 1 /\ chainNodes = 1
      BY <3>1
    <3> QED BY <2>7, <3>1, <3>2 DEF NodeIDRead
  <2>8. CASE NodeIDReturn BY <2>8 DEF NodeIDReturn, NoIDCall
  <2> QED BY <2>1, <2>2, <2>3, <2>4, <2>5, <2>6, <2>7, <2>8
<1>1. RegInv /\ [RegistrarNext]_registrarVars => RegInv'
  <2> SUFFICES ASSUME RegInv, [RegistrarNext]_registrarVars PROVE RegInv'
    OBVIOUS
  <2>1. CASE RegistrarNext
    BY <2>1, <1>RegInvRegister, <1>RegInvOthers DEF RegistrarNext
  <2>2. CASE UNCHANGED registrarVars
    BY <2>2 DEF registrarVars, regChain, RegInv, RegTypes, OnChain, KnownWhenDone
  <2> QED BY <2>1, <2>2
<1>2. RegInv => RegistrationKnown
  BY SMT DEF RegInv, RegTypes, OnChain, KnownWhenDone, RegistrationKnown, RegisteredOnce,
             DoneIsRegistered, AnsweredID, Done
<1> QED BY <1>RegInvInit, <1>1, <1>2, PTL DEF RegistrarSpec
-----------------------------------------------------------------------------
\* The event stream: what the processor takes for done is in the stream, and at
\* most one entry is read and not acknowledged.

\* the part of the types the proof needs
EventTypes ==
    /\ blocks \in Nat \ {0} /\ origin \in Nat /\ origin < blocks
    /\ lastBlock \in Nat /\ stateFile \in Nat \cup {NoFile, Empty}
    /\ walker = [at |-> walker.at, head |-> walker.head, block |-> walker.block]
    /\ walker.head \in Nat /\ walker.block \in Nat
    /\ stream \in Seq(Nat) /\ trimmed \in Nat
    /\ handled \subseteq Nat /\ lossy \in BOOLEAN

\* the blocks up to n that the processor follows are in the stream
Pushed(n) == \A j \in Nat : origin < j /\ j <= n => \E e \in 1 .. Len(stream) : stream[e] = j

\* what the processor takes for done is in the stream, in order
ProcessorInv ==
    /\ Pushed(lastBlock)
    /\ stateFile \in Nat => Pushed(stateFile)
    /\ walker.at = "blocks" => Pushed(walker.block - 1)
    /\ \A e \in 1 .. Len(stream) : \A j \in Nat :
          origin < j /\ j < stream[e] => \E f \in 1 .. e - 1 : stream[f] = j

\* at most one entry is read and not acknowledged: the last one read
ConsumerInv ==
    /\ groupNext \in Nat \ {0} /\ groupNext <= Len(stream) + 1 /\ trimmed < groupNext
    /\ \A e \in unacked : e = groupNext - 1 /\ e > trimmed
    /\ \A e \in batch : e \in 1 .. groupNext - 1 /\ (e = groupNext - 1 \/ lossy)
    /\ handing \in 0 .. groupNext - 1 /\ (handing # 0 => stream[handing] \in handled)

\* every entry that was read is handled, or not acknowledged
HandledInv ==
    \A e \in 1 .. groupNext - 1 :
        ~ lossy \/ trimmed < e => stream[e] \in handled \/ e \in unacked

\* the inductive invariant of the event stream
EventInv == EventTypes /\ (lossy \/ ProcessorInv) /\ ConsumerInv /\ HandledInv /\ NoGap

\* The handler received every event before the ones it received, and an entry
\* that was read is handled or not acknowledged: whatever is pushed twice, read
\* again or restarted, unless the stream overran (eventsTo, consumer).
THEOREM NothingLostAlways == EventSpec => []NothingLost
\* The next number.
<1>NextNat. \A n \in Nat : n + 1 \in Nat
  BY SMT
\* The numbers of the stream and of the group, for the arithmetic.
<1>EventNumbers. ASSUME EventInv
    PROVE  /\ trimmed \in Nat /\ Len(stream) \in Nat /\ groupNext \in Nat \ {0}
           /\ origin \in Nat /\ groupNext <= Len(stream) + 1 /\ trimmed < groupNext
           /\ \A e \in unacked : e = groupNext - 1 /\ e > trimmed
           /\ \A e \in 1 .. groupNext - 1 : e \in 1 .. Len(stream) /\ stream[e] \in Nat
  <2> USE <1>EventNumbers
  <2>1. stream \in Seq(Nat) BY DEF EventInv, EventTypes
  <2>2. groupNext \in Nat \ {0} /\ groupNext <= Len(stream) + 1
    BY DEF EventInv, ConsumerInv
  <2>3. /\ Len(stream) \in Nat
        /\ \A e \in 1 .. groupNext - 1 : e \in 1 .. Len(stream) /\ stream[e] \in Nat
    BY <2>1, <2>2, SMT
  <2> QED BY <2>2, <2>3 DEF EventInv, EventTypes, ConsumerInv
\* The first state satisfies the invariant: the stream is empty.
<1>EventInvInit. EventInit => EventInv
  <2> SUFFICES ASSUME EventInit PROVE EventInv
    OBVIOUS
  <2>1. EventTypes
    <3>1. <<>> \in Seq(Nat) BY SMT
    <3>2. 1 \in Nat \ {0} /\ 0 \in Nat /\ 0 < 1 BY SMT
    <3> QED BY <3>1, <3>2 DEF EventInit, EventTypes, Waiting
  <2>2. ProcessorInv BY SMT DEF EventInit, ProcessorInv, Pushed, Waiting, NoFile
  <2>3. ConsumerInv BY SMT DEF EventInit, ConsumerInv
  <2>4. HandledInv BY SMT DEF EventInit, HandledInv
  <2>5. NoGap BY DEF EventInit, NoGap
  <2> QED BY <2>1, <2>2, <2>3, <2>4, <2>5 DEF EventInv
\* A step that does not touch the stream keeps the part of the consumer.
<1>ConsumerKept. ASSUME EventInv, UNCHANGED <<stream, trimmed, groupVars, lossy>>,
           origin' \in Nat, origin <= origin'
    PROVE  ConsumerInv' /\ HandledInv' /\ NoGap'
  <2> USE <1>ConsumerKept
  <2> USE DEF groupVars
  <2>1. ConsumerInv' BY DEF EventInv, ConsumerInv
  <2>2. HandledInv' BY DEF EventInv, HandledInv
  <2>3. NoGap' BY SMTT(20) DEF EventInv, EventTypes, NoGap
  <2> QED BY <2>1, <2>2, <2>3
\* The processor keeps it: its state is behind what it pushed.
<1>EventInvProcessor. ASSUME EventInv, \/ NewBlock \/ NewHead \/ Resubscribe \/ BlockError \/ SetMemory
                     \/ TruncateFile \/ WriteFile \/ NodedRestart
    PROVE  EventInv'
  <2> USE <1>EventInvProcessor
  <2>1. /\ UNCHANGED <<stream, trimmed, groupVars, lossy>>
        /\ origin' \in Nat /\ origin <= origin' /\ origin' < blocks'
        /\ NewHead \/ origin' = origin
    <3> USE DEF EventInv, EventTypes, walkerVars
    <3>1. CASE NewBlock BY <3>1, SMTT(30) DEF NewBlock
    <3>2. CASE NewHead BY <3>2, SMTT(30) DEF NewHead
    <3>3. CASE Resubscribe BY <3>3, SMT DEF Resubscribe
    <3>4. CASE BlockError BY <3>4, SMTT(30) DEF BlockError
    <3>5. CASE SetMemory BY <3>5, SMT DEF SetMemory
    <3>6. CASE TruncateFile BY <3>6, SMTT(30) DEF TruncateFile
    <3>7. CASE WriteFile BY <3>7, SMTT(30) DEF WriteFile
    <3>8. CASE NodedRestart BY <3>8, SMT DEF NodedRestart
    <3> QED BY <3>1, <3>2, <3>3, <3>4, <3>5, <3>6, <3>7, <3>8
  <2>2. ConsumerInv' /\ HandledInv' /\ NoGap'
    BY <2>1, <1>ConsumerKept
  <2>3. EventTypes'
    <3> USE DEF EventInv, EventTypes, walkerVars, groupVars
    <3>1. CASE NewBlock BY <2>1, <3>1, SMT DEF NewBlock
    <3>2. CASE NewHead
      <4>1. PICK head \in 1 .. blocks :
               walker' = [at |-> "blocks", head |-> head, block |-> StateGet + 1]
        BY <3>2 DEF NewHead
      <4>2. head \in Nat /\ StateGet + 1 \in Nat
        <5>1. blocks \in Nat \ {0} /\ head \in Nat /\ blocks - 1 \in Nat
          BY <2>1, SMTT(20)
        <5>2. StateGet \in Nat
          BY <2>1, <3>2, <5>1 DEF NewHead, StateGet
        <5> QED BY <5>1, <5>2, <1>NextNat
      <4>3. walker'.at = "blocks" /\ walker'.head = head /\ walker'.block = StateGet + 1
        BY <4>1
      <4> QED BY <2>1, <3>2, <4>1, <4>2, <4>3 DEF NewHead
    <3>3. CASE Resubscribe BY <2>1, <3>3, SMTT(30) DEF Resubscribe, Waiting
    <3>4. CASE BlockError BY <2>1, <3>4, SMTT(30) DEF BlockError, Waiting
    <3>5. CASE SetMemory BY <2>1, <3>5, SMTT(30) DEF SetMemory
    <3>6. CASE TruncateFile BY <2>1, <3>6, SMTT(30) DEF TruncateFile
    <3>7. CASE WriteFile BY <2>1, <3>7, SMTT(30) DEF WriteFile, Waiting
    <3>8. CASE NodedRestart BY <2>1, <3>8, SMT DEF NodedRestart, Waiting
    <3> QED BY <3>1, <3>2, <3>3, <3>4, <3>5, <3>6, <3>7, <3>8
  <2>4. ASSUME ProcessorInv PROVE ProcessorInv'
    <3>1. /\ \A j \in Nat : origin' < j => origin < j
          /\ lastBlock \in Nat /\ walker.head \in Nat /\ walker.block \in Nat
          /\ NoFile \notin Nat /\ Empty \notin Nat
      BY <2>1, SMT DEF EventInv, EventTypes, NoFile, Empty
    <3> DEFINE Then(n) ==
          \A j \in Nat : origin' < j /\ j <= n => \E e \in 1 .. Len(stream') : stream'[e] = j
    <3>2. ASSUME NEW m \in Int, NEW n \in Int, m <= n, Pushed(n) PROVE Then(m)
      <4>1. \A j \in Nat : j <= m => j <= n BY <3>2, SMT
      <4> QED BY <2>1, <3>1, <3>2, <4>1 DEF Pushed
    <3>3. ASSUME NEW n \in Nat, Pushed(n) PROVE Then(n)
      BY <2>1, <3>1, <3>3 DEF Pushed
    <3>4. /\ Pushed(lastBlock)' <=> Then(lastBlock')
          /\ Pushed(stateFile)' <=> Then(stateFile')
          /\ Pushed(walker.block - 1)' <=> Then(walker'.block - 1)
      BY DEF Pushed
    <3> HIDE DEF Then
    <3>5. (\A e \in 1 .. Len(stream) : \A j \in Nat :
            origin < j /\ j < stream[e] => \E f \in 1 .. e - 1 : stream[f] = j)'
      BY <2>1, <2>4, <3>1 DEF ProcessorInv
    <3>6. Then(lastBlock')
      <4>1. CASE lastBlock' = lastBlock BY <2>4, <3>1, <3>3, <4>1 DEF ProcessorInv
      <4>2. CASE SetMemory
        <5>1. /\ lastBlock' = walker.head /\ walker.head <= walker.block - 1
              /\ walker.block - 1 \in Int /\ walker.head \in Int /\ walker.at = "blocks"
          BY <3>1, <4>2, SMT DEF SetMemory
        <5> QED BY <2>4, <3>2, <5>1 DEF ProcessorInv
      <4>3. CASE lastBlock' = 0
        <5>1. \A j \in Nat : ~ (origin' < j /\ j <= 0) BY <2>1, SMT
        <5> QED BY <4>3, <5>1 DEF Then
      <4> QED BY <4>1, <4>2, <4>3 DEF NewBlock, NewHead, Resubscribe, BlockError, TruncateFile, WriteFile,
                  NodedRestart, walkerVars
    <3>7. stateFile' \in Nat => Then(stateFile')
      <4>1. stateFile' = stateFile \/ stateFile' = Empty \/ stateFile' = lastBlock
        BY DEF NewBlock, NewHead, Resubscribe, BlockError, SetMemory, TruncateFile, WriteFile,
               NodedRestart, walkerVars
      <4> QED BY <2>4, <3>1, <3>3, <4>1 DEF ProcessorInv
    <3>8. walker'.at = "blocks" => Then(walker'.block - 1)
      <4>1. CASE NewHead
        <5>1. PICK head \in 1 .. blocks :
                 walker' = [at |-> "blocks", head |-> head, block |-> StateGet + 1]
          BY <4>1 DEF NewHead
        <5>2. /\ walker'.block - 1 = StateGet
              /\ \/ lastBlock # 0 /\ StateGet = lastBlock
                 \/ stateFile \in Nat /\ StateGet = stateFile
                 \/ StateGet = blocks - 1 /\ origin' = blocks - 1
          BY <3>1, <4>1, <5>1, SMTT(30) DEF NewHead, StateGet, EventInv, EventTypes, NoFile, Empty
        <5>3. CASE StateGet = blocks - 1 /\ origin' = blocks - 1
          <6>1. \A j \in Nat : ~ (origin' < j /\ j <= walker'.block - 1)
            BY <2>1, <5>2, <5>3, SMT DEF EventInv, EventTypes
          <6> QED BY <6>1 DEF Then
        <5>4. CASE lastBlock # 0 /\ StateGet = lastBlock
          BY <2>4, <3>1, <3>3, <5>2, <5>4 DEF ProcessorInv
        <5>5. CASE stateFile \in Nat /\ StateGet = stateFile
          BY <2>4, <3>3, <5>2, <5>5 DEF ProcessorInv
        <5> QED BY <5>2, <5>3, <5>4, <5>5
      <4>2. CASE walker' = walker
        <5>1. walker.block - 1 \in Int /\ walker.block - 1 <= walker.block - 1 BY <3>1, SMT
        <5> QED BY <2>4, <3>2, <4>2, <5>1 DEF ProcessorInv
      <4>3. NewHead \/ walker' = walker \/ walker'.at # "blocks"
        <5>1. /\ Waiting.at = "wait" /\ \A h : [Waiting EXCEPT !.head = h].at = "wait"
              /\ \A t : [walker EXCEPT !.at = t].at = t
          BY DEF Waiting, EventInv, EventTypes
        <5> QED BY <5>1 DEF NewBlock, NewHead, Resubscribe, BlockError, SetMemory, TruncateFile, WriteFile,
                 NodedRestart, walkerVars
      <4> QED BY <4>1, <4>2, <4>3
    <3> QED BY <3>4, <3>5, <3>6, <3>7, <3>8 DEF ProcessorInv
  <2> QED BY <2>1, <2>2, <2>3, <2>4 DEF EventInv
\* A block is pushed at the end of the stream, after the ones before it.
<1>EventInvPush. ASSUME EventInv, PushBlock
    PROVE  EventInv'
  <2> USE <1>EventInvPush
  <2>1. /\ walker.at = "blocks" /\ walker.block \in Nat /\ stream \in Seq(Nat)
        /\ UNCHANGED <<blocks, lastBlock, stateFile, origin, trimmed, groupVars>>
        /\ walker' = [at |-> "blocks", head |-> walker.head, block |-> walker.block + 1]
    BY DEF PushBlock, EventInv, EventTypes
  <2>2. walker'.at = "blocks" /\ walker'.head = walker.head /\ walker'.block = walker.block + 1
    BY <2>1
  <2>3. CASE stream' = Append(stream, walker.block) /\ lossy' = lossy
    <3>1. /\ stream' \in Seq(Nat) /\ Len(stream') = Len(stream) + 1 /\ Len(stream) \in Nat
          /\ stream'[Len(stream) + 1] = walker.block
          /\ \A e \in 1 .. Len(stream) : stream'[e] = stream[e]
      BY <2>1, <2>3, SMT
    <3>2. EventTypes'
      <4>1. walker'.head \in Nat /\ walker'.block \in Nat /\ walker' = [at |-> walker'.at, head |-> walker'.head, block |-> walker'.block]
        BY <2>1, <2>2, <1>NextNat DEF EventInv, EventTypes
      <4> QED BY <2>1, <2>3, <3>1, <4>1 DEF EventInv, EventTypes, groupVars
    <3>3. ConsumerInv'
      <4>1. groupNext <= Len(stream') + 1
        BY <3>1, <1>EventNumbers, SMT
      <4>2. handing \in 0 .. groupNext - 1
        BY DEF EventInv, ConsumerInv
      <4>3. handing # 0 => handing \in 1 .. Len(stream)
        BY <4>2, <1>EventNumbers, SMTT(30)
      <4> QED BY <2>1, <2>3, <3>1, <4>1, <4>2, <4>3 DEF EventInv, ConsumerInv, groupVars
    <3>4. HandledInv' BY <2>1, <2>3, <3>1, SMTT(20) DEF EventInv, EventTypes, ConsumerInv, HandledInv, groupVars
    <3>5. NoGap' BY <2>1, <2>3 DEF EventInv, NoGap, groupVars
    <3>6. ASSUME ProcessorInv PROVE ProcessorInv'
      <4>1. \A e \in 1 .. Len(stream) : e \in 1 .. Len(stream')
        BY <3>1, SMT
      <4>2. Pushed(lastBlock)' BY <2>1, <3>1, <3>6, <4>1 DEF ProcessorInv, Pushed
      <4>3. (stateFile \in Nat => Pushed(stateFile))'
        BY <2>1, <3>1, <3>6, <4>1 DEF ProcessorInv, Pushed
      <4>4. Pushed(walker.block - 1)'
        <5>1. ASSUME NEW j \in Nat, origin < j, j <= walker.block
              PROVE  \E e \in 1 .. Len(stream') : stream'[e] = j
          <6>1. CASE j = walker.block
            <7>1. Len(stream) + 1 \in 1 .. Len(stream') BY <3>1, SMT
            <7> QED BY <3>1, <6>1, <7>1
          <6>2. CASE j # walker.block
            <7>1. j <= walker.block - 1 BY <2>1, <5>1, <6>2, SMTT(30)
            <7> QED BY <2>1, <3>1, <3>6, <4>1, <5>1, <7>1 DEF ProcessorInv, Pushed
          <6> QED BY <6>1, <6>2
        <5>2. walker'.block - 1 = walker.block BY <2>1, <2>2, SMT
        <5> QED BY <2>1, <5>1, <5>2 DEF Pushed
      <4>5. ASSUME NEW e \in 1 .. Len(stream'), NEW j \in Nat, origin < j, j < stream'[e]
            PROVE  \E f \in 1 .. e - 1 : stream'[f] = j
        <5>1. CASE e = Len(stream) + 1
          <6>1. j <= walker.block - 1 /\ e - 1 = Len(stream) BY <2>1, <3>1, <4>5, <5>1, SMT
          <6> QED BY <2>1, <3>1, <3>6, <4>5, <6>1 DEF ProcessorInv, Pushed
        <5>2. CASE e \in 1 .. Len(stream)
          <6>1. \A f \in 1 .. e - 1 : f \in 1 .. Len(stream) BY <3>1, <5>2, SMT
          <6>2. PICK f \in 1 .. e - 1 : stream[f] = j
            BY <3>1, <3>6, <4>5, <5>2 DEF ProcessorInv
          <6> QED BY <3>1, <6>1, <6>2
        <5> QED BY <3>1, <4>5, <5>1, <5>2, SMT
      <4> QED BY <2>1, <4>2, <4>3, <4>4, <4>5 DEF ProcessorInv
    <3> QED BY <2>3, <3>2, <3>3, <3>4, <3>5, <3>6 DEF EventInv
  <2>4. CASE stream' = stream /\ lossy' = TRUE
    <3>1. EventTypes'
      <4>1. walker'.head \in Nat /\ walker'.block \in Nat /\ walker' = [at |-> walker'.at, head |-> walker'.head, block |-> walker'.block]
        BY <2>1, <2>2, <1>NextNat DEF EventInv, EventTypes
      <4> QED BY <2>1, <2>4, <4>1 DEF EventInv, EventTypes, groupVars
    <3>2. ConsumerInv' BY <2>1, <2>4 DEF EventInv, ConsumerInv, groupVars
    <3>3. HandledInv' BY <2>1, <2>4 DEF EventInv, HandledInv, groupVars
    <3>4. NoGap' BY <2>4 DEF NoGap
    <3> QED BY <2>4, <3>1, <3>2, <3>3, <3>4 DEF EventInv
  <2> QED BY <2>3, <2>4 DEF PushBlock
\* A step that does not touch the stream keeps the part of the processor.
<1>ProcessorKept. ASSUME ProcessorInv, UNCHANGED <<walkerVars, stream>>
    PROVE  ProcessorInv'
  <2> USE <1>ProcessorKept
  <2> USE DEF walkerVars
  <2>1. Pushed(lastBlock)' /\ (stateFile \in Nat => Pushed(stateFile))'
    BY DEF ProcessorInv, Pushed
  <2>2. (walker.at = "blocks" => Pushed(walker.block - 1))'
    BY DEF ProcessorInv, Pushed
  <2> QED BY <2>1, <2>2 DEF ProcessorInv
\* Trimming keeps it: entries that go before they are read are recorded as lost.
<1>EventInvTrim. ASSUME EventInv, Trim
    PROVE  EventInv'
  <2> USE <1>EventInvTrim
  <2>1. /\ trimmed' = trimmed + 1 /\ trimmed' \in Nat /\ trimmed' <= Len(stream)
        /\ unacked' = unacked \ {trimmed'}
        /\ UNCHANGED <<blocks, walkerVars, stream, batch, handing, handled>>
    BY EventAssumption, <1>EventNumbers, SMTT(30) DEF Trim
  <2>2. CASE trimmed' >= groupNext
    <3>1. lossy' = TRUE /\ groupNext' = trimmed' + 1
      BY <2>2 DEF Trim
    <3>2. unacked = {} BY <2>1, <2>2, <1>EventNumbers, SMTT(30)
    <3>3. /\ groupNext' \in Nat \ {0} /\ groupNext' <= Len(stream) + 1 /\ trimmed' < groupNext'
          /\ \A e \in 0 .. groupNext - 1 : e \in 0 .. groupNext' - 1
          /\ \A e \in 1 .. groupNext - 1 : e \in 1 .. groupNext' - 1
          /\ \A e \in 1 .. groupNext' - 1 : ~ (trimmed' < e)
      BY <2>1, <2>2, <3>1, <1>EventNumbers, SMTT(20)
    <3>4. EventTypes' BY <2>1, <3>1 DEF EventInv, EventTypes, walkerVars
    <3>5. ConsumerInv' BY <2>1, <3>1, <3>2, <3>3 DEF EventInv, ConsumerInv
    <3>6. HandledInv' BY <2>1, <3>1, <3>3 DEF HandledInv
    <3>7. NoGap' BY <3>1 DEF NoGap
    <3> QED BY <3>1, <3>4, <3>5, <3>6, <3>7 DEF EventInv
  <2>3. CASE ~ (trimmed' >= groupNext)
    <3>1. groupNext' = groupNext /\ lossy' = (lossy \/ trimmed' \in unacked)
      BY <2>3 DEF Trim
    <3>2. lossy' \in BOOLEAN /\ (lossy => lossy') /\ (~ lossy' => unacked' = unacked)
      BY <2>1, <3>1
    <3>3. trimmed' < groupNext /\ \A e \in unacked' : e = groupNext - 1 /\ e > trimmed'
      BY <2>1, <2>3, <1>EventNumbers, SMTT(30)
    <3>4. /\ \A e \in 1 .. groupNext - 1 : trimmed' < e => trimmed < e
          /\ \A e \in 1 .. groupNext - 1 : trimmed' < e => e # trimmed'
      BY <2>1, <1>EventNumbers, SMT
    <3>5. EventTypes' BY <2>1, <3>2 DEF EventInv, EventTypes, walkerVars
    <3>6. ConsumerInv' BY <2>1, <3>1, <3>2, <3>3 DEF EventInv, ConsumerInv
    <3>7. HandledInv' BY <2>1, <3>1, <3>2, <3>4 DEF EventInv, HandledInv
    <3>8. NoGap' BY <2>1, <3>2 DEF EventInv, NoGap, walkerVars
    <3>9. lossy' \/ ProcessorInv'
      BY <2>1, <3>2, <1>ProcessorKept DEF EventInv
    <3> QED BY <3>5, <3>6, <3>7, <3>8, <3>9 DEF EventInv
  <2> QED BY <2>2, <2>3
\* The consumer keeps it: it acknowledges an entry after the handler received it.
<1>EventInvConsumer. ASSUME EventInv, Pop \/ HandOver \/ Ack \/ ConsumerRestart
    PROVE  EventInv'
  <2> USE <1>EventInvConsumer
  <2>1. UNCHANGED <<blocks, walkerVars, stream, trimmed, lossy>>
    BY DEF Pop, HandOver, Ack, ConsumerRestart
  <2>2. lossy' \/ ProcessorInv'
    BY <2>1, <1>ProcessorKept DEF EventInv
  <2>3. CASE Pop
    <3>1. UNCHANGED <<handing, handled>> /\ handing = 0
      BY <2>3 DEF Pop
    <3>2. EventTypes' /\ NoGap'
      BY <2>1, <3>1 DEF EventInv, EventTypes, NoGap, walkerVars
    <3>3. CASE unacked # {} /\ batch' = unacked /\ UNCHANGED <<groupNext, unacked>>
      <4>1. \A e \in unacked : e \in 1 .. groupNext - 1 /\ e = groupNext - 1
        BY <1>EventNumbers, SMT
      <4>2. ConsumerInv' BY <2>1, <3>1, <3>3, <4>1 DEF EventInv, ConsumerInv
      <4>3. HandledInv' BY <2>1, <3>1, <3>3 DEF EventInv, HandledInv
      <4> QED BY <2>2, <3>2, <4>2, <4>3 DEF EventInv
    <3>4. CASE /\ unacked = {} /\ groupNext <= Len(stream) /\ batch' = {groupNext}
               /\ unacked' = {groupNext} /\ groupNext' = groupNext + 1
      <4>1. /\ groupNext' \in Nat \ {0} /\ groupNext' <= Len(stream) + 1
            /\ groupNext = groupNext' - 1 /\ groupNext \in 1 .. groupNext' - 1
            /\ 0 \in 0 .. groupNext' - 1
            /\ \A e \in 1 .. groupNext' - 1 : e = groupNext \/ e \in 1 .. groupNext - 1
        BY <3>4, <1>EventNumbers, SMTT(30)
      <4>2. groupNext > trimmed /\ trimmed < groupNext + 1
        BY <1>EventNumbers, SMT
      <4>3. ConsumerInv' BY <2>1, <3>1, <3>4, <4>1, <4>2 DEF EventInv, ConsumerInv
      <4>4. HandledInv' BY <2>1, <3>1, <3>4, <4>1 DEF EventInv, HandledInv
      <4> QED BY <2>2, <3>2, <4>3, <4>4 DEF EventInv
    <3> QED BY <2>3, <3>3, <3>4 DEF Pop
  <2>4. CASE HandOver
    <3>1. /\ handing' \in batch /\ batch' = batch \ {handing'}
          /\ handled' = handled \cup {stream[handing']}
          /\ UNCHANGED <<groupNext, unacked>>
      BY <2>4 DEF HandOver
    <3>2. /\ handing' \in 1 .. groupNext - 1 /\ (handing' = groupNext - 1 \/ lossy)
          /\ handing' \in 1 .. Len(stream) /\ stream[handing'] \in Nat
          /\ handing' \in 0 .. groupNext - 1
      <4>1. handing' \in 1 .. groupNext - 1 /\ (handing' = groupNext - 1 \/ lossy)
        BY <3>1 DEF EventInv, ConsumerInv
      <4>2. handing' \in 0 .. groupNext - 1 BY <4>1, <1>EventNumbers, SMT
      <4> QED BY <4>1, <4>2, <1>EventNumbers
    <3>3. EventTypes' BY <2>1, <3>1, <3>2 DEF EventInv, EventTypes, walkerVars
    <3>4. ConsumerInv' BY <2>1, <3>1, <3>2 DEF EventInv, ConsumerInv
    <3>5. HandledInv' BY <2>1, <3>1 DEF EventInv, HandledInv
    <3>6. ASSUME ~ lossy, NEW i \in handled', NEW j \in origin + 1 .. i PROVE j \in handled'
      <4>1. CASE i \in handled BY <3>1, <3>6, <4>1 DEF EventInv, NoGap
      <4>2. CASE i = stream[handing']
        <5>1. CASE j = i BY <3>1, <4>2, <5>1
        <5>2. CASE j # i
          <6>1. j \in Nat /\ origin < j /\ j < stream[handing']
            BY <3>2, <3>6, <4>2, <5>2, <1>EventNumbers, SMT
          <6>2. PICK f \in 1 .. handing' - 1 : stream[f] = j
            BY <3>2, <3>6, <6>1 DEF EventInv, ProcessorInv
          <6>3. f \in 1 .. groupNext - 1 /\ f # groupNext - 1
            <7>1. groupNext \in Nat /\ f \in 1 .. (groupNext - 1) - 1
              BY <3>2, <3>6, <1>EventNumbers
            <7> QED BY <7>1, SMT
          <6>4. f \notin unacked BY <6>3 DEF EventInv, ConsumerInv
          <6> QED BY <3>1, <3>6, <6>2, <6>3, <6>4 DEF EventInv, HandledInv
        <5> QED BY <5>1, <5>2
      <4> QED BY <3>1, <3>6, <4>1, <4>2
    <3>7. NoGap' BY <2>1, <3>6 DEF NoGap, walkerVars
    <3> QED BY <2>2, <3>3, <3>4, <3>5, <3>7 DEF EventInv
  <2>5. CASE Ack
    <3>1. /\ handing # 0 /\ handing' = 0 /\ UNCHANGED <<groupNext, batch, handled>>
          /\ unacked' = unacked \/ unacked' = unacked \ {handing}
      BY <2>5 DEF Ack
    <3>2. EventTypes' /\ NoGap'
      BY <2>1, <3>1 DEF EventInv, EventTypes, NoGap, walkerVars
    <3>3. 0 \in 0 .. groupNext - 1 BY <1>EventNumbers, SMT
    <3>4. ConsumerInv' BY <2>1, <3>1, <3>3 DEF EventInv, ConsumerInv
    <3>5. HandledInv' BY <2>1, <3>1 DEF EventInv, HandledInv, ConsumerInv
    <3> QED BY <2>2, <3>2, <3>4, <3>5 DEF EventInv
  <2>6. CASE ConsumerRestart
    <3>1. batch' = {} /\ handing' = 0 /\ UNCHANGED <<groupNext, unacked, handled>>
      BY <2>6 DEF ConsumerRestart
    <3>2. EventTypes' /\ NoGap'
      BY <2>1, <3>1 DEF EventInv, EventTypes, NoGap, walkerVars
    <3>3. 0 \in 0 .. groupNext - 1 BY <1>EventNumbers, SMT
    <3>4. ConsumerInv' BY <2>1, <3>1, <3>3 DEF EventInv, ConsumerInv
    <3>5. HandledInv' BY <2>1, <3>1 DEF EventInv, HandledInv
    <3> QED BY <2>2, <3>2, <3>4, <3>5 DEF EventInv
  <2> QED BY <2>3, <2>4, <2>5, <2>6
<1>1. EventInv /\ [EventNext]_eventVars => EventInv'
  <2> SUFFICES ASSUME EventInv, [EventNext]_eventVars PROVE EventInv'
    OBVIOUS
  <2>1. CASE EventNext
    BY <2>1, <1>EventInvProcessor, <1>EventInvPush, <1>EventInvTrim, <1>EventInvConsumer DEF EventNext
  <2>2. CASE UNCHANGED eventVars
    <3> USE <2>2 DEF eventVars, walkerVars, groupVars, EventInv
    <3>1. EventTypes' BY DEF EventTypes
    <3>2. lossy' \/ ProcessorInv' BY <1>ProcessorKept
    <3>3. ConsumerInv' BY DEF ConsumerInv
    <3>4. HandledInv' /\ NoGap' BY DEF HandledInv, NoGap
    <3> QED BY <3>1, <3>2, <3>3, <3>4
  <2> QED BY <2>1, <2>2
<1>2. EventInv => NothingLost
  <2> SUFFICES ASSUME EventInv PROVE NothingLost
    OBVIOUS
  <2>1. \A e \in trimmed + 1 .. groupNext - 1 : e \in 1 .. groupNext - 1 /\ trimmed < e
    BY <1>EventNumbers, SMT
  <2> QED BY <2>1 DEF EventInv, HandledInv, NothingLost, ReadIsHandled
<1> QED BY <1>EventInvInit, <1>1, <1>2, PTL DEF EventSpec
-----------------------------------------------------------------------------
\* Without a failed event or call, the last event that waits has the
\* configuration of the chain; with none waiting, what public applies or has
\* applied is that configuration.
WaitsForChain ==
    publicFaults = 0 =>
        IF configEvents = <<>>
        THEN /\ publicStep.at = "apply" => publicStep.config = chainConfig
             /\ publicStep.at = "listen" => applied = chainConfig
        ELSE configEvents[Len(configEvents)] = chainConfig

\* the inductive invariant of the public configuration
PublicInv == PublicTypeOK /\ publicFaults \in Nat /\ WaitsForChain

\* When public listens with no event left to handle and no event or call has
\* failed, what it applied is the configuration of the chain, for any
\* configurations and any order of the chain's changes and public's reads.
THEOREM NoStaleConfigAlways == PublicSpec => []NoStaleConfig
\* It holds when public starts.
<1>PublicInvInit. PublicInit => PublicInv
  BY PublicAssumption, SMT DEF PublicInit, PublicInv, PublicTypeOK, WaitsForChain
\* Every step keeps it.
<1>PublicInvNext. ASSUME PublicInv, [PublicNext]_publicVars
    PROVE  PublicInv'
  <2> USE <1>PublicInvNext
  <2> USE PublicAssumption DEF PublicInv, PublicTypeOK, WaitsForChain, PublicFails, PublicGoto
  <2>1. ASSUME SetOnChain PROVE PublicInv'
    BY <2>1, SMTT(30) DEF SetOnChain
  <2>2. ASSUME ReadConfig PROVE PublicInv'
    BY <2>2, SMT DEF ReadConfig
  <2>3. ASSUME SetPublicConfig PROVE PublicInv'
    BY <2>3, SMT DEF SetPublicConfig
  <2>4. ASSUME ConfigEvent PROVE PublicInv'
    <3> USE DEF ConfigEvent
    <3>1. Head(configEvents) \in Configs /\ configEvents' \in Seq(Configs)
      BY <2>4, SMTT(30)
    <3>2. CASE Len(configEvents) = 1
      BY <2>4, <3>1, <3>2, SMTT(30)
    <3>3. CASE Len(configEvents) # 1
      BY <2>4, <3>1, <3>3, SMTT(30)
    <3> QED BY <3>2, <3>3
  <2>5. ASSUME Reapply PROVE PublicInv'
    BY <2>5, SMTT(30) DEF Reapply
  <2>6. ASSUME PublicRestart PROVE PublicInv'
    BY <2>6, SMTT(30) DEF PublicRestart
  <2>7. ASSUME UNCHANGED publicVars PROVE PublicInv'
    BY <2>7, SMT DEF publicVars
  <2> QED BY <2>1, <2>2, <2>3, <2>4, <2>5, <2>6, <2>7 DEF PublicNext, PublicLoop
<1>1. PublicInv => NoStaleConfig
  BY DEF PublicInv, WaitsForChain, NoStaleConfig
<1> QED BY <1>1, <1>PublicInvInit, <1>PublicInvNext, PTL DEF PublicSpec
-----------------------------------------------------------------------------
\* The upgrader: what an update has left behind it is at its tag, and a package
\* that the next update will skip is at the recorded tag.

\* the part of the types the proof needs
UpgTypes ==
    /\ node = [bootstrap |-> node.bootstrap, dev |-> node.dev, testFarm |-> node.testFarm,
               noZos |-> node.noZos, booted |-> node.booted]
    /\ upgrade = [at |-> upgrade.at, to |-> upgrade.to, todo |-> upgrade.todo]
    /\ installed = [p \in AllPackages |-> installed[p]]
    /\ hubTag \in Tags
    /\ upgrade.at \in {"idle", "install", "set"}
    /\ IF upgrade.at = "idle" THEN upgrade = Idle ELSE upgrade.to \in Tags
    /\ abandoned \in BOOLEAN

\* an update of a bootstrapped node goes from the recorded tag to another
FromRecorded ==
    /\ recorded = NoTag <=> ~ node.bootstrap
    /\ recorded \in Tags \cup {NoTag, Torn}
    /\ upgrade.at = "set" => node.bootstrap /\ upgrade.todo \subseteq {Zos}
    /\ upgrade.at = "install" /\ node.bootstrap =>
         recorded \in Tags /\ upgrade.todo \subseteq Changed(upgrade.to, recorded)

\* what an update has left behind it is at its tag
LeftBehind ==
    \A p \in AllPackages \ upgrade.todo :
        /\ upgrade.at # "idle" /\ p # Zos /\ ~ abandoned => installed[p] = Contents[upgrade.to][p]
        /\ upgrade.at # "idle" /\ ~ node.bootstrap => installed[p] = Contents[upgrade.to][p]

\* a package that the next update will skip is at the recorded tag
SkippedIsThere ==
    upgrade.at = "idle" /\ recorded \in Tags /\ ~ abandoned =>
        \A p \in Packages : Contents[hubTag][p] = Contents[recorded][p]
                            => installed[p] = Contents[recorded][p]

\* a node that is booted is not updated again
BootedRests ==
    node.booted => ~ node.bootstrap /\ upgrade.at = "idle" /\ \E t \in Tags : UpToDate(t)

\* the inductive invariant of the upgrader
UpgInv == UpgTypes /\ FromRecorded /\ LeftBehind /\ SkippedIsThere /\ BootedRests

USE UpgradeAssumption DEF AllPackages

\* The invariant holds in every state.
LEMMA UpgInvAlways == UpgradeSpec => []UpgInv
\* an idle upgrader, seen through its fields
<1>IdleFields. Idle.at = "idle" /\ Idle.to = NoTag /\ Idle.todo = {}
  BY DEF Idle
\* The first state satisfies the invariant: no update has begun.
<1>UpgInvInit. UpgradeInit => UpgInv
  <2> SUFFICES ASSUME UpgradeInit PROVE UpgInv
    OBVIOUS
  <2>1. /\ node = [bootstrap |-> node.bootstrap, dev |-> node.dev, testFarm |-> node.testFarm,
                   noZos |-> node.noZos, booted |-> node.booted]
        /\ node.booted = FALSE
    BY DEF UpgradeInit
  <2>2. UpgTypes BY <2>1, <1>IdleFields DEF UpgTypes, UpgradeInit, Idle
  <2>3. FromRecorded BY <1>IdleFields, SMTT(30) DEF FromRecorded, UpgradeInit
  <2>4. LeftBehind BY <1>IdleFields DEF LeftBehind, UpgradeInit
  <2>5. SkippedIsThere BY SMTT(30) DEF SkippedIsThere, UpgradeInit
  <2>6. BootedRests BY <2>1 DEF BootedRests
  <2> QED BY <2>2, <2>3, <2>4, <2>5, <2>6 DEF UpgInv
\* A new tag on the hub keeps it.
<1>UpgInvMove. ASSUME UpgInv, MoveTag
    PROVE  UpgInv'
  <2> USE <1>UpgInvMove
  <2>1. /\ UNCHANGED <<node, recorded, installed, upgrade>>
        /\ hubTag' \in Tags /\ abandoned' \in BOOLEAN /\ (abandoned => abandoned')
        /\ ~ abandoned' /\ upgrade.at = "idle" /\ recorded \in Tags
           => hubTag' = hubTag \/ UpToDate(recorded)
    <3>1. CASE hubTag' = hubTag /\ abandoned' = abandoned
      BY <3>1 DEF UpgInv, UpgTypes, MoveTag
    <3>2. CASE /\ hubTag' \in Tags
               /\ abandoned' = (abandoned \/ (upgrade = Idle /\ recorded \in Tags
                                              /\ ~ UpToDate(recorded)))
      <4>1. upgrade.at = "idle" => upgrade = Idle
        BY DEF UpgInv, UpgTypes
      <4> QED BY <3>2, <4>1 DEF MoveTag
    <3> QED BY <3>1, <3>2 DEF MoveTag
  <2>2. UpgTypes' BY <2>1 DEF UpgInv, UpgTypes, Idle
  <2>3. FromRecorded' BY <2>1 DEF UpgInv, FromRecorded, Changed
  <2>4. LeftBehind' BY <2>1 DEF UpgInv, LeftBehind
  <2>5. SkippedIsThere' BY <2>1 DEF UpgInv, SkippedIsThere, UpToDate
  <2>6. BootedRests' BY <2>1 DEF UpgInv, BootedRests, UpToDate
  <2> QED BY <2>2, <2>3, <2>4, <2>5, <2>6 DEF UpgInv
\* An update begins with everything it cannot skip still to be installed.
<1>UpgInvBegin. ASSUME UpgInv, FirstUpdate \/ Update
    PROVE  UpgInv'
  <2> USE <1>UpgInvBegin
  <2>1. /\ upgrade' = [at |-> "install", to |-> hubTag, todo |-> Changed(hubTag, recorded)]
        /\ node.bootstrap => recorded \in Tags
        /\ ~ node.booted /\ upgrade.at = "idle"
        /\ UNCHANGED <<node, worldVars, recorded, installed, abandoned>>
    BY <1>IdleFields DEF UpgInv, FromRecorded, BootedRests, FirstUpdate, Update
  <2>2. /\ upgrade'.at = "install" /\ upgrade'.to = hubTag
        /\ upgrade'.todo = Changed(hubTag, recorded)
    BY <2>1
  <2>3. UpgTypes' BY <2>1, <2>2 DEF UpgInv, UpgTypes, worldVars
  <2>4. FromRecorded' BY <2>1, <2>2 DEF UpgInv, FromRecorded, Changed
  <2>5. LeftBehind'
    BY <2>1, <2>2 DEF UpgInv, LeftBehind, Changed, SkippedIsThere, FromRecorded
  <2>6. SkippedIsThere' BY <2>2 DEF SkippedIsThere
  <2>7. BootedRests' BY <2>1 DEF BootedRests
  <2> QED BY <2>3, <2>4, <2>5, <2>6, <2>7 DEF UpgInv
\* An update ends where it is: nothing it would skip the next time is missing.
<1>UpgInvStop. ASSUME UpgInv, upgrade.at # "idle", upgrade' = Idle,
           UNCHANGED <<node, worldVars, recorded>>,
           installed' = [q \in AllPackages |-> installed'[q]],
           \A q \in AllPackages \ upgrade.todo : installed'[q] = installed[q],
           abandoned' = (abandoned \/ hubTag # upgrade.to)
    PROVE  UpgInv'
  <2> USE <1>UpgInvStop
  <2>1. upgrade'.at = "idle" BY <1>IdleFields
  <2>2. UpgTypes' BY <1>IdleFields DEF UpgInv, UpgTypes, worldVars, Idle
  <2>3. FromRecorded' BY <2>1 DEF UpgInv, FromRecorded
  <2>4. LeftBehind' BY <2>1 DEF LeftBehind
  <2>5. SkippedIsThere'
    <3> SUFFICES ASSUME recorded \in Tags, ~ abandoned, hubTag = upgrade.to, NEW q \in Packages,
                        Contents[hubTag][q] = Contents[recorded][q]
                 PROVE  installed'[q] = Contents[recorded][q]
      BY DEF SkippedIsThere, worldVars
    <3>1. CASE node.bootstrap
      <4>1. q \notin upgrade.todo
        BY <3>1 DEF UpgInv, UpgTypes, FromRecorded, Changed
      <4> QED BY <4>1 DEF UpgInv, LeftBehind
    <3>2. CASE ~ node.bootstrap
      BY <3>2 DEF UpgInv, FromRecorded
    <3> QED BY <3>1, <3>2
  <2>6. BootedRests' BY DEF UpgInv, BootedRests
  <2> QED BY <2>2, <2>3, <2>4, <2>5, <2>6 DEF UpgInv
\* A package that is installed is at the tag of the update; one that fails ends it.
<1>UpgInvInstall. ASSUME UpgInv, Install
    PROVE  UpgInv'
  <2> USE <1>UpgInvInstall
  <2>1. PICK p \in AllPackages :
           /\ MayInstall(p)
           /\ \/ /\ installed' = [installed EXCEPT ![p] = Contents[upgrade.to][p]]
                 /\ upgrade' = [upgrade EXCEPT !.todo = @ \ {p}]
                 /\ UNCHANGED upgradeFaults
              \/ /\ UpgradeFails
                 /\ \E v \in {installed[p], Partial} : installed' = [installed EXCEPT ![p] = v]
                 /\ upgrade' = Idle
    BY DEF Install
  <2>2. /\ upgrade.at = "install" /\ p \in upgrade.todo
        /\ UNCHANGED <<node, worldVars, recorded>>
        /\ abandoned' = (abandoned \/ (upgrade'.at = "idle" /\ hubTag # upgrade.to))
    BY <2>1 DEF Install, MayInstall
  <2>3. /\ \A q \in AllPackages \ {p} : installed'[q] = installed[q]
        /\ installed' = [q \in AllPackages |-> installed'[q]]
    BY <2>1 DEF UpgInv, UpgTypes
  <2>4. CASE /\ installed' = [installed EXCEPT ![p] = Contents[upgrade.to][p]]
             /\ upgrade' = [upgrade EXCEPT !.todo = @ \ {p}]
    <3>1. upgrade' = [at |-> "install", to |-> upgrade.to, todo |-> upgrade.todo \ {p}]
      BY <2>2, <2>4 DEF UpgInv, UpgTypes
    <3>2. /\ upgrade'.at = "install" /\ upgrade'.to = upgrade.to
          /\ upgrade'.todo = upgrade.todo \ {p}
      BY <3>1
    <3>3. installed'[p] = Contents[upgrade.to][p]
      BY <2>4 DEF UpgInv, UpgTypes
    <3>4. abandoned' = abandoned
      BY <2>2, <3>2 DEF UpgInv, UpgTypes
    <3>5. UpgTypes' BY <2>2, <2>3, <3>1, <3>2, <3>4 DEF UpgInv, UpgTypes, worldVars
    <3>6. FromRecorded' BY <2>2, <3>2 DEF UpgInv, FromRecorded, Changed
    <3>7. LeftBehind' BY <2>2, <2>3, <3>2, <3>3, <3>4 DEF UpgInv, LeftBehind
    <3>8. SkippedIsThere' BY <3>2 DEF SkippedIsThere
    <3>9. BootedRests' BY <2>2 DEF UpgInv, BootedRests
    <3> QED BY <3>5, <3>6, <3>7, <3>8, <3>9 DEF UpgInv
  <2>5. CASE upgrade' = Idle
    <3>1. abandoned' = (abandoned \/ hubTag # upgrade.to)
      BY <2>2, <2>5, <1>IdleFields
    <3> QED BY <2>2, <2>3, <2>5, <3>1, <1>UpgInvStop
  <2> QED BY <2>1, <2>4, <2>5
\* The tag is recorded, or the node marked booted, after the packages; a crash
\* leaves the update to be done again.
<1>UpgInvEnd. ASSUME UpgInv, TruncateTag \/ SetTag \/ MarkBooted \/ IdentitydCrash
    PROVE  UpgInv'
  <2> USE <1>UpgInvEnd
  <2>1. CASE TruncateTag
    <3>1. upgrade' = [at |-> "set", to |-> upgrade.to, todo |-> upgrade.todo]
      BY <2>1 DEF TruncateTag, UpgInv, UpgTypes
    <3>2. /\ upgrade.at = "install" /\ upgrade'.at = "set" /\ upgrade'.to = upgrade.to
          /\ upgrade'.todo = upgrade.todo /\ upgrade.todo \subseteq {Zos}
          /\ node.bootstrap /\ recorded' = Torn
          /\ UNCHANGED <<node, worldVars, installed, abandoned>>
      BY <2>1, <3>1 DEF TruncateTag
    <3>3. UpgTypes' BY <3>1, <3>2 DEF UpgInv, UpgTypes, worldVars
    <3>4. FromRecorded' BY <3>2 DEF UpgInv, FromRecorded
    <3>5. LeftBehind' BY <3>2 DEF UpgInv, LeftBehind
    <3>6. SkippedIsThere' BY <3>2 DEF SkippedIsThere
    <3>7. BootedRests' BY <3>2 DEF UpgInv, BootedRests
    <3> QED BY <3>3, <3>4, <3>5, <3>6, <3>7 DEF UpgInv
  <2>2. CASE SetTag
    <3>1. /\ upgrade.at = "set" /\ upgrade'.at = "idle" /\ upgrade' = Idle
          /\ recorded' = upgrade.to /\ upgrade.to \in Tags /\ upgrade.todo \subseteq {Zos}
          /\ node.bootstrap
          /\ UNCHANGED <<node, worldVars, installed, abandoned>>
      BY <2>2, <1>IdleFields DEF SetTag, UpgInv, UpgTypes, FromRecorded
    <3>2. UpgTypes' BY <3>1 DEF UpgInv, UpgTypes, worldVars, Idle
    <3>3. FromRecorded' BY <3>1 DEF FromRecorded
    <3>4. LeftBehind' BY <3>1 DEF LeftBehind
    <3>5. SkippedIsThere' BY <3>1 DEF UpgInv, LeftBehind, SkippedIsThere
    <3>6. BootedRests' BY <3>1 DEF UpgInv, BootedRests
    <3> QED BY <3>2, <3>3, <3>4, <3>5, <3>6 DEF UpgInv
  <2>3. CASE MarkBooted
    <3>1. node' = [bootstrap |-> node.bootstrap, dev |-> node.dev, testFarm |-> node.testFarm,
                   noZos |-> node.noZos, booted |-> TRUE]
      BY <2>3 DEF MarkBooted, UpgInv, UpgTypes
    <3>2. /\ ~ node.bootstrap /\ node'.bootstrap = node.bootstrap /\ node'.noZos = node.noZos
          /\ upgrade.at = "install" /\ upgrade'.at = "idle" /\ upgrade' = Idle
          /\ upgrade.to \in Tags /\ recorded = NoTag
          /\ UNCHANGED <<worldVars, recorded, installed, abandoned>>
      BY <2>3, <3>1, <1>IdleFields DEF MarkBooted, UpgInv, UpgTypes, FromRecorded
    <3>3. UpToDate(upgrade.to)
      BY <2>3, <3>2 DEF MarkBooted, UpToDate, UpgInv, LeftBehind
    <3>4. UpgTypes' BY <3>1, <3>2 DEF UpgInv, UpgTypes, worldVars, Idle
    <3>5. FromRecorded' BY <3>2 DEF FromRecorded
    <3>6. LeftBehind' BY <3>2 DEF LeftBehind
    <3>7. SkippedIsThere' BY <3>2 DEF SkippedIsThere
    <3>8. BootedRests' BY <3>2, <3>3 DEF BootedRests, UpToDate
    <3> QED BY <3>4, <3>5, <3>6, <3>7, <3>8 DEF UpgInv
  <2>4. CASE IdentitydCrash
    BY <2>4, <1>UpgInvStop DEF IdentitydCrash, UpgInv, UpgTypes
  <2> QED BY <2>1, <2>2, <2>3, <2>4
<1>1. UpgInv /\ [UpgradeNext]_upgradeVars => UpgInv'
  <2> SUFFICES ASSUME UpgInv, [UpgradeNext]_upgradeVars PROVE UpgInv'
    OBVIOUS
  <2>1. CASE UpgradeNext
    BY <2>1, <1>UpgInvMove, <1>UpgInvBegin, <1>UpgInvInstall, <1>UpgInvEnd DEF UpgradeNext, UpgradeLoop
  <2>2. CASE UNCHANGED upgradeVars
    BY <2>2 DEF upgradeVars, worldVars, UpgInv, UpgTypes, FromRecorded, LeftBehind, SkippedIsThere,
                BootedRests, UpToDate, Changed, Idle
  <2> QED BY <2>1, <2>2
<1> QED BY <1>UpgInvInit, <1>1, PTL DEF UpgradeSpec

\* A node that is not bootstrapped is marked booted only with all packages of
\* one tag, whatever failed and was tried again before (update, updateTo).
THEOREM BootedIsWholeAlways == UpgradeSpec => []BootedIsWhole
<1>1. UpgInv => BootedIsWhole
  BY DEF UpgInv, BootedRests, BootedIsWhole
<1> QED BY UpgInvAlways, <1>1, PTL

\* When zos changes to the version of a tag all other packages are at that tag,
\* for any packages, tags and failed attempts (updateTo).
THEOREM ZosLastAlways == UpgradeSpec => ZosLast
<1> DEFINE Last == (installed'[Zos] # installed[Zos] /\ installed'[Zos] # Partial /\ ~ abandoned)
                     => \A p \in Packages : installed[p] = Contents[upgrade.to][p]
<1>1. UpgInv /\ [UpgradeNext]_upgradeVars => [Last]_upgradeVars
  <2> SUFFICES ASSUME UpgInv, UpgradeNext, installed'[Zos] # installed[Zos],
                      installed'[Zos] # Partial, ~ abandoned, NEW q \in Packages
               PROVE  installed[q] = Contents[upgrade.to][q]
    OBVIOUS
  <2>1. Install
    BY DEF UpgradeNext, UpgradeLoop, MoveTag, FirstUpdate, Update, TruncateTag, SetTag, MarkBooted,
           IdentitydCrash
  <2>2. upgrade.todo = {Zos} /\ upgrade.at # "idle"
    BY <2>1 DEF Install, MayInstall, UpgInv, UpgTypes, Idle
  <2> QED BY <2>2 DEF UpgInv, LeftBehind
<1> QED BY UpgInvAlways, <1>1, PTL DEF UpgradeSpec, ZosLast
=============================================================================
