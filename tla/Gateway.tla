------------------------------ MODULE Gateway ------------------------------
(***************************************************************************)
(* The web gateway (pkg/gateway).  A proxy workload is a route: a          *)
(* configuration file traefik watches and an entry in reservedDomains, a   *)
(* map built from the files at start.  Files are lost on reboot, when the  *)
(* engine provisions again.  The name of a name proxy is a contract on the *)
(* chain, checked before the route is made and by a validator every hour,  *)
(* which has the engine decommission the workload (DecommissionCached).    *)
(* The calls run one by one in the zbus worker, for the engine ("engine")  *)
(* and for the validator ("api").                                          *)
(***************************************************************************)
EXTENDS Naturals

CONSTANTS Proxies, NameDomains, FqdnDomains,
          NoDomain, TornFile, NoProxy,
          MaxGwCalls,    \* bound: proxies provisioned
          MaxNameChanges,\* bound: changes of name contracts
          MaxGwFaults    \* bound: failing steps, lost answers and restarts

Domains == NameDomains \cup FqdnDomains

ASSUME GatewayAssumption ==
    NoProxy \notin Proxies /\ NoDomain # TornFile /\ {NoDomain, TornFile} \cap Domains = {}

VARIABLES gwState,    \* the state of each workload in the engine
          gwWants,    \* the domain it asks for
          gwFile,     \* the domain in its configuration file
          reserved,   \* reservedDomains
          nnc,        \* the proxies with a process into a private network
          nameContract, \* for each name, the proxies of the twin that holds it
          gwCall,     \* what the worker does
          validator,  \* where the validator is, and its copy of the map
          strayNnc,   \* proxies whose process could not be stopped
          gwUse

gwOnNode == <<gwFile, reserved, nnc, strayNnc>>
gwVars == <<gwState, gwWants, gwOnNode, nameContract, gwCall, validator, gwUse>>

GwIdle == [at |-> "idle", p |-> NoProxy, by |-> "engine"]
GwAt(at) == gwCall' = [at |-> at, p |-> gwCall.p, by |-> gwCall.by]
ValidatorAt(at) == validator' = [at |-> at, todo |-> validator.todo, p |-> validator.p]

GatewayInit ==
    /\ gwState = [p \in Proxies |-> "none"]
    /\ gwWants = [p \in Proxies |-> NoDomain]
    /\ gwFile = [p \in Proxies |-> NoDomain]
    /\ reserved = [d \in Domains |-> NoProxy]
    /\ nnc = {} /\ strayNnc = {}
    /\ nameContract = [d \in NameDomains |-> Proxies]
    /\ gwCall = GwIdle
    /\ validator = [at |-> "wait", todo |-> {}, p |-> NoProxy]
    /\ gwUse = [calls |-> 0, names |-> 0, faults |-> 0]

GwFault ==
    /\ gwUse.faults < MaxGwFaults
    /\ gwUse' = [gwUse EXCEPT !.faults = @ + 1]

\* the call ends, the engine records the state; the validator goes on
GwResult(state) ==
    /\ gwState' = [gwState EXCEPT ![gwCall.p] = state]
    /\ gwCall' = GwIdle
    /\ IF gwCall.by = "api" THEN ValidatorAt("next") ELSE UNCHANGED validator

GwGoesOn(at) == GwAt(at) /\ UNCHANGED <<gwState, validator>>
-----------------------------------------------------------------------------
\* the engine provisions a proxy, the name of which was not used or is removed
GwProvision(p, d) ==
    /\ gwCall = GwIdle /\ gwState[p] \in {"none", "deleted"}
    /\ gwUse.calls < MaxGwCalls
    /\ gwUse' = [gwUse EXCEPT !.calls = @ + 1]
    /\ gwWants' = [gwWants EXCEPT ![p] = d]
    /\ gwState' = [gwState EXCEPT ![p] = "init"]
    /\ gwCall' = [at |-> "set", p |-> p, by |-> "engine"]
    /\ UNCHANGED <<gwOnNode, nameContract, validator>>

\* and again after a restart of the engine or the node
GwReprovision(p) ==
    /\ gwCall = GwIdle /\ gwState[p] = "init"
    /\ gwCall' = [at |-> "set", p |-> p, by |-> "engine"]
    /\ UNCHANGED <<gwState, gwWants, gwOnNode, nameContract, validator, gwUse>>

\* validateNameContract; the destination of a fqdn is looked up in the dns
ValidDomain(p, d) == d \in NameDomains => p \in nameContract[d]

\* SetNamedProxy and SetFQDNProxy
SetProxy ==
    /\ gwCall.at = "set"
    /\ LET d == gwWants[gwCall.p] IN
       \/ /\ ValidDomain(gwCall.p, d)
          /\ GwGoesOn("route") /\ UNCHANGED gwUse
       \/ /\ ~ValidDomain(gwCall.p, d) \/ d \in FqdnDomains
          /\ GwResult("error") /\ UNCHANGED gwUse
       \/ GwFault /\ GwResult("error")
    /\ UNCHANGED <<gwWants, gwOnNode, nameContract>>

\* mutant: the domain may be registered already
MutSetupRouting ==
    /\ gwCall.at = "route"
    /\ GwGoesOn("write")
    /\ UNCHANGED <<gwWants, gwOnNode, nameContract, gwUse>>

\* setupRouting: a domain has one route, and a route into a private network
\* needs a process, started anew when there is one; a failure stops it
SetupRouting ==
    /\ gwCall.at = "route"
    /\ \/ /\ reserved[gwWants[gwCall.p]] # NoProxy
          /\ GwResult("error") /\ UNCHANGED <<nnc, gwUse>>
       \/ /\ reserved[gwWants[gwCall.p]] = NoProxy
          /\ nnc' \in {nnc, nnc \cup {gwCall.p}}
          /\ GwGoesOn("write") /\ UNCHANGED gwUse
       \/ /\ reserved[gwWants[gwCall.p]] = NoProxy /\ GwFault
          /\ nnc' \in {nnc, nnc \ {gwCall.p}}
          /\ GwResult("error")
    /\ UNCHANGED <<gwWants, gwFile, reserved, strayNnc, nameContract>>

\* setupRoutingGeneric writes the file and enters the domain.  A file that
\* cannot be written whole stays, and so does the process.  The answer to an
\* engine that restarted is lost.
WriteRoute ==
    /\ gwCall.at = "write"
    /\ \/ /\ gwFile' = [gwFile EXCEPT ![gwCall.p] = gwWants[gwCall.p]]
          /\ reserved' = [reserved EXCEPT ![gwWants[gwCall.p]] = gwCall.p]
          /\ \/ GwResult("ok") /\ UNCHANGED gwUse
             \/ GwFault /\ GwResult("init")
       \/ /\ GwFault
          /\ gwFile' = [gwFile EXCEPT ![gwCall.p] = TornFile]
          /\ GwResult("error") /\ UNCHANGED reserved
    /\ UNCHANGED <<gwWants, nnc, strayNnc, nameContract>>
-----------------------------------------------------------------------------
\* the engine removes a proxy, in error or not
GwDeprovision(p) ==
    /\ gwCall = GwIdle /\ gwState[p] \in {"ok", "error"}
    /\ gwCall' = [at |-> "nnc", p |-> p, by |-> "engine"]
    /\ UNCHANGED <<gwState, gwWants, gwOnNode, nameContract, validator, gwUse>>

\* DeleteNamedProxy: destroyNNC ignores its errors
DestroyNNC ==
    /\ gwCall.at = "nnc"
    /\ GwGoesOn("file")
    /\ \/ /\ nnc' = nnc \ {gwCall.p} /\ strayNnc' = strayNnc \ {gwCall.p}
          /\ UNCHANGED gwUse
       \/ /\ gwCall.p \in nnc /\ GwFault
          /\ strayNnc' = strayNnc \cup {gwCall.p} /\ UNCHANGED nnc
    /\ UNCHANGED <<gwWants, gwFile, reserved, nameContract>>

\* the domain is read from the file, which is removed; one without file or
\* without a domain in it has none reserved
DeleteNamedProxy ==
    /\ gwCall.at = "file"
    /\ \/ /\ gwFile' = [gwFile EXCEPT ![gwCall.p] = NoDomain]
          /\ reserved' = [d \in Domains |->
                            IF d = gwFile[gwCall.p] THEN NoProxy ELSE reserved[d]]
          /\ GwResult("deleted") /\ UNCHANGED gwUse
       \/ /\ gwFile[gwCall.p] # NoDomain /\ GwFault
          /\ GwResult("error") /\ UNCHANGED <<gwFile, reserved>>
    /\ UNCHANGED <<gwWants, nnc, strayNnc, nameContract>>
-----------------------------------------------------------------------------
(***************************************************************************)
(* The validator, on a copy of the map.                                    *)
(***************************************************************************)
CopyReserved ==
    /\ validator.at = "wait"
    /\ \E d \in NameDomains : reserved[d] # NoProxy
    /\ validator' = [at |-> "next", p |-> NoProxy,
                     todo |-> {<<d, reserved[d]>> : d \in {e \in NameDomains :
                                                            reserved[e] # NoProxy}}]
    /\ UNCHANGED <<gwState, gwWants, gwOnNode, nameContract, gwCall, gwUse>>

\* the contract of the next name; errors of the chain leave it for the next hour
ValidateNext ==
    /\ validator.at = "next"
    /\ \/ /\ validator.todo = {}
          /\ ValidatorAt("wait")
          /\ UNCHANGED gwUse
       \/ \E x \in validator.todo :
            \/ /\ validator' = [at |-> IF ValidDomain(x[2], x[1]) THEN "next" ELSE "decommission",
                                todo |-> validator.todo \ {x}, p |-> x[2]]
               /\ UNCHANGED gwUse
            \/ /\ GwFault
               /\ validator' = [at |-> "next", todo |-> validator.todo \ {x}, p |-> NoProxy]
    /\ UNCHANGED <<gwState, gwWants, gwOnNode, nameContract, gwCall>>

\* mutant: only a workload in error is decommissioned
MutDecommission ==
    /\ validator.at = "decommission"
    /\ ValidatorAt(IF gwState[validator.p] \in {"ok", "deleted"} THEN "next" ELSE "delete")
    /\ UNCHANGED <<gwState, gwWants, gwOnNode, nameContract, gwCall, gwUse>>

\* DecommissionCached leaves workloads that are deleted or in error
Decommission ==
    /\ validator.at = "decommission"
    /\ ValidatorAt(IF gwState[validator.p] \in {"error", "deleted"} THEN "next" ELSE "delete")
    /\ UNCHANGED <<gwState, gwWants, gwOnNode, nameContract, gwCall, gwUse>>

\* and calls the gateway for the others, which waits for the worker
DecommissionDelete ==
    /\ validator.at = "delete" /\ gwCall = GwIdle
    /\ ValidatorAt("called")
    /\ gwCall' = [at |-> "nnc", p |-> validator.p, by |-> "api"]
    /\ UNCHANGED <<gwState, gwWants, gwOnNode, nameContract, gwUse>>
-----------------------------------------------------------------------------
\* contracts are cancelled, or made by another twin
ChangeName(d, holders) ==
    /\ gwUse.names < MaxNameChanges
    /\ gwUse' = [gwUse EXCEPT !.names = @ + 1]
    /\ holders # nameContract[d]
    /\ nameContract' = [nameContract EXCEPT ![d] = holders]
    /\ UNCHANGED <<gwState, gwWants, gwOnNode, gwCall, validator>>

\* loadDomains; a file without a domain is skipped
LoadDomains(files) ==
    [d \in Domains |-> IF \E p \in Proxies : files[p] = d
                       THEN CHOOSE p \in Proxies : files[p] = d ELSE NoProxy]

\* what a call that is cut short may leave in the file of its proxy
LeftInFile ==
    CASE gwCall.at = "write" -> {TornFile, gwWants[gwCall.p]}
      [] gwCall.at = "file" -> {NoDomain}
      [] OTHER -> {}

\* the gateway restarts; a call under way is an error, its file written, torn
\* or removed before
GatewayRestart ==
    /\ GwFault
    /\ UNCHANGED gwFile \/ \E f \in LeftInFile : gwFile' = [gwFile EXCEPT ![gwCall.p] = f]
    /\ reserved' = LoadDomains(gwFile')
    /\ gwState' = IF gwCall.at = "idle" THEN gwState ELSE [gwState EXCEPT ![gwCall.p] = "error"]
    /\ gwCall' = GwIdle
    /\ validator' = [at |-> "wait", todo |-> {}, p |-> NoProxy]
    /\ UNCHANGED <<gwWants, nnc, strayNnc, nameContract>>

\* the node reboots: the files are gone, what was not removed is provisioned
GatewayReboot ==
    /\ GwFault
    /\ gwFile' = [p \in Proxies |-> NoDomain]
    /\ reserved' = [d \in Domains |-> NoProxy]
    /\ nnc' = {} /\ strayNnc' = {}
    /\ gwState' = [p \in Proxies |-> IF gwState[p] = "ok" THEN "init" ELSE gwState[p]]
    /\ gwCall' = GwIdle
    /\ validator' = [at |-> "wait", todo |-> {}, p |-> NoProxy]
    /\ UNCHANGED <<gwWants, nameContract>>

GwCallStep == SetProxy \/ SetupRouting \/ WriteRoute \/ DestroyNNC \/ DeleteNamedProxy
GwEngine == \E p \in Proxies : GwReprovision(p)
ValidatorStep == CopyReserved \/ ValidateNext \/ Decommission \/ DecommissionDelete

GatewayNext ==
    \/ \E p \in Proxies : GwDeprovision(p) \/ \E d \in Domains : GwProvision(p, d)
    \/ GwEngine \/ GwCallStep \/ ValidatorStep
    \/ \E d \in NameDomains : \E holders \in SUBSET Proxies : ChangeName(d, holders)
    \/ GatewayRestart \/ GatewayReboot

\* the engine and the worker go on with what they have, the validator's ticker
\* never stops
GatewayFairness == WF_gwVars(GwEngine) /\ WF_gwVars(GwCallStep) /\ WF_gwVars(ValidatorStep)

GatewaySpec == GatewayInit /\ [][GatewayNext]_gwVars /\ GatewayFairness
-----------------------------------------------------------------------------
GatewayTypeOK ==
    /\ gwState \in [Proxies -> {"none", "init", "ok", "error", "deleted"}]
    /\ gwWants \in [Proxies -> Domains \cup {NoDomain}]
    /\ gwFile \in [Proxies -> Domains \cup {NoDomain, TornFile}]
    /\ reserved \in [Domains -> Proxies \cup {NoProxy}]
    /\ nnc \subseteq Proxies /\ strayNnc \subseteq Proxies
    /\ gwCall.at \in {"idle", "set", "route", "write", "nnc", "file"}
    /\ validator.at \in {"wait", "next", "decommission", "delete", "called"}

\* A domain is reserved for the workload whose file routes it, and for no other;
\* an okay workload has the route it asked for; a deleted one has no route, and
\* no process unless zinit failed to stop it.  The engine, the validator and
\* restarts share the files (setupRouting, DeleteNamedProxy, loadDomains).
GatewayRoutes ==
    /\ \A p \in Proxies, d \in Domains : (reserved[d] = p) <=> (gwFile[p] = d)
    /\ \A p \in Proxies :
         /\ gwState[p] = "ok" => gwFile[p] = gwWants[p]
         /\ gwState[p] = "deleted" => gwFile[p] = NoDomain /\ p \notin nnc \ strayNnc

\* A name whose contract is gone, or is another twin's, ends up without a route,
\* unless the workload is in error, which DecommissionCached does not remove
\* (validateNameContracts).
NamesReleased ==
    <>[](\A d \in NameDomains : \A p \in Proxies :
           reserved[d] = p => p \in nameContract[d] \/ gwState[p] = "error")
=============================================================================
