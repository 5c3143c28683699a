----------------------------- MODULE Networkd -----------------------------
(***************************************************************************)
(* The networks of users on a node (pkg/network, pkg/network/nr): CreateNR *)
(* makes a bridge, a namespace, mycelium, a wireguard device and a lease   *)
(* in the dmz for each of them, and DeleteNR removes them.  The ports of   *)
(* the wireguard devices are kept in portSet, read from the devices when   *)
(* networkd starts, next to ports the node's own daemons listen on.  All   *)
(* of it is lost on reboot, when the engine provisions again.  The calls   *)
(* of the engine run one by one in the zbus worker.                        *)
(***************************************************************************)
EXTENDS Naturals

CONSTANTS Nets, WithMycelium,  \* networks, those of them with mycelium
          Ports, DaemonPorts,  \* listen ports, those of the node's daemons
          NoPort, TornNet, NoNet,
          MaxNetCalls,         \* bound: networks provisioned or updated
          MaxNetFaults         \* bound: failing steps, lost answers and restarts

ASSUME NetAssumption ==
    /\ NoNet \notin Nets
    /\ 0 \notin Ports /\ NoPort \notin Ports \cup {0} /\ TornNet \notin Ports

VARIABLES netState,  \* the state of each workload in the engine
          netWants,  \* the port it asks for
          netFile,   \* the port in the stored network object
          portSet,
          bridges, netNs, my, lease,  \* the networks that have each of these
          wgPort,    \* the port of the wireguard device, 0 before it is configured
          wgUp,      \* the devices that are up
          wgHost,    \* the devices not moved into their namespace
          netCall,   \* what the worker does
          netLeft,   \* networks of which an ignored error left something
          disputed,  \* ports asked for while taken, or missing from portSet by a failure
          netUse

netParts == <<bridges, netNs, my, lease>>
wgVars == <<wgPort, wgUp, wgHost>>
netGhosts == <<netLeft, disputed>>
netVars == <<netState, netWants, netFile, portSet, netParts, wgVars, netCall, netGhosts, netUse>>

NetIdle == [at |-> "idle", n |-> NoNet]
NetAt(at) == netCall' = [at |-> at, n |-> netCall.n] /\ UNCHANGED netState

NetworkdInit ==
    /\ netState = [n \in Nets |-> "none"]
    /\ netWants = [n \in Nets |-> NoPort]
    /\ netFile = [n \in Nets |-> NoPort]
    /\ portSet = DaemonPorts
    /\ bridges = {} /\ netNs = {} /\ my = {} /\ lease = {}
    /\ wgPort = [n \in Nets |-> NoPort] /\ wgUp = {} /\ wgHost = {}
    /\ netCall = NetIdle
    /\ netLeft = {} /\ disputed = {}
    /\ netUse = [calls |-> 0, faults |-> 0]

NetFault ==
    /\ netUse.faults < MaxNetFaults
    /\ netUse' = [netUse EXCEPT !.faults = @ + 1]

NetResult(state) ==
    /\ netState' = [netState EXCEPT ![netCall.n] = state]
    /\ netCall' = NetIdle
-----------------------------------------------------------------------------
\* the engine provisions a network that is new or removed, or updates one; the
\* record of one it failed to remove is gone with its deployment ("failed")
NetProvision(n, p) ==
    /\ netCall = NetIdle /\ netState[n] \in {"none", "ok", "deleted", "failed"}
    /\ netUse.calls < MaxNetCalls
    /\ netUse' = [netUse EXCEPT !.calls = @ + 1]
    /\ netWants' = [netWants EXCEPT ![n] = p]
    /\ netState' = [netState EXCEPT ![n] = "init"]
    /\ netCall' = [at |-> "store", n |-> n]
    /\ UNCHANGED <<netFile, portSet, netParts, wgVars, netGhosts>>

\* and again after a restart of the engine or the node
NetReprovision(n) ==
    /\ netCall = NetIdle /\ netState[n] = "init"
    /\ netCall' = [at |-> "store", n |-> n]
    /\ UNCHANGED <<netState, netWants, netFile, portSet, netParts, wgVars, netGhosts, netUse>>

\* somebody else has the port
PortTaken(n, p) ==
    p \in DaemonPorts \/ \E m \in Nets \ {n} : wgPort[m] = p \/ netFile[m] = p

\* storeNetwork; a failure leaves the object as it was, torn, or written
StoreNetwork ==
    /\ netCall.at = "store"
    /\ \/ /\ netFile' = [netFile EXCEPT ![netCall.n] = netWants[netCall.n]]
          /\ NetAt("ports") /\ UNCHANGED netUse
       \/ \E f \in {netFile[netCall.n], TornNet, netWants[netCall.n]} :
            /\ NetFault
            /\ netFile' = [netFile EXCEPT ![netCall.n] = f]
            /\ NetResult("error")
    /\ disputed' = disputed \cup {p \in {netWants[netCall.n]} : PortTaken(netCall.n, p)}
    /\ UNCHANGED <<netWants, portSet, netParts, wgVars, netLeft>>

\* the port of the stored object is released, the one asked for reserved; the
\* object was stored just before
ReservePort ==
    /\ netCall.at = "ports"
    /\ LET n == netCall.n
           others == portSet \ {netFile[n]}
       IN /\ portSet' = others \cup {netWants[n]}
          /\ IF netWants[n] \in others THEN NetResult("error") ELSE NetAt("create")
    /\ UNCHANGED <<netWants, netFile, netParts, wgVars, netGhosts, netUse>>

\* NetResource.Create: the bridge, the namespace, and what is in it
CreateResource ==
    /\ netCall.at = "create"
    /\ \/ /\ bridges' = bridges \cup {netCall.n} /\ netNs' = netNs \cup {netCall.n}
          /\ NetAt("mycelium") /\ UNCHANGED netUse
       \/ /\ NetFault
          /\ \/ UNCHANGED <<bridges, netNs>>
             \/ bridges' = bridges \cup {netCall.n} /\ netNs' \in {netNs, netNs \cup {netCall.n}}
          /\ NetAt("cleanup")
    /\ UNCHANGED <<netWants, netFile, portSet, my, lease, wgVars, netGhosts>>

\* SetMycelium; its error is that of an inner scope, so nothing is cleaned up
SetMycelium ==
    /\ netCall.at = "mycelium"
    /\ \/ /\ my' = my \cup ({netCall.n} \cap WithMycelium)
          /\ NetAt("wireguard") /\ UNCHANGED netUse
       \/ /\ netCall.n \in WithMycelium /\ NetFault
          /\ my' \in {my, my \cup {netCall.n}}
          /\ NetResult("error")
    /\ UNCHANGED <<netWants, netFile, portSet, bridges, netNs, lease, wgVars, netGhosts>>

\* HasWireguard, NewWireguard and SetWireguard: a device is made, or found, on
\* the host and moved into the namespace
SetWireguard ==
    /\ netCall.at = "wireguard"
    /\ LET n == netCall.n
           made == [wgPort EXCEPT ![n] = IF @ = NoPort THEN 0 ELSE @]
       IN \/ /\ wgPort' = made /\ wgHost' = wgHost \ {n}
             /\ NetAt("attach") /\ UNCHANGED netUse
          \/ /\ NetFault
             /\ \/ UNCHANGED <<wgPort, wgHost>>
                \/ wgPort[n] = NoPort /\ wgPort' = made /\ wgHost' = wgHost \cup {n}
             /\ NetAt("cleanup")
    /\ UNCHANGED <<netWants, netFile, portSet, netParts, wgUp, netGhosts>>

\* AttachNR leases an address, or finds the one leased before
AttachNR ==
    /\ netCall.at = "attach"
    /\ \/ lease' = lease \cup {netCall.n} /\ NetAt("configure") /\ UNCHANGED netUse
       \/ NetFault /\ lease' \in {lease, lease \cup {netCall.n}} /\ NetAt("cleanup")
    /\ UNCHANGED <<netWants, netFile, portSet, bridges, netNs, my, wgVars, netGhosts>>

\* ConfigureWG takes the device down, sets the port and takes it up, which the
\* kernel refuses for a port in use.  The answer to an engine that restarted is
\* lost.
ConfigureWG ==
    /\ netCall.at = "configure"
    /\ LET n == netCall.n
           set == [wgPort EXCEPT ![n] = netWants[n]]
           inUse == \E m \in wgUp \ {n} : wgPort[m] = netWants[n]
       IN \/ /\ ~inUse
             /\ wgPort' = set /\ wgUp' = wgUp \cup {n}
             /\ \/ NetResult("ok") /\ UNCHANGED netUse
                \/ NetFault /\ NetResult("init")
                \/ NetFault /\ NetAt("cleanup")
          \/ /\ inUse
             /\ wgPort' = set /\ wgUp' = wgUp \ {n}
             /\ NetAt("cleanup") /\ UNCHANGED netUse
          \/ /\ NetFault
             /\ wgPort' \in {wgPort, set} /\ wgUp' = wgUp \ {n}
             /\ NetAt("cleanup")
    /\ UNCHANGED <<netWants, netFile, portSet, netParts, wgHost, netGhosts>>
-----------------------------------------------------------------------------
\* the bridge and the namespace go; a device not moved is not found
DeleteLinks(n) ==
    /\ bridges' = bridges \ {n} /\ netNs' = netNs \ {n}
    /\ wgPort' = [wgPort EXCEPT ![n] = IF n \in wgHost THEN @ ELSE NoPort]
    /\ wgUp' = wgUp \ {n}
    /\ UNCHANGED <<lease, wgHost>>

\* NetResource.Delete
DeleteAll(n) == DeleteLinks(n) /\ my' = my \ {n}

\* with a failure: an error of a bridge ends it (stopped) and leaves the
\* namespace, one of the namespace or of zinit is logged
DeleteSome(n, stopped) ==
    /\ NetFault
    /\ \/ /\ my' \in {my, my \ {n}}
          /\ bridges' \in {bridges \ {n}} \cup {b \in {bridges} : stopped}
          /\ UNCHANGED <<netNs, lease, wgVars>>
       \/ ~stopped /\ n \in my /\ DeleteLinks(n) /\ UNCHANGED my

\* the cleanup of CreateNR, which logs its errors
Cleanup ==
    /\ netCall.at = "cleanup"
    /\ LET n == netCall.n
       IN /\ \/ DeleteAll(n) /\ UNCHANGED <<disputed, netUse>>
             \/ /\ \E stopped \in BOOLEAN : DeleteSome(n, stopped)
                /\ disputed' = disputed \cup ({netWants[n]} \cap {wgPort'[n]})
          /\ portSet' = portSet \ {netWants[n]}
    /\ NetResult("error")
    /\ UNCHANGED <<netWants, netFile, netLeft>>

\* the engine removes a network, in error or not
NetDeprovision(n) ==
    /\ netCall = NetIdle /\ netState[n] \in {"ok", "error"}
    /\ netCall' = [at |-> "delete", n |-> n]
    /\ UNCHANGED <<netState, netWants, netFile, portSet, netParts, wgVars, netGhosts, netUse>>

\* the deployment goes all the same, unless an update removes the network
NotRemoved == \E s \in {"error", "failed"} : NetResult(s)

\* DeleteNR: the resource of the stored object
DeleteResource ==
    /\ netCall.at = "delete"
    /\ LET n == netCall.n
       IN \/ /\ netFile[n] \in {NoPort, TornNet}
             /\ NotRemoved
             /\ UNCHANGED <<netParts, wgVars, netLeft, netUse>>
          \/ /\ netFile[n] \in Ports
             /\ \/ DeleteAll(n) /\ NetAt("release") /\ netLeft' = netLeft \ {n} /\ UNCHANGED netUse
                \/ DeleteSome(n, FALSE) /\ NetAt("release") /\ netLeft' = netLeft \cup {n}
                \/ DeleteSome(n, TRUE) /\ NotRemoved /\ UNCHANGED netLeft
    /\ UNCHANGED <<netWants, netFile, portSet, disputed>>

\* then the port, the lease and the object, of which errors are logged
ReleaseNetwork ==
    /\ netCall.at = "release"
    /\ LET n == netCall.n
       IN /\ portSet' = portSet \ {netFile[n]}
          /\ disputed' = disputed \cup ({netFile[n]} \cap {wgPort[n]})
          /\ \/ /\ lease' = lease \ {n} /\ netFile' = [netFile EXCEPT ![n] = NoPort]
                /\ UNCHANGED <<netLeft, netUse>>
             \/ /\ NetFault /\ netLeft' = netLeft \cup {n}
                /\ \/ UNCHANGED lease /\ netFile' = [netFile EXCEPT ![n] = NoPort]
                   \/ lease' = lease \ {n} /\ UNCHANGED netFile
    /\ NetResult("deleted")
    /\ UNCHANGED <<netWants, bridges, netNs, my, wgVars>>
-----------------------------------------------------------------------------
\* mutant: the ports of the networks are not read
MutSyncWGPorts(seen) == DaemonPorts

\* syncWGPorts, from the devices of the namespaces it can read
SyncWGPorts(seen) == DaemonPorts \cup {wgPort[n] : n \in {m \in seen : wgPort[m] \in Ports}}

\* networkd restarts; a call under way is an error
NetworkdRestart ==
    /\ NetFault
    /\ \E missed \in SUBSET netNs :
         /\ portSet' = SyncWGPorts(netNs \ (missed \cup wgHost))
         /\ disputed' = disputed \cup {wgPort[n] : n \in {m \in missed : wgPort[m] \in Ports}}
    /\ netState' \in IF netCall.at = "idle" THEN {netState}
                     ELSE {[netState EXCEPT ![netCall.n] = s] : s \in
                             IF netCall.at \in {"delete", "release"} THEN {"error", "failed"}
                             ELSE {"error"}}
    /\ netCall' = NetIdle
    /\ UNCHANGED <<netWants, netFile, netParts, wgVars, netLeft>>

\* the node reboots, and what was okay is provisioned again
NetworkdReboot ==
    /\ NetFault
    /\ netFile' = [n \in Nets |-> NoPort]
    /\ portSet' = DaemonPorts
    /\ bridges' = {} /\ netNs' = {} /\ my' = {} /\ lease' = {}
    /\ wgPort' = [n \in Nets |-> NoPort] /\ wgUp' = {} /\ wgHost' = {}
    /\ netState' = [n \in Nets |-> IF netState[n] = "ok" THEN "init" ELSE netState[n]]
    /\ netCall' = NetIdle
    /\ netLeft' = {} /\ disputed' = {}
    /\ UNCHANGED netWants

NetworkdNext ==
    \/ \E n \in Nets : NetReprovision(n) \/ NetDeprovision(n)
                       \/ \E p \in Ports : NetProvision(n, p)
    \/ StoreNetwork \/ ReservePort \/ CreateResource \/ SetMycelium \/ SetWireguard
    \/ AttachNR \/ ConfigureWG \/ Cleanup \/ DeleteResource \/ ReleaseNetwork
    \/ NetworkdRestart \/ NetworkdReboot

NetworkdSpec == NetworkdInit /\ [][NetworkdNext]_netVars
-----------------------------------------------------------------------------
NetworkdTypeOK ==
    /\ netState \in [Nets -> {"none", "init", "ok", "error", "deleted", "failed"}]
    /\ netWants \in [Nets -> Ports \cup {NoPort}]
    /\ netFile \in [Nets -> Ports \cup {NoPort, TornNet}]
    /\ portSet \subseteq Ports /\ disputed \subseteq Ports
    /\ \A s \in {bridges, netNs, my, lease, wgUp, wgHost, netLeft} : s \subseteq Nets
    /\ wgPort \in [Nets -> Ports \cup {0, NoPort}]

\* An okay network no call is about has all its parts and listens on the port it
\* asked for.
OkIsWhole ==
    \A n \in Nets \ {netCall.n} : netState[n] = "ok" =>
        /\ n \in bridges \cap netNs \cap lease \cap (wgUp \ wgHost)
        /\ n \in WithMycelium => n \in my
        /\ netWants[n] = netFile[n] /\ netWants[n] = wgPort[n]

\* A removed network has left nothing, unless an error was ignored.
DeletedIsGone ==
    \A n \in Nets \ netLeft : netState[n] = "deleted" =>
        /\ n \notin bridges \cup netNs \cup my \cup lease \cup wgUp
        /\ netFile[n] = NoPort /\ (wgPort[n] = NoPort \/ n \in wgHost)

\* A port that a network listens on is in the list of taken ports that users
\* look at before they choose one, unless it was given to two (WireguardPorts).
PortsListed == \A n \in wgUp : wgPort[n] \in portSet \cup disputed

\* Networks stay whole, or go without a rest, and their ports are listed,
\* through failed and repeated CreateNR, updates that change the port, cleanups
\* that take a running network down, and restarts that rebuild the list
\* (CreateNR, DeleteNR, syncWGPorts).
NetworksHold == OkIsWhole /\ DeletedIsGone /\ PortsListed

\* The ports of the node's daemons are never picked for wireguard endpoints
\* (NewNetworker puts them into the port set to this end).
DaemonPortsKept == \A n \in wgUp : wgPort[n] \notin DaemonPorts
=============================================================================
