---------------------------- MODULE PowerServer ----------------------------
(***************************************************************************)
(* Power management of a farm (pkg/power): every node runs a power server  *)
(* that follows the power targets the farmer sets on the chain.  A node    *)
(* whose target is down announces it and shuts down; the others wake it    *)
(* over the network when its target is up again.                           *)
(*                                                                         *)
(* A power event reaches the stream of a node only while noded of that     *)
(* node follows the chain (feed); redis, and so the stream, is gone when   *)
(* the node is.                                                            *)
(***************************************************************************)
EXTENDS Integers, Sequences, FiniteSets

CONSTANTS PowerNodes,
          WakeOnLan,     \* nodes where power management is enabled
          MaxTargets,    \* bound on the changes of a target
          MaxPowerFaults \* bound on failed calls and restarts of powerd

ASSUME PowerAssumption == WakeOnLan \subseteq PowerNodes

VARIABLES powered,     \* nodes that are on
          canShutdown, \* nodes whose zinit supports shutdown
          targetUp,    \* nodes whose target on the chain is up
          stateUp,     \* nodes whose state on the chain is up
          feed,        \* nodes whose noded pushes events
          powerEvents, \* the stream of each node
          server,      \* what the power server of each node does
          missed,      \* nodes whose own event came after the sync, before the feed
          targets, powerFaults

chainVars == <<targetUp, stateUp>>
powerVars == <<powered, canShutdown, chainVars, feed, powerEvents, server, missed,
               targets, powerFaults>>

At(what, node) == [at |-> what, node |-> node]

PowerInit ==
    /\ powered = PowerNodes
    /\ canShutdown \in SUBSET WakeOnLan
    /\ targetUp = PowerNodes /\ stateUp = PowerNodes
    /\ feed = {}
    /\ powerEvents = [n \in PowerNodes |-> <<>>]
    /\ server = [n \in PowerNodes |-> At("sync", n)]
    /\ missed = {}
    /\ targets = 0 /\ powerFaults = 0

PowerFails == powerFaults < MaxPowerFaults /\ powerFaults' = powerFaults + 1

Goto(n, what, node) == server' = [server EXCEPT ![n] = At(what, node)]

InOrOut(set, n, in) == IF in THEN set \cup {n} ELSE set \ {n}
-----------------------------------------------------------------------------
\* the farmer changes a target on the chain
SetTarget(n) ==
    /\ targets < MaxTargets
    /\ targets' = targets + 1
    /\ targetUp' = InOrOut(targetUp, n, n \notin targetUp)
    /\ powerEvents' = [m \in PowerNodes |->
           IF m \in feed THEN Append(powerEvents[m], [node |-> n, up |-> n \notin targetUp])
           ELSE powerEvents[m]]
    /\ missed' = IF n \in powered \ feed /\ server[n].at # "sync" THEN missed \cup {n}
                 ELSE missed
    /\ UNCHANGED <<powered, canShutdown, stateUp, feed, server, powerFaults>>

\* noded got the node id from the registrar and follows the chain
StartFeed(n) ==
    /\ n \in powered \ feed
    /\ feed' = feed \cup {n}
    /\ UNCHANGED <<powered, canShutdown, chainVars, powerEvents, server, missed, targets,
                   powerFaults>>

\* mutant: a target that is up needs nothing
MutSyncSelf(n) ==
    /\ server[n].at = "sync" /\ n \in powered
    /\ \/ Goto(n, IF n \in targetUp THEN "listen" ELSE "setDown", n) /\ UNCHANGED powerFaults
       \/ PowerFails /\ UNCHANGED server
    /\ missed' = missed \ {n}
    /\ UNCHANGED <<powered, canShutdown, chainVars, feed, powerEvents, targets>>

\* mutant: shuts down before the state is set
MutSyncDown(n) ==
    /\ server[n].at = "sync" /\ n \in powered
    /\ \/ Goto(n, IF n \in targetUp THEN "setUp" ELSE "halt", n) /\ UNCHANGED powerFaults
       \/ PowerFails /\ UNCHANGED server
    /\ missed' = missed \ {n}
    /\ UNCHANGED <<powered, canShutdown, chainVars, feed, powerEvents, targets>>

\* syncSelf reads the target; an error is retried by the loop of events
SyncSelf(n) ==
    /\ server[n].at = "sync" /\ n \in powered
    /\ \/ Goto(n, IF n \in targetUp THEN "setUp" ELSE "setDown", n) /\ UNCHANGED powerFaults
       \/ PowerFails /\ UNCHANGED server
    /\ missed' = missed \ {n}
    /\ UNCHANGED <<powered, canShutdown, chainVars, feed, powerEvents, targets>>

\* setNodePowerState: always up where power management is not enabled
SetNodePowerState(n) ==
    /\ server[n].at \in {"setUp", "setDown"}
    /\ \/ /\ stateUp' = InOrOut(stateUp, n, n \notin WakeOnLan \/ server[n].at = "setUp")
          /\ Goto(n, IF server[n].at = "setUp" THEN "listen" ELSE "halt", n)
          /\ UNCHANGED powerFaults
       \/ /\ PowerFails
          /\ Goto(n, "sync", n)
          /\ UNCHANGED stateUp
    /\ UNCHANGED <<powered, canShutdown, targetUp, feed, powerEvents, missed, targets>>

\* shutdown: the node is off, or reboots where zinit cannot shut down
Shutdown(n) ==
    /\ server[n].at = "halt"
    /\ \/ /\ n \notin WakeOnLan
          /\ Goto(n, "listen", n)
          /\ UNCHANGED <<powered, feed, powerEvents, missed, powerFaults>>
       \/ /\ n \in WakeOnLan
          /\ powered' = InOrOut(powered, n, n \notin canShutdown)
          /\ feed' = feed \ {n}
          /\ powerEvents' = [powerEvents EXCEPT ![n] = <<>>]
          /\ missed' = missed \ {n}
          /\ Goto(n, "sync", n)
          /\ UNCHANGED powerFaults
       \/ /\ n \in WakeOnLan
          /\ PowerFails
          /\ Goto(n, "sync", n)
          /\ UNCHANGED <<powered, feed, powerEvents, missed>>
    /\ UNCHANGED <<canShutdown, chainVars, targets>>

\* event: acts on the target in the event, not on the one on the chain.  The
\* event is acknowledged when it is received; an error makes recv start over.
Event(n) ==
    /\ server[n].at = "listen" /\ powerEvents[n] # <<>>
    /\ LET e == Head(powerEvents[n]) IN
       \/ /\ PowerFails
          /\ Goto(n, "sync", n)
       \/ /\ Goto(n, IF e.up THEN "wake" ELSE IF e.node = n THEN "setDown" ELSE "listen", e.node)
          /\ UNCHANGED powerFaults
    /\ powerEvents' = [powerEvents EXCEPT ![n] = Tail(@)]
    /\ UNCHANGED <<powered, canShutdown, chainVars, feed, missed, targets>>

\* powerUp: wake on lan packets; they do nothing to a node that is on, and an
\* error to send them is only logged
PowerUp(n) ==
    /\ server[n].at = "wake"
    /\ Goto(n, "listen", n)
    /\ \/ powered' = powered \cup {server[n].node} /\ UNCHANGED powerFaults
       \/ PowerFails /\ UNCHANGED powered
    /\ UNCHANGED <<canShutdown, chainVars, feed, powerEvents, missed, targets>>

\* powerd stops and is started again by zinit
PowerdRestart(n) ==
    /\ n \in powered /\ server[n].at # "sync"
    /\ PowerFails
    /\ Goto(n, "sync", n)
    /\ UNCHANGED <<powered, canShutdown, chainVars, feed, powerEvents, missed, targets>>

\* the loop of events
PowerLoop(n) == SyncSelf(n) \/ SetNodePowerState(n) \/ Shutdown(n) \/ Event(n) \/ PowerUp(n)

PowerNext ==
    \E n \in PowerNodes : PowerLoop(n) \/ StartFeed(n) \/ SetTarget(n) \/ PowerdRestart(n)

\* every loop of a running node goes on
PowerFairness ==
    \A n \in PowerNodes :
        WF_powerVars(StartFeed(n)) /\ WF_powerVars(PowerLoop(n))

PowerSpec == PowerInit /\ [][PowerNext]_powerVars /\ PowerFairness
-----------------------------------------------------------------------------
PowerTypeOK ==
    /\ powered \subseteq PowerNodes /\ feed \subseteq powered
    /\ targetUp \subseteq PowerNodes /\ stateUp \subseteq PowerNodes
    /\ \A n \in PowerNodes :
         server[n].at \in {"sync", "setUp", "setDown", "halt", "listen", "wake"}

\* A node that is off is down on the chain, so the farmer is not billed an
\* outage: the state is set before the shutdown, also when the event is stale,
\* a call fails in between or powerd restarts (event, syncSelf).
OffIsAnnounced == \A n \in PowerNodes \ powered : n \notin stateUp

\* When the targets do not change any more, what the chain says of a node is
\* what it is: a shutdown that failed half way, or a node woken up against its
\* target, is put right.  Nodes that can only reboot never come to rest.
StateConverges ==
    \A n \in PowerNodes :
        <>[](n \in WakeOnLan \ canShutdown \/ (n \in powered <=> n \in stateUp))

\* A node that can power off and whose target stays down ends up off, unless
\* its event fell in the gap between the sync and the start of noded's feed.
DownConverges ==
    \A n \in PowerNodes :
        <>[](n \in canShutdown /\ n \notin targetUp /\ n \notin missed => n \notin powered)

\* "power target is the state the node has to be in" (syncSelf): a node whose
\* target stays up ends up on, with another node on to wake it.
UpConverges == \A n \in PowerNodes : <>[](n \in targetUp => n \in powered)
=============================================================================
