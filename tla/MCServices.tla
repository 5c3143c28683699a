---------------------------- MODULE MCServices ----------------------------
(***************************************************************************)
(* The services that keep a node and the chain in step, each with its own  *)
(* loop: the event stream, power management, the registrar, the public     *)
(* configuration, the upgrader, the capacity setter, the reporter of       *)
(* network use and the web gateway.  They share no state, so a behaviour   *)
(* runs one of them, the focus; the others rest in an initial state.       *)
(***************************************************************************)
EXTENDS EventStream, PowerServer, Registrar, PublicConfig, Upgrader, CapacitySetter,
        Reporter, Gateway

VARIABLE focus

servicesVars == <<focus, eventVars, powerVars, registrarVars, publicVars, upgradeVars, capVars,
                  reporterVars, gwVars>>

MCContents == [t \in {"t1", "t2", "t3"} |->
    CASE t = "t1" -> [a |-> 1, b |-> 1, zos |-> 1]
      [] t = "t2" -> [a |-> 2, b |-> 1, zos |-> 2]
      [] t = "t3" -> [a |-> 2, b |-> 3, zos |-> 3]]

ServicesInit ==
    /\ focus \in {"events", "power", "registrar", "public", "upgrade", "capacity", "reporter",
                "gateway"}
    /\ EventInit /\ PowerInit /\ RegistrarInit /\ PublicInit /\ UpgradeInit /\ CapInit
    /\ ReporterInit /\ GatewayInit
    /\ focus = "power" \/ canShutdown = {}
    /\ focus = "public" \/ chainConfig = NoConfig
    /\ focus = "upgrade" \/
         (safeToUpgrade /\ node.bootstrap /\ node.dev /\ node.testFarm /\ node.noZos)
    /\ focus = "reporter" \/ clock = 0

Events ==
    /\ focus = "events" /\ EventNext
    /\ UNCHANGED <<focus, powerVars, registrarVars, publicVars, upgradeVars, capVars,
                   reporterVars, gwVars>>

Power ==
    /\ focus = "power" /\ PowerNext
    /\ UNCHANGED <<focus, eventVars, registrarVars, publicVars, upgradeVars, capVars,
                   reporterVars, gwVars>>

Registration ==
    /\ focus = "registrar" /\ RegistrarNext
    /\ UNCHANGED <<focus, eventVars, powerVars, publicVars, upgradeVars, capVars,
                   reporterVars, gwVars>>

Public ==
    /\ focus = "public" /\ PublicNext
    /\ UNCHANGED <<focus, eventVars, powerVars, registrarVars, upgradeVars, capVars,
                   reporterVars, gwVars>>

Upgrades ==
    /\ focus = "upgrade" /\ UpgradeNext
    /\ UNCHANGED <<focus, eventVars, powerVars, registrarVars, publicVars, capVars,
                   reporterVars, gwVars>>

Capacity ==
    /\ focus = "capacity" /\ CapNext
    /\ UNCHANGED <<focus, eventVars, powerVars, registrarVars, publicVars, upgradeVars,
                   reporterVars, gwVars>>

Reporting ==
    /\ focus = "reporter" /\ ReporterNext
    /\ UNCHANGED <<focus, eventVars, powerVars, registrarVars, publicVars, upgradeVars,
                   capVars, gwVars>>

Routing ==
    /\ focus = "gateway" /\ GatewayNext
    /\ UNCHANGED <<focus, eventVars, powerVars, registrarVars, publicVars, upgradeVars,
                   capVars, reporterVars>>

ServicesNext == \/ Events \/ Power \/ Registration \/ Public \/ Upgrades \/ Capacity
                \/ Reporting \/ Routing

\* the fairness of every component that promises progress, while it has the focus
ServicesFairness ==
    /\ WF_eventVars(focus = "events" /\ NewHead)
    /\ WF_eventVars(focus = "events" /\ PushBlock)
    /\ WF_eventVars(focus = "events" /\ (SetMemory \/ TruncateFile \/ WriteFile))
    /\ WF_eventVars(focus = "events" /\ (Pop \/ HandOver \/ Ack))
    /\ \A n \in PowerNodes :
         /\ WF_powerVars(focus = "power" /\ StartFeed(n))
         /\ WF_powerVars(focus = "power" /\ PowerLoop(n))
    /\ WF_registrarVars(focus = "registrar" /\ RegisterStep)
    /\ SF_registrarVars(focus = "registrar" /\ AddressUpdate)
    /\ WF_publicVars(focus = "public" /\ PublicLoop)
    /\ WF_upgradeVars(focus = "upgrade" /\ UpgradeLoop)
    /\ WF_capVars(focus = "capacity" /\ Callback)
    /\ WF_capVars(focus = "capacity" /\ (TakeContract \/ SetConsumption))
    /\ WF_gwVars(focus = "gateway" /\ GwEngine)
    /\ WF_gwVars(focus = "gateway" /\ GwCallStep)
    /\ WF_gwVars(focus = "gateway" /\ ValidatorStep)

ServicesSpec == ServicesInit /\ [][ServicesNext]_servicesVars /\ ServicesFairness
-----------------------------------------------------------------------------
\* Every variable of every service stays in its range; the channel of the
\* capacity setter never exceeds its size (cap.go).
ServicesTypeOK ==
    /\ EventTypeOK /\ PowerTypeOK /\ RegistrarTypeOK /\ PublicTypeOK /\ UpgradeTypeOK
    /\ CapTypeOK /\ ReporterTypeOK /\ GatewayTypeOK

\* In the end LatestSeen of EventStream holds: the last event the handler receives
\* is that of the latest block (events.go, redis.go).
EventsLatestWins == <>[](focus = "events" => LatestSeen)

\* StateConverges and DownConverges of PowerServer: the chain ends up telling
\* whether a node is on, and a node whose target stays down ends up off
\* (setNodePowerState, syncSelf, event).
PowerConverges == StateConverges /\ DownConverges

\* In the end AddressCurrent of Registrar holds: the address on the chain follows
\* the node, although the stub keeps only one signal (register).
RegistrarAddressReported == <>[](focus = "registrar" => AddressCurrent)

\* NoStaleConfig and PublicConverges of PublicConfig: the configuration of the
\* chain is applied whenever public is at rest, and in the end (public).
PublicConfigConverges == focus = "public" => []NoStaleConfig /\ PublicConverges

\* UpgradeConverges of Upgrader: the packages of the hub's tag are installed
\* and recorded in the end (Run, update).
UpgraderConverges == UpgradeConverges

\* CapacityReported of CapacitySetter: the chain bills what is used in the end
\* (Callback, Run, Set).
SetterCapacityReported == CapacityReported

\* NamesReleased of Gateway: a name without its contract loses its route
\* (validateNameContracts).
GatewayNamesReleased == NamesReleased
=============================================================================
