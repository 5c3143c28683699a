---------------------------- MODULE PublicConfig ----------------------------
(***************************************************************************)
(* The public configuration of a node (noded, public.go): applied from the *)
(* chain at the start, then from the events of the chain, and from the     *)
(* chain again every two hours.  The event of a change carries the         *)
(* configuration it set; it may be lost, and is delivered again when the   *)
(* consumer stopped before it acknowledged it.                             *)
(***************************************************************************)
EXTENDS Integers, Sequences

CONSTANTS Configs,       \* public configurations, one of them is none
          NoConfig,
          MaxConfigs,    \* bound on the changes on the chain
          MaxPublicFaults

ASSUME PublicAssumption == NoConfig \in Configs

VARIABLES chainConfig, applied,
          configEvents, \* the stream
          publicStep,   \* what public does, and with which configuration
          configs, publicFaults

publicVars == <<chainConfig, applied, configEvents, publicStep, configs, publicFaults>>

PublicInit ==
    /\ chainConfig \in Configs
    /\ applied = NoConfig
    /\ configEvents = <<>>
    /\ publicStep = [at |-> "read", config |-> NoConfig]
    /\ configs = 0 /\ publicFaults = 0

PublicFails == publicFaults < MaxPublicFaults /\ publicFaults' = publicFaults + 1

PublicGoto(at, config) == publicStep' = [at |-> at, config |-> config]

\* the farmer sets the configuration; the push of the event may fail
SetOnChain ==
    /\ configs < MaxConfigs
    /\ configs' = configs + 1
    /\ chainConfig' \in Configs \ {chainConfig}
    /\ \/ configEvents' = Append(configEvents, chainConfig') /\ UNCHANGED publicFaults
       \/ PublicFails /\ UNCHANGED configEvents
    /\ UNCHANGED <<applied, publicStep>>

\* reapply: the configuration on the chain; main calls public again on an error
ReadConfig ==
    /\ publicStep.at = "read"
    /\ \/ PublicGoto("apply", chainConfig) /\ UNCHANGED publicFaults
       \/ PublicFails /\ UNCHANGED publicStep
    /\ UNCHANGED <<chainConfig, applied, configEvents, configs>>

\* mutant: events that wait when a configuration is applied are dropped
MutSetPublicConfig ==
    /\ publicStep.at = "apply"
    /\ \/ /\ applied' = publicStep.config
          /\ PublicGoto("listen", NoConfig)
          /\ configEvents' = <<>>
          /\ UNCHANGED publicFaults
       \/ /\ PublicFails
          /\ PublicGoto("read", NoConfig)
          /\ applied' \in {applied, publicStep.config}
          /\ UNCHANGED configEvents
    /\ UNCHANGED <<chainConfig, configs>>

\* setPublicConfig, through networkd: applied, or failed with either outcome
SetPublicConfig ==
    /\ publicStep.at = "apply"
    /\ \/ /\ applied' = publicStep.config
          /\ PublicGoto("listen", NoConfig)
          /\ UNCHANGED publicFaults
       \/ /\ PublicFails
          /\ PublicGoto("read", NoConfig)
          /\ applied' \in {applied, publicStep.config}
    /\ UNCHANGED <<chainConfig, configEvents, configs>>

\* the event was acknowledged when received, or is delivered once more
ConfigEvent ==
    /\ publicStep.at = "listen"
    /\ configEvents # <<>>
    /\ PublicGoto("apply", Head(configEvents))
    /\ \/ configEvents' = Tail(configEvents) /\ UNCHANGED publicFaults
       \/ PublicFails /\ UNCHANGED configEvents
    /\ UNCHANGED <<chainConfig, applied, configs>>

\* two hours without an event
Reapply ==
    /\ publicStep.at = "listen"
    /\ configEvents = <<>>
    /\ PublicGoto("read", NoConfig)
    /\ UNCHANGED <<chainConfig, applied, configEvents, configs, publicFaults>>

\* noded restarts; what networkd applied stays
PublicRestart ==
    /\ publicStep.at # "read"
    /\ PublicFails
    /\ PublicGoto("read", NoConfig)
    /\ UNCHANGED <<chainConfig, applied, configEvents, configs>>

\* the loop of public, called again by main
PublicLoop == ReadConfig \/ SetPublicConfig \/ ConfigEvent \/ Reapply

PublicNext == SetOnChain \/ PublicLoop \/ PublicRestart

PublicFairness == WF_publicVars(PublicLoop)

PublicSpec == PublicInit /\ [][PublicNext]_publicVars /\ PublicFairness
-----------------------------------------------------------------------------
PublicTypeOK ==
    /\ chainConfig \in Configs /\ applied \in Configs
    /\ configEvents \in Seq(Configs)
    /\ publicStep \in [at : {"read", "apply", "listen"}, config : Configs]

\* Once the configuration on the chain stays, the node has it applied: lost,
\* repeated and stale events, failures and restarts are put right by the next
\* event or by the read every two hours ("last resort, if none of the events
\* was received").
PublicConverges == <>[](applied = chainConfig)

\* An event handled after the chain was read may set an older configuration;
\* it is followed by the newer one.  When public listens with nothing left to
\* handle and no event or call failed, the configuration is that of the chain.
NoStaleConfig ==
    publicFaults = 0 /\ publicStep.at = "listen" /\ configEvents = <<>> => applied = chainConfig
=============================================================================
