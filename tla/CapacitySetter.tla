--------------------------- MODULE CapacitySetter ---------------------------
(***************************************************************************)
(* provisiond reports to the chain what each contract uses (cap.go): the   *)
(* engine hands every deployment it changed to the setter through a        *)
(* channel; the setter reads the deployment again and sets its             *)
(* consumption, with a few attempts.                                       *)
(***************************************************************************)
EXTENDS Integers, Sequences

CONSTANTS Contracts,
          MaxUse,        \* a deployment uses 0 .. MaxUse; 0: no workload is okay
          ChannelSize,
          MaxAttempts,   \* 1 + the retries of setWithClient
          MaxChanges,    \* bound on the changes by the engine
          MaxSetFaults   \* bound on failed calls, and on restarts

VARIABLES used,      \* capacity of the stored deployment
          onChain,   \* consumption on the chain
          capEngine, \* contracts the engine is about to report
          channel,
          setter,    \* the set in progress: values by contract, attempts left
          unreported,\* contracts whose last report was given up
          changes, setFaults, setRestarts

capVars == <<used, onChain, capEngine, channel, setter, unreported, changes, setFaults,
             setRestarts>>

NoValues == [c \in {} |-> 0]
Resting == [busy |-> FALSE, values |-> NoValues, left |-> 0, running |-> TRUE]

\* Set of the deployments with these contracts
Setting(contracts, running) ==
    [busy |-> contracts # {}, values |-> [c \in contracts |-> used[c]],
     left |-> MaxAttempts, running |-> running]

\* an attempt failed
OneLess == [busy |-> TRUE, values |-> setter.values, left |-> setter.left - 1,
            running |-> setter.running]

CapInit ==
    /\ used = [c \in Contracts |-> 0]
    /\ onChain = [c \in Contracts |-> 0]
    /\ capEngine = {} /\ channel = <<>>
    /\ setter = Resting
    /\ unreported = {}
    /\ changes = 0 /\ setFaults = 0 /\ setRestarts = 0

\* the engine provisions, updates or pauses; it takes one job at a time and
\* starts after the consumption of the active deployments was set
EngineChange(c) ==
    /\ capEngine = {} /\ setter.running
    /\ changes < MaxChanges
    /\ changes' = changes + 1
    /\ \E u \in 0 .. MaxUse : used' = [used EXCEPT ![c] = u]
    /\ capEngine' = {c}
    /\ UNCHANGED <<onChain, channel, setter, unreported, setFaults, setRestarts>>

\* mutant: a full channel drops the contract
MutCallback ==
    /\ capEngine # {}
    /\ \E c \in capEngine :
         channel' = IF Len(channel) < ChannelSize THEN Append(channel, c) ELSE channel
    /\ capEngine' = {}
    /\ UNCHANGED <<used, onChain, setter, unreported, changes, setFaults, setRestarts>>

\* mutant: the channel has no limit
MutCallbackRoom ==
    /\ capEngine # {}
    /\ \E c \in capEngine : channel' = Append(channel, c)
    /\ capEngine' = {}
    /\ UNCHANGED <<used, onChain, setter, unreported, changes, setFaults, setRestarts>>

\* Callback blocks the engine while the channel is full
Callback ==
    /\ capEngine # {}
    /\ Len(channel) < ChannelSize
    /\ \E c \in capEngine : channel' = Append(channel, c)
    /\ capEngine' = {}
    /\ UNCHANGED <<used, onChain, setter, unreported, changes, setFaults, setRestarts>>

\* Run takes a contract and reads its deployment from the storage
TakeContract ==
    /\ setter.running /\ ~ setter.busy
    /\ channel # <<>>
    /\ channel' = Tail(channel)
    /\ setter' = Setting({Head(channel)}, TRUE)
    /\ UNCHANGED <<used, onChain, capEngine, unreported, changes, setFaults, setRestarts>>

\* mutant: Run ends when a report is given up
MutSetConsumption ==
    /\ setter.busy
    /\ \/ /\ onChain' = [c \in Contracts |->
                IF c \in DOMAIN setter.values THEN setter.values[c] ELSE onChain[c]]
          /\ setter' = Resting
          /\ unreported' = unreported \ DOMAIN setter.values
          /\ UNCHANGED setFaults
       \/ /\ setFaults < MaxSetFaults
          /\ setFaults' = setFaults + 1
          /\ IF setter.left > 1
             THEN setter' = OneLess /\ UNCHANGED unreported
             ELSE /\ setter' = [Resting EXCEPT !.running = FALSE]
                  /\ unreported' = unreported \cup DOMAIN setter.values
          /\ UNCHANGED onChain
    /\ UNCHANGED <<used, capEngine, channel, changes, setRestarts>>

\* SetContractConsumption; after the last attempt the report is given up
SetConsumption ==
    /\ setter.busy
    /\ \/ /\ onChain' = [c \in Contracts |->
                IF c \in DOMAIN setter.values THEN setter.values[c] ELSE onChain[c]]
          /\ setter' = Resting
          /\ unreported' = unreported \ DOMAIN setter.values
          /\ UNCHANGED setFaults
       \/ /\ setFaults < MaxSetFaults
          /\ setFaults' = setFaults + 1
          /\ IF setter.left > 1
             THEN setter' = OneLess /\ UNCHANGED unreported
             ELSE setter' = Resting /\ unreported' = unreported \cup DOMAIN setter.values
          /\ UNCHANGED onChain
    /\ UNCHANGED <<used, capEngine, channel, changes, setRestarts>>

\* provisiond stops and starts again: the channel is lost, the consumption of
\* the deployments that have an active workload is set before the engine runs
ProvisiondRestart ==
    /\ setRestarts < MaxSetFaults
    /\ setRestarts' = setRestarts + 1
    /\ capEngine' = {} /\ channel' = <<>>
    /\ LET active == {c \in Contracts : used[c] > 0} IN
         /\ setter' = Setting(active, active = {})
         /\ unreported' = unreported \cup (Contracts \ active)
    /\ UNCHANGED <<used, onChain, changes, setFaults>>

CapNext ==
    \/ \E c \in Contracts : EngineChange(c)
    \/ Callback \/ TakeContract \/ SetConsumption \/ ProvisiondRestart

CapFairness == WF_capVars(Callback) /\ WF_capVars(TakeContract \/ SetConsumption)

CapSpec == CapInit /\ [][CapNext]_capVars /\ CapFairness
-----------------------------------------------------------------------------
CapTypeOK ==
    /\ used \in [Contracts -> 0 .. MaxUse] /\ onChain \in [Contracts -> 0 .. MaxUse]
    /\ Len(channel) <= ChannelSize
    /\ \A i \in 1 .. Len(channel) : channel[i] \in Contracts
    /\ setter.left \in 0 .. MaxAttempts /\ unreported \subseteq Contracts

\* The chain ends up billing what a deployment uses: reports that overtake each
\* other, a full channel, a restart in the middle and failed calls do not leave
\* an older value there; except for a report whose attempts all failed, and a
\* deployment without an active workload when provisiond restarted.
CapacityReported ==
    \A c \in Contracts : <>[](c \in unreported \/ onChain[c] = used[c])

\* A contract whose consumption differs on the chain is on its way there: in
\* the engine, in the channel or in the setter (Callback never drops one).
NothingForgotten ==
    \A c \in Contracts \ unreported :
        \/ onChain[c] = used[c]
        \/ c \in capEngine
        \/ \E i \in 1 .. Len(channel) : channel[i] = c
        \/ c \in DOMAIN setter.values /\ setter.values[c] = used[c]
=============================================================================
