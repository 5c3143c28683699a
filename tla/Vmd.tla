-------------------------------- MODULE Vmd --------------------------------
(***************************************************************************)
(* vmd starts, watches and deletes the hypervisor processes of machines    *)
(* (pkg/vm).  Its monitor restarts a machine that is down, and has the     *)
(* workload decommissioned when that fails or happens too often.  Its      *)
(* calls come over zbus from the manager of zmachines in provisiond        *)
(* (pkg/primitives/vm): from the engine, one job at a time, and from       *)
(* DecommissionCached, which the monitor itself calls.                     *)
(***************************************************************************)
EXTENDS Integers, FiniteSets

CONSTANTS Machines,
          VmdWorkers,            \* zbus workers of vmd (flag workers)
          FailuresBeforeDestroy,
          MaxProvisions,         \* bound: jobs that create a machine
          MaxCrashes,            \* bound: hypervisors that die
          MaxVmFaults            \* bound: failed starts, inspections and restarts of vmd

ASSUME VmdAssumption ==
    Machines # {} /\ VmdWorkers \in Nat \ {0} /\ FailuresBeforeDestroy \in Nat \ {0}

VARIABLES workload,  \* state of the workload in the storage of provisiond
          procs,     \* number of hypervisor processes of a machine
          vmConfig,  \* machines with a configuration file
          ciImage,   \* machines with a cloud-init image
          failures,  \* the failure marker: none, a count, or permanent
          vmLock,    \* Module.lock: free, run or monitor
          callAt,    \* where the call of the engine, and of DecommissionCached, is
          callID,    \* the machine it is about
          callEnd,   \* the state of the workload it ends with
          monAt,     \* where the round of the monitor is
          monTodo,   \* listed machines it has to look at
          monRunning,\* machines that ran when it began
          monListed, \* machines that had a configuration when it began
          monID,     \* the machine that was down
          monMarker, \* its failure marker, as read
          vmUse      \* uses of the bounds

callVars == <<callAt, callID, callEnd>>
diskVars == <<vmConfig, ciImage>>
monVars == <<monAt, monTodo, monRunning, monListed, monID, monMarker>>
vmVars == <<workload, procs, diskVars, failures, vmLock, callVars, monVars, vmUse>>

NoFailure == 0 - 1
Permanent == 0 - 2
Callers == {"engine", "api"}
DeletePlaces == {"idle", "inspect", "delete", "shutdown", "result"}
CallPlaces == DeletePlaces \cup {"exists", "run", "lock", "boot", "undo", "store"}
MonPlaces == {"idle", "next", "count", "restart", "destroy", "call", "decommission"}
AnyMachine == CHOOSE m \in Machines : TRUE

VmdInit ==
    /\ workload = [m \in Machines |-> "none"]
    /\ procs = [m \in Machines |-> 0]
    /\ vmConfig = {} /\ ciImage = {}
    /\ failures = [m \in Machines |-> NoFailure]
    /\ vmLock = "free"
    /\ callAt = [c \in Callers |-> "idle"]
    /\ callID = [c \in Callers |-> AnyMachine]
    /\ callEnd = [c \in Callers |-> ""]
    /\ monAt = "idle" /\ monTodo = {} /\ monRunning = {} /\ monListed = {}
    /\ monID = AnyMachine /\ monMarker = NoFailure
    /\ vmUse = [provisions |-> 0, crashes |-> 0, faults |-> 0]

Exists(m) == procs[m] > 0

\* the calls that occupy a worker of vmd: Run, from its wait for the lock on,
\* and Delete, while it waits for the process to end
Serving == {c \in Callers : callAt[c] \in {"lock", "boot", "undo", "shutdown"}}
WorkerFree == Cardinality(Serving) < VmdWorkers

Goto(c, at) == callAt' = [callAt EXCEPT ![c] = at] /\ UNCHANGED <<callID, callEnd>>
Call(c, at, m, end) ==
    /\ callAt' = [callAt EXCEPT ![c] = at]
    /\ callID' = [callID EXCEPT ![c] = m]
    /\ callEnd' = [callEnd EXCEPT ![c] = end]
Return(c) == Call(c, "idle", AnyMachine, "")
May(what, bound) == vmUse[what] < bound /\ vmUse' = [vmUse EXCEPT ![what] = @ + 1]

\* processes of m end
Stop(m) == procs' = [procs EXCEPT ![m] = 0]
\* one more process
Start(m) == procs' = [procs EXCEPT ![m] = @ + 1]

removeConfig(m) == vmConfig' = vmConfig \ {m} /\ ciImage' = ciImage \ {m}
-----------------------------------------------------------------------------
\* A job of the engine creates the machine; a deleted name may come again
Provision(m) ==
    /\ callAt["engine"] = "idle"
    /\ workload[m] \in {"none", "deleted"}
    /\ May("provisions", MaxProvisions)
    /\ workload' = [workload EXCEPT ![m] = "init"]
    /\ Call("engine", "exists", m, "error")
    /\ UNCHANGED <<procs, diskVars, failures, vmLock, monVars>>

\* vm.Exists: with a process there, no action is needed and no result is stored
ProvisionExists ==
    /\ callAt["engine"] = "exists" /\ WorkerFree
    /\ IF Exists(callID["engine"]) THEN Return("engine") ELSE Goto("engine", "run")
    /\ UNCHANGED <<workload, procs, diskVars, failures, vmLock, monVars, vmUse>>

\* a worker of vmd takes the call of Run, and waits for the lock
RunTaken ==
    /\ callAt["engine"] = "run" /\ WorkerFree
    /\ Goto("engine", "lock")
    /\ UNCHANGED <<workload, procs, diskVars, failures, vmLock, monVars, vmUse>>

\* mutant: Run does not wait for the lock
MutRunLocked ==
    /\ callAt["engine"] = "lock"
    /\ LET m == callID["engine"] IN
         IF Exists(m)
         THEN Goto("engine", "delete") /\ UNCHANGED <<vmLock, diskVars>>
         ELSE /\ Goto("engine", "boot") /\ vmLock' = "run"
              /\ ciImage' = ciImage \cup {m} /\ vmConfig' = vmConfig \cup {m}
    /\ UNCHANGED <<workload, procs, failures, monVars, vmUse>>

\* Run has the lock; a machine of that name that runs is an error, otherwise
\* the cloud-init image and the configuration are written
RunLocked ==
    /\ callAt["engine"] = "lock" /\ vmLock = "free"
    /\ LET m == callID["engine"] IN
         IF Exists(m)
         THEN Goto("engine", "delete") /\ UNCHANGED <<vmLock, diskVars>>
         ELSE /\ Goto("engine", "boot") /\ vmLock' = "run"
              /\ ciImage' = ciImage \cup {m} /\ vmConfig' = vmConfig \cup {m}
    /\ UNCHANGED <<workload, procs, failures, monVars, vmUse>>

\* Machine.Run starts the hypervisor; when it fails, with the process there or
\* not, the deferred Delete marks the machine before the lock is released
RunBoot ==
    /\ callAt["engine"] = "boot"
    /\ LET m == callID["engine"] IN
         \/ /\ Start(m)
            /\ vmLock' = "free"
            /\ Goto("engine", "store")
            /\ UNCHANGED <<failures, vmUse>>
         \/ /\ May("faults", MaxVmFaults)
            /\ Start(m) \/ UNCHANGED procs
            /\ failures' = [failures EXCEPT ![m] = Permanent]
            /\ Goto("engine", "undo")
            /\ UNCHANGED vmLock
    /\ UNCHANGED <<workload, diskVars, monVars>>

\* the deferred Delete ends, Run returns the error, and the manager deletes the
\* machine once more
RunUndo ==
    /\ callAt["engine"] = "undo"
    /\ LET m == callID["engine"] IN
         Stop(m) /\ removeConfig(m) /\ failures' = [failures EXCEPT ![m] = NoFailure]
    /\ vmLock' = "free"
    /\ Goto("engine", "delete")
    /\ UNCHANGED <<workload, monVars, vmUse>>

\* the engine stores that the machine is okay, if the workload is still there
StoreOk ==
    /\ callAt["engine"] = "store"
    /\ LET m == callID["engine"] IN
         workload' = IF workload[m] = "init" THEN [workload EXCEPT ![m] = "ok"] ELSE workload
    /\ Return("engine")
    /\ UNCHANGED <<procs, diskVars, failures, vmLock, monVars, vmUse>>
-----------------------------------------------------------------------------
\* A job of the engine removes the machine
Deprovision(m) ==
    /\ callAt["engine"] = "idle"
    /\ workload[m] \in {"ok", "init"}
    /\ Call("engine", "inspect", m, "deleted")
    /\ UNCHANGED <<workload, procs, diskVars, failures, vmLock, monVars, vmUse>>

\* Only a machine that can be inspected is deleted: one that is down is not, and
\* neither is one that does not answer
Inspect(c) ==
    /\ callAt[c] = "inspect" /\ WorkerFree
    /\ \/ Exists(callID[c]) /\ Goto(c, "delete") /\ UNCHANGED vmUse
       \/ ~ Exists(callID[c]) /\ Goto(c, "result") /\ UNCHANGED vmUse
       \/ Exists(callID[c]) /\ May("faults", MaxVmFaults) /\ Goto(c, "result")
    /\ UNCHANGED <<workload, procs, diskVars, failures, vmLock, monVars>>

\* Delete marks the machine; it takes no lock
DeleteBegin(c) ==
    /\ callAt[c] = "delete" /\ WorkerFree
    /\ LET m == callID[c] IN
         IF Exists(m)
         THEN /\ failures' = [failures EXCEPT ![m] = Permanent]
              /\ Goto(c, "shutdown")
              /\ UNCHANGED diskVars
         ELSE /\ removeConfig(m)
              /\ failures' = [failures EXCEPT ![m] = NoFailure]
              /\ Goto(c, "result")
    /\ UNCHANGED <<workload, procs, vmLock, monVars, vmUse>>

\* the process ends, on the request or by a signal
DeleteEnd(c) ==
    /\ callAt[c] = "shutdown"
    /\ LET m == callID[c] IN
         Stop(m) /\ removeConfig(m) /\ failures' = [failures EXCEPT ![m] = NoFailure]
    /\ Goto(c, "result")
    /\ UNCHANGED <<workload, vmLock, monVars, vmUse>>

\* the engine stores the result of the job; a removed workload has none
StoreResult(c) ==
    /\ callAt[c] = "result"
    /\ LET m == callID[c] IN
         workload' = IF workload[m] = "deleted" THEN workload
                     ELSE [workload EXCEPT ![m] = callEnd[c]]
    /\ Return(c)
    /\ UNCHANGED <<procs, diskVars, failures, vmLock, monVars, vmUse>>

-----------------------------------------------------------------------------
\* A round of the monitor: it takes the lock, lists the configurations and the
\* processes
MonitorStart ==
    /\ monAt = "idle" /\ vmLock = "free"
    /\ vmLock' = "monitor"
    /\ monAt' = "next" /\ monTodo' = vmConfig /\ monListed' = vmConfig
    /\ monRunning' = {m \in Machines : Exists(m)}
    /\ UNCHANGED <<workload, procs, diskVars, failures, callVars, monID, monMarker, vmUse>>

\* the round goes on with machine m, or with the next one
Look(at, m, marker) ==
    /\ monAt' = at /\ monID' = m /\ monMarker' = marker
    /\ UNCHANGED <<monTodo, monRunning, monListed>>
NextID == Look("next", AnyMachine, NoFailure)
MonGoto(at) == Look(at, monID, monMarker)

\* mutant: what runs is left alone, whatever became of its workload
MutMonitorRunning(m) ==
    /\ monAt = "next" /\ m \in monTodo \cap monRunning
    /\ monTodo' = monTodo \ {m}
    /\ UNCHANGED <<workload, procs, diskVars, failures, vmLock, callVars, monAt, monRunning,
                   monListed, monID, monMarker, vmUse>>

\* a machine that ran: killed when its workload is gone
MonitorRunning(m) ==
    /\ monAt = "next" /\ m \in monTodo \cap monRunning
    /\ IF workload[m] \in {"none", "deleted", "error"}
       THEN removeConfig(m) /\ Stop(m)
       ELSE UNCHANGED <<procs, diskVars>>
    /\ monTodo' = monTodo \ {m}
    /\ UNCHANGED <<workload, failures, vmLock, callVars, monAt, monRunning, monListed, monID,
                   monMarker, vmUse>>

\* a machine that was down: its marker is read, and if it is permanent the
\* configuration goes
MonitorDown(m) ==
    /\ monAt = "next" /\ m \in monTodo \ monRunning
    /\ monTodo' = monTodo \ {m}
    /\ IF failures[m] = Permanent
       THEN removeConfig(m) /\ UNCHANGED <<monAt, monID, monMarker>>
       ELSE /\ monAt' = "count" /\ monID' = m /\ monMarker' = failures[m]
            /\ UNCHANGED diskVars
    /\ UNCHANGED <<workload, procs, failures, vmLock, callVars, monRunning, monListed, vmUse>>

\* the failure is counted: from zero when there was no marker; a marker that is
\* not a number any more is an error
MonitorCount ==
    /\ monAt = "count"
    /\ LET count == IF monMarker = NoFailure THEN 1 ELSE failures[monID] + 1 IN
         IF monMarker # NoFailure /\ failures[monID] \in {NoFailure, Permanent}
         THEN NextID /\ UNCHANGED failures
         ELSE /\ failures' = [failures EXCEPT ![monID] = count]
              /\ IF count >= FailuresBeforeDestroy THEN MonGoto("destroy")
                 ELSE IF monID \in vmConfig THEN MonGoto("restart") ELSE NextID
    /\ UNCHANGED <<workload, procs, diskVars, vmLock, callVars, vmUse>>

\* vm.Run of the configuration that was read; the hypervisor needs the image
MonitorRestart ==
    /\ monAt = "restart"
    /\ \/ monID \in ciImage /\ Start(monID) /\ NextID /\ UNCHANGED vmUse
       \/ monID \notin ciImage /\ MonGoto("destroy") /\ UNCHANGED <<procs, vmUse>>
       \/ /\ May("faults", MaxVmFaults)
          /\ Start(monID) \/ UNCHANGED procs
          /\ MonGoto("destroy")
    /\ UNCHANGED <<workload, diskVars, failures, vmLock, callVars>>

\* the configuration is removed
MonitorDestroy ==
    /\ monAt = "destroy"
    /\ removeConfig(monID)
    /\ MonGoto("call")
    /\ UNCHANGED <<workload, procs, failures, vmLock, callVars, vmUse>>

\* DecommissionCached is called, with the lock held; it has nothing to do for a
\* workload that is removed
MonitorCall ==
    /\ monAt = "call" /\ callAt["api"] = "idle"
    /\ IF workload[monID] \in {"deleted", "error"}
       THEN NextID /\ UNCHANGED callVars
       ELSE MonGoto("decommission") /\ Call("api", "inspect", monID, "deleted")
    /\ UNCHANGED <<workload, procs, diskVars, failures, vmLock, vmUse>>

\* DecommissionCached returned
MonitorDecommissioned ==
    /\ monAt = "decommission" /\ callAt["api"] = "idle"
    /\ NextID
    /\ UNCHANGED <<workload, procs, diskVars, failures, vmLock, callVars, vmUse>>

\* the context of DecommissionCached ends after three minutes: reached when the
\* workers of vmd wait for the lock of the monitor that waits for this call
DecommissionTimeout ==
    /\ callAt["api"] \in {"inspect", "delete"} /\ ~ WorkerFree
    /\ monAt = "decommission" /\ callAt["engine"] = "lock"
    /\ Return("api")
    /\ UNCHANGED <<workload, procs, diskVars, failures, vmLock, monVars, vmUse>>

\* the round is over
RoundEnd ==
    /\ vmLock' = "free"
    /\ monAt' = "idle" /\ monTodo' = {} /\ monRunning' = {} /\ monListed' = {}
    /\ monID' = AnyMachine /\ monMarker' = NoFailure

\* machines that ran and had no configuration are killed
MonitorEnd ==
    /\ monAt = "next" /\ monTodo = {}
    /\ LET stray == monRunning \ monListed IN
         procs' = [m \in Machines |-> IF m \in stray THEN 0 ELSE procs[m]]
    /\ RoundEnd
    /\ UNCHANGED <<workload, diskVars, failures, callVars, vmUse>>

\* the images of machines that are down are removed
cleanupCidata ==
    /\ monAt = "idle" /\ vmLock = "free"
    /\ ciImage' = ciImage \cap {m \in Machines : Exists(m)}
    /\ ciImage' # ciImage
    /\ UNCHANGED <<workload, procs, vmConfig, failures, vmLock, callVars, monVars, vmUse>>

\* a failure marker that is a count ends after two minutes
FailureExpires(m) ==
    /\ failures[m] >= 0
    /\ failures' = [failures EXCEPT ![m] = NoFailure]
    /\ UNCHANGED <<workload, procs, diskVars, vmLock, callVars, monVars, vmUse>>

\* a hypervisor dies
MachineCrash(m) ==
    /\ Exists(m)
    /\ May("crashes", MaxCrashes)
    /\ procs' = [procs EXCEPT ![m] = @ - 1]
    /\ UNCHANGED <<workload, diskVars, failures, vmLock, callVars, monVars>>

\* vmd is restarted; its workers finish their calls first, its monitor does not
VmdRestart ==
    /\ Serving = {}
    /\ May("faults", MaxVmFaults)
    /\ RoundEnd
    /\ failures' = [m \in Machines |-> NoFailure]
    /\ UNCHANGED <<workload, procs, diskVars, callVars>>
-----------------------------------------------------------------------------
RunCall == RunTaken \/ RunLocked \/ RunBoot \/ RunUndo
EngineStep == ProvisionExists \/ RunCall \/ StoreOk
CallStep(c) == Inspect(c) \/ DeleteBegin(c) \/ DeleteEnd(c) \/ StoreResult(c)
MonitorStep ==
    \/ MonitorStart \/ MonitorCount \/ MonitorRestart \/ MonitorDestroy \/ MonitorCall
    \/ MonitorDecommissioned \/ MonitorEnd
    \/ \E m \in Machines : MonitorRunning(m) \/ MonitorDown(m)

VmdNext ==
    \/ \E m \in Machines :
         Provision(m) \/ Deprovision(m) \/ FailureExpires(m) \/ MachineCrash(m)
    \/ EngineStep
    \/ \E c \in Callers : CallStep(c)
    \/ MonitorStep \/ DecommissionTimeout \/ cleanupCidata \/ VmdRestart

VmdFairness ==
    /\ WF_vmVars(EngineStep)
    /\ \A c \in Callers : WF_vmVars(CallStep(c))
    /\ WF_vmVars(MonitorStep)
    /\ WF_vmVars(DecommissionTimeout)

VmdSpec == VmdInit /\ [][VmdNext]_vmVars /\ VmdFairness
-----------------------------------------------------------------------------
VmdTypeOK ==
    /\ workload \in [Machines -> {"none", "init", "ok", "deleted", "error"}]
    /\ procs \in [Machines -> Nat]
    /\ vmConfig \subseteq Machines /\ ciImage \subseteq Machines
    /\ failures \in [Machines -> {NoFailure, Permanent} \cup (0 .. FailuresBeforeDestroy + 1)]
    /\ vmLock \in {"free", "run", "monitor"}
    /\ callAt \in [Callers -> CallPlaces] /\ callAt["api"] \in DeletePlaces
    /\ callID \in [Callers -> Machines]
    /\ monAt \in MonPlaces
    /\ monTodo \subseteq Machines /\ monRunning \subseteq Machines /\ monID \in Machines

\* A machine never has two hypervisors on its disks: Run and the monitor start
\* a process only where they found none, and what they found still holds when
\* they do (the lock they share, and the second check of Exists in Run).
OneProcess == \A m \in Machines : procs[m] <= 1

\* The monitor never kills a machine that has a configuration and a workload
\* that is not removed, one that Run is starting included (monitor, monitorID).
KeepsConfigured ==
    [][\A m \in Machines :
         m \in vmConfig /\ workload[m] \in {"init", "ok"} /\ procs'[m] < procs[m]
           => ~ MonitorStep]_vmVars

\* A machine whose workload is removed ends without process and configuration,
\* whatever the monitor and the removal did to each other (Deprovision deletes
\* only a machine that answers, the monitor may restart one that is removed).
RemovedGone ==
    \A m \in Machines :
        []<>(workload[m] \in {"deleted", "error"} => ~ Exists(m) /\ m \notin vmConfig)

\* A configured machine that is down while its workload is okay is restarted,
\* or vmd gives it up and removes its configuration (monitorID).
RestartedOrGivenUp ==
    \A m \in Machines : []<>(workload[m] = "ok" /\ m \in vmConfig => Exists(m))

\* A machine ends up as its workload says, and the monitor stops none that has to
\* run: KeepsConfigured, RemovedGone and RestartedOrGivenUp.
VmSettles == KeepsConfigured /\ RemovedGone /\ RestartedOrGivenUp
=============================================================================
