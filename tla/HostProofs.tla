----------------------------- MODULE HostProofs -----------------------------
(***************************************************************************)
(* The invariants of vmd, contd, networkd and qsfsd, and the database of   *)
(* provisiond as an implementation of WorkloadStore, for any machines,     *)
(* containers, networks, ports, twins, deployments, workloads and faults.  *)
(* Each component has its own inductive invariant, explained where it is   *)
(* defined.                                                                *)
(***************************************************************************)
EXTENDS Vmd, Contd, Networkd, Qsfsd, TLAPS

\* first-order steps; those that need arithmetic or sequences cite SMT
USE ZenonT(30)

\* vmd: the lock protects the start of a machine.  Who holds it is known, and a
\* machine found down under it stays down until its holder starts it.

\* the part of the types the proof needs
ProcTypes ==
    /\ procs \in [Machines -> Nat]
    /\ vmConfig \subseteq Machines
    /\ callAt \in [Callers -> CallPlaces] /\ callAt["api"] \in DeletePlaces
    /\ callID \in [Callers -> Machines]
    /\ monAt \in MonPlaces
    /\ monTodo \subseteq Machines /\ monID \in Machines

\* a round of the monitor has the lock, and so has a Run that starts a machine
LockHeld ==
    /\ monAt # "idle" => vmLock = "monitor"
    /\ callAt["engine"] \in {"boot", "undo"} => vmLock = "run"

\* what was found down is down
FoundDown ==
    /\ callAt["engine"] = "boot" => procs[callID["engine"]] = 0
    /\ \A m \in monTodo \ monRunning : procs[m] = 0
    /\ monAt = "idle" => monTodo = {}
    /\ monAt \in {"count", "restart"} => procs[monID] = 0 /\ monID \notin monTodo

\* the inductive invariant of vmd
ProcInv == ProcTypes /\ LockHeld /\ FoundDown /\ OneProcess
-----------------------------------------------------------------------------
\* AnyMachine, what idle fields hold, is a machine.
LEMMA AnyIsMachine == AnyMachine \in Machines
BY VmdAssumption DEF AnyMachine

\* The first state satisfies the invariant: nothing runs.
LEMMA ProcInit == VmdInit => ProcInv
<1> SUFFICES ASSUME VmdInit PROVE ProcInv
  OBVIOUS
<1>1. ProcTypes
  BY AnyIsMachine DEF VmdInit, ProcTypes, Callers, CallPlaces, DeletePlaces, MonPlaces
<1>2. LockHeld /\ FoundDown
  <2>1. callAt["engine"] = "idle" /\ monAt = "idle" /\ monTodo = {}
    BY DEF VmdInit, Callers
  <2> QED BY <2>1 DEF LockHeld, FoundDown
<1>3. OneProcess
  <2>1. procs = [m \in Machines |-> 0]
    BY DEF VmdInit
  <2> QED BY <2>1, SMT DEF OneProcess
<1> QED BY <1>1, <1>2, <1>3 DEF ProcInv

\* Every step keeps the invariant.
LEMMA ProcStep == ProcInv /\ [VmdNext]_vmVars => ProcInv'
\* The steps of the engine, which start a machine only under the lock, keep it.
<1>ProcEngine. ASSUME ProcInv, EngineStep \/ \E m \in Machines : Provision(m) \/ Deprovision(m)
    PROVE  ProcInv'
  <2> USE <1>ProcEngine
  <2> USE AnyIsMachine DEF ProcInv, ProcTypes, LockHeld, FoundDown, OneProcess, Callers,
          CallPlaces, DeletePlaces, MonPlaces, Goto, Call, Return, Start, Stop, removeConfig,
          Exists, diskVars, monVars, callVars
  <2>1. ASSUME NEW m \in Machines, Provision(m) PROVE ProcInv'
    BY <2>1 DEF Provision
  <2>2. ASSUME NEW m \in Machines, Deprovision(m) PROVE ProcInv'
    BY <2>2 DEF Deprovision
  <2>3. CASE ProvisionExists BY <2>3, ZenonT(30) DEF ProvisionExists
  <2>4. CASE RunTaken BY <2>4 DEF RunTaken
  <2>5. CASE RunLocked BY <2>5, SMT DEF RunLocked
  <2>6. CASE RunBoot BY <2>6, SMTT(30) DEF RunBoot
  <2>7. CASE RunUndo BY <2>7, SMT DEF RunUndo
  <2>8. CASE StoreOk BY <2>8 DEF StoreOk
  <2> QED BY <2>1, <2>2, <2>3, <2>4, <2>5, <2>6, <2>7, <2>8 DEF EngineStep, RunCall
\* The calls that remove a machine start nothing, and keep it without the lock.
<1>ProcCalls. ASSUME ProcInv, NEW c \in Callers, CallStep(c)
    PROVE  ProcInv'
  <2> USE <1>ProcCalls
  <2> USE AnyIsMachine DEF ProcInv, ProcTypes, LockHeld, FoundDown, OneProcess, Callers,
          CallPlaces, DeletePlaces, MonPlaces, Goto, Call, Return, Start, Stop, removeConfig,
          Exists, diskVars, monVars, callVars
  <2>1. CASE Inspect(c) BY <2>1, SMTT(30) DEF Inspect
  <2>2. CASE DeleteBegin(c) BY <2>2, SMTT(30) DEF DeleteBegin
  <2>3. CASE DeleteEnd(c) BY <2>3, SMT DEF DeleteEnd
  <2>4. CASE StoreResult(c) BY <2>4 DEF StoreResult
  <2> QED BY <2>1, <2>2, <2>3, <2>4 DEF CallStep
\* The monitor keeps it: it restarts a machine it found down under the lock.
<1>ProcMonitor. ASSUME ProcInv, MonitorStep
    PROVE  ProcInv'
  <2> USE <1>ProcMonitor
  <2> USE AnyIsMachine DEF ProcInv, ProcTypes, LockHeld, FoundDown, OneProcess, Callers,
          CallPlaces, DeletePlaces, MonPlaces, Goto, Call, Return, Start, Stop, removeConfig,
          Exists, Look, NextID, MonGoto, RoundEnd, diskVars, monVars, callVars
  <2>1. CASE MonitorStart BY <2>1, SMTT(30) DEF MonitorStart
  <2>2. ASSUME NEW m \in Machines, MonitorRunning(m) PROVE ProcInv'
    BY <2>2, SMT DEF MonitorRunning
  <2>3. ASSUME NEW m \in Machines, MonitorDown(m) PROVE ProcInv'
    BY <2>3 DEF MonitorDown
  <2>4. CASE MonitorCount BY <2>4, SMTT(30) DEF MonitorCount
  <2>5. CASE MonitorRestart BY <2>5, SMT DEF MonitorRestart
  <2>6. CASE MonitorDestroy BY <2>6 DEF MonitorDestroy
  <2>7. CASE MonitorCall BY <2>7, SMT DEF MonitorCall
  <2>8. CASE MonitorDecommissioned BY <2>8 DEF MonitorDecommissioned
  <2>9. CASE MonitorEnd BY <2>9, SMT DEF MonitorEnd
  <2> QED BY <2>1, <2>2, <2>3, <2>4, <2>5, <2>6, <2>7, <2>8, <2>9 DEF MonitorStep
\* Clean up, expiry, a crash, a time out and a restart of vmd start nothing.
<1>ProcOthers. ASSUME ProcInv,
           \/ \E m \in Machines : FailureExpires(m) \/ MachineCrash(m)
           \/ DecommissionTimeout \/ cleanupCidata \/ VmdRestart
    PROVE  ProcInv'
  <2> USE <1>ProcOthers
  <2> USE AnyIsMachine DEF ProcInv, ProcTypes, LockHeld, FoundDown, OneProcess, Callers,
          CallPlaces, DeletePlaces, MonPlaces, Call, Return, Exists, RoundEnd, diskVars,
          monVars, callVars
  <2>1. ASSUME NEW m \in Machines, FailureExpires(m) PROVE ProcInv'
    BY <2>1 DEF FailureExpires
  <2>2. ASSUME NEW m \in Machines, MachineCrash(m) PROVE ProcInv'
    BY <2>2, SMT DEF MachineCrash
  <2>3. CASE DecommissionTimeout BY <2>3 DEF DecommissionTimeout
  <2>4. CASE cleanupCidata BY <2>4 DEF cleanupCidata
  <2>5. CASE VmdRestart BY <2>5 DEF VmdRestart, Serving
  <2> QED BY <2>1, <2>2, <2>3, <2>4, <2>5
<1> SUFFICES ASSUME ProcInv, [VmdNext]_vmVars PROVE ProcInv'
  OBVIOUS
<1>1. CASE VmdNext
  BY <1>1, <1>ProcEngine, <1>ProcCalls, <1>ProcMonitor, <1>ProcOthers DEF VmdNext
<1>2. CASE UNCHANGED vmVars
  BY <1>2 DEF vmVars, diskVars, callVars, monVars, ProcInv, ProcTypes, LockHeld,
     FoundDown, OneProcess
<1> QED BY <1>1, <1>2

\* A machine never has two hypervisors on its disks: whatever is created,
\* removed, restarted, given up or crashes, Run and the monitor of vmd start a
\* process only where there is none.
THEOREM OneProcessAlways == VmdSpec => []OneProcess
<1>1. ProcInv => OneProcess
  BY DEF ProcInv
<1> QED BY ProcInit, ProcStep, <1>1, PTL DEF VmdSpec

\* a configuration written after the round of the monitor began: there is none,
\* for only Run writes one, under the lock
ConfigListed == monAt # "idle" => vmConfig \subseteq monListed

\* The monitor never kills a machine that has a configuration and a workload
\* that is not removed, although it works from a list of configurations that it
\* made when its round began: for any number of machines, with Run and Delete
\* between its steps (monitor, monitorID).
THEOREM KeepsConfiguredAlways == VmdSpec => KeepsConfigured
\* Every step keeps it: outside Run configurations are only removed.
<1>ConfigListedStep. ASSUME ProcInv, ConfigListed, [VmdNext]_vmVars
    PROVE  ConfigListed'
  <2> USE <1>ConfigListedStep
  <2> USE DEF ConfigListed, removeConfig
  <2>1. CASE RunLocked
    <3>1. monAt = "idle" /\ UNCHANGED monVars BY <2>1 DEF RunLocked, ProcInv, LockHeld
    <3> QED BY <3>1 DEF monVars
  <2>2. CASE MonitorStart BY <2>2 DEF MonitorStart, diskVars
  <2>3. CASE MonitorEnd \/ VmdRestart BY <2>3 DEF MonitorEnd, VmdRestart, RoundEnd
  <2>4. CASE \E m \in Machines : MonitorRunning(m) \/ MonitorDown(m)
    <3>1. monAt = "next" /\ vmConfig' \subseteq vmConfig /\ UNCHANGED monListed
      BY <2>4 DEF MonitorRunning, MonitorDown, diskVars
    <3> QED BY <3>1
  <2>5. CASE MonitorCount \/ MonitorRestart \/ MonitorDestroy \/ MonitorCall \/ MonitorDecommissioned
    <3>1. vmConfig' \subseteq vmConfig
      BY <2>5 DEF MonitorCount, MonitorRestart, MonitorDestroy, MonitorCall, MonitorDecommissioned, diskVars
    <3>2. monAt # "idle" /\ UNCHANGED monListed
      BY <2>5 DEF MonitorCount, MonitorRestart, MonitorDestroy, MonitorCall, MonitorDecommissioned,
                  NextID, MonGoto, Look
    <3> QED BY <3>1, <3>2
  <2>6. ASSUME NEW c \in Callers, CallStep(c) PROVE ConfigListed'
    <3>1. vmConfig' \subseteq vmConfig /\ UNCHANGED monVars
      BY <2>6 DEF CallStep, Inspect, DeleteBegin, DeleteEnd, StoreResult, diskVars
    <3> QED BY <3>1 DEF monVars
  <2>7. CASE \/ ProvisionExists \/ RunTaken \/ RunBoot \/ RunUndo \/ StoreOk \/ DecommissionTimeout
             \/ cleanupCidata \/ UNCHANGED vmVars
             \/ \E m \in Machines :
                  Provision(m) \/ Deprovision(m) \/ FailureExpires(m) \/ MachineCrash(m)
    <3>1. vmConfig' \subseteq vmConfig /\ UNCHANGED monVars
      BY <2>7 DEF ProvisionExists, RunTaken, RunBoot, RunUndo, StoreOk, DecommissionTimeout,
                  cleanupCidata, vmVars, Provision, Deprovision, FailureExpires, MachineCrash, diskVars
    <3> QED BY <3>1 DEF monVars
  <2> QED BY <2>1, <2>2, <2>3, <2>4, <2>5, <2>6, <2>7 DEF VmdNext, EngineStep, RunCall, MonitorStep
\* A step of the monitor that ends a process ends that of a machine without
\* configuration, or without workload.
<1>MonitorKills. ASSUME ProcInv, ConfigListed, MonitorStep, NEW m \in vmConfig, workload[m] \in {"init", "ok"}
    PROVE  ~(procs'[m] < procs[m])
  <2> USE <1>MonitorKills
  <2>1. m \in Machines /\ procs \in [Machines -> Nat] /\ procs[m] \in Nat
        /\ monID \in Machines /\ procs[monID] \in Nat
    BY DEF ProcInv, ProcTypes
  <2>2. CASE procs'[m] = procs[m] \/ procs'[m] = procs[m] + 1 BY <2>1, <2>2, SMT
  <2>3. CASE MonitorEnd
    <3>1. m \notin monRunning \ monListed BY <2>3 DEF MonitorEnd, ConfigListed
    <3>2. procs'[m] = procs[m] BY <2>1, <2>3, <3>1 DEF MonitorEnd
    <3> QED BY <2>2, <3>2
  <2>4. ASSUME NEW x \in Machines, MonitorRunning(x) PROVE procs'[m] = procs[m]
    <3>1. CASE x = m BY <2>4, <3>1 DEF MonitorRunning
    <3>2. CASE x # m BY <2>1, <2>4, <3>2 DEF MonitorRunning, Stop
    <3> QED BY <3>1, <3>2
  <2>5. CASE MonitorRestart
    <3>1. Start(monID) \/ UNCHANGED procs BY <2>5 DEF MonitorRestart
    <3>2. Start(monID) => procs'[m] = procs[m] \/ procs'[m] = procs[m] + 1 BY <2>1, SMT DEF Start
    <3> QED BY <2>2, <3>1, <3>2
  <2>6. CASE MonitorStart \/ MonitorCount \/ MonitorDestroy \/ MonitorCall \/ MonitorDecommissioned
             \/ \E x \in Machines : MonitorDown(x)
    <3>1. UNCHANGED procs
      BY <2>6 DEF MonitorStart, MonitorCount, MonitorDestroy, MonitorCall, MonitorDecommissioned, MonitorDown
    <3> QED BY <2>2, <3>1
  <2> QED BY <2>2, <2>3, <2>4, <2>5, <2>6 DEF MonitorStep
<1>1. VmdInit => ConfigListed BY DEF VmdInit, ConfigListed
<1>2. ProcInv /\ ConfigListed /\ [VmdNext]_vmVars => ConfigListed' BY <1>ConfigListedStep
<1>3. ProcInv /\ ConfigListed /\ [VmdNext]_vmVars =>
        [\A m \in Machines :
           m \in vmConfig /\ workload[m] \in {"init", "ok"} /\ procs'[m] < procs[m]
             => ~ MonitorStep]_vmVars
  BY <1>MonitorKills
<1> QED BY <1>1, <1>2, <1>3, ProcInit, ProcStep, PTL DEF VmdSpec, KeepsConfigured
-----------------------------------------------------------------------------
\* contd: a container which Run is about to give its task exists, for only the
\* worker removes containers, and it is busy.

\* the part of the types the proof needs
ContdTypes ==
    /\ task = [c \in Containers |-> task[c]]
    /\ work = [op |-> work.op, c |-> work.c]

\* Run has created its container
RunHasContainer == work.op = "run" => work.c \in created

\* the inductive invariant of the containers
ContdInv == ContdTypes /\ RunHasContainer /\ TaskHasContainer
-----------------------------------------------------------------------------
\* The invariant holds in every state.
LEMMA ContdInvAlways == ContdSpec => []ContdInv
\* The first state satisfies the invariant: there is no task.
<1>ContdInvInit. ContdInit => ContdInv
  BY SMT DEF ContdInit, ContdInv, ContdTypes, RunHasContainer, TaskHasContainer, NoWork
\* The worker keeps it: it removes a container that has no task only.
<1>ContdInvWorker. ASSUME ContdInv,
           \/ WorkerStep
           \/ \E c \in Containers : \/ ContdRun(c)
                                    \/ MarkDeleted(c, "kill") \/ MarkDeleted(c, "signal")
    PROVE  ContdInv'
  <2> USE <1>ContdInvWorker
  <2> USE DEF ContdInv, ContdTypes, RunHasContainer, TaskHasContainer, NoWork, Started, Exited
  <2>1. ASSUME NEW c \in Containers, ContdRun(c) PROVE ContdInv'
    BY <2>1 DEF ContdRun
  <2>2. ASSUME NEW c \in Containers, NEW op \in {"kill", "signal"}, MarkDeleted(c, op)
        PROVE  ContdInv'
    BY <2>2 DEF MarkDeleted
  <2>3. CASE RunTask BY <2>3 DEF RunTask
  <2>4. CASE KillTask BY <2>4 DEF KillTask
  <2>5. CASE DeleteTask BY <2>5, SMT DEF DeleteTask
  <2>6. CASE DeleteContainer BY <2>6 DEF DeleteContainer
  <2> QED BY <2>1, <2>2, <2>3, <2>4, <2>5, <2>6 DEF WorkerStep
\* The watcher and its handlers keep it: start finds its container or fails.
<1>ContdInvWatcher. ASSUME ContdInv, WatcherStep \/ WatchFails
    PROVE  ContdInv'
  <2> USE <1>ContdInvWatcher
  <2> USE DEF ContdInv, ContdTypes, RunHasContainer, TaskHasContainer, Started
  <2>1. CASE HandleEvent BY <2>1 DEF HandleEvent
  <2>2. CASE WatchAgain BY <2>2 DEF WatchAgain
  <2>3. CASE WatchFails BY <2>3 DEF WatchFails
  <2>4. ASSUME NEW i \in DOMAIN handlers, HandlerStep(i) PROVE ContdInv'
    <3>1. CASE HandlerGet(i) BY <3>1 DEF HandlerGet
    <3>2. CASE HandlerSet(i) BY <3>2 DEF HandlerSet
    <3>3. CASE HandlerCount(i) BY <3>3 DEF HandlerCount
    <3>4. CASE HandlerStart(i) BY <3>4 DEF HandlerStart
    <3>5. CASE HandlerGive(i) BY <3>5 DEF HandlerGive
    <3> QED BY <2>4, <3>1, <3>2, <3>3, <3>4, <3>5, SMTT(30) DEF HandlerStep
  <2> QED BY <2>1, <2>2, <2>3, <2>4 DEF WatcherStep
\* A crash, an expiry and a restart of contd keep it: startup starts the tasks
\* of the containers that exist.
<1>ContdInvOthers. ASSUME ContdInv,
           ContdRestart \/ \E c \in Containers : TaskCrash(c) \/ MarkExpires(c)
    PROVE  ContdInv'
  <2> USE <1>ContdInvOthers
  <2> USE DEF ContdInv, ContdTypes, RunHasContainer, TaskHasContainer, NoWork, Exited
  <2>1. CASE ContdRestart BY <2>1 DEF ContdRestart
  <2>2. ASSUME NEW c \in Containers, TaskCrash(c) PROVE ContdInv'
    BY <2>2 DEF TaskCrash
  <2>3. ASSUME NEW c \in Containers, MarkExpires(c) PROVE ContdInv'
    BY <2>3 DEF MarkExpires
  <2> QED BY <2>1, <2>2, <2>3, SMT
<1>1. ContdInv /\ [ContdNext]_contdVars => ContdInv'
  <2> SUFFICES ASSUME ContdInv, [ContdNext]_contdVars PROVE ContdInv'
    OBVIOUS
  <2>1. CASE ContdNext
    BY <2>1, <1>ContdInvWorker, <1>ContdInvWatcher, <1>ContdInvOthers, SMT DEF ContdNext
  <2>2. CASE UNCHANGED contdVars
    BY <2>2 DEF contdVars, ContdInv, ContdTypes, RunHasContainer, TaskHasContainer
  <2> QED BY <2>1, <2>2
<1> QED BY <1>ContdInvInit, <1>1, PTL DEF ContdSpec

\* Nothing runs that Delete took away: handlers that race a deletion never give
\* a task to a container that is gone, and a container that got one while it is
\* being deleted stays (Delete, start).
THEOREM TaskHasContainerAlways == ContdSpec => []TaskHasContainer
<1>1. ContdInv => TaskHasContainer
  BY DEF ContdInv
<1> QED BY ContdInvAlways, <1>1, PTL
-----------------------------------------------------------------------------
\* a handler of a task exit
Handlers == [c : Containers, at : {"get", "set", "count", "start", "give"}, before : BOOLEAN]

\* the types of the queues of exits and handlers
ContdQueues ==
    /\ handlers \in Seq(Handlers) /\ exits \in Seq(Containers)
    /\ mark = [c \in Containers |-> mark[c]]
    /\ work.op = "none" \/ work.c \in Containers

\* a handler that began after the mark of a deletion gets no further than its
\* first look at the cache, until another handler replaces the mark
HeldByMark(h) ==
    h.before \/ h.c \in overwrote \/ (h.at = "get" /\ mark[h.c] = PermanentMark)

\* every handler is held by a mark it came after
HandlersHeld == \A i \in DOMAIN handlers : HeldByMark(handlers[i])

\* the inductive invariant of the handlers
MarkInv == ContdQueues /\ HandlersHeld

\* While Delete is under way only a handler that began before its mark starts the
\* task, or any once such a handler has replaced the mark: for any number of
\* handlers at any step (Delete, handlerEventTaskExit).
THEOREM MarkStopsRestartsAlways == ContdSpec => MarkStopsRestarts
\* A handler that ends leaves the others as they are.
<1>EndsSome. ASSUME ContdQueues, NEW i \in DOMAIN handlers, Ends(i)
    PROVE  /\ handlers' \in Seq(Handlers)
           /\ \A j \in DOMAIN handlers' : \E k \in DOMAIN handlers : handlers'[j] = handlers[k]
  <2> USE <1>EndsSome
  <2> DEFINE a == SubSeq(handlers, 1, i - 1)
             b == SubSeq(handlers, i + 1, Len(handlers))
  <2>1. handlers \in Seq(Handlers) /\ i \in 1 .. Len(handlers)
    BY SMT DEF ContdQueues
  <2>2. /\ a \in Seq(Handlers) /\ Len(a) = i - 1
        /\ \A j \in 1 .. i - 1 : a[j] = handlers[j]
    BY <2>1, SMT
  <2>3. /\ b \in Seq(Handlers) /\ Len(b) = Len(handlers) - i
        /\ \A j \in 1 .. Len(handlers) - i : b[j] = handlers[j + i]
    BY <2>1, SMT
  <2>4. handlers' = a \o b
    BY DEF Ends
  <2> HIDE DEF a, b
  <2>5. handlers' \in Seq(Handlers) /\ Len(handlers') = Len(a) + Len(b)
    <3>1. a \in Seq(Handlers) /\ b \in Seq(Handlers) BY <2>2, <2>3
    <3>2. a \o b \in Seq(Handlers) BY <3>1, SMT
    <3>3. Len(a \o b) = Len(a) + Len(b) BY <3>1, SMT
    <3> QED BY <2>4, <3>2, <3>3
  <2>6. ASSUME NEW j \in DOMAIN handlers'
        PROVE  \E k \in DOMAIN handlers : handlers'[j] = handlers[k]
    <3>1. j \in 1 .. Len(handlers) - 1
      BY <2>1, <2>2, <2>3, <2>5, SMTT(20)
    <3>2. CASE j <= i - 1
      <4>1. handlers'[j] = a[j]
        BY <2>1, <2>2, <2>3, <2>4, <3>1, <3>2, SMTT(20)
      <4> QED BY <2>1, <2>2, <3>1, <3>2, <4>1, SMTT(30)
    <3>3. CASE j > i - 1
      <4>1. handlers'[j] = b[j - (i - 1)]
        BY <2>1, <2>2, <2>3, <2>4, <3>1, <3>3, SMTT(20)
      <4>2. /\ j - (i - 1) \in 1 .. Len(handlers) - i /\ (j - (i - 1)) + i = j + 1
            /\ j + 1 \in DOMAIN handlers
        BY <2>1, <3>1, <3>3, SMT
      <4> QED BY <2>3, <4>1, <4>2
    <3> QED BY <2>1, <3>1, <3>2, <3>3, SMTT(30)
  <2> QED BY <2>5, <2>6
\* A handler that goes on leaves the others as they are.
<1>GoesOne. ASSUME ContdQueues, NEW i \in DOMAIN handlers,
           NEW at \in {"get", "set", "count", "start", "give"}, Goes(i, at)
    PROVE  /\ handlers' \in Seq(Handlers) /\ DOMAIN handlers' = DOMAIN handlers
           /\ \A j \in DOMAIN handlers \ {i} : handlers'[j] = handlers[j]
           /\ handlers'[i].c = handlers[i].c /\ handlers'[i].before = handlers[i].before
           /\ handlers'[i].at = at
  <2> USE <1>GoesOne
  <2>1. /\ handlers \in Seq(Handlers) /\ i \in 1 .. Len(handlers) 
        /\ handlers[i] \in Handlers
    BY SMT DEF ContdQueues
  <2>2. /\ [handlers[i] EXCEPT !.at = at] \in Handlers
        /\ [handlers[i] EXCEPT !.at = at].c = handlers[i].c
        /\ [handlers[i] EXCEPT !.at = at].before = handlers[i].before
        /\ [handlers[i] EXCEPT !.at = at].at = at
    BY <2>1 DEF Handlers
  <2>3. handlers' = [handlers EXCEPT ![i] = [handlers[i] EXCEPT !.at = at]]
    BY DEF Goes
  <2>4. handlers' \in Seq(Handlers) /\ DOMAIN handlers' = DOMAIN handlers
    BY <2>1, <2>2, <2>3, SMT
  <2> QED BY <2>1, <2>2, <2>3, <2>4
\* The first state satisfies the invariant: there are no handlers.
<1>MarkInvInit. ContdInit => MarkInv
  <2> SUFFICES ASSUME ContdInit PROVE MarkInv
    OBVIOUS
  <2>1. <<>> \in Seq(Containers) /\ <<>> \in Seq(Handlers) /\ DOMAIN <<>> = {}
    BY SMT
  <2> QED BY <2>1 DEF ContdInit, MarkInv, ContdQueues, HandlersHeld, NoWork
\* The worker keeps it: it sets the mark, and starts no handler.
<1>MarkInvWorker. ASSUME ContdTypes, MarkInv, WorkerStep
    PROVE  MarkInv'
  <2> USE <1>MarkInvWorker
  <2>1. UNCHANGED <<mark, handlers, overwrote>>
    BY DEF WorkerStep, RunTask, KillTask, DeleteTask, DeleteContainer
  <2>2. /\ work.op # "none" /\ work.c \in Containers /\ exits \in Seq(Containers)
        /\ exits' = exits \/ exits' = Append(exits, work.c)
    BY DEF WorkerStep, RunTask, KillTask, DeleteTask, DeleteContainer, Exited,
           MarkInv, ContdQueues
  <2>3. exits' \in Seq(Containers)
    BY <2>2, SMT
  <2>4. ASSUME NEW op, work' = [work EXCEPT !.op = op] PROVE work'.c \in Containers
    BY <2>2, <2>4 DEF ContdTypes
  <2>5. NoWork.op = "none"
    BY DEF NoWork
  <2>6. (work.op = "none" \/ work.c \in Containers)'
    <3>1. CASE KillTask BY <2>4, <2>5, <3>1 DEF KillTask
    <3>2. CASE DeleteTask BY <2>4, <2>5, <3>2 DEF DeleteTask
    <3> QED BY <2>5, <3>1, <3>2 DEF WorkerStep, RunTask, DeleteContainer
  <2> QED BY <2>1, <2>3, <2>6 DEF MarkInv, ContdQueues, HandlersHeld, HeldByMark
\* A handler keeps it: one that finds the mark ends, and one that replaces the
\* mark is recorded.
<1>MarkInvHandler. ASSUME MarkInv, NEW i \in DOMAIN handlers, HandlerStep(i)
    PROVE  MarkInv'
  <2> USE <1>MarkInvHandler
  <2> DEFINE c == handlers[i].c
  <2>1. /\ handlers[i] \in Handlers /\ HeldByMark(handlers[i])
        /\ \A j \in DOMAIN handlers : handlers[j] \in Handlers
    BY SMT DEF MarkInv, ContdQueues, HandlersHeld
  <2>2. ASSUME UNCHANGED <<mark, exits, overwrote, work>>, Ends(i) PROVE MarkInv'
    <3>1. /\ handlers' \in Seq(Handlers)
          /\ \A j \in DOMAIN handlers' : \E k \in DOMAIN handlers : handlers'[j] = handlers[k]
      BY <2>2, <1>EndsSome DEF MarkInv
    <3>2. ASSUME NEW j \in DOMAIN handlers' PROVE HeldByMark(handlers[j])'
      <4>1. PICK k \in DOMAIN handlers : handlers'[j] = handlers[k]
        BY <3>1, <3>2
      <4> QED BY <2>2, <4>1 DEF MarkInv, HandlersHeld, HeldByMark
    <3> QED BY <2>2, <3>1, <3>2 DEF MarkInv, ContdQueues, HandlersHeld
  <2>3. ASSUME NEW at \in {"set", "count", "start", "give"}, Goes(i, at),
               UNCHANGED <<exits, work>>, mark' = [d \in Containers |-> mark'[d]],
               overwrote \subseteq overwrote',
               handlers[i].before \/ c \in overwrote',
               \A d \in Containers : mark'[d] = mark[d] \/ mark[d] # PermanentMark \/ d \in overwrote'
        PROVE  MarkInv'
    <3>1. /\ handlers' \in Seq(Handlers) /\ DOMAIN handlers' = DOMAIN handlers
          /\ \A j \in DOMAIN handlers \ {i} : handlers'[j] = handlers[j]
          /\ handlers'[i].c = handlers[i].c /\ handlers'[i].before = handlers[i].before
      BY <2>3, <1>GoesOne DEF MarkInv
    <3>2. ASSUME NEW j \in DOMAIN handlers' PROVE HeldByMark(handlers[j])'
      <4>1. CASE j = i BY <2>3, <3>1, <4>1 DEF HeldByMark
      <4>2. CASE j # i
        <5>1. HeldByMark(handlers[j]) /\ handlers'[j] = handlers[j] /\ handlers[j].c \in Containers
          BY <2>1, <3>1, <3>2, <4>2 DEF MarkInv, HandlersHeld, Handlers
        <5> QED BY <2>3, <5>1 DEF HeldByMark
      <4> QED BY <4>1, <4>2
    <3> QED BY <2>3, <3>1, <3>2 DEF MarkInv, ContdQueues, HandlersHeld
  <2>4. mark = [d \in Containers |-> mark[d]] /\ c \in Containers
    BY <2>1 DEF MarkInv, ContdQueues, Handlers
  <2>5. CASE HandlerGet(i)
    <3>1. CASE mark[c] = PermanentMark BY <2>2, <2>5, <3>1 DEF HandlerGet
    <3>2. CASE mark[c] # PermanentMark
      <4>1. PICK at \in {"set", "count"} : Goes(i, at)
        BY <2>5, <3>2 DEF HandlerGet
      <4> QED BY <2>1, <2>3, <2>4, <2>5, <3>2, <4>1 DEF HandlerGet, HeldByMark
    <3> QED BY <3>1, <3>2
  <2>6. CASE HandlerSet(i)
    <3>1. /\ handlers[i].before \/ c \in overwrote
          /\ c \in overwrote' \/ (mark[c] # PermanentMark /\ overwrote' = overwrote)
          /\ overwrote \subseteq overwrote'
          /\ mark' = [mark EXCEPT ![c] = 0] /\ UNCHANGED <<exits, work>>
      BY <2>1, <2>6 DEF HandlerSet, HeldByMark
    <3>2. /\ mark' = [d \in Containers |-> mark'[d]]
          /\ \A d \in Containers \ {c} : mark'[d] = mark[d]
      BY <2>4, <3>1
    <3> QED BY <2>3, <2>6, <3>1, <3>2 DEF HandlerSet
  <2>7. CASE HandlerCount(i)
    <3>1. handlers[i].before \/ c \in overwrote
      BY <2>1, <2>7 DEF HandlerCount, HeldByMark
    <3>2. CASE mark[c] < 0 BY <2>2, <2>7, <3>2 DEF HandlerCount
    <3>3. CASE ~ (mark[c] < 0)
      <4>1. mark[c] # PermanentMark BY <3>3, SMT DEF PermanentMark
      <4>2. PICK at \in {"start", "give"} : Goes(i, at)
        BY <2>7, <3>3 DEF HandlerCount
      <4>3. /\ mark' = [d \in Containers |-> mark'[d]]
            /\ \A d \in Containers \ {c} : mark'[d] = mark[d]
            /\ UNCHANGED <<exits, work, overwrote>>
        BY <2>4, <2>7, <3>3 DEF HandlerCount
      <4> QED BY <2>3, <3>1, <4>1, <4>2, <4>3
    <3> QED BY <3>2, <3>3
  <2>8. CASE HandlerStart(i)
    <3>1. /\ handlers[i].before \/ c \in overwrote
          /\ UNCHANGED <<mark, exits, overwrote, work>> /\ (Ends(i) \/ Goes(i, "give"))
      BY <2>1, <2>8 DEF HandlerStart, HeldByMark
    <3> QED BY <2>2, <2>3, <2>4, <3>1
  <2>9. CASE HandlerGive(i) BY <2>2, <2>9 DEF HandlerGive
  <2> QED BY <2>5, <2>6, <2>7, <2>8, <2>9 DEF HandlerStep
\* Runs, deletions, exits and restarts keep it: a handler begins with its look
\* at the cache.
<1>MarkInvOthers. ASSUME MarkInv,
           \/ HandleEvent \/ WatchAgain \/ WatchFails \/ ContdRestart
           \/ \E c \in Containers : \/ ContdRun(c) \/ TaskCrash(c) \/ MarkExpires(c)
                                    \/ MarkDeleted(c, "kill") \/ MarkDeleted(c, "signal")
    PROVE  MarkInv'
  <2> USE <1>MarkInvOthers
  <2>1. CASE HandleEvent
    <3>1. Head(exits) \in Containers /\ exits' \in Seq(Containers)
      BY <2>1, SMT DEF HandleEvent, MarkInv, ContdQueues
    <3>2. PICK h \in Handlers : /\ handlers' = Append(handlers, h)
                               /\ h.at = "get" /\ (h.before \/ mark[h.c] = PermanentMark)
      <4> DEFINE g == [c |-> Head(exits), at |-> "get", before |-> mark[Head(exits)] # PermanentMark]
      <4>1. g \in Handlers BY <3>1 DEF Handlers
      <4>2. g.c = Head(exits) /\ g.at = "get" /\ g.before = (mark[Head(exits)] # PermanentMark)
        OBVIOUS
      <4>3. handlers' = Append(handlers, g) BY <2>1 DEF HandleEvent
      <4> HIDE DEF g
      <4>4. g.before \/ mark[g.c] = PermanentMark BY <4>2
      <4> QED BY <4>1, <4>2, <4>3, <4>4
    <3>3. UNCHANGED <<mark, overwrote, work>> BY <2>1 DEF HandleEvent
    <3>4. h.before \/ h.c \in overwrote' \/ (h.at = "get" /\ mark'[h.c] = PermanentMark)
      BY <3>2, <3>3
    <3>5. /\ handlers' \in Seq(Handlers)
          /\ \A j \in DOMAIN handlers' :
               handlers'[j] = h \/ (j \in DOMAIN handlers /\ handlers'[j] = handlers[j])
      BY <3>2, SMT DEF MarkInv, ContdQueues
    <3>6. ASSUME NEW j \in DOMAIN handlers' PROVE HeldByMark(handlers[j])'
      <4>1. CASE handlers'[j] = h BY <3>4, <4>1 DEF HeldByMark
      <4>2. CASE j \in DOMAIN handlers /\ handlers'[j] = handlers[j]
        BY <3>3, <4>2 DEF MarkInv, HandlersHeld, HeldByMark
      <4> QED BY <3>5, <3>6, <4>1, <4>2
    <3> QED BY <3>1, <3>3, <3>5, <3>6 DEF MarkInv, ContdQueues, HandlersHeld
  <2>2. CASE WatchAgain
    BY <2>2 DEF WatchAgain, MarkInv, ContdQueues, HandlersHeld, HeldByMark
  <2>3. CASE WatchFails
    <3>1. <<>> \in Seq(Containers) BY SMT
    <3> QED BY <2>3, <3>1 DEF WatchFails, MarkInv, ContdQueues, HandlersHeld, HeldByMark
  <2>4. CASE ContdRestart
    <3>1. <<>> \in Seq(Containers) /\ <<>> \in Seq(Handlers) /\ DOMAIN <<>> = {} BY SMT
    <3> QED BY <2>4, <3>1 DEF ContdRestart, NoWork, MarkInv, ContdQueues, HandlersHeld
  <2>5. ASSUME NEW c \in Containers, ContdRun(c) PROVE MarkInv'
    BY <2>5 DEF ContdRun, MarkInv, ContdQueues, HandlersHeld, HeldByMark
  <2>6. ASSUME NEW c \in Containers, TaskCrash(c) PROVE MarkInv'
    <3>1. exits' = exits \/ exits' = Append(exits, c)
      BY <2>6 DEF TaskCrash, Exited
    <3>2. exits' \in Seq(Containers)
      BY <3>1, SMT DEF MarkInv, ContdQueues
    <3> QED BY <2>6, <3>2 DEF TaskCrash, MarkInv, ContdQueues, HandlersHeld, HeldByMark
  <2>7. ASSUME NEW c \in Containers, MarkExpires(c) PROVE MarkInv'
    <3>1. /\ mark' = [d \in Containers |-> mark'[d]]
          /\ \A d \in Containers \ {c} : mark'[d] = mark[d]
      BY <2>7 DEF MarkExpires, MarkInv, ContdQueues
    <3>2. ASSUME NEW j \in DOMAIN handlers PROVE HeldByMark(handlers[j])'
      <4>1. handlers[j].c \in Containers /\ HeldByMark(handlers[j])
        <5>1. handlers[j] \in Handlers BY <3>2, SMT DEF MarkInv, ContdQueues
        <5> QED BY <3>2, <5>1 DEF MarkInv, HandlersHeld, Handlers
      <4> QED BY <2>7, <3>1, <3>2, <4>1 DEF MarkExpires, HeldByMark
    <3> QED BY <2>7, <3>1, <3>2 DEF MarkExpires, MarkInv, ContdQueues, HandlersHeld
  <2>8. ASSUME NEW c \in Containers, NEW op \in {"kill", "signal"}, MarkDeleted(c, op) PROVE MarkInv'
    <3>1. /\ mark' = [d \in Containers |-> mark'[d]] /\ mark'[c] = PermanentMark
          /\ \A d \in Containers \ {c} : mark'[d] = mark[d]
          /\ UNCHANGED <<exits, overwrote>> /\ work' = [op |-> op, c |-> c]
      BY <2>8 DEF MarkDeleted, MarkInv, ContdQueues
    <3> DEFINE new(j) == [handlers[j] EXCEPT !.before = @ \/ handlers[j].c = c]
    <3>2. handlers' = [j \in DOMAIN handlers |-> new(j)]
      BY <2>8 DEF MarkDeleted
    <3>3. \A j \in DOMAIN handlers : handlers[j] \in Handlers
      BY SMT DEF MarkInv, ContdQueues
    <3>4. ASSUME NEW j \in DOMAIN handlers
          PROVE  /\ new(j) \in Handlers /\ new(j).c = handlers[j].c /\ new(j).at = handlers[j].at
                 /\ new(j).before = (handlers[j].before \/ handlers[j].c = c)
      BY <3>3 DEF Handlers
    <3> HIDE DEF new
    <3>5. handlers' \in Seq(Handlers)
      BY <3>2, <3>4, SMT DEF MarkInv, ContdQueues
    <3>6. ASSUME NEW j \in DOMAIN handlers' PROVE HeldByMark(handlers[j])'
      <4>1. j \in DOMAIN handlers /\ handlers'[j] = new(j) /\ HeldByMark(handlers[j])
            /\ handlers[j].c \in Containers
        BY <3>2, <3>3, <3>6 DEF MarkInv, HandlersHeld, Handlers
      <4> QED BY <3>1, <3>4, <4>1 DEF HeldByMark
    <3> QED BY <3>1, <3>5, <3>6 DEF MarkInv, ContdQueues, HandlersHeld
  <2> QED BY <2>1, <2>2, <2>3, <2>4, <2>5, <2>6, <2>7, <2>8
<1> DEFINE Stops ==
      \A c \in Containers :
         work.c = c /\ work.op \in {"kill", "task", "remove"} /\ work' = work
            /\ task[c] # "running" /\ task'[c] = "running"
         => \/ c \in overwrote
            \/ \E i \in DOMAIN handlers : handlers[i].c = c /\ handlers[i].before
<1>1. ContdInv /\ MarkInv /\ [ContdNext]_contdVars => MarkInv'
  <2> SUFFICES ASSUME ContdInv, MarkInv, [ContdNext]_contdVars PROVE MarkInv'
    OBVIOUS
  <2>1. CASE ContdNext
    BY <2>1, <1>MarkInvWorker, <1>MarkInvHandler, <1>MarkInvOthers DEF ContdNext, WatcherStep, ContdInv
  <2>2. CASE UNCHANGED contdVars
    BY <2>2 DEF contdVars, MarkInv, ContdQueues, HandlersHeld, HeldByMark
  <2> QED BY <2>1, <2>2
<1>2. ContdInv /\ MarkInv /\ [ContdNext]_contdVars => [Stops]_contdVars
  <2> SUFFICES ASSUME ContdInv, MarkInv, ContdNext, NEW c \in Containers,
                      work.c = c, work.op \in {"kill", "task", "remove"}, work' = work,
                      task[c] # "running", task'[c] = "running"
               PROVE  \/ c \in overwrote
                      \/ \E i \in DOMAIN handlers : handlers[i].c = c /\ handlers[i].before
    OBVIOUS
  <2>1. task = [d \in Containers |-> task[d]] BY DEF ContdInv, ContdTypes
  <2>2. PICK i \in DOMAIN handlers : HandlerStep(i) /\ ~ UNCHANGED task
    <3>1. ~ WorkerStep /\ ~ ContdRestart
      <4>1. ~ RunTask BY DEF RunTask
      <4>2. ~ KillTask BY <2>1 DEF KillTask, Exited
      <4>3. ~ DeleteTask BY <2>1 DEF DeleteTask
      <4>4. ~ DeleteContainer BY DEF DeleteContainer
      <4>5. NoWork.op = "none" BY DEF NoWork
      <4>6. ~ ContdRestart BY <4>5 DEF ContdRestart
      <4> QED BY <4>1, <4>2, <4>3, <4>4, <4>6 DEF WorkerStep
    <3>2. ~ UNCHANGED task OBVIOUS
    <3>3. ~ \E d \in Containers : TaskCrash(d)
      BY <2>1 DEF TaskCrash, Exited
    <3> QED BY <3>1, <3>2, <3>3 DEF ContdNext, WatcherStep, HandleEvent, WatchAgain, WatchFails,
                ContdRun, MarkExpires, MarkDeleted
  <2>3. HandlerStart(i) /\ handlers[i].c = c
    BY <2>1, <2>2 DEF HandlerStep, HandlerGet, HandlerSet, HandlerCount, HandlerStart, HandlerGive,
                      Started
  <2> QED BY <2>3 DEF MarkInv, HandlersHeld, HeldByMark, HandlerStart
<1> QED BY ContdInvAlways, <1>MarkInvInit, <1>1, <1>2, PTL DEF ContdSpec, MarkStopsRestarts
-----------------------------------------------------------------------------
\* networkd: what a call has established so far (Stage), and that a port in two
\* hands is known to be disputed (TwiceGiven).

\* the part of the types the proof needs
NetTypes ==
    /\ netState = [n \in Nets |-> netState[n]] /\ netWants = [n \in Nets |-> netWants[n]]
    /\ netFile = [n \in Nets |-> netFile[n]] /\ wgPort = [n \in Nets |-> wgPort[n]]
    /\ wgUp \subseteq Nets
    /\ \A n \in Nets : netState[n] # "none" => netWants[n] \in Ports

\* how far CreateNR and DeleteNR of network n have come when they are at a step
Stage(n, at) ==
    /\ at \in {"ports", "create", "mycelium", "wireguard", "attach", "configure"} =>
           netFile[n] = netWants[n]
    /\ at \in {"create", "mycelium", "wireguard", "attach", "configure"} =>
           netWants[n] \in portSet
    /\ at \in {"mycelium", "wireguard", "attach", "configure"} => n \in bridges /\ n \in netNs
    /\ at \in {"wireguard", "attach", "configure"} => (n \in WithMycelium => n \in my)
    /\ at \in {"attach", "configure"} => n \notin wgHost
    /\ at = "configure" => n \in lease
    /\ at = "release" /\ n \notin netLeft =>
           /\ n \notin bridges /\ n \notin netNs /\ n \notin my /\ n \notin wgUp
           /\ wgPort[n] = NoPort \/ n \in wgHost

\* the port a network asked for is its own, or known to be disputed
OwnPort(n) ==
    netWants[n] \in disputed
    \/ \A m \in Nets \ {n} : wgPort[m] # netWants[n] /\ netFile[m] # netWants[n]

\* the call under way is about a network, and knows what it has done to it
CallInv ==
    \/ netCall.at = "idle" /\ netCall.n = NoNet
    \/ /\ netCall.n \in Nets /\ netCall.at # "idle"
       /\ netState[netCall.n] \in {"init", "ok", "error"}
       /\ Stage(netCall.n, netCall.at)
       /\ netCall.at \notin {"store", "delete", "release"} => OwnPort(netCall.n)

\* a device that is up is in a namespace and has a port
UpInv == \A n \in wgUp : n \in netNs /\ n \notin wgHost /\ wgPort[n] \in Ports

\* a port in the object of one network and the device of another is disputed
TwiceGiven ==
    \A m, n \in Nets : m # n /\ netFile[n] \in Ports /\ wgPort[m] = netFile[n] =>
        netFile[n] \in disputed

\* the inductive invariant of networkd
NetInv ==
    /\ NetTypes /\ CallInv /\ UpInv /\ TwiceGiven
    /\ OkIsWhole /\ DeletedIsGone /\ PortsListed

\* what OkIsWhole says of one network
WholeNet(n) ==
    /\ n \in bridges \cap netNs \cap lease \cap (wgUp \ wgHost)
    /\ n \in WithMycelium => n \in my
    /\ netWants[n] = netFile[n] /\ netWants[n] = wgPort[n]

\* what DeletedIsGone says of one network
GoneNet(n) ==
    /\ n \notin bridges \cup netNs \cup my \cup lease \cup wgUp
    /\ netFile[n] = NoPort /\ (wgPort[n] = NoPort \/ n \in wgHost)

\* a step leaves what networkd has of network m alone
SameParts(m) ==
    /\ netWants'[m] = netWants[m]
    /\ netFile'[m] = netFile[m] /\ wgPort'[m] = wgPort[m]
    /\ m \in bridges' <=> m \in bridges
    /\ m \in netNs' <=> m \in netNs
    /\ m \in my' <=> m \in my
    /\ m \in lease' <=> m \in lease
    /\ m \in wgUp' <=> m \in wgUp
    /\ m \in wgHost' <=> m \in wgHost
    /\ m \in netLeft' <=> m \in netLeft

\* and so is its state
Same(m) == SameParts(m) /\ netState'[m] = netState[m]

\* what a step of a call does to the parts of network n keeps the invariant
PartsStep(n) ==
    /\ netFile' = [m \in Nets |-> netFile'[m]] /\ wgPort' = [m \in Nets |-> wgPort'[m]]
    /\ netWants' = netWants /\ wgUp' \subseteq wgUp \cup {n}
    /\ \A m \in Nets \ {n} : SameParts(m)
    /\ n \in wgUp' => n \in netNs' /\ n \notin wgHost' /\ wgPort'[n] \in Ports
    /\ TwiceGiven' /\ PortsListed'

\* A network that is okay has all its parts and the port it asked for, a removed
\* one left nothing, and a port that is listened on is listed or known to be
\* disputed: whatever step of CreateNR or DeleteNR fails, and whenever networkd or
\* the node restarts.
THEOREM NetworksHoldAlways == NetworkdSpec => []NetworksHold
\* The first state satisfies the invariant: there are no networks.
<1>NetInvInit. NetworkdInit => NetInv
  <2> SUFFICES ASSUME NetworkdInit PROVE NetInv
    OBVIOUS
  <2> USE DEF NetworkdInit
  <2>1. NetTypes BY DEF NetTypes
  <2>2. CallInv BY DEF CallInv, NetIdle
  <2>3. UpInv /\ PortsListed BY DEF UpInv, PortsListed
  <2>4. TwiceGiven BY NetAssumption DEF TwiceGiven
  <2>5. OkIsWhole /\ DeletedIsGone BY DEF OkIsWhole, DeletedIsGone
  <2> QED BY <2>1, <2>2, <2>3, <2>4, <2>5 DEF NetInv
\* a step about network n keeps the invariant of the others
<1>OthersKept. ASSUME NetInv, NEW n \in Nets, \A m \in Nets \ {n} : Same(m), wgUp' \subseteq Nets,
           netCall.n \in {n, NoNet}, netCall'.n \in {n, NoNet},
           netState'[n] = "ok" => netCall'.n = n \/ WholeNet(n)',
           netState'[n] = "deleted" => n \in netLeft' \/ GoneNet(n)',
           n \in wgUp' => n \in netNs' /\ n \notin wgHost' /\ wgPort'[n] \in Ports
    PROVE  OkIsWhole' /\ DeletedIsGone' /\ UpInv'
  <2> USE <1>OthersKept
  <2>1. ASSUME NEW m \in Nets \ {netCall'.n}, netState'[m] = "ok" PROVE WholeNet(m)'
    <3>1. CASE m = n BY <2>1, <3>1
    <3>2. CASE m # n
      <4>1. m # netCall.n BY <3>2, NetAssumption
      <4>2. netState[m] = "ok" BY <2>1, <3>2 DEF Same, SameParts
      <4>3. WholeNet(m) BY <4>1, <4>2 DEF NetInv, OkIsWhole, WholeNet
      <4> QED BY <3>2, <4>3 DEF Same, SameParts, WholeNet
    <3> QED BY <3>1, <3>2
  <2>2. ASSUME NEW m \in Nets \ netLeft', netState'[m] = "deleted" PROVE GoneNet(m)'
    <3>1. CASE m = n BY <2>2, <3>1
    <3>2. CASE m # n
      <4>1. m \notin netLeft /\ netState[m] = "deleted" BY <2>2, <3>2 DEF Same, SameParts
      <4>2. GoneNet(m) BY <4>1 DEF NetInv, DeletedIsGone, GoneNet
      <4> QED BY <3>2, <4>2 DEF Same, SameParts, GoneNet
    <3> QED BY <3>1, <3>2
  <2>3. UpInv' BY DEF NetInv, UpInv, Same, SameParts
  <2>4. OkIsWhole' BY <2>1 DEF OkIsWhole, WholeNet
  <2>5. DeletedIsGone' BY <2>2 DEF DeletedIsGone, GoneNet
  <2> QED BY <2>3, <2>4, <2>5
\* the ports stay as they are
<1>PortsKept. ASSUME NetInv, UNCHANGED <<netFile, wgPort, wgUp>>, disputed \subseteq disputed',
           portSet \subseteq portSet'
    PROVE  TwiceGiven' /\ PortsListed'
  BY <1>PortsKept DEF NetInv, TwiceGiven, PortsListed
\* A call begins: the engine creates, updates or removes a network.
<1>NetInvBegin. ASSUME NetInv, NEW n \in Nets,
           NetReprovision(n) \/ NetDeprovision(n) \/ \E p \in Ports : NetProvision(n, p)
    PROVE  NetInv'
  <2> USE <1>NetInvBegin
  <2>1. /\ netCall.n = NoNet /\ netCall'.n = n /\ netCall'.at \in {"store", "delete"}
        /\ UNCHANGED <<netFile, portSet, netParts, wgVars, netGhosts>>
    <3>1. CASE NetReprovision(n) BY <3>1 DEF NetReprovision, NetIdle
    <3>2. CASE NetDeprovision(n) BY <3>2 DEF NetDeprovision, NetIdle
    <3>3. ASSUME NEW p \in Ports, NetProvision(n, p)
          PROVE  /\ netCall.n = NoNet /\ netCall'.n = n /\ netCall'.at = "store"
                 /\ UNCHANGED <<netFile, portSet, netParts, wgVars, netGhosts>>
      BY <3>3 DEF NetProvision, NetIdle
    <3> QED BY <3>1, <3>2, <3>3
  <2>2. /\ netState'[n] \in {"init", "ok", "error"} /\ netWants'[n] \in Ports
        /\ \A m \in Nets \ {n} : netState'[m] = netState[m] /\ netWants'[m] = netWants[m]
        /\ netState' = [m \in Nets |-> netState'[m]] /\ netWants' = [m \in Nets |-> netWants'[m]]
    <3> USE DEF NetInv, NetTypes
    <3>1. CASE \E p \in Ports : NetProvision(n, p)
      <4>1. PICK p \in Ports : NetProvision(n, p) BY <3>1
      <4>2. /\ netState' = [netState EXCEPT ![n] = "init"]
            /\ netWants' = [netWants EXCEPT ![n] = p]
        BY <4>1 DEF NetProvision
      <4> QED BY <4>2
    <3>2. CASE NetReprovision(n) BY <3>2 DEF NetReprovision
    <3>3. CASE NetDeprovision(n) BY <3>3 DEF NetDeprovision
    <3> QED BY <3>1, <3>2, <3>3
  <2> USE DEF netParts, wgVars, netGhosts
  <2>3. NetTypes' BY <2>1, <2>2 DEF NetInv, NetTypes
  <2>4. CallInv'
    <3>1. Stage(n, "store")' /\ Stage(n, "delete")' BY DEF Stage
    <3> QED BY <2>1, <2>2, <3>1 DEF CallInv
  <2>5. OkIsWhole' /\ DeletedIsGone' /\ UpInv'
    <3>1. \A m \in Nets \ {n} : Same(m) BY <2>1, <2>2 DEF Same, SameParts
    <3>2. n \in wgUp' => n \in netNs' /\ n \notin wgHost' /\ wgPort'[n] \in Ports
      BY <2>1 DEF NetInv, UpInv
    <3>3. wgUp' \subseteq Nets BY <2>3 DEF NetTypes
    <3> QED BY <2>1, <2>2, <3>1, <3>2, <3>3, <1>OthersKept
  <2>6. TwiceGiven' /\ PortsListed' BY <2>1, <1>PortsKept
  <2> QED BY <2>3, <2>4, <2>5, <2>6 DEF NetInv
\* what holds of the network of a call, and what a result of it changes
<1>CallFields. ASSUME NetInv, netCall.at # "idle"
    PROVE  /\ netCall.n \in Nets /\ netState[netCall.n] \in {"init", "ok", "error"}
           /\ netWants[netCall.n] \in Ports
           /\ Stage(netCall.n, netCall.at)
           /\ netCall.at \notin {"store", "delete", "release"} => OwnPort(netCall.n)
  <2> USE <1>CallFields
  <2>1. /\ netCall.n \in Nets /\ netState[netCall.n] \in {"init", "ok", "error"}
        /\ Stage(netCall.n, netCall.at)
        /\ netCall.at \notin {"store", "delete", "release"} => OwnPort(netCall.n)
    BY DEF NetInv, CallInv
  <2>2. netState[netCall.n] # "none" BY <2>1
  <2> QED BY <2>1, <2>2 DEF NetInv, NetTypes
\* The result of a call is stored, and the worker is idle.
<1>CallEnds. ASSUME NetInv, netCall.n \in Nets, NEW s, NetResult(s)
    PROVE  /\ netCall'.at = "idle" /\ netCall'.n = NoNet /\ CallInv'
           /\ netState'[netCall.n] = s
           /\ \A m \in Nets \ {netCall.n} : netState'[m] = netState[m]
           /\ netState' = [m \in Nets |-> netState'[m]]
  BY <1>CallEnds DEF NetResult, NetIdle, CallInv, NetInv, NetTypes
\* A call goes on to its next step.
<1>CallGoesOn. ASSUME NEW at, NetAt(at)
    PROVE  netCall'.at = at /\ netCall'.n = netCall.n /\ netState' = netState
  BY <1>CallGoesOn DEF NetAt
\* a step after which the call goes on
<1>GoesOnKept. ASSUME NetInv, NEW n \in Nets, n = netCall.n, netCall.at # "idle", PartsStep(n),
           NEW at, NetAt(at), at # "idle", Stage(n, at)',
           at \notin {"store", "delete", "release"} => OwnPort(n)'
    PROVE  NetInv'
  <2> USE <1>GoesOnKept
  <2>1. netState[n] \in {"init", "ok", "error"} /\ netWants[n] \in Ports
    BY <1>CallFields
  <2>2. wgUp' \subseteq Nets BY <2>1 DEF NetInv, NetTypes, PartsStep
  <2>3. netCall'.at = at /\ netCall'.n = n /\ netState' = netState BY <1>CallGoesOn
  <2>4. CallInv' BY <2>1, <2>3 DEF CallInv
  <2>5. NetTypes' BY <2>2, <2>3 DEF NetInv, NetTypes, PartsStep
  <2>6. \A m \in Nets \ {n} : Same(m) BY <2>3 DEF Same, PartsStep
  <2>7. n \in wgUp' => n \in netNs' /\ n \notin wgHost' /\ wgPort'[n] \in Ports
    BY DEF PartsStep
  <2>8. OkIsWhole' /\ DeletedIsGone' /\ UpInv'
    BY <2>1, <2>2, <2>3, <2>6, <2>7, <1>OthersKept
  <2> QED BY <2>4, <2>5, <2>8 DEF NetInv, PartsStep
\* a step that ends the call with the result s
<1>EndKept. ASSUME NetInv, NEW n \in Nets, n = netCall.n, netCall.at # "idle", PartsStep(n),
           NEW s, NetResult(s), s # "none",
           s = "ok" => WholeNet(n)', s = "deleted" => n \in netLeft' \/ GoneNet(n)'
    PROVE  NetInv'
  <2> USE <1>EndKept
  <2>1. netWants[n] \in Ports BY <1>CallFields
  <2>2. wgUp' \subseteq Nets BY DEF NetInv, NetTypes, PartsStep
  <2>3. /\ netCall'.n = NoNet /\ CallInv' /\ netState'[n] = s
        /\ \A m \in Nets \ {n} : netState'[m] = netState[m]
        /\ netState' = [m \in Nets |-> netState'[m]]
    BY <1>CallEnds
  <2>5. NetTypes' BY <2>1, <2>2, <2>3 DEF NetInv, NetTypes, PartsStep
  <2>6. \A m \in Nets \ {n} : Same(m) BY <2>3 DEF Same, PartsStep
  <2>7. n \in wgUp' => n \in netNs' /\ n \notin wgHost' /\ wgPort'[n] \in Ports
    BY DEF PartsStep
  <2>8. OkIsWhole' /\ DeletedIsGone' /\ UpInv'
    BY <2>1, <2>2, <2>3, <2>6, <2>7, <1>OthersKept
  <2> QED BY <2>3, <2>5, <2>8 DEF NetInv, PartsStep
\* The object is stored, not at all or torn; a port that another has is disputed.
<1>NetInvStore. ASSUME NetInv, StoreNetwork
    PROVE  NetInv'
  <2> USE <1>NetInvStore
  <2>1. PICK n \in Nets : netCall.n = n /\ netCall.at = "store"
    BY <1>CallFields DEF StoreNetwork
  <2>2. PICK f \in {netFile[n], TornNet, netWants[n]} :
          /\ netFile' = [netFile EXCEPT ![n] = f]
          /\ NetResult("error") \/ (f = netWants[n] /\ NetAt("ports"))
    BY <2>1 DEF StoreNetwork
  <2>3. /\ UNCHANGED <<netWants, portSet, netParts, wgVars, netLeft>>
        /\ disputed' = disputed \cup {p \in {netWants[n]} : PortTaken(n, p)}
    BY <2>1 DEF StoreNetwork
  <2>4. /\ netFile'[n] = f /\ \A m \in Nets \ {n} : netFile'[m] = netFile[m]
        /\ netFile' = [m \in Nets |-> netFile'[m]]
    BY <2>2 DEF NetInv, NetTypes
  <2> USE DEF netParts, wgVars
  <2>5. OwnPort(n)'
    <3>1. CASE PortTaken(n, netWants[n]) BY <2>3, <3>1 DEF OwnPort
    <3>2. CASE ~ PortTaken(n, netWants[n])
      BY <2>3, <2>4, <3>2 DEF OwnPort, PortTaken
    <3> QED BY <3>1, <3>2
  <2>7. TwiceGiven'
    <3> SUFFICES ASSUME NEW m \in Nets, NEW k \in Nets, m # k, netFile'[k] \in Ports,
                        wgPort'[m] = netFile'[k]
                 PROVE  netFile'[k] \in disputed'
      BY DEF TwiceGiven
    <3>1. CASE k # n BY <2>3, <2>4, <3>1 DEF NetInv, TwiceGiven
    <3>2. CASE k = n /\ f = netFile[n] BY <2>3, <2>4, <3>2 DEF NetInv, TwiceGiven
    <3>3. CASE k = n /\ f = netWants[n] BY <2>3, <2>4, <2>5, <3>3 DEF OwnPort
    <3> QED BY <2>2, <2>4, <3>1, <3>2, <3>3, NetAssumption
  <2>8. PortsListed' BY <2>3 DEF NetInv, PortsListed
  <2>9. PartsStep(n)
    <3>1. \A m \in Nets \ {n} : SameParts(m) BY <2>3, <2>4 DEF SameParts
    <3>2. n \in wgUp' => n \in netNs' /\ n \notin wgHost' /\ wgPort'[n] \in Ports
      BY <2>3 DEF NetInv, UpInv
    <3>3. wgPort' = [m \in Nets |-> wgPort'[m]] BY <2>3 DEF NetInv, NetTypes
    <3> QED BY <2>3, <2>4, <2>7, <2>8, <3>1, <3>2, <3>3 DEF PartsStep
  <2>10. CASE NetResult("error") BY <2>1, <2>9, <2>10, <1>EndKept
  <2>11. CASE f = netWants[n] /\ NetAt("ports")
    <3>1. Stage(n, "ports")' BY <2>3, <2>4, <2>11 DEF Stage
    <3> QED BY <2>1, <2>5, <2>9, <2>11, <3>1, <1>GoesOnKept
  <2> QED BY <2>2, <2>10, <2>11
\* The port asked for is reserved; one that is in the list ends the call.
<1>NetInvReserve. ASSUME NetInv, ReservePort
    PROVE  NetInv'
  <2> USE <1>NetInvReserve
  <2>1. PICK n \in Nets : netCall.n = n /\ netCall.at = "ports"
    BY <1>CallFields DEF ReservePort
  <2>2. netWants[n] \in Ports /\ Stage(n, "ports") /\ OwnPort(n)
    BY <2>1, <1>CallFields
  <2>3. /\ UNCHANGED <<netWants, netFile, netParts, wgVars, netGhosts>>
        /\ portSet' = portSet \cup {netWants[n]}
        /\ NetResult("error") \/ NetAt("create")
    BY <2>1, <2>2 DEF ReservePort, Stage
  <2> USE DEF netParts, wgVars, netGhosts
  <2>4. PartsStep(n)
    <3>1. TwiceGiven' /\ PortsListed' BY <2>3, <1>PortsKept
    <3> QED BY <2>3, <3>1 DEF PartsStep, SameParts, NetInv, NetTypes, UpInv
  <2>5. Stage(n, "create")' BY <2>2, <2>3 DEF Stage
  <2>6. OwnPort(n)' BY <2>2, <2>3 DEF OwnPort
  <2>7. CASE NetResult("error") BY <2>1, <2>4, <2>7, <1>EndKept
  <2>8. CASE NetAt("create") BY <2>1, <2>4, <2>5, <2>6, <2>8, <1>GoesOnKept
  <2> QED BY <2>3, <2>7, <2>8
\* The bridge and the namespaces are created.
<1>NetInvCreate. ASSUME NetInv, CreateResource
    PROVE  NetInv'
  <2> USE <1>NetInvCreate
  <2>1. PICK n \in Nets : netCall.n = n /\ netCall.at = "create"
    BY <1>CallFields DEF CreateResource
  <2>2. Stage(n, "create") /\ OwnPort(n)
    BY <2>1, <1>CallFields
  <2>3. /\ UNCHANGED <<netWants, netFile, portSet, my, lease, wgVars, netGhosts>>
        /\ bridges' \in {bridges, bridges \cup {n}} /\ netNs' \in {netNs, netNs \cup {n}}
        /\ NetAt("cleanup") \/ (NetAt("mycelium") /\ n \in bridges' /\ n \in netNs')
    BY <2>1 DEF CreateResource
  <2> USE DEF wgVars, netGhosts
  <2>4. PartsStep(n)
    <3>1. TwiceGiven' /\ PortsListed' BY <2>3, <1>PortsKept
    <3>2. n \in wgUp' => n \in netNs' /\ n \notin wgHost' /\ wgPort'[n] \in Ports
      BY <2>3 DEF NetInv, UpInv
    <3>3. \A m \in Nets \ {n} : SameParts(m) BY <2>3 DEF SameParts
    <3> QED BY <2>3, <3>1, <3>2, <3>3 DEF PartsStep, NetInv, NetTypes
  <2>5. OwnPort(n)' BY <2>2, <2>3 DEF OwnPort
  <2>6. CASE NetAt("mycelium") /\ n \in bridges' /\ n \in netNs'
    <3>1. Stage(n, "mycelium")' BY <2>2, <2>3, <2>6 DEF Stage
    <3> QED BY <2>1, <2>4, <2>5, <2>6, <3>1, <1>GoesOnKept
  <2>7. CASE NetAt("cleanup")
    <3>1. Stage(n, "cleanup")' BY DEF Stage
    <3> QED BY <2>1, <2>4, <2>5, <2>7, <3>1, <1>GoesOnKept
  <2> QED BY <2>3, <2>6, <2>7
\* Mycelium is set up where it is asked for; an error ends the call.
<1>NetInvMycelium. ASSUME NetInv, SetMycelium
    PROVE  NetInv'
  <2> USE <1>NetInvMycelium
  <2>1. PICK n \in Nets : netCall.n = n /\ netCall.at = "mycelium"
    BY <1>CallFields DEF SetMycelium
  <2>2. Stage(n, "mycelium") /\ OwnPort(n)
    BY <2>1, <1>CallFields
  <2>3. /\ UNCHANGED <<netWants, netFile, portSet, bridges, netNs, lease, wgVars, netGhosts>>
        /\ \A m \in Nets \ {n} : m \in my' <=> m \in my
        /\ NetResult("error") \/ (NetAt("wireguard") /\ (n \in WithMycelium => n \in my'))
    BY <2>1 DEF SetMycelium
  <2> USE DEF wgVars, netGhosts
  <2>4. PartsStep(n)
    <3>1. TwiceGiven' /\ PortsListed' BY <2>3, <1>PortsKept
    <3>2. \A m \in Nets \ {n} : SameParts(m) BY <2>3 DEF SameParts
    <3> QED BY <2>3, <3>1, <3>2 DEF PartsStep, NetInv, NetTypes, UpInv
  <2>5. OwnPort(n)' BY <2>2, <2>3 DEF OwnPort
  <2>6. CASE NetAt("wireguard") /\ (n \in WithMycelium => n \in my')
    <3>1. Stage(n, "wireguard")' BY <2>2, <2>3, <2>6 DEF Stage
    <3> QED BY <2>1, <2>4, <2>5, <2>6, <3>1, <1>GoesOnKept
  <2>7. CASE NetResult("error") BY <2>1, <2>4, <2>7, <1>EndKept
  <2> QED BY <2>3, <2>6, <2>7
\* The device is made on the host and moved into the namespace, or found there.
<1>NetInvWireguard. ASSUME NetInv, SetWireguard
    PROVE  NetInv'
  <2> USE <1>NetInvWireguard
  <2>1. PICK n \in Nets : netCall.n = n /\ netCall.at = "wireguard"
    BY <1>CallFields DEF SetWireguard
  <2>2. Stage(n, "wireguard") /\ OwnPort(n) /\ netWants[n] \in Ports
    BY <2>1, <1>CallFields
  <2>3. /\ UNCHANGED <<netWants, netFile, portSet, netParts, wgUp, netGhosts>>
        /\ \/ wgPort' = wgPort
           \/ wgPort' = [wgPort EXCEPT ![n] = IF wgPort[n] = NoPort THEN 0 ELSE wgPort[n]]
        /\ \A m \in Nets \ {n} : m \in wgHost' <=> m \in wgHost
        /\ wgPort[n] # NoPort => (n \in wgHost' => n \in wgHost)
        /\ NetAt("cleanup") \/ (NetAt("attach") /\ n \notin wgHost')
    BY <2>1 DEF SetWireguard
  <2> USE DEF netParts, netGhosts
  <2>4. /\ \A m \in Nets \ {n} : wgPort'[m] = wgPort[m]
        /\ wgPort'[n] = wgPort[n] \/ (wgPort[n] = NoPort /\ wgPort'[n] = 0)
        /\ wgPort' = [m \in Nets |-> wgPort'[m]]
    BY <2>3 DEF NetInv, NetTypes
  <2>5. n \in wgUp => wgPort[n] \in Ports /\ n \in netNs /\ n \notin wgHost
    BY DEF NetInv, UpInv
  <2>6. n \in wgUp' => n \in netNs' /\ n \notin wgHost' /\ wgPort'[n] = wgPort[n] /\ wgPort[n] \in Ports
    BY <2>3, <2>4, <2>5, NetAssumption
  <2>7. PartsStep(n)
    <3>1. TwiceGiven'
      BY <2>3, <2>4, NetAssumption DEF NetInv, TwiceGiven
    <3>2. PortsListed' BY <2>3, <2>4, <2>6 DEF NetInv, NetTypes, PortsListed
    <3>3. \A m \in Nets \ {n} : SameParts(m) BY <2>3, <2>4 DEF SameParts
    <3> QED BY <2>3, <2>4, <2>6, <3>1, <3>2, <3>3 DEF PartsStep, NetInv, NetTypes
  <2>8. OwnPort(n)' BY <2>2, <2>3, <2>4 DEF OwnPort
  <2>9. CASE NetAt("attach") /\ n \notin wgHost'
    <3>1. Stage(n, "attach")' BY <2>2, <2>3, <2>9 DEF Stage
    <3> QED BY <2>1, <2>7, <2>8, <2>9, <3>1, <1>GoesOnKept
  <2>10. CASE NetAt("cleanup")
    <3>1. Stage(n, "cleanup")' BY DEF Stage
    <3> QED BY <2>1, <2>7, <2>8, <2>10, <3>1, <1>GoesOnKept
  <2> QED BY <2>3, <2>9, <2>10
\* An address is leased.
<1>NetInvAttach. ASSUME NetInv, AttachNR
    PROVE  NetInv'
  <2> USE <1>NetInvAttach
  <2>1. PICK n \in Nets : netCall.n = n /\ netCall.at = "attach"
    BY <1>CallFields DEF AttachNR
  <2>2. Stage(n, "attach") /\ OwnPort(n)
    BY <2>1, <1>CallFields
  <2>3. /\ UNCHANGED <<netWants, netFile, portSet, bridges, netNs, my, wgVars, netGhosts>>
        /\ \A m \in Nets \ {n} : m \in lease' <=> m \in lease
        /\ NetAt("cleanup") \/ (NetAt("configure") /\ n \in lease')
    BY <2>1 DEF AttachNR
  <2> USE DEF wgVars, netGhosts
  <2>4. PartsStep(n)
    <3>1. TwiceGiven' /\ PortsListed' BY <2>3, <1>PortsKept
    <3>2. \A m \in Nets \ {n} : SameParts(m) BY <2>3 DEF SameParts
    <3> QED BY <2>3, <3>1, <3>2 DEF PartsStep, NetInv, NetTypes, UpInv
  <2>5. OwnPort(n)' BY <2>2, <2>3 DEF OwnPort
  <2>6. CASE NetAt("configure") /\ n \in lease'
    <3>1. Stage(n, "configure")' BY <2>2, <2>3, <2>6 DEF Stage
    <3> QED BY <2>1, <2>4, <2>5, <2>6, <3>1, <1>GoesOnKept
  <2>7. CASE NetAt("cleanup")
    <3>1. Stage(n, "cleanup")' BY DEF Stage
    <3> QED BY <2>1, <2>4, <2>5, <2>7, <3>1, <1>GoesOnKept
  <2> QED BY <2>3, <2>6, <2>7
\* The device goes up with the port asked for: the network is whole.
<1>NetInvConfigure. ASSUME NetInv, ConfigureWG
    PROVE  NetInv'
  <2> USE <1>NetInvConfigure
  <2>1. PICK n \in Nets : netCall.n = n /\ netCall.at = "configure"
    BY <1>CallFields DEF ConfigureWG
  <2>2. Stage(n, "configure") /\ OwnPort(n) /\ netWants[n] \in Ports
    BY <2>1, <1>CallFields
  <2>3. /\ UNCHANGED <<netWants, netFile, portSet, netParts, wgHost, netGhosts>>
        /\ wgPort' = wgPort \/ wgPort' = [wgPort EXCEPT ![n] = netWants[n]]
        /\ \/ /\ wgPort' = [wgPort EXCEPT ![n] = netWants[n]] /\ wgUp' = wgUp \cup {n}
              /\ NetResult("ok") \/ NetResult("init") \/ NetAt("cleanup")
           \/ wgUp' = wgUp \ {n} /\ NetAt("cleanup")
    BY <2>1 DEF ConfigureWG
  <2> USE DEF netParts, netGhosts
  <2>4. /\ \A m \in Nets \ {n} : wgPort'[m] = wgPort[m]
        /\ wgPort'[n] = wgPort[n] \/ wgPort'[n] = netWants[n]
        /\ wgPort' = [m \in Nets |-> wgPort'[m]]
        /\ n \in wgUp' => wgPort'[n] = netWants[n]
    BY <2>3 DEF NetInv, NetTypes
  <2>5. n \in bridges /\ n \in netNs /\ n \notin wgHost /\ n \in lease /\ (n \in WithMycelium => n \in my)
        /\ netWants[n] \in portSet /\ netFile[n] = netWants[n]
    BY <2>2 DEF Stage
  <2>6. PartsStep(n)
    <3>1. TwiceGiven'
      <4> SUFFICES ASSUME NEW m \in Nets, NEW k \in Nets, m # k, netFile'[k] \in Ports,
                          wgPort'[m] = netFile'[k]
                   PROVE  netFile'[k] \in disputed'
        BY DEF TwiceGiven
      <4>1. CASE wgPort'[m] = wgPort[m] BY <2>3, <4>1 DEF NetInv, TwiceGiven
      <4>2. CASE m = n /\ wgPort'[m] = netWants[n] BY <2>2, <2>3, <4>2 DEF OwnPort
      <4> QED BY <2>4, <4>1, <4>2
    <3>2. PortsListed' BY <2>3, <2>4, <2>5 DEF NetInv, NetTypes, PortsListed
    <3>3. \A m \in Nets \ {n} : SameParts(m) BY <2>3, <2>4 DEF SameParts
    <3>4. n \in wgUp' => n \in netNs' /\ n \notin wgHost' /\ wgPort'[n] \in Ports
      BY <2>2, <2>3, <2>4, <2>5
    <3>5. wgUp' \subseteq wgUp \cup {n} BY <2>3
    <3> QED BY <2>3, <2>4, <3>1, <3>2, <3>3, <3>4, <3>5 DEF PartsStep, NetInv, NetTypes
  <2>7. OwnPort(n)' BY <2>2, <2>3, <2>4 DEF OwnPort
  <2>8. CASE NetAt("cleanup")
    <3>1. Stage(n, "cleanup")' BY DEF Stage
    <3> QED BY <2>1, <2>6, <2>7, <2>8, <3>1, <1>GoesOnKept
  <2>9. CASE NetResult("init") BY <2>1, <2>6, <2>9, <1>EndKept
  <2>10. CASE NetResult("ok") /\ wgUp' = wgUp \cup {n}
    <3>1. WholeNet(n)' BY <2>3, <2>4, <2>5, <2>10 DEF WholeNet
    <3> QED BY <2>1, <2>6, <2>10, <3>1, <1>EndKept
  <2> QED BY <2>3, <2>8, <2>9, <2>10
\* what a removal takes, failing or not
<1>DeletedParts. ASSUME NetInv, NEW n \in Nets, DeleteAll(n) \/ \E stopped \in BOOLEAN : DeleteSome(n, stopped)
    PROVE  /\ UNCHANGED <<lease, wgHost>>
           /\ \A m \in Nets \ {n} :
                 /\ wgPort'[m] = wgPort[m]
                 /\ m \in bridges' <=> m \in bridges
                 /\ m \in netNs' <=> m \in netNs
                 /\ m \in my' <=> m \in my
                 /\ m \in wgUp' <=> m \in wgUp
           /\ wgPort' = [m \in Nets |-> wgPort'[m]] /\ wgUp' \subseteq wgUp
           /\ wgPort'[n] = wgPort[n] \/ wgPort'[n] = NoPort
           /\ n \in wgUp' => n \in netNs' /\ n \notin wgHost' /\ wgPort'[n] = wgPort[n] /\ wgPort[n] \in Ports
           /\ DeleteAll(n) => /\ n \notin bridges' /\ n \notin netNs' /\ n \notin my' /\ n \notin wgUp'
                              /\ wgPort'[n] = NoPort \/ n \in wgHost'
  <2> USE <1>DeletedParts
  <2>1. wgPort = [m \in Nets |-> wgPort[m]] BY DEF NetInv, NetTypes
  <2>2. n \in wgUp => n \in netNs /\ n \notin wgHost /\ wgPort[n] \in Ports
    BY DEF NetInv, UpInv
  <2>3. CASE DeleteLinks(n)
    <3>1. /\ wgPort' = [wgPort EXCEPT ![n] = IF n \in wgHost THEN wgPort[n] ELSE NoPort]
          /\ bridges' = bridges \ {n} /\ netNs' = netNs \ {n} /\ wgUp' = wgUp \ {n}
          /\ UNCHANGED <<lease, wgHost>>
      BY <2>3 DEF DeleteLinks
    <3>2. /\ \A m \in Nets \ {n} : wgPort'[m] = wgPort[m]
          /\ wgPort'[n] = IF n \in wgHost THEN wgPort[n] ELSE NoPort
          /\ wgPort' = [m \in Nets |-> wgPort'[m]]
      BY <2>1, <3>1
    <3>3. my' = my \ {n} \/ my' = my BY DEF DeleteAll, DeleteSome
    <3>4. DeleteAll(n) => n \notin my' BY DEF DeleteAll
    <3> QED BY <3>1, <3>2, <3>3, <3>4
  <2>4. CASE /\ my' \in {my, my \ {n}} /\ bridges' \in {bridges, bridges \ {n}}
             /\ UNCHANGED <<netNs, lease, wgVars>> /\ ~ DeleteLinks(n)
    BY <2>1, <2>2, <2>4 DEF wgVars, DeleteAll
  <2> QED BY <2>3, <2>4 DEF DeleteAll, DeleteSome
\* The deferred clean up takes the parts of a failed call.
<1>NetInvCleanup. ASSUME NetInv, Cleanup
    PROVE  NetInv'
  <2> USE <1>NetInvCleanup
  <2>1. PICK n \in Nets : netCall.n = n /\ netCall.at = "cleanup"
    BY <1>CallFields DEF Cleanup
  <2>2. OwnPort(n) BY <2>1, <1>CallFields
  <2>3. /\ UNCHANGED <<netWants, netFile, netLeft>> /\ NetResult("error")
        /\ DeleteAll(n) \/ \E stopped \in BOOLEAN : DeleteSome(n, stopped)
        /\ portSet' = portSet \ {netWants[n]} /\ disputed \subseteq disputed'
        /\ DeleteAll(n) \/ (wgPort'[n] = netWants[n] => netWants[n] \in disputed')
    BY <2>1 DEF Cleanup
  <2> DEFINE Facts == /\ UNCHANGED <<lease, wgHost>>
                      /\ \A m \in Nets \ {n} : wgPort'[m] = wgPort[m]
                      /\ wgPort' = [m \in Nets |-> wgPort'[m]] /\ wgUp' \subseteq wgUp
                      /\ wgPort'[n] = wgPort[n] \/ wgPort'[n] = NoPort
                      /\ n \in wgUp' => n \in netNs' /\ n \notin wgHost' /\ wgPort'[n] = wgPort[n] /\ wgPort[n] \in Ports
                      /\ DeleteAll(n) => n \notin wgUp'
  <2>4. Facts BY <2>3, <1>DeletedParts
  <2>5. \A m \in Nets \ {n} : SameParts(m) BY <2>3, <1>DeletedParts DEF SameParts
  <2>6. TwiceGiven' BY <2>3, <2>4, NetAssumption DEF NetInv, TwiceGiven
  <2>7. PortsListed'
    <3> SUFFICES ASSUME NEW m \in wgUp' PROVE wgPort'[m] \in portSet' \cup disputed'
      BY DEF PortsListed
    <3>1. m \in Nets /\ m \in wgUp /\ wgPort'[m] = wgPort[m]
      BY <2>4 DEF NetInv, NetTypes
    <3>2. wgPort[m] \in portSet \cup disputed BY <3>1 DEF NetInv, PortsListed
    <3>3. CASE wgPort[m] # netWants[n] BY <2>3, <3>1, <3>2, <3>3
    <3>4. CASE wgPort[m] = netWants[n] /\ m # n BY <2>2, <2>3, <3>1, <3>4 DEF OwnPort
    <3>5. CASE wgPort[m] = netWants[n] /\ m = n BY <2>3, <2>4, <3>1, <3>5
    <3> QED BY <3>3, <3>4, <3>5
  <2>8. PartsStep(n)
    BY <2>3, <2>4, <2>5, <2>6, <2>7 DEF PartsStep, NetInv, NetTypes
  <2> QED BY <2>1, <2>3, <2>8, <1>EndKept
\* DeleteNR removes the parts of the network.
<1>NetInvDelete. ASSUME NetInv, DeleteResource
    PROVE  NetInv'
  <2> USE <1>NetInvDelete
  <2>1. PICK n \in Nets : netCall.n = n /\ netCall.at = "delete"
    BY <1>CallFields DEF DeleteResource
  <2>2. UNCHANGED <<netWants, netFile, portSet, disputed>>
    BY DEF DeleteResource
  <2>3. CASE NotRemoved /\ UNCHANGED <<netParts, wgVars, netLeft>>
    <3> USE DEF netParts, wgVars
    <3>1. TwiceGiven' /\ PortsListed' BY <2>2, <2>3, <1>PortsKept
    <3>2. PartsStep(n)
      BY <2>2, <2>3, <3>1 DEF PartsStep, SameParts, NetInv, NetTypes, UpInv
    <3>3. PICK s \in {"error", "failed"} : NetResult(s) BY <2>3 DEF NotRemoved
    <3> QED BY <2>1, <3>2, <3>3, <1>EndKept
  <2>4. CASE /\ DeleteAll(n) \/ \E stopped \in BOOLEAN : DeleteSome(n, stopped)
             /\ \A m \in Nets \ {n} : m \in netLeft' <=> m \in netLeft
             /\ NotRemoved \/ (NetAt("release") /\ (DeleteAll(n) \/ n \in netLeft'))
    <3> DEFINE Facts == /\ \A m \in Nets \ {n} : wgPort'[m] = wgPort[m]
                        /\ wgPort' = [m \in Nets |-> wgPort'[m]] /\ wgUp' \subseteq wgUp
                        /\ wgPort'[n] = wgPort[n] \/ wgPort'[n] = NoPort
                        /\ n \in wgUp' => n \in netNs' /\ n \notin wgHost' /\ wgPort'[n] = wgPort[n] /\ wgPort[n] \in Ports
    <3>1. Facts BY <2>4, <1>DeletedParts
    <3>2. \A m \in Nets \ {n} : SameParts(m) BY <2>2, <2>4, <1>DeletedParts DEF SameParts
    <3>3. TwiceGiven' BY <2>2, <3>1, NetAssumption DEF NetInv, TwiceGiven
    <3>4. PortsListed' BY <2>2, <3>1 DEF NetInv, NetTypes, PortsListed
    <3>5. PartsStep(n)
      BY <2>2, <3>1, <3>2, <3>3, <3>4 DEF PartsStep, NetInv, NetTypes
    <3>6. CASE NotRemoved
      <4>1. PICK s \in {"error", "failed"} : NetResult(s) BY <3>6 DEF NotRemoved
      <4> QED BY <2>1, <3>5, <4>1, <1>EndKept
    <3>7. CASE NetAt("release") /\ (DeleteAll(n) \/ n \in netLeft')
      <4>1. Stage(n, "release")' BY <3>7, <1>DeletedParts DEF Stage
      <4> QED BY <2>1, <3>5, <3>7, <4>1, <1>GoesOnKept
    <3> QED BY <2>4, <3>6, <3>7
  <2> QED BY <2>1, <2>3, <2>4 DEF DeleteResource
\* DeleteNR releases the object and the port.
<1>NetInvRelease. ASSUME NetInv, ReleaseNetwork
    PROVE  NetInv'
  <2> USE <1>NetInvRelease
  <2>1. PICK n \in Nets : netCall.n = n /\ netCall.at = "release"
    BY <1>CallFields DEF ReleaseNetwork
  <2>2. Stage(n, "release") BY <2>1, <1>CallFields
  <2>3. /\ UNCHANGED <<netWants, bridges, netNs, my, wgVars>> /\ NetResult("deleted")
        /\ portSet' = portSet \ {netFile[n]}
        /\ disputed' = disputed \cup ({netFile[n]} \cap {wgPort[n]})
        /\ netFile' = netFile \/ netFile' = [netFile EXCEPT ![n] = NoPort]
        /\ \A m \in Nets \ {n} : (m \in lease' <=> m \in lease) /\ (m \in netLeft' <=> m \in netLeft)
        /\ n \in netLeft => n \in netLeft'
        /\ n \in netLeft' \/ (n \notin lease' /\ netFile' = [netFile EXCEPT ![n] = NoPort])
    BY <2>1 DEF ReleaseNetwork
  <2> USE DEF wgVars
  <2>4. /\ \A m \in Nets \ {n} : netFile'[m] = netFile[m]
        /\ netFile'[n] = netFile[n] \/ netFile'[n] = NoPort
        /\ netFile' = [m \in Nets |-> netFile'[m]]
        /\ n \in netLeft' \/ netFile'[n] = NoPort
    BY <2>3 DEF NetInv, NetTypes
  <2>5. \A m \in Nets \ {n} : SameParts(m) BY <2>3, <2>4 DEF SameParts
  <2>6. TwiceGiven' BY <2>3, <2>4, NetAssumption DEF NetInv, TwiceGiven
  <2>7. PortsListed'
    <3> SUFFICES ASSUME NEW m \in wgUp PROVE wgPort[m] \in portSet' \cup disputed'
      BY <2>3 DEF PortsListed
    <3>1. m \in Nets /\ wgPort[m] \in Ports /\ wgPort[m] \in portSet \cup disputed
      BY DEF NetInv, NetTypes, UpInv, PortsListed
    <3>2. CASE wgPort[m] # netFile[n] BY <2>3, <3>1, <3>2
    <3>3. CASE wgPort[m] = netFile[n] /\ m = n BY <2>3, <3>3
    <3>4. CASE wgPort[m] = netFile[n] /\ m # n
      BY <2>3, <3>1, <3>4 DEF NetInv, TwiceGiven
    <3> QED BY <3>2, <3>3, <3>4
  <2>8. PartsStep(n)
    BY <2>3, <2>4, <2>5, <2>6, <2>7 DEF PartsStep, NetInv, NetTypes, UpInv
  <2>9. n \in netLeft' \/ GoneNet(n)' BY <2>2, <2>3, <2>4 DEF GoneNet, Stage
  <2> QED BY <2>1, <2>3, <2>8, <2>9, <1>EndKept
\* A restart of networkd lists the ports of the devices it can read; the others
\* are disputed.
<1>NetInvRestart. ASSUME NetInv, NetworkdRestart
    PROVE  NetInv'
  <2> USE <1>NetInvRestart
  <2>1. /\ UNCHANGED <<netWants, netFile, netParts, wgVars, netLeft>>
        /\ netCall'.at = "idle" /\ netCall'.n = NoNet
    BY DEF NetworkdRestart, NetIdle
  <2>2. PICK missed \in SUBSET netNs :
           /\ portSet' = SyncWGPorts(netNs \ (missed \cup wgHost))
           /\ disputed' = disputed \cup {wgPort[n] : n \in {m \in missed : wgPort[m] \in Ports}}
    BY DEF NetworkdRestart
  <2>3. /\ netState' = [m \in Nets |-> netState'[m]]
        /\ \A m \in Nets : \/ netState'[m] = netState[m] /\ m # netCall.n
                           \/ netState'[m] \in {"error", "failed"} /\ m = netCall.n
    <3>1. netState = [m \in Nets |-> netState[m]] BY DEF NetInv, NetTypes
    <3>2. CASE netCall.at = "idle"
      <4>1. netState' = netState BY <3>2 DEF NetworkdRestart
      <4>2. netCall.n \notin Nets BY <3>2, NetAssumption DEF NetInv, CallInv
      <4> QED BY <3>1, <4>1, <4>2
    <3>3. CASE netCall.at # "idle"
      <4>1. PICK s \in {"error", "failed"} : netState' = [netState EXCEPT ![netCall.n] = s]
        BY <3>3 DEF NetworkdRestart
      <4>2. netCall.n \in Nets BY <3>3, <1>CallFields
      <4> QED BY <3>1, <4>1, <4>2
    <3> QED BY <3>2, <3>3
  <2> USE DEF netParts, wgVars
  <2>4. NetTypes'
    <3>1. \A m \in Nets : netState'[m] # "none" => netWants[m] \in Ports
      <4>1. netCall.n \in Nets => netWants[netCall.n] \in Ports
        BY <1>CallFields, NetAssumption DEF NetInv, CallInv
      <4> QED BY <2>3, <4>1 DEF NetInv, NetTypes
    <3> QED BY <2>1, <2>3, <3>1 DEF NetInv, NetTypes
  <2>5. CallInv' BY <2>1 DEF CallInv
  <2>6. UpInv' BY <2>1 DEF NetInv, UpInv
  <2>7. TwiceGiven' BY <2>1, <2>2 DEF NetInv, TwiceGiven
  <2>8. OkIsWhole'
    <3> SUFFICES ASSUME NEW m \in Nets, netState'[m] = "ok" PROVE WholeNet(m)'
      BY DEF OkIsWhole, WholeNet
    <3>1. netState[m] = "ok" /\ m # netCall.n BY <2>3
    <3>2. WholeNet(m) BY <3>1 DEF NetInv, OkIsWhole, WholeNet
    <3> QED BY <2>1, <3>2 DEF WholeNet
  <2>9. DeletedIsGone'
    <3> SUFFICES ASSUME NEW m \in Nets \ netLeft, netState'[m] = "deleted" PROVE GoneNet(m)'
      BY <2>1 DEF DeletedIsGone, GoneNet
    <3>1. netState[m] = "deleted" BY <2>3
    <3>2. GoneNet(m) BY <3>1 DEF NetInv, DeletedIsGone, GoneNet
    <3> QED BY <2>1, <3>2 DEF GoneNet
  <2>10. PortsListed'
    <3> SUFFICES ASSUME NEW m \in wgUp PROVE wgPort[m] \in portSet' \cup disputed'
      BY <2>1 DEF PortsListed
    <3>1. m \in netNs /\ m \notin wgHost /\ wgPort[m] \in Ports BY DEF NetInv, UpInv
    <3>2. CASE m \in missed BY <2>2, <3>1, <3>2
    <3>3. CASE m \notin missed
      BY <2>2, <3>1, <3>3 DEF SyncWGPorts
    <3> QED BY <3>2, <3>3
  <2> QED BY <2>4, <2>5, <2>6, <2>7, <2>8, <2>9, <2>10 DEF NetInv
\* A reboot takes everything, and what was okay is to be created again.
<1>NetInvReboot. ASSUME NetInv, NetworkdReboot
    PROVE  NetInv'
  <2> USE <1>NetInvReboot
  <2>1. /\ netFile' = [n \in Nets |-> NoPort] /\ wgPort' = [n \in Nets |-> NoPort]
        /\ bridges' = {} /\ netNs' = {} /\ my' = {} /\ lease' = {} /\ wgUp' = {}
        /\ netState' = [n \in Nets |-> IF netState[n] = "ok" THEN "init" ELSE netState[n]]
        /\ netCall'.at = "idle" /\ netCall'.n = NoNet /\ UNCHANGED netWants
    BY DEF NetworkdReboot, NetIdle
  <2>2. \A n \in Nets : /\ netState'[n] # "ok" /\ netFile'[n] = NoPort /\ wgPort'[n] = NoPort
                        /\ netState'[n] # "none" => netState[n] # "none"
    BY <2>1
  <2>3. NetTypes' BY <2>1, <2>2 DEF NetInv, NetTypes
  <2>4. CallInv' BY <2>1 DEF CallInv
  <2>5. UpInv' /\ PortsListed' BY <2>1 DEF UpInv, PortsListed
  <2>6. TwiceGiven' BY <2>2, NetAssumption DEF TwiceGiven
  <2>7. OkIsWhole' /\ DeletedIsGone' BY <2>1, <2>2 DEF OkIsWhole, DeletedIsGone
  <2> QED BY <2>3, <2>4, <2>5, <2>6, <2>7 DEF NetInv
<1>1. NetInv /\ [NetworkdNext]_netVars => NetInv'
  <2> SUFFICES ASSUME NetInv, [NetworkdNext]_netVars PROVE NetInv'
    OBVIOUS
  <2>1. CASE UNCHANGED netVars
    <3> USE <2>1 DEF netVars, netParts, wgVars, netGhosts, NetInv
    <3>1. NetTypes' /\ UpInv' BY DEF NetTypes, UpInv
    <3>2. CallInv'
      <4>1. ASSUME NEW n, NEW at, Stage(n, at) PROVE Stage(n, at)'
        <5> HIDE DEF NetInv
        <5>1. UNCHANGED <<netFile, netWants, portSet, bridges, netNs, my, wgHost, lease, netLeft,
                          wgUp, wgPort>>
          OBVIOUS
        <5> HIDE <2>1
        <5> QED BY <4>1, <5>1 DEF Stage
      <4>2. \A n : OwnPort(n) => OwnPort(n)' BY DEF OwnPort
      <4> QED BY <4>1, <4>2 DEF CallInv
    <3>3. TwiceGiven' /\ PortsListed' BY DEF TwiceGiven, PortsListed
    <3>4. OkIsWhole' /\ DeletedIsGone' BY DEF OkIsWhole, DeletedIsGone
    <3> QED BY <3>1, <3>2, <3>3, <3>4
  <2>2. CASE NetworkdNext
    BY <2>2, <1>NetInvBegin, <1>NetInvStore, <1>NetInvReserve, <1>NetInvCreate, <1>NetInvMycelium,
       <1>NetInvWireguard, <1>NetInvAttach, <1>NetInvConfigure, <1>NetInvCleanup, <1>NetInvDelete,
       <1>NetInvRelease, <1>NetInvRestart, <1>NetInvReboot DEF NetworkdNext
  <2> QED BY <2>1, <2>2
<1>2. NetInv => NetworksHold BY DEF NetInv, NetworksHold
<1> QED BY <1>NetInvInit, <1>1, <1>2, PTL DEF NetworkdSpec
-----------------------------------------------------------------------------
\* qsfsd: the loop looks at file systems with a tombstone only, and a Mount that
\* found neither the tombstone nor the loop at work meets none of them later.

\* the mount is under way, after the look for the tombstone, or done
QsfsKept == qcall \in {"net", "flist", "bind", "run"} \/ (qcall = "idle" /\ qworkload = "ok")

\* nobody takes it down
LeftAlone == QsfsKept /\ ~raced => ~tombstone /\ cleaner = "wait"

\* what is there of it already
MountedSoFar ==
    ~raced => /\ qcall \in {"flist", "bind", "run"} => qnet
              /\ qcall \in {"bind", "run"} => qflist
              /\ qcall = "run" => layers >= 1
              /\ qcall = "idle" /\ qworkload = "ok" => qnet /\ qflist /\ qcont = "up" /\ layers >= 2

\* the inductive invariant
QsfsInv == layers \in Nat /\ LeftAlone /\ MountedSoFar

\* A file system whose workload is ok is complete, for any number of mounts,
\* uploads, failing steps, lost answers, restarts and reboots: neither the
\* tombstone of an earlier one of its id nor the loop takes it down, except when
\* Mount began while the loop was at work (Mount, checkDeadQSFSs).
THEOREM OkIsMountedAlways == QsfsSpec => []OkIsMounted
\* A step of Mount keeps the invariant: each adds its part, or the call goes on
\* with Unmount.
<1>MountStepInv. ASSUME QsfsInv, MountMarked \/ QSFSPrepare \/ QsfsMountFlist \/ PrepareMountPath \/ RunQsfs
    PROVE  QsfsInv'
  <2> USE <1>MountStepInv
  <2>1. CASE MountMarked
    <3>1. /\ qcall = "mark" /\ qcall' \in {"contd", "net"} /\ (qcall' = "net" => ~tombstone)
          /\ raced' = (cleaner # "wait")
          /\ UNCHANGED <<qworkload, onNode, tombstone, cleaner>>
      BY <2>1 DEF MountMarked
    <3>2. layers' \in Nat BY <3>1 DEF QsfsInv, onNode
    <3>3. qcall' \in {"flist", "bind", "run", "idle"} => FALSE BY <3>1
    <3>4. LeftAlone' BY <3>1, <3>3 DEF LeftAlone, QsfsKept
    <3>5. MountedSoFar' BY <3>3 DEF MountedSoFar
    <3> QED BY <3>2, <3>4, <3>5 DEF QsfsInv
  <2>2. CASE QSFSPrepare
    <3>1. /\ qcall = "net" /\ UNCHANGED <<qworkload, tombstone, cleaner, raced, layers>>
          /\ qcall' = "contd" \/ (qcall' = "flist" /\ qnet')
      BY <2>2 DEF QSFSPrepare, MountOk, MountFails, MountKeeps
    <3>2. LeftAlone' BY <3>1 DEF QsfsInv, LeftAlone, QsfsKept
    <3>3. MountedSoFar' BY <3>1 DEF MountedSoFar
    <3> QED BY <3>1, <3>2, <3>3 DEF QsfsInv
  <2>3. CASE QsfsMountFlist
    <3>1. /\ qcall = "flist" /\ UNCHANGED <<qworkload, tombstone, cleaner, raced, layers, qnet>>
          /\ qcall' = "contd" \/ (qcall' = "bind" /\ qflist')
      BY <2>3 DEF QsfsMountFlist, MountOk, MountFails, MountKeeps
    <3>2. LeftAlone' BY <3>1 DEF QsfsInv, LeftAlone, QsfsKept
    <3>3. MountedSoFar' BY <3>1 DEF QsfsInv, MountedSoFar
    <3> QED BY <3>1, <3>2, <3>3 DEF QsfsInv
  <2>4. CASE PrepareMountPath
    <3>1. /\ qcall = "bind" /\ UNCHANGED <<qworkload, tombstone, cleaner, raced, qnet, qflist>>
          /\ layers' \in {layers, layers + 1}
          /\ qcall' = "contd" \/ (qcall' = "run" /\ layers' = layers + 1)
      BY <2>4 DEF PrepareMountPath, MountOk, MountFails, MountKeeps
    <3>2. layers' \in Nat /\ (qcall' = "run" => layers' >= 1) BY <3>1, SMT DEF QsfsInv
    <3>3. LeftAlone' BY <3>1 DEF QsfsInv, LeftAlone, QsfsKept
    <3>4. MountedSoFar' BY <3>1, <3>2 DEF QsfsInv, MountedSoFar
    <3> QED BY <3>2, <3>3, <3>4 DEF QsfsInv
  <2>5. CASE RunQsfs
    <3>1. /\ qcall = "run" /\ UNCHANGED <<tombstone, cleaner, raced, qnet, qflist>>
          /\ \/ qcall' = "contd" /\ layers' = layers
             \/ qcall' = "idle" /\ qnet /\ qcont' = "up" /\ layers' = layers + 1
      BY <2>5 DEF RunQsfs, MountFails
    <3>2. layers' \in Nat /\ (qcall' = "idle" /\ layers >= 1 => layers' >= 2) BY <3>1, SMT DEF QsfsInv
    <3>3. LeftAlone' BY <3>1 DEF QsfsInv, LeftAlone, QsfsKept
    <3>4. MountedSoFar' BY <3>1, <3>2 DEF QsfsInv, MountedSoFar
    <3> QED BY <3>2, <3>3, <3>4 DEF QsfsInv
  <2> QED BY <2>1, <2>2, <2>3, <2>4, <2>5
\* A step of Unmount, of the loop or of a Mount that failed, leaves a number of
\* mounts on the path.
<1>UnmountLayers. ASSUME layers \in Nat, NEW at, UnmountStep(at)
    PROVE  layers' \in Nat
  <2> USE <1>UnmountLayers
  <2>1. layers' = layers \/ layers' = (IF layers > 2 THEN layers - 2 ELSE 0)
    BY DEF UnmountStep, onNode
  <2> QED BY <2>1, SMT
\* A step of the loop keeps the invariant: there is nothing it could take down
\* but what has a tombstone, or what Mount met it at.
<1>CleanerInv. ASSUME QsfsInv, CleanerStep
    PROVE  QsfsInv'
  <2> USE <1>CleanerInv
  <2>1. CASE ListTombstones
    <3>1. tombstone /\ UNCHANGED <<qworkload, onNode, tombstone, qcall, raced>> BY <2>1 DEF ListTombstones
    <3>2. LeftAlone' BY <3>1 DEF QsfsInv, LeftAlone, QsfsKept
    <3>3. MountedSoFar' /\ layers' \in Nat BY <3>1 DEF QsfsInv, MountedSoFar, onNode
    <3> QED BY <3>2, <3>3 DEF QsfsInv
  <2>2. CASE CheckMetrics
    <3>1. cleaner = "metrics" /\ UNCHANGED <<qworkload, onNode, tombstone, qcall, raced>>
      BY <2>2 DEF CheckMetrics
    <3>2. LeftAlone' BY <3>1 DEF QsfsInv, LeftAlone, QsfsKept
    <3>3. MountedSoFar' /\ layers' \in Nat BY <3>1 DEF QsfsInv, MountedSoFar, onNode
    <3> QED BY <3>2, <3>3 DEF QsfsInv
  <2>3. CASE CleanUnmount
    <3>1. cleaner # "wait" /\ UNCHANGED <<qworkload, qcall, raced>>
      BY <2>3 DEF CleanUnmount, UnmountPlaces
    <3>2. LeftAlone' BY <3>1 DEF QsfsInv, LeftAlone, QsfsKept
    <3>3. MountedSoFar' BY <3>1 DEF QsfsInv, LeftAlone, QsfsKept, MountedSoFar
    <3>4. layers' \in Nat BY <2>3, <1>UnmountLayers DEF CleanUnmount, QsfsInv
    <3> QED BY <3>2, <3>3, <3>4 DEF QsfsInv
  <2> QED BY <2>1, <2>2, <2>3 DEF CleanerStep
\* The steps of SignalDelete, of a Mount that failed, and of the engine leave no
\* okay file system at rest but one that was there.
<1>OtherCallsInv. ASSUME QsfsInv, QsfsProvision \/ MarkDelete \/ MountUndo \/ SignalContainer \/ QsfsUpload
    PROVE  QsfsInv'
  <2> USE <1>OtherCallsInv
  <2>1. CASE QsfsProvision
    <3>1. qcall' = "mark" /\ UNCHANGED onNode BY <2>1 DEF QsfsProvision
    <3> QED BY <3>1 DEF QsfsInv, LeftAlone, QsfsKept, MountedSoFar, onNode
  <2>2. CASE MarkDelete
    <3>1. /\ qcall = "idle" /\ UNCHANGED onNode
          /\ qcall' = "signal" \/ (qcall' = "idle" /\ qworkload' # "ok")
      BY <2>2 DEF MarkDelete
    <3> QED BY <3>1 DEF QsfsInv, LeftAlone, QsfsKept, MountedSoFar, onNode
  <2>3. CASE MountUndo
    <3>1. PICK at \in UnmountPlaces : at = qcall BY <2>3 DEF MountUndo
    <3>2. After(at) \in {"path", "tomb", "flistd", "netd", "done"} BY SMT DEF After, UnmountPlaces
    <3>3. qcall' \in {"path", "tomb", "flistd", "netd"} \/ (qcall' = "idle" /\ qworkload' = "error")
      BY <2>3, <3>1, <3>2 DEF MountUndo
    <3>4. layers' \in Nat BY <2>3, <1>UnmountLayers DEF MountUndo, QsfsInv
    <3> QED BY <3>3, <3>4 DEF QsfsInv, LeftAlone, QsfsKept, MountedSoFar
  <2>4. CASE SignalContainer
    <3>1. qcall' = "idle" /\ qworkload' # "ok" /\ UNCHANGED layers BY <2>4 DEF SignalContainer
    <3> QED BY <3>1 DEF QsfsInv, LeftAlone, QsfsKept, MountedSoFar
  <2>5. CASE QsfsUpload
    <3>1. UNCHANGED <<qworkload, onNode, tombstone, qcall, cleaner, raced>> BY <2>5 DEF QsfsUpload
    <3> QED BY <3>1 DEF QsfsInv, LeftAlone, QsfsKept, MountedSoFar, onNode
  <2> QED BY <2>1, <2>2, <2>3, <2>4, <2>5
\* A restart of qsfsd ends the call under way in an error; after a reboot
\* everything that was okay is mounted again.
<1>QsfsRestartInv. ASSUME QsfsInv, QsfsRestart \/ QsfsReboot
    PROVE  QsfsInv'
  <2> USE <1>QsfsRestartInv
  <2>1. CASE QsfsRestart
    <3>1. /\ qcall' = "idle" /\ cleaner' = "wait" /\ UNCHANGED <<onNode, tombstone, raced>>
          /\ qworkload' = "ok" => qcall = "idle" /\ qworkload = "ok"
      BY <2>1 DEF QsfsRestart
    <3>2. LeftAlone' BY <3>1 DEF QsfsInv, LeftAlone, QsfsKept
    <3>3. MountedSoFar' /\ layers' \in Nat BY <3>1 DEF QsfsInv, MountedSoFar, onNode
    <3> QED BY <3>2, <3>3 DEF QsfsInv
  <2>2. CASE QsfsReboot
    <3>1. /\ qcall' = "mark" \/ (qcall' = "idle" /\ qworkload' # "ok")
          /\ layers' = 0
      BY <2>2 DEF QsfsReboot
    <3>2. layers' \in Nat BY <3>1, SMTT(30)
    <3> QED BY <3>1, <3>2 DEF QsfsInv, LeftAlone, QsfsKept, MountedSoFar
  <2> QED BY <2>1, <2>2
<1>1. QsfsInit => QsfsInv
  <2> SUFFICES ASSUME QsfsInit PROVE QsfsInv
    OBVIOUS
  <2>1. layers \in Nat BY SMT DEF QsfsInit
  <2> QED BY <2>1 DEF QsfsInit, QsfsInv, LeftAlone, QsfsKept, MountedSoFar
<1>2. QsfsInv /\ [QsfsNext]_qsfsVars => QsfsInv'
  <2>1. CASE UNCHANGED qsfsVars
    BY <2>1 DEF qsfsVars, onNode, QsfsInv, LeftAlone, QsfsKept, MountedSoFar
  <2> QED BY <2>1, <1>MountStepInv, <1>CleanerInv, <1>OtherCallsInv, <1>QsfsRestartInv DEF QsfsNext, QsfsCall
<1>3. QsfsInv => OkIsMounted BY DEF QsfsInv, LeftAlone, QsfsKept, MountedSoFar, OkIsMounted
<1> QED BY <1>1, <1>2, <1>3, PTL DEF QsfsSpec
=============================================================================
