------------------------------- MODULE Contd -------------------------------
(***************************************************************************)
(* contd (pkg/container): containers and their tasks in containerd, run    *)
(* and deleted by the one worker of its zbus server, and a watcher that    *)
(* follows the exits of tasks.  Every exit has a handler of its own, a     *)
(* goroutine, which restarts the task or has the workload decommissioned.  *)
(* Handlers and worker share nothing but containerd and the cache          *)
(* `failures', whose entries expire.                                       *)
(***************************************************************************)
EXTENDS Integers, Sequences

CONSTANTS Containers,
          ContdFailures,   \* failuresBeforeDestroy
          MaxRuns,         \* bound: calls of Run
          MaxExits,        \* bound: tasks that crash
          MaxContdFaults   \* bound: failed starts, lost event streams, restarts

ASSUME ContdAssumption == ContdFailures \in Nat \ {0}

VARIABLES created,   \* containers in containerd
          task,      \* "none", "running" or "stopped", by container
          mark,      \* failures: NoMark, PermanentMark or a count
          watching,  \* subscribed to the events of containerd
          exits,     \* exits the watcher has yet to take, in order
          handlers,  \* handlers: container, step, begun before the mark
          work,      \* the call the worker serves
          given,     \* containers whose workload is decommissioned
          unseen,    \* containers whose last exit nobody was told of
          ignored,   \* containers whose last exit met the permanent mark
          overwrote, \* containers whose permanent mark a handler replaced
          contdUse   \* runs, exits and faults so far

contdVars == <<created, task, mark, watching, exits, handlers, work, given, unseen, ignored,
               overwrote, contdUse>>

NoMark == 0 - 1
PermanentMark == 0 - 2
NoWork == [op |-> "none", c |-> "none"]

ContdInit ==
    /\ created = {} /\ task = [c \in Containers |-> "none"]
    /\ mark = [c \in Containers |-> NoMark]
    /\ watching = TRUE /\ exits = <<>> /\ handlers = <<>> /\ work = NoWork
    /\ given = {} /\ unseen = {} /\ ignored = {} /\ overwrote = {}
    /\ contdUse = [runs |-> 0, exits |-> 0, faults |-> 0]

ContdFault == contdUse.faults < MaxContdFaults /\ contdUse' = [contdUse EXCEPT !.faults = @ + 1]

\* containerd: a task of c starts
Started(c) ==
    /\ task' = [task EXCEPT ![c] = "running"]
    /\ unseen' = unseen \ {c} /\ ignored' = ignored \ {c}

\* containerd: the task of c ends; the event reaches a watcher only
Exited(c) ==
    /\ task' = [task EXCEPT ![c] = "stopped"]
    /\ IF watching THEN exits' = Append(exits, c) /\ UNCHANGED unseen
       ELSE unseen' = unseen \cup {c} /\ UNCHANGED exits
-----------------------------------------------------------------------------
\* Run creates the container; containerd refuses a name it has
ContdRun(c) ==
    /\ work = NoWork /\ contdUse.runs < MaxRuns /\ c \notin created
    /\ contdUse' = [contdUse EXCEPT !.runs = @ + 1]
    /\ created' = created \cup {c}
    /\ given' = given \ {c}
    /\ work' = [op |-> "run", c |-> c]
    /\ UNCHANGED <<task, mark, watching, exits, handlers, unseen, ignored, overwrote>>

\* ensureTask; without a task the container is removed again
RunTask ==
    /\ work.op = "run"
    /\ work' = NoWork
    /\ \/ /\ Started(work.c)
          /\ UNCHANGED <<created, contdUse>>
       \/ /\ ContdFault /\ task[work.c] = "none"
          /\ created' = created \ {work.c}
          /\ UNCHANGED <<task, unseen, ignored>>
    /\ UNCHANGED <<mark, watching, exits, handlers, given, overwrote>>

\* Delete and SignalDelete mark the container, which stops later restarts
MarkDeleted(c, op) ==
    /\ work = NoWork /\ c \in created
    /\ mark' = [mark EXCEPT ![c] = PermanentMark]
    /\ handlers' = [i \in DOMAIN handlers |->
                     [handlers[i] EXCEPT !.before = @ \/ handlers[i].c = c]]
    /\ work' = [op |-> op, c |-> c]
    /\ UNCHANGED <<created, task, watching, exits, given, unseen, ignored, contdUse,
                   overwrote>>

\* SIGTERM, and SIGKILL when it takes too long; a task that survives both
\* makes the next call fail
KillTask ==
    /\ work.op \in {"kill", "signal"}
    /\ work' = IF work.op = "signal" THEN NoWork
               ELSE [work EXCEPT !.op = IF task[work.c] = "none" THEN "remove" ELSE "task"]
    /\ \/ /\ task[work.c] = "running" /\ Exited(work.c)
          /\ UNCHANGED contdUse
       \/ /\ task[work.c] # "running"
          /\ UNCHANGED <<task, exits, unseen, contdUse>>
       \/ /\ task[work.c] = "running" /\ ContdFault
          /\ UNCHANGED <<task, exits, unseen>>
    /\ UNCHANGED <<created, mark, watching, handlers, given, ignored, overwrote>>

\* Delete removes the stopped task; one that runs, or is gone, is an error
DeleteTask ==
    /\ work.op = "task"
    /\ IF task[work.c] = "stopped"
       THEN /\ task' = [task EXCEPT ![work.c] = "none"]
            /\ work' = [work EXCEPT !.op = "remove"]
       ELSE work' = NoWork /\ UNCHANGED task
    /\ UNCHANGED <<created, mark, watching, exits, handlers, given, unseen, ignored,
                   contdUse, overwrote>>

\* mutant: the container goes although a handler started a task
MutDeleteContainer ==
    /\ work.op = "remove"
    /\ created' = created \ {work.c}
    /\ work' = NoWork
    /\ UNCHANGED <<task, mark, watching, exits, handlers, given, unseen, ignored, contdUse,
                   overwrote>>

\* and then the container, which containerd refuses while it has a task
DeleteContainer ==
    /\ work.op = "remove"
    /\ created' = IF task[work.c] = "none" THEN created \ {work.c} ELSE created
    /\ work' = NoWork
    /\ UNCHANGED <<task, mark, watching, exits, handlers, given, unseen, ignored, contdUse,
                   overwrote>>
-----------------------------------------------------------------------------
\* handleEvent: a handler for the next exit
HandleEvent ==
    /\ watching /\ exits # <<>>
    /\ handlers' = Append(handlers, [c |-> Head(exits), at |-> "get",
                                     before |-> mark[Head(exits)] # PermanentMark])
    /\ exits' = Tail(exits)
    /\ UNCHANGED <<created, task, mark, watching, work, given, unseen, ignored, contdUse,
                   overwrote>>

Goes(i, at) == handlers' = [handlers EXCEPT ![i].at = at]
Ends(i) == handlers' = SubSeq(handlers, 1, i - 1) \o SubSeq(handlers, i + 1, Len(handlers))

\* mutant: a permanent mark only stops the counting
MutHandlerGet(i) ==
    LET c == handlers[i].c IN
    /\ handlers[i].at = "get"
    /\ Goes(i, IF mark[c] = PermanentMark THEN "start"
               ELSE IF mark[c] = NoMark THEN "set" ELSE "count")
    /\ UNCHANGED ignored
    /\ UNCHANGED <<created, task, mark, watching, exits, work, given, unseen, contdUse,
                   overwrote>>

\* the first look at the cache
HandlerGet(i) ==
    LET c == handlers[i].c IN
    /\ handlers[i].at = "get"
    /\ IF mark[c] = PermanentMark THEN Ends(i) /\ ignored' = ignored \cup {c}
       ELSE Goes(i, IF mark[c] = NoMark THEN "set" ELSE "count") /\ UNCHANGED ignored
    /\ UNCHANGED <<created, task, mark, watching, exits, work, given, unseen, contdUse,
                   overwrote>>

\* no entry: one is set, whatever is there by now
HandlerSet(i) ==
    /\ handlers[i].at = "set"
    /\ mark' = [mark EXCEPT ![handlers[i].c] = 0]
    /\ overwrote' = IF mark[handlers[i].c] = PermanentMark THEN overwrote \cup {handlers[i].c}
                    ELSE overwrote
    /\ Goes(i, "count")
    /\ UNCHANGED <<created, task, watching, exits, work, given, unseen, ignored, contdUse>>

\* IncrementInt: an entry that is gone or no number is an error
HandlerCount(i) ==
    LET c == handlers[i].c IN
    /\ handlers[i].at = "count"
    /\ IF mark[c] < 0
       THEN /\ Ends(i) /\ ignored' = ignored \cup {c}
            /\ UNCHANGED mark
       ELSE /\ mark' = [mark EXCEPT ![c] = @ + 1]
            /\ Goes(i, IF mark[c] + 1 < ContdFailures THEN "start" ELSE "give")
            /\ UNCHANGED ignored
    /\ UNCHANGED <<created, task, watching, exits, work, given, unseen, contdUse,
                   overwrote>>

\* mutant: a start that fails is logged only
MutHandlerStart(i) ==
    LET c == handlers[i].c IN
    /\ handlers[i].at = "start"
    /\ \/ /\ c \in created /\ Started(c) /\ Ends(i)
          /\ UNCHANGED contdUse
       \/ /\ c \notin created /\ Goes(i, "give")
          /\ UNCHANGED <<task, unseen, ignored, contdUse>>
       \/ /\ c \in created /\ task[c] # "running" /\ ContdFault
          /\ task' = [task EXCEPT ![c] = "stopped"] /\ Ends(i)
          /\ UNCHANGED <<unseen, ignored>>
    /\ UNCHANGED <<created, mark, watching, exits, work, given, overwrote>>

\* start after the delay: a running task is left, a stopped one replaced
HandlerStart(i) ==
    LET c == handlers[i].c IN
    /\ handlers[i].at = "start"
    /\ \/ /\ c \in created /\ Started(c) /\ Ends(i)
          /\ UNCHANGED contdUse
       \/ /\ c \notin created /\ Goes(i, "give")
          /\ UNCHANGED <<task, unseen, ignored, contdUse>>
       \/ /\ c \in created /\ task[c] # "running" /\ ContdFault
          /\ task' = [task EXCEPT ![c] = "none"] /\ Goes(i, "give")
          /\ UNCHANGED <<unseen, ignored>>
    /\ UNCHANGED <<created, mark, watching, exits, work, given, overwrote>>

\* DecommissionCached
HandlerGive(i) ==
    /\ handlers[i].at = "give"
    /\ given' = given \cup {handlers[i].c}
    /\ Ends(i)
    /\ UNCHANGED <<created, task, mark, watching, exits, work, unseen, ignored, contdUse,
                   overwrote>>
-----------------------------------------------------------------------------
\* a task ends by itself
TaskCrash(c) ==
    /\ task[c] = "running" /\ contdUse.exits < MaxExits
    /\ contdUse' = [contdUse EXCEPT !.exits = @ + 1]
    /\ Exited(c)
    /\ UNCHANGED <<created, mark, watching, handlers, work, given, ignored, overwrote>>

Unhandled == {exits[k] : k \in DOMAIN exits}

\* an entry of the cache lasts a minute, longer than a call of Delete, the way
\* of an event and the delay of a restart
MarkExpires(c) ==
    /\ mark[c] # NoMark /\ work.c # c /\ c \notin Unhandled
    /\ \A i \in DOMAIN handlers : handlers[i].c = c => handlers[i].at = "give"
    /\ mark' = [mark EXCEPT ![c] = NoMark]
    /\ UNCHANGED <<created, task, watching, exits, handlers, work, given, unseen, ignored,
                   contdUse, overwrote>>

\* Watch: the stream breaks, what it holds is lost, and it is opened again
WatchFails ==
    /\ watching /\ ContdFault
    /\ watching' = FALSE /\ exits' = <<>>
    /\ unseen' = unseen \cup Unhandled
    /\ UNCHANGED <<created, task, mark, handlers, work, given, ignored, overwrote>>

WatchAgain ==
    /\ ~watching
    /\ watching' = TRUE
    /\ UNCHANGED <<created, task, mark, exits, handlers, work, given, unseen, ignored,
                   contdUse, overwrote>>

\* contd restarts: startup starts every container, then Watch subscribes
ContdRestart ==
    /\ ContdFault
    /\ task' = [c \in Containers |-> IF c \in created THEN "running" ELSE "none"]
    /\ mark' = [c \in Containers |-> NoMark]
    /\ watching' = FALSE /\ exits' = <<>> /\ handlers' = <<>> /\ work' = NoWork
    /\ unseen' = {} /\ ignored' = {}
    /\ UNCHANGED <<created, given, overwrote>>

WorkerStep == RunTask \/ KillTask \/ DeleteTask \/ DeleteContainer
HandlerStep(i) ==
    HandlerGet(i) \/ HandlerSet(i) \/ HandlerCount(i) \/ HandlerStart(i) \/ HandlerGive(i)
WatcherStep == HandleEvent \/ WatchAgain \/ (\E i \in DOMAIN handlers : HandlerStep(i))

ContdNext ==
    \/ \E c \in Containers :
          \/ ContdRun(c) \/ TaskCrash(c) \/ MarkExpires(c)
          \/ MarkDeleted(c, "kill") \/ MarkDeleted(c, "signal")
    \/ WorkerStep \/ WatcherStep \/ WatchFails \/ ContdRestart

ContdFairness == WF_contdVars(WorkerStep) /\ WF_contdVars(WatcherStep)

ContdSpec == ContdInit /\ [][ContdNext]_contdVars /\ ContdFairness
-----------------------------------------------------------------------------
ContdTypeOK ==
    /\ created \subseteq Containers
    /\ task \in [Containers -> {"none", "running", "stopped"}]
    /\ mark \in [Containers -> {PermanentMark, NoMark} \cup 0 .. MaxRuns + MaxExits]
    /\ work.op \in {"none", "run", "kill", "signal", "task", "remove"}

\* Nothing runs that Delete took away: a task belongs to a container that
\* exists, although handlers start tasks on their own (Delete, start).
TaskHasContainer == \A c \in Containers : task[c] # "none" => c \in created

\* "mark this container as perminant down. so the watcher does not try to
\* restart it again": while Delete is under way only a handler that began
\* before the mark starts the task, or any once a first failure counted from
\* such a handler has replaced the mark (Delete, handlerEventTaskExit).
MarkStopsRestarts ==
    [][\A c \in Containers :
         work.c = c /\ work.op \in {"kill", "task", "remove"} /\ work' = work
            /\ task[c] # "running" /\ task'[c] = "running"
         => \/ c \in overwrote
            \/ \E i \in DOMAIN handlers : handlers[i].c = c /\ handlers[i].before]_contdVars

\* A container is not left down: it runs again, is removed or its workload is
\* decommissioned, unless its exit was lost with the event stream or met the
\* mark of a deletion (Watch, handlerEventTaskExit).
NotLeftDown ==
    \A c \in Containers :
        []<>(c \in created => task[c] = "running" \/ c \in given \cup unseen \cup ignored)
=============================================================================
