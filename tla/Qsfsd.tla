------------------------------- MODULE Qsfsd -------------------------------
(***************************************************************************)
(* qsfsd mounts quantum safe file systems (pkg/qsfsd).  One file system is *)
(* modelled; they share the zbus worker and the clean-up loop only.  Mount *)
(* builds a network namespace, a flist, a shared mount path and a          *)
(* container.  SignalDelete only leaves a tombstone and lets the container *)
(* finish its uploads; the loop removes it when the uploads dry up.  The   *)
(* loop is a goroutine that takes no lock, so its Unmount runs between the *)
(* steps of the worker's calls.  Tombstones survive a reboot.              *)
(***************************************************************************)
EXTENDS Naturals

CONSTANTS MetricsLimit,    \* rounds without metrics before the clean-up (10)
          MaxMounts,       \* bound: calls of Mount
          MaxUploads,      \* bound: periods with an upload
          MaxQsfsFaults    \* bound: failing steps, lost answers and restarts

VARIABLES qworkload,   \* the state of the workload in the engine
          qnet, qflist, qcont, layers,   \* what is on the node
          tombstone,   \* the file that marks it for deletion
          qcall,       \* where the worker is
          cleaner,     \* where the clean-up loop is
          seen, moved, \* lastUploadMap has an entry; uploads since it was made
          misses,      \* metricsFailureCount
          raced,       \* the last Mount began while the loop was at work
          qLeft,       \* a clean-up failed or was cut after the last SignalDelete
          qsfsUse

onNode == <<qnet, qflist, qcont, layers>>
loopState == <<seen, moved, misses>>
qsfsVars == <<qworkload, onNode, tombstone, qcall, cleaner, loopState, raced, qLeft, qsfsUse>>

UnmountPlaces == {"contd", "path", "tomb", "flistd", "netd"}
MountPlaces == {"mark", "net", "flist", "bind", "run"}

QsfsInit ==
    /\ qworkload = "none"
    /\ qnet = FALSE /\ qflist = FALSE /\ qcont = "none" /\ layers = 0
    /\ tombstone = FALSE
    /\ qcall = "idle" /\ cleaner = "wait"
    /\ seen = FALSE /\ moved = FALSE /\ misses = 0
    /\ raced = FALSE /\ qLeft = FALSE
    /\ qsfsUse = [mounts |-> 0, uploads |-> 0, faults |-> 0]

QsfsFault ==
    /\ qsfsUse.faults < MaxQsfsFaults
    /\ qsfsUse' = [qsfsUse EXCEPT !.faults = @ + 1]

\* a step of Mount succeeds, or fails, which starts its deferred Unmount
MountOk(at) == qcall' = at /\ UNCHANGED qsfsUse
MountFails == qcall' = "contd"
MountKeeps == UNCHANGED <<qworkload, tombstone, cleaner, loopState, raced, qLeft>>
-----------------------------------------------------------------------------
\* the engine provisions the workload, also one of the same id as one removed
QsfsProvision ==
    /\ qcall = "idle" /\ qworkload \in {"none", "deleted"}
    /\ qsfsUse.mounts < MaxMounts
    /\ qsfsUse' = [qsfsUse EXCEPT !.mounts = @ + 1]
    /\ qworkload' = "none"
    /\ qcall' = "mark"
    /\ UNCHANGED <<onNode, tombstone, cleaner, loopState, raced, qLeft>>

\* Mount: "qsfs marked for deletion, try again later"
MountMarked ==
    /\ qcall = "mark"
    /\ qcall' = IF tombstone THEN "contd" ELSE "net"
    /\ raced' = (cleaner # "wait")
    /\ UNCHANGED <<qworkload, onNode, tombstone, cleaner, loopState, qLeft, qsfsUse>>

\* the namespace is created, or found; a failed step may leave or remove it
QSFSPrepare ==
    /\ qcall = "net"
    /\ \/ qnet' = TRUE /\ MountOk("flist")
       \/ qnet' \in BOOLEAN /\ QsfsFault /\ MountFails
    /\ MountKeeps /\ UNCHANGED <<qflist, qcont, layers>>

\* flistd mounts the root file system, or finds it mounted
QsfsMountFlist ==
    /\ qcall = "flist"
    /\ \/ qflist' = TRUE /\ MountOk("bind")
       \/ QsfsFault /\ MountFails /\ UNCHANGED qflist
    /\ MountKeeps /\ UNCHANGED <<qnet, qcont, layers>>

\* the configuration is written to the flist and the path mounted on itself
PrepareMountPath ==
    /\ qcall = "bind"
    /\ \/ qflist /\ layers' = layers + 1 /\ MountOk("run")
       \/ ~qflist /\ MountFails /\ UNCHANGED <<layers, qsfsUse>>
       \/ QsfsFault /\ MountFails /\ layers' \in {layers, layers + 1}
    /\ MountKeeps /\ UNCHANGED <<qnet, qflist, qcont>>

\* the container mounts zdbfs on the path; containerd refuses a name it has and
\* a namespace that is gone, and zdbfs may not come up in time.  The answer to
\* an engine that restarted is lost.
RunQsfs ==
    /\ qcall = "run"
    /\ \/ /\ qcont = "none" /\ qnet
          /\ qcont' = "up" /\ layers' = layers + 1 /\ qcall' = "idle"
          /\ \/ qworkload' = "ok" /\ UNCHANGED qsfsUse
             \/ QsfsFault /\ UNCHANGED qworkload
       \/ /\ qcont # "none" \/ ~qnet
          /\ MountFails
          /\ UNCHANGED <<qworkload, qcont, layers, qsfsUse>>
       \/ /\ qcont = "none" /\ QsfsFault /\ MountFails
          /\ qcont' \in {"none", "up"}
          /\ UNCHANGED <<qworkload, layers>>
    /\ UNCHANGED <<qnet, qflist, tombstone, cleaner, loopState, raced, qLeft>>
-----------------------------------------------------------------------------
\* the engine removes the workload, in error or not.  SignalDelete does nothing
\* when there is a tombstone, and nothing more when it cannot be made.
MarkDelete ==
    /\ qcall = "idle" /\ qworkload \in {"ok", "error"}
    /\ \/ /\ tombstone
          /\ qworkload' = "deleted"
          /\ UNCHANGED <<tombstone, qcall, qLeft, qsfsUse>>
       \/ /\ ~tombstone
          /\ tombstone' = TRUE /\ qcall' = "signal" /\ qLeft' = (qLeft /\ cleaner \in UnmountPlaces)
          /\ UNCHANGED <<qworkload, qsfsUse>>
       \/ /\ ~tombstone /\ QsfsFault
          /\ qworkload' = "error"
          /\ UNCHANGED <<tombstone, qcall, qLeft>>
    /\ UNCHANGED <<onNode, cleaner, loopState, raced>>

\* and the container is told to stop; a missing one is no error
SignalContainer ==
    /\ qcall = "signal"
    /\ qcall' = "idle"
    /\ \/ /\ qcont' = IF qcont = "up" THEN "stopping" ELSE qcont
          /\ qworkload' = "deleted"
          /\ UNCHANGED qsfsUse
       \/ QsfsFault /\ qworkload' = "error" /\ UNCHANGED qcont
    /\ UNCHANGED <<qnet, qflist, layers, tombstone, cleaner, loopState, raced, qLeft>>
-----------------------------------------------------------------------------
\* A step of Unmount: what fails is only logged.  The path is unmounted twice,
\* "once for the zdbfs and the self-mount".
UnmountStep(at) ==
    /\ \/ /\ at = "contd" /\ qcont' = "none"
          /\ UNCHANGED <<qnet, qflist, layers, tombstone, qLeft, qsfsUse>>
       \/ /\ at = "path" /\ layers' = IF layers > 2 THEN layers - 2 ELSE 0
          /\ qLeft' = (qLeft \/ layers > 2)
          /\ UNCHANGED <<qnet, qflist, qcont, tombstone, qsfsUse>>
       \/ /\ at = "tomb" /\ tombstone' = FALSE
          /\ UNCHANGED <<onNode, qLeft, qsfsUse>>
       \/ /\ at = "flistd" /\ qflist' = FALSE
          /\ UNCHANGED <<qnet, qcont, layers, tombstone, qLeft, qsfsUse>>
       \/ /\ at = "netd" /\ qnet' = FALSE
          /\ UNCHANGED <<qflist, qcont, layers, tombstone, qLeft, qsfsUse>>
       \/ /\ QsfsFault
          /\ qLeft' = (qLeft \/ at # "tomb")
          /\ UNCHANGED <<onNode, tombstone>>

After(at) ==
    CASE at = "contd" -> "path" [] at = "path" -> "tomb" [] at = "tomb" -> "flistd"
      [] at = "flistd" -> "netd" [] at = "netd" -> "done"

\* the Unmount of a Mount that failed; its last step ends the call
MountUndo ==
    /\ qcall \in UnmountPlaces
    /\ UnmountStep(qcall)
    /\ IF After(qcall) = "done" THEN qcall' = "idle" /\ qworkload' = "error"
       ELSE qcall' = After(qcall) /\ UNCHANGED qworkload
    /\ UNCHANGED <<cleaner, loopState, raced>>

\* checkDeadQSFSs lists the tombstones
ListTombstones ==
    /\ cleaner = "wait" /\ tombstone
    /\ cleaner' = "metrics"
    /\ UNCHANGED <<qworkload, onNode, tombstone, qcall, loopState, raced, qLeft, qsfsUse>>

\* mutant: a namespace that is gone is not counted
MutCheckMetrics ==
    /\ cleaner = "metrics" /\ qnet
    /\ IF seen /\ ~moved
       THEN cleaner' = "contd" /\ UNCHANGED loopState
       ELSE cleaner' = "wait" /\ seen' = TRUE /\ moved' = FALSE /\ UNCHANGED misses
    /\ UNCHANGED <<qworkload, onNode, tombstone, qcall, raced, qLeft, qsfsUse>>

\* a file system that did not upload enough since the last round is dead, and
\* so is one without metrics for too many rounds
CheckMetrics ==
    /\ cleaner = "metrics"
    /\ \/ /\ qnet
          /\ IF seen /\ ~moved
             THEN cleaner' = "contd" /\ UNCHANGED loopState
             ELSE cleaner' = "wait" /\ seen' = TRUE /\ moved' = FALSE /\ UNCHANGED misses
          /\ UNCHANGED qsfsUse
       \/ /\ IF qnet THEN QsfsFault ELSE UNCHANGED qsfsUse
          /\ misses' = misses + 1
          /\ cleaner' = IF misses' >= MetricsLimit THEN "contd" ELSE "wait"
          /\ UNCHANGED <<seen, moved>>
    /\ UNCHANGED <<qworkload, onNode, tombstone, qcall, raced, qLeft>>

\* the loop's Unmount, after which it forgets the file system
CleanUnmount ==
    /\ cleaner \in UnmountPlaces
    /\ UnmountStep(cleaner)
    /\ IF After(cleaner) = "done"
       THEN cleaner' = "wait" /\ seen' = FALSE /\ misses' = 0
       ELSE cleaner' = After(cleaner) /\ UNCHANGED <<seen, misses>>
    /\ UNCHANGED <<qworkload, qcall, moved, raced>>
-----------------------------------------------------------------------------
\* the container uploads a lot
QsfsUpload ==
    /\ qcont # "none" /\ qnet /\ ~moved /\ qsfsUse.uploads < MaxUploads
    /\ moved' = TRUE
    /\ qsfsUse' = [qsfsUse EXCEPT !.uploads = @ + 1]
    /\ UNCHANGED <<qworkload, onNode, tombstone, qcall, cleaner, seen, misses, raced, qLeft>>

\* qsfsd restarts: the call under way ends in an error, the loop forgets
QsfsRestart ==
    /\ QsfsFault
    /\ qworkload' = IF qcall = "idle" THEN qworkload ELSE "error"
    /\ qcall' = "idle" /\ cleaner' = "wait"
    /\ seen' = FALSE /\ moved' = FALSE /\ misses' = 0
    /\ qLeft' = (qLeft \/ cleaner \in {"flistd", "netd"})
    /\ UNCHANGED <<onNode, tombstone, raced>>

\* the node reboots; the engine provisions again what it has not removed
QsfsReboot ==
    /\ QsfsFault
    /\ qnet' = FALSE /\ qflist' = FALSE /\ qcont' = "none" /\ layers' = 0
    /\ qcall' = IF qworkload = "ok" \/ qcall \in MountPlaces \cup UnmountPlaces
                THEN "mark" ELSE "idle"
    /\ cleaner' = "wait" /\ seen' = FALSE /\ moved' = FALSE /\ misses' = 0
    /\ UNCHANGED <<qworkload, tombstone, raced, qLeft>>

QsfsCall == \/ MountMarked \/ QSFSPrepare \/ QsfsMountFlist \/ PrepareMountPath \/ RunQsfs
            \/ MountUndo \/ SignalContainer
CleanerStep == ListTombstones \/ CheckMetrics \/ CleanUnmount

QsfsNext == \/ QsfsProvision \/ MarkDelete \/ QsfsCall \/ CleanerStep \/ QsfsUpload
            \/ QsfsRestart \/ QsfsReboot

\* the worker goes on with its call, and the ticker of the loop never stops
QsfsFairness == WF_qsfsVars(QsfsCall) /\ WF_qsfsVars(CleanerStep)

QsfsSpec == QsfsInit /\ [][QsfsNext]_qsfsVars /\ QsfsFairness
-----------------------------------------------------------------------------
QsfsTypeOK ==
    /\ qworkload \in {"none", "ok", "error", "deleted"}
    /\ {qnet, qflist, tombstone, seen, moved, raced, qLeft} \subseteq BOOLEAN
    /\ qcont \in {"none", "up", "stopping"} /\ layers \in Nat
    /\ qcall \in {"idle", "signal"} \cup MountPlaces \cup UnmountPlaces
    /\ cleaner \in {"wait", "metrics"} \cup UnmountPlaces
    /\ misses \in 0 .. MetricsLimit

\* A file system whose workload is ok is complete: neither the tombstone of an
\* earlier one of its id nor the loop takes it down, except when Mount began
\* while the loop was removing the earlier one (Mount, checkDeadQSFSs).
OkIsMounted ==
    qworkload = "ok" /\ qcall = "idle"
    => raced \/ (qnet /\ qflist /\ qcont = "up" /\ layers >= 2 /\ ~tombstone)

\* A removed file system ends without leftovers, whatever restarts: its
\* tombstone stays until the loop has removed it.  Left out are steps of Unmount
\* that fail or are cut after the tombstone, and a Mount that met the loop.
RemovedIsCleaned ==
    []<>(qworkload = "deleted"
         => \/ qLeft \/ raced
            \/ ~qnet /\ ~qflist /\ qcont = "none" /\ layers = 0 /\ ~tombstone)

\* A file system ends up as its workload says: OkIsMounted and RemovedIsCleaned.
QsfsSettles == []OkIsMounted /\ RemovedIsCleaned
=============================================================================
