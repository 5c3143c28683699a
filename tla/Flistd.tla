------------------------------- MODULE Flistd -------------------------------
(***************************************************************************)
(* flistd (pkg/flist) mounts flists.  The read-only mount of an flist is   *)
(* shared by everything mounted from it; a mount is a bind of it or an     *)
(* overlay over it and a volume of storaged.  Calls are served one at a    *)
(* time, and each ends by unmounting the read-only mounts nothing uses.    *)
(***************************************************************************)
EXTENDS Integers, FiniteSets

CONSTANTS Mounts,         \* names callers mount under
          Flists,         \* hashes of flists
          Servers,        \* pids of g8ufs servers, more than the mounts can hold
          MaxFlistFaults  \* bound: failed steps, dead servers and restarts

ASSUME FlistAssumption ==
    /\ IsFiniteSet(Servers) /\ IsFiniteSet(Mounts) /\ IsFiniteSet(Flists)
    /\ "none" \notin Servers /\ MaxFlistFaults \in Nat
    /\ Cardinality(Servers) > Cardinality(Mounts) + Cardinality(Flists) + MaxFlistFaults

VARIABLES roMount,    \* pid of the server mounted for an flist, NoServer without
          dead,       \* servers that died; their mounts stay
          flistMounts,    \* what is mounted under a name
          volumes,    \* names with a volume in storaged
          call,       \* the call being served
          interrupted,\* a restart or a failed clean up since the last clean up
          stray,      \* names whose volume was left by a fault
          flistFaults \* faults so far

flistVars == <<roMount, dead, flistMounts, volumes, call, interrupted, stray, flistFaults>>

NoServer == "none"
Nothing == [kind |-> "none"]
Bind(h, p) == [kind |-> "bind", flist |-> h, pid |-> p]
Overlay(h, p) == [kind |-> "overlay", flist |-> h, pid |-> p]
Rest == [at |-> "idle"]
CleanUp == [at |-> "clean"]

FlistInit ==
    /\ roMount = [h \in Flists |-> NoServer] /\ dead = {}
    /\ flistMounts = [n \in Mounts |-> Nothing] /\ volumes = {}
    /\ call = Rest /\ interrupted = FALSE /\ stray = {}
    /\ flistFaults = 0

FlistFault == flistFaults < MaxFlistFaults /\ flistFaults' = flistFaults + 1
FlistGoto(at) == call' = [call EXCEPT !.at = at]
-----------------------------------------------------------------------------
\* Mount: a name that is mounted is done; a bind of a dead server is unmounted
MountBegin(n, h, rw) ==
    /\ call = Rest
    /\ LET m == flistMounts[n]
           gone == m.kind = "bind" /\ m.pid \in dead
       IN  /\ flistMounts' = IF gone THEN [flistMounts EXCEPT ![n] = Nothing] ELSE flistMounts
           /\ call' = IF m = Nothing \/ gone
                      THEN [at |-> "ro", n |-> n, flist |-> h, rw |-> rw, new |-> FALSE]
                      ELSE CleanUp
    /\ UNCHANGED <<roMount, dead, volumes, interrupted, stray, flistFaults>>

\* a pid no mount has
FreeServer ==
    CHOOSE p \in Servers : /\ p \notin dead \cup {roMount[h] : h \in Flists}
                           /\ \A n \in Mounts : flistMounts[n] # Nothing => flistMounts[n].pid # p

\* mountRO: the server of the flist, started when there is none or it is dead
MountRO ==
    /\ call.at = "ro"
    /\ IF roMount[call.flist] \notin dead \cup {NoServer}
       THEN FlistGoto(IF call.rw THEN "volume" ELSE "bind") /\ UNCHANGED <<roMount, flistFaults>>
       ELSE \/ /\ roMount' = [roMount EXCEPT ![call.flist] = FreeServer]
               /\ FlistGoto(IF call.rw THEN "volume" ELSE "bind")
               /\ UNCHANGED flistFaults
            \/ /\ FlistFault
               /\ roMount' = [roMount EXCEPT ![call.flist] = NoServer]
               /\ call' = CleanUp
    /\ UNCHANGED <<dead, flistMounts, volumes, interrupted, stray>>

MountBind ==
    /\ call.at = "bind"
    /\ \/ /\ flistMounts' = [flistMounts EXCEPT ![call.n] = Bind(call.flist, roMount[call.flist])]
          /\ UNCHANGED flistFaults
       \/ FlistFault /\ UNCHANGED flistMounts
    /\ call' = CleanUp
    /\ UNCHANGED <<roMount, dead, volumes, interrupted, stray>>

\* mountOverlay finds or creates the volume
MountVolume ==
    /\ call.at = "volume"
    /\ \/ /\ volumes' = volumes \cup {call.n}
          /\ call' = [call EXCEPT !.at = "overlay", !.new = call.n \notin volumes]
          /\ UNCHANGED flistFaults
       \/ FlistFault /\ call' = CleanUp /\ UNCHANGED volumes
    /\ UNCHANGED <<roMount, dead, flistMounts, interrupted, stray>>

\* and mounts the overlay; a failed mount deletes a new volume, a failed
\* directory does not, for its error hides the one the deferred call looks at
MountOverlay ==
    /\ call.at = "overlay"
    /\ call' = CleanUp
    /\ \/ /\ flistMounts' =
                [flistMounts EXCEPT ![call.n] = Overlay(call.flist, roMount[call.flist])]
          /\ UNCHANGED <<volumes, stray, flistFaults>>
       \/ /\ FlistFault
          /\ volumes' = IF call.new THEN volumes \ {call.n} ELSE volumes
          /\ UNCHANGED <<flistMounts, stray>>
       \/ /\ FlistFault
          /\ stray' = stray \cup {call.n}
          /\ UNCHANGED <<flistMounts, volumes>>
    /\ UNCHANGED <<roMount, dead, interrupted>>

\* Unmount; neither a failed unmount nor a volume that stays is an error
Unmount(n) ==
    /\ call = Rest
    /\ call' = CleanUp
    /\ \/ /\ flistMounts' = [flistMounts EXCEPT ![n] = Nothing]
          /\ volumes' = volumes \ {n} /\ stray' = stray \ {n}
          /\ UNCHANGED flistFaults
       \/ /\ FlistFault
          /\ \/ flistMounts' = [flistMounts EXCEPT ![n] = Nothing] /\ UNCHANGED volumes
             \/ volumes' = volumes \ {n} /\ UNCHANGED flistMounts
          /\ stray' = IF n \in volumes' THEN stray \cup {n} ELSE stray \ {n}
    /\ UNCHANGED <<roMount, dead, interrupted>>
-----------------------------------------------------------------------------
\* the server of a mount: of a bind its own, of an overlay the one mounted at
\* the path of its lower layer
ServerOf(n) ==
    CASE flistMounts[n].kind = "bind" -> flistMounts[n].pid
      [] flistMounts[n].kind = "overlay" -> roMount[flistMounts[n].flist]
      [] OTHER -> NoServer

Unused == {h \in Flists : \A n \in Mounts : ServerOf(n) # roMount[h]}

\* mutant: it runs beside the call
MutCleanUnusedMounts ==
    /\ call.at # "idle"
    /\ call' = IF call.at = "clean" THEN Rest ELSE call
    /\ \/ /\ roMount' = [h \in Flists |-> IF h \in Unused THEN NoServer ELSE roMount[h]]
          /\ interrupted' = FALSE
          /\ UNCHANGED flistFaults
       \/ FlistFault /\ interrupted' = TRUE /\ UNCHANGED roMount
    /\ UNCHANGED <<dead, flistMounts, volumes, stray>>

\* cleanUnusedMounts, deferred by Mount and Unmount
cleanUnusedMounts ==
    /\ call.at = "clean"
    /\ call' = Rest
    /\ \/ /\ roMount' = [h \in Flists |-> IF h \in Unused THEN NoServer ELSE roMount[h]]
          /\ interrupted' = FALSE
          /\ UNCHANGED flistFaults
       \/ FlistFault /\ interrupted' = TRUE /\ UNCHANGED roMount
    /\ UNCHANGED <<dead, flistMounts, volumes, stray>>

ServerDies(h) ==
    /\ roMount[h] \notin dead \cup {NoServer}
    /\ FlistFault
    /\ dead' = dead \cup {roMount[h]}
    /\ UNCHANGED <<roMount, flistMounts, volumes, call, interrupted, stray>>

FlistdRestart ==
    /\ call # Rest /\ FlistFault
    /\ call' = Rest /\ interrupted' = TRUE
    /\ stray' = {n \in volumes : n \in stray \/ flistMounts[n].kind # "overlay"}
    /\ UNCHANGED <<roMount, dead, flistMounts, volumes>>

FlistStep == MountRO \/ MountBind \/ MountVolume \/ MountOverlay \/ cleanUnusedMounts

FlistNext ==
    \/ \E n \in Mounts : Unmount(n) \/ \E h \in Flists, rw \in BOOLEAN : MountBegin(n, h, rw)
    \/ FlistStep \/ FlistdRestart
    \/ \E h \in Flists : ServerDies(h)

FlistSpec == FlistInit /\ [][FlistNext]_flistVars
-----------------------------------------------------------------------------
FlistTypeOK ==
    /\ roMount \in [Flists -> Servers \cup {NoServer}] /\ dead \subseteq Servers
    /\ volumes \subseteq Mounts /\ stray \subseteq volumes
    /\ call.at \in {"idle", "ro", "bind", "volume", "overlay", "clean"}

\* "it decide to clean ro mount that are still half through a mount operation":
\* the read-only mount a call is about to use, and the one a live mount is made
\* of, stay mounted (cleanUnusedMounts, Mount).
LayerStays ==
    /\ call.at \in {"bind", "volume", "overlay"} => roMount[call.flist] # NoServer
    /\ \A n \in Mounts : flistMounts[n] # Nothing /\ flistMounts[n].pid \notin dead
                         => roMount[flistMounts[n].flist] = flistMounts[n].pid

\* A finished call leaves no read-only mount that nothing uses, unless a
\* restart or a failed clean up came between (cleanUnusedMounts).
NoneUnused ==
    call = Rest /\ ~interrupted
    => \A h \in Flists : roMount[h] # NoServer => \E n \in Mounts : ServerOf(n) = roMount[h]

\* A finished call leaves no volume without its overlay: what a failed mount
\* created is deleted again, except after the faults the code does not handle
\* (mountOverlay, Unmount).
VolumeHasOverlay ==
    call = Rest => \A n \in volumes \ stray : flistMounts[n].kind = "overlay"

\* The mounts, their layers and their volumes belong together: LayerStays,
\* NoneUnused and VolumeHasOverlay.
FlistMounts == LayerStays /\ NoneUnused /\ VolumeHasOverlay
=============================================================================
