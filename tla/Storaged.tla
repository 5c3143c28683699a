------------------------------ MODULE Storaged ------------------------------
(***************************************************************************)
(* storaged (pkg/storage): one btrfs pool per disk, pools mounted only     *)
(* while they hold subvolumes, and on them the volumes with a quota, the   *)
(* virtual disks, the zdb devices and the cache of the node.               *)
(*                                                                         *)
(* storaged serves zbus with one worker (cmds/modules/storaged/main.go),   *)
(* so calls are serial, but each makes several changes on disk: a call     *)
(* that creates something takes two steps, and a restart may come between. *)
(* The cache watcher and the hourly shutdown of disks run at any time.     *)
(*                                                                         *)
(* The order of the pools is left open within what poolCmp fixes (mounted  *)
(* pools first).  Files in a volume without quota count as no space.       *)
(***************************************************************************)
EXTENDS Integers, FiniteSets, FiniteSetsExt

CONSTANTS Ssds, Hdds,  \* the disks, by type
          PoolSize,    \* size of each
          Volumes,     \* names of volumes callers use (workload ids)
          Disks,       \* names of virtual disks
          Sizes,       \* sizes they ask for
          LargerSizes, \* sizes they ask to change to
          CacheUnit,   \* cacheSize: the cache is grown by this much
          MaxCacheUse, \* bound on the files in the cache
          MissingSSD,  \* kernel parameter: use the hdd pools as well
          MaxFaults,   \* bound on the disk operations that fail
          MaxBoots     \* bound on the starts of storaged

CacheLabel == "zos-cache"
VDiskVolume == "vdisks"
ZdbVolume == "zdb"
NoPool == "none"

ASSUME StoragedAssumption ==
    /\ PoolSize \in [Ssds \cup Hdds -> Nat]
    /\ Sizes \cup LargerSizes \subseteq Nat \ {0}
    /\ CacheUnit \in Nat \ {0}
    /\ MissingSSD \in BOOLEAN
    /\ IsFiniteSet(Ssds \cup Hdds) /\ NoPool \notin Ssds \cup Hdds
    /\ IsFiniteSet(Volumes) /\ IsFiniteSet(Disks)
    /\ Volumes \cap (Disks \cup {CacheLabel, VDiskVolume, ZdbVolume}) = {}

VARIABLES managed,   \* the pools of s.ssds and s.hdds
          mounted,   \* those that are mounted
          spinning,  \* the disks that are powered
          subvol,    \* quota of each subvolume of each pool, 0 if unlimited
          vdisk,     \* the files of the vdisks subvolumes
          cache,     \* pool of the cache the watcher holds
          cacheUse,  \* size of the files in it
          busy,      \* the call in progress, between its two steps
          reported,  \* volumes and disks a call reported to exist
          torn,      \* a call was cut by a restart
          grown,     \* something was enlarged without a look at the room left
          faults,    \* operations that failed so far
          boots      \* starts so far

storagedVars == <<managed, mounted, spinning, subvol, vdisk, cache, cacheUse,
                  busy, reported, torn, grown, faults, boots>>

Pools == Ssds \cup Hdds
Names == Volumes \cup {CacheLabel, VDiskVolume, ZdbVolume}

Absent == -1
NoDisk == [size |-> Absent, content |-> "none"]
At(op) == [op |-> op, name |-> "none", size |-> 0, pool |-> NoPool]
Quiet == At("none")

StoragedInit ==
    /\ managed = {} /\ mounted = {} /\ spinning = Pools
    /\ subvol = [p \in Pools |-> [n \in Names |-> Absent]]
    /\ vdisk = [p \in Pools |-> [d \in Disks |-> NoDisk]]
    /\ cache = NoPool /\ cacheUse = 0
    /\ busy = Quiet /\ reported = {}
    /\ torn = FALSE /\ grown = FALSE /\ faults = 0 /\ boots = 0

Fail(k) ==
    /\ faults + k <= MaxFaults
    /\ faults' = faults + k
-----------------------------------------------------------------------------
(***************************************************************************)
(* What the calls look up.                                                 *)
(***************************************************************************)
SSDFirst == managed \cap (IF MissingSSD THEN Pools ELSE Ssds)

Has(p, n) == subvol[p][n] # Absent

VolumesOf(p) == {n \in Names : Has(p, n)}

\* space accounted to a pool: the quotas, and the files of the virtual disks
Positive(k) == IF k > 0 THEN k ELSE 0
Quotas(p) == [n \in Names |-> Positive(subvol[p][n])]
Files(p) == [d \in Disks |-> Positive(vdisk[p][d].size)]
Reserved(p) == SumFunctionOnSet(Quotas(p), Names) + SumFunctionOnSet(Files(p), Disks)

\* mutant: the space already reserved is not counted
MutFits(p, size) == size <= PoolSize[p]

Fits(p, size) == Reserved(p) + size <= PoolSize[p]

Homes(n) == {p \in SSDFirst \cap mounted : Has(p, n)}

DiskHomes(d) == {p \in SSDFirst \cap mounted : vdisk[p][d] # NoDisk}

\* mounted pools first; an unmounted pool is tried only if none of them has
\* room, and the first that has room is the only candidate.  The usage of the
\* pools in blind could not be read.
Candidates(size, blind) ==
    LET ready == {p \in SSDFirst \cap mounted : p \notin blind /\ Fits(p, size)}
        fresh == {p \in SSDFirst \ (mounted \cup blind) : Fits(p, size)}
    IN  IF ready # {} THEN {ready} ELSE {{p} : p \in fresh}

\* the pools tried are left mounted when their usage could not be read
Opened(size, blind) ==
    IF \E p \in SSDFirst \cap mounted : p \notin blind /\ Fits(p, size)
    THEN {} ELSE {p \in blind : size <= PoolSize[p]}

Best(c) == {p \in c : \A q \in c : PoolSize[q] - Reserved(q) <= PoolSize[p] - Reserved(p)}

Mount(ps) ==
    /\ mounted' = mounted \cup ps
    /\ spinning' = spinning \cup ps

Running == boots > 0 /\ busy = Quiet

\* checkForCandidates gives up: no room, or an unmounted pool does not mount
NoCandidate(size) ==
    \/ \E blind \in SUBSET SSDFirst :
         /\ Candidates(size, blind) = {}
         /\ Fail(Cardinality(blind))
         /\ Mount(Opened(size, blind))
    \/ \E p \in SSDFirst \ mounted : \E ps \in {{}, {p}} :
         /\ Opened(size, {p}) = {p}
         /\ Fail(1)
         /\ Mount(ps)
-----------------------------------------------------------------------------
(***************************************************************************)
(* Volumes.                                                                *)
(***************************************************************************)
\* AddVolume on the candidates in turn: it fails on those in failed, and
\* leaves the subvolume behind on those in stray
AddVolume(n, size, otherwise) ==
    \E blind \in SUBSET SSDFirst :
      \E c \in Candidates(size, blind) :
        \E failed \in SUBSET c : \E stray \in SUBSET failed :
          /\ Fail(Cardinality(blind) + Cardinality(failed))
          /\ \A p \in failed : \A q \in c \ failed :
               PoolSize[q] - Reserved(q) <= PoolSize[p] - Reserved(p)
          /\ Mount(Opened(size, blind) \cup c)
          /\ \/ /\ c = failed
                /\ subvol' = [p \in Pools |->
                     IF p \in stray THEN [subvol[p] EXCEPT ![n] = 0] ELSE subvol[p]]
                /\ busy' = otherwise
             \/ \E home \in Best(c \ failed) :
                  /\ subvol' = [p \in Pools |->
                       IF p \in stray \cup {home}
                       THEN [subvol[p] EXCEPT ![n] = 0] ELSE subvol[p]]
                  /\ busy' = [op |-> "limit", name |-> n, size |-> size, pool |-> home]

VolumeCreate(n, size) ==
    /\ Running
    /\ \/ /\ Homes(n) # {}
          /\ reported' = reported \cup {n}
          /\ UNCHANGED <<mounted, spinning, subvol, busy, faults>>
       \/ /\ Homes(n) = {}
          /\ AddVolume(n, size, Quiet)
          /\ UNCHANGED reported
       \/ /\ Homes(n) = {}
          /\ NoCandidate(size)
          /\ UNCHANGED <<subvol, busy, reported>>
    /\ UNCHANGED <<managed, vdisk, cache, cacheUse, torn, grown, boots>>

\* the quota of the new volume, and the usage that is returned
SetQuota ==
    /\ busy.op = "limit"
    /\ busy.name # CacheLabel
    /\ busy' = Quiet
    /\ \/ /\ subvol' = [subvol EXCEPT ![busy.pool][busy.name] = busy.size]
          /\ \/ reported' = reported \cup {busy.name} /\ UNCHANGED faults
             \/ Fail(1) /\ UNCHANGED reported
       \/ Fail(1) /\ UNCHANGED <<subvol, reported>>
    /\ UNCHANGED <<managed, mounted, spinning, vdisk, cache, cacheUse, torn, grown, boots>>

\* mutant: the quota is changed by the difference, with the sign wrong
MutVolumeUpdate(n, size) ==
    /\ Running
    /\ \E p \in Homes(n) : subvol' = [subvol EXCEPT ![p][n] = 2 * @ - 2 * size]
    /\ grown' = TRUE
    /\ UNCHANGED <<managed, mounted, spinning, vdisk, cache, cacheUse, busy,
                   reported, torn, faults, boots>>

VolumeUpdate(n, size) ==
    /\ Running
    /\ \E p \in Homes(n) :
         /\ subvol' = [subvol EXCEPT ![p][n] = size]
         /\ grown' = (grown \/ size > subvol[p][n])
    /\ UNCHANGED <<managed, mounted, spinning, vdisk, cache, cacheUse, busy,
                   reported, torn, faults, boots>>

\* the pool of the last volume is unmounted and its disk shut down
VolumeDelete(n) ==
    /\ Running
    /\ \E p \in Homes(n) :
         /\ subvol' = [subvol EXCEPT ![p][n] = Absent]
         /\ IF VolumesOf(p) = {n}
            THEN \/ /\ mounted' = mounted \ {p}
                    /\ \/ spinning' = spinning \ {p} /\ UNCHANGED faults
                       \/ Fail(1) /\ UNCHANGED spinning
                 \/ Fail(1) /\ UNCHANGED <<mounted, spinning>>
            ELSE UNCHANGED <<mounted, spinning, faults>>
    /\ reported' = reported \ {n}
    /\ UNCHANGED <<managed, vdisk, cache, cacheUse, busy, torn, grown, boots>>
-----------------------------------------------------------------------------
(***************************************************************************)
(* Virtual disks: files in the vdisks subvolume of a pool.                 *)
(***************************************************************************)
\* a candidate that has the vdisks subvolume is preferred; otherwise it is
\* created on the best one
DiskBase(c) ==
    LET having == {p \in c : Has(p, VDiskVolume)}
    IN  IF having # {} THEN Best(having) ELSE Best(c)

\* the file is created empty
DiskCreate(d, size) ==
    /\ Running
    /\ DiskHomes(d) = {}
    /\ \/ /\ NoCandidate(size)
          /\ UNCHANGED <<subvol, vdisk, busy>>
       \/ \E blind \in SUBSET SSDFirst : \E c \in Candidates(size, blind) :
            \E p \in DiskBase(c) :
              /\ Mount(Opened(size, blind) \cup c)
              /\ \/ /\ Fail(Cardinality(blind))
                    /\ subvol' = [subvol EXCEPT ![p][VDiskVolume] = 0]
                    /\ vdisk' = [vdisk EXCEPT ![p][d] = [size |-> 0, content |-> "empty"]]
                    /\ busy' = [op |-> "fallocate", name |-> d, size |-> size, pool |-> p]
                 \/ /\ Fail(Cardinality(blind) + 1)
                    /\ ~Has(p, VDiskVolume)
                    /\ \/ subvol' = [subvol EXCEPT ![p][VDiskVolume] = 0]
                       \/ UNCHANGED subvol
                    /\ UNCHANGED <<vdisk, busy>>
    /\ UNCHANGED <<managed, cache, cacheUse, reported, torn, grown, boots>>

\* then given its size, or removed if that fails
DiskAllocate ==
    /\ busy.op = "fallocate"
    /\ busy' = Quiet
    /\ \/ /\ vdisk' = [vdisk EXCEPT ![busy.pool][busy.name].size = busy.size]
          /\ reported' = reported \cup {busy.name}
          /\ UNCHANGED faults
       \/ /\ Fail(1)
          /\ vdisk' = [vdisk EXCEPT ![busy.pool][busy.name] = NoDisk]
          /\ UNCHANGED reported
    /\ UNCHANGED <<managed, mounted, spinning, subvol, cache, cacheUse, torn, grown, boots>>

\* the zmount manager takes a disk that exists for the one it has to provide
\* (pkg/primitives/zmount/zmount.go, volumeProvisionImpl)
DiskExists(d) ==
    /\ Running
    /\ DiskHomes(d) # {}
    /\ reported' = reported \cup {d}
    /\ UNCHANGED <<managed, mounted, spinning, subvol, vdisk, cache, cacheUse, busy,
                   torn, grown, faults, boots>>

\* fallocate extends a file and never shortens it
DiskResize(d, size) ==
    /\ Running
    /\ \E p \in DiskHomes(d) :
         /\ size > vdisk[p][d].size
         /\ vdisk' = [vdisk EXCEPT ![p][d].size = size]
    /\ grown' = TRUE
    /\ UNCHANGED <<managed, mounted, spinning, subvol, cache, cacheUse, busy,
                   reported, torn, faults, boots>>

DiskDelete(d) ==
    /\ Running
    /\ \E p \in DiskHomes(d) : vdisk' = [vdisk EXCEPT ![p][d] = NoDisk]
    /\ reported' = reported \ {d}
    /\ UNCHANGED <<managed, mounted, spinning, subvol, cache, cacheUse, busy,
                   torn, grown, faults, boots>>

\* mkfs.btrfs refuses a disk that holds something: that is not an error
DiskFormat(d) ==
    /\ Running
    /\ \E p \in DiskHomes(d) :
         /\ vdisk[p][d].content = "empty"
         /\ vdisk' = [vdisk EXCEPT ![p][d].content = "whole"]
    /\ UNCHANGED <<managed, mounted, spinning, subvol, cache, cacheUse, busy,
                   reported, torn, grown, faults, boots>>

\* the image is copied to a disk that blkid finds empty
DiskWrite(d) ==
    /\ Running
    /\ \E p \in DiskHomes(d) :
         /\ vdisk[p][d].content = "empty"
         /\ vdisk' = [vdisk EXCEPT ![p][d].content = "partial"]
         /\ busy' = [op |-> "copy", name |-> d, size |-> 0, pool |-> p]
    /\ UNCHANGED <<managed, mounted, spinning, subvol, cache, cacheUse,
                   reported, torn, grown, faults, boots>>

DiskWritten ==
    /\ busy.op = "copy"
    /\ busy' = Quiet
    /\ \/ /\ vdisk' = [vdisk EXCEPT ![busy.pool][busy.name].content = "whole"]
          /\ UNCHANGED faults
       \/ Fail(1) /\ UNCHANGED vdisk
    /\ UNCHANGED <<managed, mounted, spinning, subvol, cache, cacheUse,
                   reported, torn, grown, boots>>
-----------------------------------------------------------------------------
(***************************************************************************)
(* Devices for zdb: an hdd with a zdb subvolume.  The pools tried before   *)
(* it stay mounted.                                                        *)
(***************************************************************************)
DeviceAllocate(min) ==
    /\ Running
    /\ \E tried \in SUBSET (managed \cap Hdds) : \E broken \in SUBSET tried :
         LET large == {p \in tried : min <= PoolSize[p]}
             usable == {p \in large \ broken : ~Has(p, ZdbVolume) /\ Fits(p, min)}
         IN  /\ Fail(Cardinality(broken))
             /\ Mount(large)
             /\ \/ /\ tried = managed \cap Hdds
                   /\ usable = {}
                   /\ UNCHANGED subvol
                \/ \E p \in Pools :
                     /\ usable = {p}
                     /\ subvol' = [subvol EXCEPT ![p][ZdbVolume] = 0]
    /\ UNCHANGED <<managed, vdisk, cache, cacheUse, busy, reported, torn, grown, boots>>

\* zdb reserves namespaces in its volume, on its own; the zdb manager asks for a device
\* with room for them (pkg/primitives/zdb/zdb.go)
ZdbReserve(size) ==
    /\ boots > 0
    /\ \E p \in managed \cap Hdds :
         /\ Has(p, ZdbVolume)
         /\ Fits(p, size)
         /\ subvol' = [subvol EXCEPT ![p][ZdbVolume] = @ + size]
    /\ grown' = (grown \/ busy # Quiet)
    /\ UNCHANGED <<managed, mounted, spinning, vdisk, cache, cacheUse, busy,
                   reported, torn, faults, boots>>
-----------------------------------------------------------------------------
(***************************************************************************)
(* The cache, its watcher, and the shutdown of disks.                      *)
(***************************************************************************)

\* checkAndResizeCache: grow from 60% on, shrink below 20% to twice the files
CacheSize(use, size) ==
    LET percent == (use * 100) \div size
        shrunk == ((2 * use) \div CacheUnit) * CacheUnit + CacheUnit
    IN  IF percent >= 60 THEN size + CacheUnit
        ELSE IF percent < 20 /\ size > CacheUnit THEN shrunk
        ELSE Max({size, CacheUnit})

\* a cache without quota is given one first
CacheQuota ==
    IF subvol[cache][CacheLabel] = 0
    THEN Max({CacheUnit, 2 * cacheUse})
    ELSE subvol[cache][CacheLabel]

WatchCache ==
    /\ cache # NoPool
    /\ subvol' = [subvol EXCEPT ![cache][CacheLabel] = CacheSize(cacheUse, CacheQuota)]
    /\ grown' = (grown \/ subvol'[cache][CacheLabel] > subvol[cache][CacheLabel])
    /\ UNCHANGED <<managed, mounted, spinning, vdisk, cache, cacheUse, busy,
                   reported, torn, faults, boots>>

\* files come and go in the cache, within its quota
WriteCache(use) ==
    /\ cache # NoPool
    /\ subvol[cache][CacheLabel] = 0 \/ use <= subvol[cache][CacheLabel]
    /\ use # cacheUse
    /\ cacheUse' = use
    /\ UNCHANGED <<managed, mounted, spinning, subvol, vdisk, cache, busy,
                   reported, torn, grown, faults, boots>>

\* mutant: only the ssds are checked
MutShutdownDisks ==
    /\ spinning' = spinning \ ((managed \cap Ssds) \ mounted)
    /\ UNCHANGED <<managed, mounted, subvol, vdisk, cache, cacheUse, busy,
                   reported, torn, grown, faults, boots>>

ShutdownDisks ==
    /\ spinning' = spinning \ (managed \ mounted)
    /\ UNCHANGED <<managed, mounted, subvol, vdisk, cache, cacheUse, busy,
                   reported, torn, grown, faults, boots>>
-----------------------------------------------------------------------------
(***************************************************************************)
(* The start of storaged: initialize.  A restart leaves what is mounted    *)
(* and what is on the disks; the pools that fail to mount are not managed  *)
(* until the next start.                                                   *)
(***************************************************************************)
Boot ==
    /\ boots < MaxBoots
    /\ boots' = boots + 1
    /\ \E broken \in SUBSET Pools :
         /\ Fail(Cardinality(broken))
         /\ managed' = Pools \ broken
    /\ mounted' = mounted \cup managed'
    /\ spinning' = Pools
    /\ torn' = (torn \/ busy # Quiet)
    /\ cache' = NoPool
    /\ busy' = At("ensureCache")
    /\ UNCHANGED <<subvol, vdisk, cacheUse, reported, grown>>

\* mutant: existing caches are not looked for
MutEnsureCache ==
    /\ busy.op = "ensureCache"
    /\ AddVolume(CacheLabel, CacheUnit, At("shutdownUnused"))
    /\ UNCHANGED <<managed, vdisk, cache, cacheUse, reported, torn, grown, boots>>

\* an existing cache is taken, or one is created; without a cache a tmpfs
\* is mounted
EnsureCache ==
    /\ busy.op = "ensureCache"
    /\ \/ \E p \in Homes(CacheLabel) :
            /\ cache' = p
            /\ cacheUse' = IF subvol[p][CacheLabel] \in 1 .. cacheUse
                           THEN subvol[p][CacheLabel] ELSE cacheUse
            /\ busy' = At("shutdownUnused")
            /\ UNCHANGED <<mounted, spinning, subvol, faults>>
       \/ /\ Homes(CacheLabel) = {}
          /\ AddVolume(CacheLabel, CacheUnit, At("shutdownUnused"))
          /\ UNCHANGED <<cache, cacheUse>>
       \/ /\ Homes(CacheLabel) = {}
          /\ NoCandidate(CacheUnit)
          /\ busy' = At("shutdownUnused")
          /\ UNCHANGED <<subvol, cache, cacheUse>>
    /\ UNCHANGED <<managed, vdisk, reported, torn, grown, boots>>

CacheCreated ==
    /\ busy.op = "limit"
    /\ busy.name = CacheLabel
    /\ busy' = At("shutdownUnused")
    /\ \/ /\ subvol' = [subvol EXCEPT ![busy.pool][CacheLabel] = CacheUnit]
          /\ cache' = busy.pool
          /\ cacheUse' = 0
          /\ UNCHANGED faults
       \/ Fail(1) /\ UNCHANGED <<subvol, cache, cacheUse>>
    /\ UNCHANGED <<managed, mounted, spinning, vdisk, reported, torn, grown, boots>>

\* pools without subvolumes are unmounted and their disks shut down; a
\* failure to unmount one leaves those after it
ShutdownUnusedPools ==
    /\ busy.op = "shutdownUnused"
    /\ busy' = Quiet
    /\ LET unused == {p \in managed \cap mounted : VolumesOf(p) = {}}
       IN  \E left \in SUBSET unused : \E awake \in SUBSET (unused \ left) :
             /\ Fail((IF left = {} THEN 0 ELSE 1) + Cardinality(awake))
             /\ mounted' = mounted \ (unused \ left)
             /\ spinning' = spinning \ (unused \ (left \cup awake))
    /\ UNCHANGED <<managed, subvol, vdisk, cache, cacheUse, reported, torn, grown, boots>>
-----------------------------------------------------------------------------
StoragedNext ==
    \/ \E n \in Volumes, size \in Sizes : VolumeCreate(n, size)
    \/ \E n \in Volumes, size \in LargerSizes : VolumeUpdate(n, size)
    \/ \E n \in Volumes : VolumeDelete(n)
    \/ SetQuota
    \/ \E d \in Disks, size \in Sizes : DiskCreate(d, size)
    \/ \E d \in Disks, size \in LargerSizes : DiskResize(d, size)
    \/ \E d \in Disks : DiskExists(d) \/ DiskDelete(d) \/ DiskFormat(d) \/ DiskWrite(d)
    \/ DiskAllocate \/ DiskWritten
    \/ \E size \in Sizes : DeviceAllocate(size) \/ ZdbReserve(size)
    \/ WatchCache \/ ShutdownDisks
    \/ \E use \in 0 .. MaxCacheUse : WriteCache(use)
    \/ Boot \/ EnsureCache \/ CacheCreated \/ ShutdownUnusedPools

\* the call or start in progress goes on, and the two background loops run
StoragedFairness ==
    /\ WF_storagedVars(SetQuota \/ DiskAllocate \/ DiskWritten \/ EnsureCache
                         \/ CacheCreated \/ ShutdownUnusedPools)
    /\ WF_storagedVars(WatchCache)
    /\ WF_storagedVars(ShutdownDisks)

StoragedSpec == StoragedInit /\ [][StoragedNext]_storagedVars /\ StoragedFairness
-----------------------------------------------------------------------------
StoragedTypeOK ==
    /\ managed \subseteq Pools /\ mounted \subseteq Pools /\ spinning \subseteq Pools
    /\ subvol \in [Pools -> [Names -> Nat \cup {Absent}]]
    /\ \A p \in Pools : \A d \in Disks :
         /\ vdisk[p][d].size \in Nat \cup {Absent}
         /\ vdisk[p][d].content \in {"none", "empty", "partial", "whole"}
    /\ cache \in Pools \cup {NoPool}
    /\ cacheUse \in 0 .. MaxCacheUse
    /\ busy.pool \in Pools \cup {NoPool}
    /\ reported \subseteq Volumes \cup Disks
    /\ {torn, grown} \subseteq BOOLEAN

\* A pool that storaged keeps unmounted holds no subvolume.  Every lookup
\* (path, diskPools, DeviceLookup) skips unmounted pools, so a subvolume on
\* one would be taken for missing: created again elsewhere, never deleted.
UnmountedIsEmpty ==
    \A p \in managed \ mounted : VolumesOf(p) = {}

\* As long as no operation fails, a volume, the cache or a virtual disk exists
\* on one pool only, restarts in the middle of a call included: VolumeCreate
\* and DiskCreate look for it first, and VolumeDelete removes one copy.
OneHome ==
    faults = 0 =>
      /\ \A n \in Volumes \cup {CacheLabel} : \A p, q \in Pools :
           Has(p, n) /\ Has(q, n) => p = q
      /\ \A d \in Disks : \A p, q \in Pools :
           vdisk[p][d] # NoDisk /\ vdisk[q][d] # NoDisk => p = q

\* As long as nothing is enlarged in place, the quotas and virtual disks of a
\* pool never add up to more than its size: checkForCandidates finds room for
\* each before it is created, and only one call is under way.
NotOverAllocated ==
    faults = 0 /\ ~grown => \A p \in Pools : Reserved(p) <= PoolSize[p]

\* What storaged reported to exist is where lookups find it, the volumes with
\* a quota and the disks with their size, and no disk holds part of an image:
\* as long as no operation failed and no call was cut by a restart.
ReportedIsWhole ==
    faults = 0 /\ ~torn =>
      /\ \A n \in reported \cap Volumes : \E p \in Homes(n) : subvol[p][n] > 0
      /\ \A d \in reported \cap Disks : \E p \in DiskHomes(d) : vdisk[p][d].size > 0
      /\ \A p \in Pools : \A d \in Disks :
           vdisk[p][d].content = "partial" => busy.op = "copy" /\ busy.name = d

\* A disk whose pool is not mounted does not stay powered: if shutting it down
\* failed when its pool was unmounted, the hourly check does it.
IdleDiskSleeps ==
    \A p \in Pools : []<>(p \in managed \ mounted => p \notin spinning)

\* Once the files in the cache stop changing, the watcher stops resizing it: it
\* does not grow and shrink it in turns.
CacheSettles ==
    <>[][cacheUse' = cacheUse]_cacheUse =>
      <>[](cache # NoPool => CacheSize(cacheUse, CacheQuota) = subvol[cache][CacheLabel])

\* What exists is found, and in one place: UnmountedIsEmpty and OneHome.
VolumesFound == UnmountedIsEmpty /\ OneHome

\* What is promised is there, and fits: ReportedIsWhole and NotOverAllocated.
VolumesReserved == ReportedIsWhole /\ NotOverAllocated

\* The background loops come to rest: IdleDiskSleeps and CacheSettles
\* (shutdownDisks, watchCache).
StorageSettles == IdleDiskSleeps /\ CacheSettles
=============================================================================
