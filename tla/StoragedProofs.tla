--------------------------- MODULE StoragedProofs ---------------------------
(***************************************************************************)
(* The pools of storaged, for any disks, volumes, sizes, faults and        *)
(* restarts.  The invariant says what the call under way has made, that    *)
(* lookups see all that is on the disks, that all of it is whole but what  *)
(* the call under way works on, and that a pool has room for what that     *)
(* call will still add.  Each part holds as long as the faults it names    *)
(* have not happened.                                                      *)
(***************************************************************************)
EXTENDS Storaged, FlistZdbProofs

\* first-order steps; those that need arithmetic or sequences cite SMT
USE Zenon

\* the pools volumes, virtual disks and the cache are put on
Usable == IF MissingSSD THEN Pools ELSE Ssds

\* the names that are looked up before they are created
Looked == Volumes \cup {CacheLabel}

\* what the file of a virtual disk holds
DiskContents == {"none", "empty", "partial", "whole"}

\* the types the proof needs, and what a call or a start under way knows
StorageTypes ==
    /\ managed \subseteq Pools /\ mounted \subseteq Pools
    /\ subvol \in [Pools -> [Names -> Nat \cup {Absent}]]
    /\ vdisk \in [Pools -> [Disks -> [size : Nat \cup {Absent}, content : DiskContents]]]
    /\ cache \in Pools \cup {NoPool} /\ cacheUse \in Nat
    /\ cache # NoPool => Has(cache, CacheLabel)
    /\ faults \in Nat /\ boots \in Nat

\* the call or start under way has made what its next step works on
BusyHolds ==
    /\ busy.op \in {"none", "limit", "fallocate", "copy", "ensureCache", "shutdownUnused"}
    /\ IF busy.op = "none" THEN busy = Quiet ELSE boots > 0
    /\ busy.op = "ensureCache" => cache = NoPool
    /\ busy.op = "limit" =>
         /\ busy.pool \in Pools /\ busy.name \in Looked /\ busy.size \in Nat \ {0}
         /\ Has(busy.pool, busy.name)
         /\ busy.name = CacheLabel => busy.size = CacheUnit /\ cache = NoPool
    /\ busy.op \in {"fallocate", "copy"} => busy.pool \in Pools /\ busy.name \in Disks
    /\ busy.op = "fallocate" => busy.size \in Nat \ {0} /\ vdisk[busy.pool][busy.name] # NoDisk
    /\ busy.op = "copy" => vdisk[busy.pool][busy.name] # NoDisk

\* without faults, what is on the disks is on pools that lookups see
SeenByLookups ==
    faults = 0 =>
      /\ boots > 0 => managed = Pools
      /\ \A p \in Pools : VolumesOf(p) # {} => boots > 0
      /\ \A p \in Pools, n \in Looked : Has(p, n) => p \in Usable
      /\ \A p \in Pools, d \in Disks : vdisk[p][d] # NoDisk => Has(p, VDiskVolume) /\ p \in Usable

\* where volumes and disks are
Placement == UnmountedIsEmpty /\ OneHome /\ SeenByLookups

\* and, without a call cut by a restart, whole, but for the call under way
WholeParts ==
    /\ \A p \in Pools, n \in Volumes :
         Has(p, n) => subvol[p][n] > 0 \/ (busy.op = "limit" /\ busy.pool = p /\ busy.name = n)
    /\ \A p \in Pools, d \in Disks :
         vdisk[p][d] # NoDisk => \/ vdisk[p][d].size > 0
                                 \/ busy.op = "fallocate" /\ busy.pool = p /\ busy.name = d
    /\ \A p \in Pools, d \in Disks :
         vdisk[p][d].content = "partial" => busy.op = "copy" /\ busy.pool = p /\ busy.name = d
    /\ \A n \in reported \cap Volumes : \E p \in Pools : subvol[p][n] > 0
    /\ \A d \in reported \cap Disks : \E p \in Pools : vdisk[p][d].size > 0

\* the last of it, as it is kept: without faults and calls cut by a restart
WholeButBusy == faults = 0 /\ ~torn => WholeParts

\* and within the size of the pool, with what the call under way will add
RoomForBusy ==
    faults = 0 /\ ~grown =>
      /\ \A p \in Pools : Reserved(p) <= PoolSize[p]
      /\ busy.op = "limit" => /\ subvol[busy.pool][busy.name] = 0
                              /\ Reserved(busy.pool) + busy.size <= PoolSize[busy.pool]
      /\ busy.op = "fallocate" => /\ vdisk[busy.pool][busy.name].size = 0
                                  /\ Reserved(busy.pool) + busy.size <= PoolSize[busy.pool]

\* the inductive invariant of storaged
StorageIInv == StorageTypes /\ BusyHolds /\ Placement /\ WholeButBusy /\ RoomForBusy
-----------------------------------------------------------------------------
\* The constants, by the names the model gives them.
LEMMA StorageConstants ==
    /\ IsFiniteSet(Pools) /\ NoPool \notin Pools /\ PoolSize \in [Pools -> Nat]
    /\ IsFiniteSet(Names) /\ IsFiniteSet(Disks)
    /\ Looked \subseteq Names /\ VDiskVolume \in Names /\ ZdbVolume \in Names
    /\ VDiskVolume \notin Looked /\ ZdbVolume \notin Looked /\ CacheLabel \notin Volumes
    /\ Volumes \cap Disks = {} /\ Usable \subseteq Pools
<1>1. IsFiniteSet(Names)
  <2>1. IsFiniteSet(Volumes) BY StoragedAssumption
  <2>2. IsFiniteSet(Volumes \cup {CacheLabel}) BY <2>1, FS_AddElement
  <2>3. IsFiniteSet((Volumes \cup {CacheLabel}) \cup {VDiskVolume}) BY <2>2, FS_AddElement
  <2>4. IsFiniteSet(((Volumes \cup {CacheLabel}) \cup {VDiskVolume}) \cup {ZdbVolume})
    BY <2>3, FS_AddElement
  <2>5. Names = ((Volumes \cup {CacheLabel}) \cup {VDiskVolume}) \cup {ZdbVolume} BY DEF Names
  <2> QED BY <2>4, <2>5
<1>2. VDiskVolume # CacheLabel /\ ZdbVolume # CacheLabel
  BY DEF VDiskVolume, ZdbVolume, CacheLabel
<1> QED BY <1>1, <1>2, StoragedAssumption DEF Pools, Names, Looked, Usable

\* An operation that fails is counted.
LEMMA FailCounts ==
    ASSUME NEW k \in Nat, faults \in Nat, Fail(k)
    PROVE  faults' \in Nat /\ (faults' = 0 => faults = 0 /\ k = 0)
BY SMT DEF Fail

\* A count of failed pools that is zero says there is none.
LEMMA NoneFailed ==
    ASSUME NEW S \in SUBSET Pools
    PROVE  Cardinality(S) \in Nat /\ (Cardinality(S) = 0 => S = {})
<1>1. IsFiniteSet(S) BY FS_Subset, StorageConstants
<1> QED BY <1>1, FS_CardinalityType, FS_EmptySet
-----------------------------------------------------------------------------
\* The summands and the sums are natural numbers.
LEMMA ReservedType ==
    ASSUME StorageTypes, NEW p \in Pools
    PROVE  /\ \A n \in Names : Quotas(p)[n] \in Nat
           /\ \A d \in Disks : Files(p)[d] \in Nat
           /\ SumFunctionOnSet(Quotas(p), Names) \in Nat /\ SumFunctionOnSet(Files(p), Disks) \in Nat
           /\ Reserved(p) \in Nat
<1>1. \A n \in Names : subvol[p][n] \in Nat \cup {Absent} BY DEF StorageTypes
<1>2. \A d \in Disks : vdisk[p][d].size \in Nat \cup {Absent} BY DEF StorageTypes
<1>3. \A n \in Names : Quotas(p)[n] \in Nat BY <1>1, SMT DEF Quotas, Positive, Absent
<1>4. \A d \in Disks : Files(p)[d] \in Nat BY <1>2, SMT DEF Files, Positive, Absent
<1>5. SumFunctionOnSet(Quotas(p), Names) \in Nat BY <1>3, SumType, StorageConstants
<1>6. SumFunctionOnSet(Files(p), Disks) \in Nat BY <1>4, SumType, StorageConstants
<1>7. Reserved(p) \in Nat BY <1>5, <1>6, SMT DEF Reserved
<1> QED BY <1>3, <1>4, <1>5, <1>6, <1>7

\* The same of the next state.
LEMMA ReservedTypeNext ==
    ASSUME StorageTypes', NEW p \in Pools
    PROVE  /\ \A n \in Names : Quotas(p)'[n] \in Nat
           /\ \A d \in Disks : Files(p)'[d] \in Nat
           /\ SumFunctionOnSet(Quotas(p)', Names) \in Nat /\ SumFunctionOnSet(Files(p)', Disks) \in Nat
           /\ Reserved(p)' \in Nat
<1>1. \A n \in Names : subvol'[p][n] \in Nat \cup {Absent} BY DEF StorageTypes, Absent
<1>2. \A d \in Disks : vdisk'[p][d].size \in Nat \cup {Absent} BY DEF StorageTypes, Absent
<1>3. \A n \in Names : Quotas(p)'[n] \in Nat BY <1>1, SMT DEF Quotas, Positive, Absent
<1>4. \A d \in Disks : Files(p)'[d] \in Nat BY <1>2, SMT DEF Files, Positive, Absent
<1>5. SumFunctionOnSet(Quotas(p)', Names) \in Nat BY <1>3, SumType, StorageConstants
<1>6. SumFunctionOnSet(Files(p)', Disks) \in Nat BY <1>4, SumType, StorageConstants
<1>7. Reserved(p)' \in Nat BY <1>5, <1>6, SMT DEF Reserved
<1> QED BY <1>3, <1>4, <1>5, <1>6, <1>7

\* A pool on which nothing grows reserves no more than before.
LEMMA ReservedShrinks ==
    ASSUME StorageTypes, StorageTypes', NEW p \in Pools,
           \A n \in Names : Quotas(p)'[n] <= Quotas(p)[n],
           \A d \in Disks : Files(p)'[d] <= Files(p)[d]
    PROVE  Reserved(p)' <= Reserved(p)
<1>1. \A n \in Names : Quotas(p)'[n] \in Nat /\ Quotas(p)[n] \in Nat
  BY ReservedType, ReservedTypeNext
<1>2. \A d \in Disks : Files(p)'[d] \in Nat /\ Files(p)[d] \in Nat
  BY ReservedType, ReservedTypeNext
<1>3. SumFunctionOnSet(Quotas(p)', Names) <= SumFunctionOnSet(Quotas(p), Names)
  BY <1>1, SumMono, StorageConstants
<1>4. SumFunctionOnSet(Files(p)', Disks) <= SumFunctionOnSet(Files(p), Disks)
  BY <1>2, SumMono, StorageConstants
<1>5. /\ SumFunctionOnSet(Quotas(p), Names) \in Nat /\ SumFunctionOnSet(Files(p), Disks) \in Nat
      /\ SumFunctionOnSet(Quotas(p)', Names) \in Nat /\ SumFunctionOnSet(Files(p)', Disks) \in Nat
  BY ReservedType, ReservedTypeNext
<1> QED BY <1>3, <1>4, <1>5, SMT DEF Reserved

\* A quota that changes is all that changes in the sums.
LEMMA QuotaChanges ==
    ASSUME StorageTypes, StorageTypes', NEW p \in Pools, NEW n \in Names, NEW k \in Nat,
           \A q \in Pools, m \in Names : q # p \/ m # n => subvol'[q][m] = subvol[q][m],
           subvol'[p][n] = k, vdisk' = vdisk
    PROVE  /\ Reserved(p)' = Reserved(p) + (k - Positive(subvol[p][n]))
           /\ \A q \in Pools : q # p => Reserved(q)' = Reserved(q)
<1>3. \A q \in Pools : Files(q)' = Files(q) BY DEF Files, Positive
<1>4. \A q \in Pools : q # p => Quotas(q)' = Quotas(q) BY SMT DEF Quotas, Positive
<1>5. \A q \in Pools : q # p => Reserved(q)' = Reserved(q) BY <1>3, <1>4 DEF Reserved
<1>6. \A m \in Names : m # n => Quotas(p)[m] = Quotas(p)'[m] BY DEF Quotas, Positive
<1>7. Quotas(p)[n] = Positive(subvol[p][n]) /\ Quotas(p)'[n] = k
  BY SMT DEF Quotas, Positive
<1>8. \A m \in Names : Quotas(p)[m] \in Nat /\ Quotas(p)'[m] \in Nat
  BY ReservedType, ReservedTypeNext
<1>9. SumFunctionOnSet(Quotas(p)', Names)
        = SumFunctionOnSet(Quotas(p), Names) + (Quotas(p)'[n] - Quotas(p)[n])
  <2>1. IsFiniteSet(Names) BY StorageConstants
  <2> QED BY <1>6, <1>8, <2>1, SumChange, SMT
<1>10. SumFunctionOnSet(Quotas(p), Names) \in Nat /\ SumFunctionOnSet(Files(p), Disks) \in Nat
  BY ReservedType
<1>11. Reserved(p)' = Reserved(p) + (k - Positive(subvol[p][n]))
  BY <1>3, <1>7, <1>8, <1>9, <1>10, SMT DEF Reserved
<1> QED BY <1>5, <1>11

\* So is the size of a file.
LEMMA FileChanges ==
    ASSUME StorageTypes, StorageTypes', NEW p \in Pools, NEW d \in Disks, NEW k \in Nat \cup {Absent},
           \A q \in Pools, m \in Disks : q # p \/ m # d => vdisk'[q][m].size = vdisk[q][m].size,
           vdisk'[p][d].size = k, subvol' = subvol
    PROVE  /\ Reserved(p)' = Reserved(p) + (Positive(k) - Positive(vdisk[p][d].size))
           /\ \A q \in Pools : q # p => Reserved(q)' = Reserved(q)
<1>3. \A q \in Pools : Quotas(q)' = Quotas(q) BY DEF Quotas, Positive
<1>4. \A q \in Pools : q # p => Files(q)' = Files(q) BY SMT DEF Files, Positive
<1>5. \A q \in Pools : q # p => Reserved(q)' = Reserved(q) BY <1>3, <1>4 DEF Reserved
<1>6. \A m \in Disks : m # d => Files(p)[m] = Files(p)'[m] BY DEF Files, Positive
<1>7. Files(p)[d] = Positive(vdisk[p][d].size) /\ Files(p)'[d] = Positive(k)
  BY SMT DEF Files, Positive
<1>8. \A m \in Disks : Files(p)[m] \in Nat /\ Files(p)'[m] \in Nat
  BY ReservedType, ReservedTypeNext
<1>9. SumFunctionOnSet(Files(p)', Disks)
        = SumFunctionOnSet(Files(p), Disks) + (Files(p)'[d] - Files(p)[d])
  <2>1. IsFiniteSet(Disks) BY StorageConstants
  <2> QED BY <1>6, <1>8, <2>1, SumChange, SMT
<1>10. SumFunctionOnSet(Quotas(p), Names) \in Nat /\ SumFunctionOnSet(Files(p), Disks) \in Nat
  BY ReservedType
<1>11. Reserved(p)' = Reserved(p) + (Positive(k) - Positive(vdisk[p][d].size))
  BY <1>3, <1>7, <1>8, <1>9, <1>10, SMT DEF Reserved
<1> QED BY <1>5, <1>11
-----------------------------------------------------------------------------
\* Without faults, lookups see all there is.
LEMMA LookupsSeeAll ==
    ASSUME StorageTypes, Placement, faults = 0
    PROVE  /\ \A n \in Looked : Homes(n) = {p \in Pools : Has(p, n)}
           /\ \A d \in Disks : DiskHomes(d) = {p \in Pools : vdisk[p][d] # NoDisk}
<1>1. ASSUME NEW p \in Pools, NEW n \in Names, Has(p, n), p \in Usable PROVE p \in SSDFirst \cap mounted
  <2>1. VolumesOf(p) # {} BY <1>1 DEF VolumesOf
  <2>2. p \in managed BY <2>1 DEF Placement, SeenByLookups
  <2>3. p \in mounted BY <2>1, <2>2 DEF Placement, UnmountedIsEmpty
  <2> QED BY <1>1, <2>2, <2>3 DEF SSDFirst, Usable
<1>2. SSDFirst \subseteq Pools BY DEF SSDFirst, StorageTypes
<1>3. \A n \in Looked : Homes(n) = {p \in Pools : Has(p, n)}
  BY <1>1, <1>2, StorageConstants DEF Homes, Placement, SeenByLookups
<1>4. \A d \in Disks : DiskHomes(d) = {p \in Pools : vdisk[p][d] # NoDisk}
  BY <1>1, <1>2, StorageConstants DEF DiskHomes, Placement, SeenByLookups
<1> QED BY <1>3, <1>4

\* A step that creates the subvolume n on the pools of H and the disk d on
\* those of G; without faults one that is looked up is new, and alone.
Creates(n, H, d, G) ==
    /\ faults' = 0 => faults = 0
    /\ UNCHANGED <<managed, boots>> /\ mounted \subseteq mounted'
    /\ H \subseteq Pools /\ H \subseteq mounted' /\ (H # {} => boots > 0)
    /\ \A p \in Pools, m \in Names : Has(p, m)' <=> Has(p, m) \/ (p \in H /\ m = n)
    /\ faults' = 0 /\ n \in Looked /\ H # {} =>
         H \subseteq Usable /\ (\A p, q \in H : p = q) /\ \A p \in Pools : ~Has(p, n)
    /\ G \subseteq Pools
    /\ \A p \in Pools, e \in Disks :
         vdisk'[p][e] # NoDisk => vdisk[p][e] # NoDisk \/ (p \in G /\ e = d)
    /\ faults' = 0 /\ G # {} =>
         /\ G \subseteq Usable /\ \A p, q \in G : p = q
         /\ \A p \in G : Has(p, VDiskVolume)'
         /\ \A p \in Pools : vdisk[p][d] = NoDisk

\* Such a step keeps everything where it is found.
LEMMA PlacementGrows ==
    ASSUME StorageTypes, Placement, NEW n \in Names, NEW H, NEW d, NEW G, Creates(n, H, d, G)
    PROVE  Placement'
<1> USE DEF Creates
<1>1. \A p \in Pools : VolumesOf(p)' # {} => VolumesOf(p) # {} \/ p \in H BY DEF VolumesOf
<1>2. UnmountedIsEmpty'
  BY <1>1 DEF Placement, UnmountedIsEmpty, StorageTypes
<1>3. OneHome'
  <2> SUFFICES ASSUME faults' = 0
               PROVE  /\ \A m \in Looked : \A p, q \in Pools : Has(p, m)' /\ Has(q, m)' => p = q
                      /\ \A e \in Disks : \A p, q \in Pools :
                           vdisk'[p][e] # NoDisk /\ vdisk'[q][e] # NoDisk => p = q
    BY DEF OneHome, Looked, NoDisk, Absent
  <2>1. /\ \A m \in Looked : \A p, q \in Pools : Has(p, m) /\ Has(q, m) => p = q
        /\ \A e \in Disks : \A p, q \in Pools : vdisk[p][e] # NoDisk /\ vdisk[q][e] # NoDisk => p = q
    BY DEF Placement, OneHome, Looked
  <2>2. \A m \in Looked : \A p, q \in Pools : Has(p, m)' /\ Has(q, m)' => p = q
    <3> SUFFICES ASSUME NEW m \in Looked, NEW p \in Pools, NEW q \in Pools, Has(p, m)', Has(q, m)'
                 PROVE  p = q
      OBVIOUS
    <3>1. m \in Names BY StorageConstants
    <3>2. Has(p, m) \/ (p \in H /\ m = n) BY <3>1
    <3>3. Has(q, m) \/ (q \in H /\ m = n) BY <3>1
    <3>4. CASE H = {} BY <2>1, <3>2, <3>3, <3>4
    <3>5. CASE H # {} /\ m = n BY <3>2, <3>3, <3>5
    <3>6. CASE m # n BY <2>1, <3>2, <3>3, <3>6
    <3> QED BY <3>4, <3>5, <3>6
  <2>3. \A e \in Disks : \A p, q \in Pools :
          vdisk'[p][e] # NoDisk /\ vdisk'[q][e] # NoDisk => p = q
    <3> SUFFICES ASSUME NEW e \in Disks, NEW p \in Pools, NEW q \in Pools,
                        vdisk'[p][e] # NoDisk, vdisk'[q][e] # NoDisk
                 PROVE  p = q
      OBVIOUS
    <3>1. vdisk[p][e] # NoDisk \/ (p \in G /\ e = d) OBVIOUS
    <3>2. vdisk[q][e] # NoDisk \/ (q \in G /\ e = d) OBVIOUS
    <3>3. CASE G = {} BY <2>1, <3>1, <3>2, <3>3
    <3>4. CASE G # {} /\ e = d BY <3>1, <3>2, <3>4
    <3>5. CASE e # d BY <2>1, <3>1, <3>2, <3>5
    <3> QED BY <3>3, <3>4, <3>5
  <2> QED BY <2>2, <2>3
<1>4. SeenByLookups'
  <2> SUFFICES ASSUME faults' = 0
               PROVE  /\ boots > 0 => managed = Pools
                      /\ \A p \in Pools : VolumesOf(p)' # {} => boots > 0
                      /\ \A p \in Pools, m \in Looked : Has(p, m)' => p \in Usable
                      /\ \A p \in Pools, e \in Disks :
                           vdisk'[p][e] # NoDisk => Has(p, VDiskVolume)' /\ p \in Usable
    BY DEF SeenByLookups, NoDisk, Absent
  <2>1. /\ boots > 0 => managed = Pools
        /\ \A p \in Pools : VolumesOf(p) # {} => boots > 0
        /\ \A p \in Pools, m \in Looked : Has(p, m) => p \in Usable
        /\ \A p \in Pools, e \in Disks : vdisk[p][e] # NoDisk => Has(p, VDiskVolume) /\ p \in Usable
    BY DEF Placement, SeenByLookups
  <2>2. \A p \in Pools : VolumesOf(p)' # {} => boots > 0 BY <1>1, <2>1
  <2>3. \A p \in Pools, m \in Looked : Has(p, m)' => p \in Usable BY <2>1, StorageConstants
  <2>4. \A p \in Pools : Has(p, VDiskVolume) => Has(p, VDiskVolume)' BY StorageConstants
  <2>5. \A p \in Pools, e \in Disks : vdisk'[p][e] # NoDisk => Has(p, VDiskVolume)' /\ p \in Usable
    BY <2>1, <2>4
  <2> QED BY <2>1, <2>2, <2>3, <2>5
<1> QED BY <1>2, <1>3, <1>4 DEF Placement

\* A step that creates no subvolume and no file, and unmounts nothing.
LEMMA PlacementStays ==
    ASSUME StorageTypes, Placement, faults' = 0 => faults = 0,
           UNCHANGED <<managed, boots>>, mounted \subseteq mounted',
           \A p \in Pools, n \in Names : Has(p, n)' <=> Has(p, n),
           \A p \in Pools, d \in Disks : vdisk'[p][d] # NoDisk => vdisk[p][d] # NoDisk
    PROVE  Placement'
<1>1. VDiskVolume \in Names BY StorageConstants
<1>2. Creates(VDiskVolume, {}, 0, {}) BY DEF Creates
<1> QED BY <1>1, <1>2, PlacementGrows
-----------------------------------------------------------------------------
\* What a step that may fail does to the count of faults.
Counted == faults' \in Nat /\ (faults' = 0 => faults = 0)

\* AddVolume, from the outside: the pools of H get the volume, one of them is
\* the home that is given its quota next; without faults it is the only one.
Added(n, size, otherwise, H) ==
    /\ H \subseteq SSDFirst /\ H \subseteq mounted'
    /\ subvol' = [p \in Pools |-> IF p \in H THEN [subvol[p] EXCEPT ![n] = 0] ELSE subvol[p]]
    /\ \/ busy' = otherwise /\ faults' # 0
       \/ \E home \in H : /\ busy' = [op |-> "limit", name |-> n, size |-> size, pool |-> home]
                          /\ Fits(home, size) /\ (faults' = 0 => H = {home})

\* its choices: the pools whose usage could not be read, the candidates, those
\* it failed on and those with a volume left behind
AddsTo(n, size, otherwise, blind, c, failed, left) ==
    /\ Fail(Cardinality(blind) + Cardinality(failed))
    /\ \A p \in failed : \A q \in c \ failed :
         PoolSize[q] - Reserved(q) <= PoolSize[p] - Reserved(p)
    /\ Mount(Opened(size, blind) \cup c)
    /\ \/ /\ c = failed
          /\ subvol' = [p \in Pools |->
               IF p \in left THEN [subvol[p] EXCEPT ![n] = 0] ELSE subvol[p]]
          /\ busy' = otherwise
       \/ \E home \in Best(c \ failed) :
            /\ subvol' = [p \in Pools |->
                 IF p \in left \cup {home} THEN [subvol[p] EXCEPT ![n] = 0] ELSE subvol[p]]
            /\ busy' = [op |-> "limit", name |-> n, size |-> size, pool |-> home]

\* The candidates have room.
LEMMA CandidatesFit ==
    ASSUME NEW size, NEW blind, NEW c \in Candidates(size, blind)
    PROVE  c \subseteq SSDFirst /\ c # {} /\ \A p \in c : Fits(p, size)
<1>1. \/ c \in {{p \in SSDFirst \cap mounted : p \notin blind /\ Fits(p, size)}} /\ c # {}
      \/ \E p \in {p \in SSDFirst \ (mounted \cup blind) : Fits(p, size)} : c = {p}
  BY DEF Candidates
<1> QED BY <1>1

\* AddVolume does that.
LEMMA AddVolumeAdds ==
    ASSUME StorageTypes, NEW n, NEW size, NEW otherwise, AddVolume(n, size, otherwise)
    PROVE  /\ Counted /\ mounted \subseteq mounted' /\ mounted' \subseteq Pools
           /\ \E H \in SUBSET Pools : Added(n, size, otherwise, H)
<1>0. SSDFirst \subseteq Pools /\ faults \in Nat /\ mounted \subseteq Pools
  BY DEF SSDFirst, StorageTypes
<1>1. PICK blind, c, failed, left :
        /\ blind \in SUBSET SSDFirst /\ c \in Candidates(size, blind)
        /\ failed \in SUBSET c /\ left \in SUBSET failed
        /\ AddsTo(n, size, otherwise, blind, c, failed, left)
  <2>1. \E blind \in SUBSET SSDFirst : \E c \in Candidates(size, blind) :
          \E failed \in SUBSET c : \E left \in SUBSET failed :
            AddsTo(n, size, otherwise, blind, c, failed, left)
    BY DEF AddVolume, AddsTo
  <2> QED BY <2>1
<1>2. c \subseteq SSDFirst /\ c # {} /\ \A p \in c : Fits(p, size) BY <1>1, CandidatesFit
<1>3. Opened(size, blind) \subseteq blind BY DEF Opened
<1>4. mounted' = mounted \cup (Opened(size, blind) \cup c) BY <1>1 DEF AddsTo, Mount
<1>5. mounted \subseteq mounted' /\ mounted' \subseteq Pools /\ c \subseteq mounted'
  BY <1>0, <1>1, <1>2, <1>3, <1>4
<1>6. Cardinality(blind) \in Nat /\ Cardinality(failed) \in Nat /\ (Cardinality(failed) = 0 => failed = {})
  <2>1. blind \in SUBSET Pools /\ failed \in SUBSET Pools BY <1>0, <1>1, <1>2
  <2> QED BY <2>1, NoneFailed
<1>7. Cardinality(blind) + Cardinality(failed) \in Nat
      /\ (Cardinality(blind) + Cardinality(failed) = 0 => Cardinality(failed) = 0)
  BY <1>6, SMT
<1>8. Counted /\ (faults' = 0 => failed = {})
  BY <1>0, <1>1, <1>6, <1>7, FailCounts DEF AddsTo, Counted
<1>9. CASE /\ c = failed
           /\ subvol' = [p \in Pools |->
                IF p \in left THEN [subvol[p] EXCEPT ![n] = 0] ELSE subvol[p]]
           /\ busy' = otherwise
  <2>1. left \in SUBSET Pools BY <1>0, <1>1, <1>2
  <2>2. Added(n, size, otherwise, left) BY <1>1, <1>2, <1>5, <1>8, <1>9 DEF Added
  <2> QED BY <1>5, <1>8, <2>1, <2>2
<1>10. ASSUME NEW home \in Best(c \ failed),
              subvol' = [p \in Pools |->
                IF p \in left \cup {home} THEN [subvol[p] EXCEPT ![n] = 0] ELSE subvol[p]],
              busy' = [op |-> "limit", name |-> n, size |-> size, pool |-> home]
       PROVE  \E H \in SUBSET Pools : Added(n, size, otherwise, H)
  <2> DEFINE H == left \cup {home}
  <2>1. home \in c BY DEF Best
  <2>2. H \in SUBSET Pools /\ H \subseteq c BY <1>0, <1>1, <1>2, <2>1
  <2>3. faults' = 0 => H = {home} BY <1>1, <1>8
  <2>4. Added(n, size, otherwise, H)
    <3>1. home \in H /\ Fits(home, size) BY <1>2, <2>1
    <3>2. H \subseteq SSDFirst /\ H \subseteq mounted' BY <1>2, <1>5, <2>2
    <3> HIDE DEF H
    <3>3. subvol' = [p \in Pools |-> IF p \in H THEN [subvol[p] EXCEPT ![n] = 0] ELSE subvol[p]]
      BY <1>10 DEF H
    <3> QED BY <1>10, <2>3, <3>1, <3>2, <3>3 DEF Added
  <2> QED BY <2>2, <2>4
<1> QED BY <1>1, <1>5, <1>8, <1>9, <1>10 DEF AddsTo

\* checkForCandidates that gives up may leave pools mounted.
LEMMA NoCandidateMounts ==
    ASSUME StorageTypes, NEW size, NoCandidate(size)
    PROVE  Counted /\ mounted \subseteq mounted' /\ mounted' \subseteq Pools
<1>0. SSDFirst \subseteq Pools /\ faults \in Nat /\ mounted \subseteq Pools
  BY DEF SSDFirst, StorageTypes
<1>1. ASSUME NEW blind \in SUBSET SSDFirst, Fail(Cardinality(blind)), Mount(Opened(size, blind))
      PROVE  Counted /\ mounted \subseteq mounted' /\ mounted' \subseteq Pools
  <2>1. Opened(size, blind) \subseteq blind BY DEF Opened
  <2>2. blind \in SUBSET Pools BY <1>0
  <2>3. Cardinality(blind) \in Nat BY <2>2, NoneFailed
  <2>4. Counted BY <1>0, <1>1, <2>3, FailCounts DEF Counted
  <2> QED BY <1>0, <1>1, <2>1, <2>2, <2>4 DEF Mount
<1>2. ASSUME NEW p \in SSDFirst, NEW ps \in {{}, {p}}, Fail(1), Mount(ps)
      PROVE  Counted /\ mounted \subseteq mounted' /\ mounted' \subseteq Pools
  <2>1. 1 \in Nat BY SMT
  <2>2. Counted BY <1>0, <1>2, <2>1, FailCounts DEF Counted
  <2> QED BY <1>0, <1>2, <2>2 DEF Mount
<1> QED BY <1>1, <1>2 DEF NoCandidate
-----------------------------------------------------------------------------
\* No call is under way, or the start is about to end.
LEMMA BusyRests ==
    ASSUME busy' = Quiet \/ (busy' = At("shutdownUnused") /\ boots' > 0)
    PROVE  BusyHolds' /\ busy'.op \notin {"limit", "fallocate", "copy"}
<1>1. CASE busy' = Quiet
  <2>1. busy'.op = "none" BY <1>1 DEF Quiet, At
  <2> QED BY <1>1, <2>1, SMT DEF BusyHolds, Quiet, At
<1>2. CASE busy' = At("shutdownUnused") /\ boots' > 0
  <2>1. busy'.op = "shutdownUnused" BY <1>2 DEF At
  <2> QED BY <1>2, <2>1, SMT DEF BusyHolds
<1> QED BY <1>1, <1>2

\* VolumeCreate of a new volume and EnsureCache of a new cache.
LEMMA AddedKeeps ==
    ASSUME StorageIInv, NEW n \in Looked, NEW size \in Nat \ {0},
           NEW otherwise \in {Quiet, At("shutdownUnused")},
           boots > 0, Homes(n) = {}, busy.op \in {"none", "ensureCache"},
           n = CacheLabel => size = CacheUnit /\ cache = NoPool,
           AddVolume(n, size, otherwise),
           UNCHANGED <<managed, vdisk, cache, cacheUse, reported, torn, grown, boots>>
    PROVE  StorageIInv'
<1> USE DEF StorageIInv
<1>1. Counted /\ mounted \subseteq mounted' /\ mounted' \subseteq Pools
  BY AddVolumeAdds
<1>2. PICK H \in SUBSET Pools : Added(n, size, otherwise, H) BY AddVolumeAdds
<1>3. H \subseteq mounted' /\ H \subseteq SSDFirst BY <1>2 DEF Added
<1>4. subvol' = [p \in Pools |-> IF p \in H THEN [subvol[p] EXCEPT ![n] = 0] ELSE subvol[p]]
  BY <1>2 DEF Added
<1>5. n \in Names /\ 0 \in Nat /\ 0 # Absent
  <2>1. 0 \in Nat /\ 0 # Absent BY SMT DEF Absent
  <2> QED BY <2>1, StorageConstants
<1>6. subvol \in [Pools -> [Names -> Nat \cup {Absent}]] BY DEF StorageTypes
<1>7. \A p \in Pools, m \in Names :
        subvol'[p][m] = IF p \in H /\ m = n THEN 0 ELSE subvol[p][m]
  BY <1>4, <1>5, <1>6, SMT
<1>8. subvol' \in [Pools -> [Names -> Nat \cup {Absent}]]
  BY <1>4, <1>5, <1>6, SMT
<1>9. \A p \in Pools, m \in Names : Has(p, m)' <=> Has(p, m) \/ (p \in H /\ m = n)
  BY <1>5, <1>7 DEF Has, Absent
<1>10. StorageTypes'
  <2>1. cache # NoPool => Has(cache, CacheLabel)'
    <3>1. CacheLabel \in Names BY DEF Names
    <3> QED BY <1>9, <3>1 DEF StorageTypes
  <2> QED BY <1>1, <1>8, <2>1 DEF StorageTypes, Counted, Absent
<1>11. faults' = 0 => faults = 0 /\ \A p \in Pools : ~Has(p, n)
  BY <1>1, LookupsSeeAll DEF Counted
<1>12. Placement'
  <2>1. H # {} => boots > 0 OBVIOUS
  <2>2. faults' = 0 /\ n \in Looked /\ H # {} =>
          H \subseteq Usable /\ (\A p, q \in H : p = q) /\ \A p \in Pools : ~Has(p, n)
    <3>1. H \subseteq Usable BY <1>3 DEF SSDFirst, Usable
    <3>2. faults' = 0 => \A p, q \in H : p = q BY <1>2 DEF Added
    <3> QED BY <1>11, <3>1, <3>2
  <2>3. Creates(n, H, 0, {}) BY <1>1, <1>3, <1>9, <2>1, <2>2 DEF Creates, Counted
  <2> QED BY <1>5, <2>3, PlacementGrows
<1>13. CASE busy' = otherwise /\ faults' # 0
  <2>1. BusyHolds' BY <1>13, BusyRests
  <2>2. WholeButBusy' /\ RoomForBusy' BY <1>13 DEF WholeButBusy, RoomForBusy
  <2> QED BY <1>10, <1>12, <2>1, <2>2
<1>14. ASSUME NEW home \in H,
              busy' = [op |-> "limit", name |-> n, size |-> size, pool |-> home],
              Fits(home, size), faults' = 0 => H = {home}
       PROVE  StorageIInv'
  <2>1. busy'.op = "limit" /\ busy'.name = n /\ busy'.size = size /\ busy'.pool = home
    BY <1>14
  <2>2. Has(home, n)' BY <1>5, <1>9
  <2>3. BusyHolds'
    <3>1. Has(busy.pool, busy.name)' BY <2>1, <2>2 DEF Has, Absent
    <3> QED BY <2>1, <3>1, SMT DEF BusyHolds
  <2>4. busy.op \notin {"limit", "fallocate", "copy"} OBVIOUS
  <2>5. ASSUME faults' = 0
        PROVE  /\ \A p \in Pools, m \in Names : p # home \/ m # n => subvol'[p][m] = subvol[p][m]
               /\ subvol[home][n] = Absent /\ subvol'[home][n] = 0
    <3>1. \A p \in Pools, m \in Names : p # home \/ m # n => subvol'[p][m] = subvol[p][m]
      BY <1>7, <1>14, <2>5
    <3>2. subvol[home][n] = Absent BY <1>11, <2>5 DEF Has
    <3>3. subvol'[home][n] = 0 BY <1>5, <1>7
    <3> QED BY <3>1, <3>2, <3>3
  <2>6. WholeButBusy'
    <3> SUFFICES ASSUME faults' = 0, ~torn'
                 PROVE  WholeParts'
      BY DEF WholeButBusy
    <3>1. WholeParts BY <1>11 DEF WholeButBusy
    <3>2. \A p \in Pools, m \in Volumes :
            Has(p, m)' => subvol'[p][m] > 0 \/ (p = home /\ m = n)
      <4>1. \A p \in Pools, m \in Volumes : Has(p, m) => subvol[p][m] > 0
        BY <2>4, <3>1 DEF WholeParts
      <4>2. ASSUME NEW p \in Pools, NEW m \in Volumes, Has(p, m)', ~(p = home /\ m = n)
            PROVE  subvol'[p][m] > 0
        <5>1. m \in Names BY DEF Names
        <5>2. subvol'[p][m] = subvol[p][m] BY <2>5, <4>2, <5>1
        <5>3. Has(p, m) BY <4>2, <5>2 DEF Has, Absent
        <5> QED BY <4>1, <5>2, <5>3
      <4> QED BY <4>2
    <3>3. \A p \in Pools, d \in Disks : vdisk[p][d] # NoDisk => vdisk[p][d].size > 0
      BY <2>4, <3>1 DEF WholeParts
    <3>4. \A p \in Pools, d \in Disks : vdisk[p][d].content # "partial"
      BY <2>4, <3>1 DEF WholeParts
    <3>5. \A m \in reported \cap Volumes : \E p \in Pools : subvol'[p][m] > 0
      <4>1. ~(Absent > 0) BY SMT DEF Absent
      <4>2. ASSUME NEW m \in reported \cap Volumes PROVE \E p \in Pools : subvol'[p][m] > 0
        <5>1. PICK p \in Pools : subvol[p][m] > 0 BY <3>1 DEF WholeParts
        <5>2. p # home \/ m # n BY <2>5, <4>1, <5>1
        <5> QED BY <2>5, <5>1, <5>2 DEF Names
      <4> QED BY <4>2
    <3> QED BY <2>1, <3>1, <3>2, <3>3, <3>4, <3>5 DEF WholeParts
  <2>7. RoomForBusy'
    <3> SUFFICES ASSUME faults' = 0, ~grown'
                 PROVE  /\ \A p \in Pools : Reserved(p)' <= PoolSize[p]
                        /\ subvol'[home][n] = 0 /\ Reserved(home)' + size <= PoolSize[home]
      BY <2>1, SMT DEF RoomForBusy
    <3>1. \A p \in Pools : Reserved(p) <= PoolSize[p] BY <1>11 DEF RoomForBusy
    <3>2. /\ Reserved(home)' = Reserved(home) + (0 - Positive(subvol[home][n]))
          /\ \A q \in Pools : q # home => Reserved(q)' = Reserved(q)
      BY <1>5, <1>10, <2>5, QuotaChanges
    <3>3. Positive(subvol[home][n]) = 0 BY <2>5, SMT DEF Positive, Absent
    <3>4. Reserved(home) \in Nat BY ReservedType
    <3>5. Reserved(home)' = Reserved(home) BY <3>2, <3>3, <3>4, SMT
    <3> QED BY <1>14, <2>5, <3>1, <3>2, <3>5 DEF Fits
  <2> QED BY <1>10, <1>12, <2>3, <2>6, <2>7
<1> QED BY <1>2, <1>13, <1>14 DEF Added

\* A step that leaves the subvolumes and the disks as they are, and unmounts
\* nothing; the start may go on to its end, with the cache it found.
LEMMA MountsKeep ==
    ASSUME StorageIInv, Counted, mounted \subseteq mounted', mounted' \subseteq Pools, cacheUse' \in Nat,
           UNCHANGED <<managed, subvol, vdisk, reported, torn, grown, boots>>,
           \/ busy' = busy /\ cache' = cache
           \/ /\ busy.op = "ensureCache" /\ busy' = At("shutdownUnused")
              /\ cache' = cache \/ (cache' \in Pools /\ Has(cache', CacheLabel))
    PROVE  StorageIInv'
<1> USE DEF StorageIInv
<1>1. \A p, n : Has(p, n)' <=> Has(p, n) BY DEF Has, Absent
<1>2. StorageTypes'
  <2>1. cache' # NoPool => Has(cache', CacheLabel) BY DEF StorageTypes
  <2>2. cache' \in Pools \cup {NoPool} BY DEF StorageTypes
  <2>3. cache' # NoPool => Has(cache, CacheLabel)' BY <2>1 DEF Has, Absent
  <2> QED BY <2>2, <2>3 DEF StorageTypes, Counted, Absent, NoPool
<1>3. Placement' BY <1>1, PlacementStays DEF Counted
<1>4. CASE busy' = busy /\ cache' = cache
  <2>1. BusyHolds' BY <1>4 DEF BusyHolds, Has, Absent, NoDisk, NoPool, Quiet, At
  <2>2. WholeButBusy' BY <1>4 DEF WholeButBusy, WholeParts, Has, Absent, NoDisk, Counted
  <2>3. RoomForBusy' BY <1>4 DEF RoomForBusy, Reserved, Quotas, Files, Positive, Counted
  <2> QED BY <1>2, <1>3, <2>1, <2>2, <2>3
<1>5. CASE busy.op = "ensureCache" /\ busy' = At("shutdownUnused")
  <2>1. boots > 0 BY <1>5, SMT DEF BusyHolds
  <2>2. BusyHolds' /\ busy'.op \notin {"limit", "fallocate", "copy"} BY <1>5, <2>1, BusyRests
  <2>3. busy.op \notin {"limit", "fallocate", "copy"} BY <1>5
  <2>4. WholeButBusy'
    BY <2>3 DEF WholeButBusy, WholeParts, Has, Absent, NoDisk, Counted
  <2>5. \A p \in Pools : Reserved(p)' = Reserved(p) BY DEF Reserved, Quotas, Files, Positive
  <2>6. RoomForBusy' BY <2>2, <2>5 DEF RoomForBusy, Counted
  <2> QED BY <1>2, <1>3, <2>2, <2>4, <2>6
<1> QED BY <1>4, <1>5

\* A call reports what it finds.
LEMMA ReportsKeep ==
    ASSUME StorageIInv, NEW x, reported' = reported \cup {x},
           UNCHANGED <<managed, mounted, subvol, vdisk, cache, cacheUse, busy, torn, grown, faults, boots>>,
           faults = 0 /\ ~torn => /\ x \in Volumes => \E p \in Pools : subvol[p][x] > 0
                                  /\ x \in Disks => \E p \in Pools : vdisk[p][x].size > 0
    PROVE  StorageIInv'
<1>1. StorageTypes' /\ BusyHolds'
  BY DEF StorageIInv, StorageTypes, BusyHolds, Has, Absent, NoDisk, NoPool, Quiet, At
<1>2. Placement'
  <2>1. \A p \in Pools, n \in Names : Has(p, n)' <=> Has(p, n) BY DEF Has, Absent
  <2> QED BY <2>1, PlacementStays DEF StorageIInv
<1>3. WholeButBusy' BY ZenonT(30) DEF StorageIInv, WholeButBusy, WholeParts, Has, Absent, NoDisk
<1>4. RoomForBusy' BY DEF StorageIInv, RoomForBusy, Reserved, Quotas, Files, Positive
<1> QED BY <1>1, <1>2, <1>3, <1>4 DEF StorageIInv

\* VolumeCreate finds the volume, adds it to a pool, or finds no pool for it.
LEMMA VolumeCreateKeeps ==
    ASSUME StorageIInv, NEW n \in Volumes, NEW size \in Sizes, VolumeCreate(n, size)
    PROVE  StorageIInv'
<1>1. /\ boots > 0 /\ busy = Quiet
      /\ UNCHANGED <<managed, vdisk, cache, cacheUse, torn, grown, boots>>
  BY DEF VolumeCreate, Running
<1>2. busy.op = "none" BY <1>1 DEF Quiet, At
<1>3. n \in Looked /\ n # CacheLabel /\ n \notin Disks BY StorageConstants DEF Looked
<1>4. CASE Homes(n) # {} /\ reported' = reported \cup {n} /\ UNCHANGED <<mounted, spinning, subvol, busy, faults>>
  <2>1. ASSUME faults = 0, ~torn PROVE \E p \in Pools : subvol[p][n] > 0
    <3>1. PICK p \in Homes(n) : TRUE BY <1>4
    <3>2. p \in Pools /\ Has(p, n) BY DEF Homes, SSDFirst, StorageIInv, StorageTypes
    <3>3. WholeParts BY <2>1 DEF StorageIInv, WholeButBusy
    <3> QED BY <1>2, <3>2, <3>3 DEF WholeParts
  <2> QED BY <1>1, <1>3, <1>4, <2>1, ReportsKeep
<1>5. CASE Homes(n) = {} /\ AddVolume(n, size, Quiet) /\ UNCHANGED reported
  <2>1. size \in Nat \ {0} BY StoragedAssumption
  <2> QED BY <1>1, <1>2, <1>3, <1>5, <2>1, AddedKeeps
<1>6. CASE NoCandidate(size) /\ UNCHANGED <<subvol, busy, reported>>
  <2>1. Counted /\ mounted \subseteq mounted' /\ mounted' \subseteq Pools
    BY <1>6, NoCandidateMounts DEF StorageIInv
  <2>2. cacheUse' \in Nat BY <1>1 DEF StorageIInv, StorageTypes
  <2> QED BY <1>1, <1>6, <2>1, <2>2, MountsKeep
<1> QED BY <1>4, <1>5, <1>6 DEF VolumeCreate

\* ensureCache finds the cache, creates it, or finds no pool for it.
LEMMA EnsureCacheKeeps ==
    ASSUME StorageIInv, EnsureCache
    PROVE  StorageIInv'
<1>1. /\ busy.op = "ensureCache"
      /\ UNCHANGED <<managed, vdisk, reported, torn, grown, boots>>
  BY DEF EnsureCache
<1>2. boots > 0 /\ cache = NoPool BY <1>1, SMT DEF StorageIInv, BusyHolds
<1>3. cacheUse \in Nat /\ faults \in Nat /\ mounted \subseteq Pools BY DEF StorageIInv, StorageTypes
<1>4. ASSUME NEW p \in Homes(CacheLabel), cache' = p,
             cacheUse' = IF subvol[p][CacheLabel] \in 1 .. cacheUse
                         THEN subvol[p][CacheLabel] ELSE cacheUse,
             busy' = At("shutdownUnused"), UNCHANGED <<mounted, spinning, subvol, faults>>
      PROVE  StorageIInv'
  <2>1. p \in Pools /\ Has(p, CacheLabel) BY DEF Homes, SSDFirst, StorageIInv, StorageTypes
  <2>2. cacheUse' \in Nat BY <1>3, <1>4, SMT
  <2>3. Counted BY <1>3, <1>4 DEF Counted
  <2> QED BY <1>1, <1>3, <1>4, <2>1, <2>2, <2>3, MountsKeep
<1>5. CASE /\ Homes(CacheLabel) = {} /\ AddVolume(CacheLabel, CacheUnit, At("shutdownUnused"))
           /\ UNCHANGED <<cache, cacheUse>>
  <2>1. CacheUnit \in Nat \ {0} BY StoragedAssumption
  <2>2. CacheLabel \in Looked BY DEF Looked
  <2> QED BY <1>1, <1>2, <1>5, <2>1, <2>2, AddedKeeps
<1>6. CASE /\ NoCandidate(CacheUnit) /\ busy' = At("shutdownUnused")
           /\ UNCHANGED <<subvol, cache, cacheUse>>
  <2>1. Counted /\ mounted \subseteq mounted' /\ mounted' \subseteq Pools
    BY <1>6, NoCandidateMounts DEF StorageIInv
  <2> QED BY <1>1, <1>3, <1>6, <2>1, MountsKeep
<1> QED BY <1>4, <1>5, <1>6 DEF EnsureCache
-----------------------------------------------------------------------------
\* A step that gives a subvolume that exists another quota: it leaves the call
\* under way alone and adds nothing, or ends it and has room for what it adds.
Requota(p, n, k) ==
    /\ Has(p, n) /\ subvol' = [subvol EXCEPT ![p][n] = k] /\ (n \in Volumes => k > 0)
    /\ Counted /\ cacheUse' \in Nat
    /\ UNCHANGED <<managed, mounted, vdisk, boots, torn>>
    /\ cache' = cache \/ (cache' \in Pools /\ Has(cache', CacheLabel))
    /\ reported' = reported \/ (n \in Volumes /\ reported' = reported \cup {n})
    /\ \/ busy' = busy
       \/ busy.op = "limit" /\ busy.pool = p /\ busy.name = n
    /\ \/ /\ busy' = busy /\ cache' = cache
          /\ faults' = 0 /\ ~grown' =>
               ~grown /\ k <= subvol[p][n] /\ (busy.op = "limit" => busy.pool # p \/ busy.name # n)
       \/ /\ busy' = Quiet \/ (busy' = At("shutdownUnused") /\ boots' > 0)
          /\ faults' = 0 /\ ~grown' =>
               ~grown /\ Reserved(p) + (k - Positive(subvol[p][n])) <= PoolSize[p]

\* A quota of a subvolume that exists changes.
LEMMA QuotaTypes ==
    ASSUME StorageTypes, Placement, NEW p \in Pools, NEW n \in Names, NEW k \in Nat, Requota(p, n, k)
    PROVE  /\ StorageTypes' /\ Placement'
           /\ \A q \in Pools, m \in Names : q # p \/ m # n => subvol'[q][m] = subvol[q][m]
           /\ subvol'[p][n] = k /\ subvol[p][n] \in Nat
           /\ \A q \in Pools, m \in Names : Has(q, m)' <=> Has(q, m)
<1>0. /\ Has(p, n) /\ subvol' = [subvol EXCEPT ![p][n] = k] /\ Counted /\ cacheUse' \in Nat
      /\ UNCHANGED <<managed, mounted, vdisk, boots>>
      /\ cache' = cache \/ (cache' \in Pools /\ Has(cache', CacheLabel))
  BY DEF Requota
<1>1. subvol \in [Pools -> [Names -> Nat \cup {Absent}]] BY DEF StorageTypes
<1>2. \A q \in Pools, m \in Names : q # p \/ m # n => subvol'[q][m] = subvol[q][m]
  BY <1>0, <1>1, SMT
<1>3. subvol'[p][n] = k BY <1>0, <1>1, SMT
<1>4. subvol[p][n] \in Nat BY <1>0, <1>1 DEF Has
<1>5. k # Absent BY SMT DEF Absent
<1>6. \A q \in Pools, m \in Names : Has(q, m)' <=> Has(q, m)
  <2>1. \A q \in Pools, m \in Names : q # p \/ m # n => (Has(q, m)' <=> Has(q, m))
    BY <1>2 DEF Has, Absent
  <2>2. Has(p, n)' BY <1>3, <1>5 DEF Has, Absent
  <2> QED BY <1>0, <2>1, <2>2
<1>7. StorageTypes'
  <2>1. subvol' \in [Pools -> [Names -> Nat \cup {Absent}]] BY <1>0, <1>1, SMT
  <2>2. cache' \in Pools \cup {NoPool} BY <1>0 DEF StorageTypes
  <2>3. cache' # NoPool => cache' \in Pools /\ Has(cache', CacheLabel) BY <1>0 DEF StorageTypes
  <2>4. CacheLabel \in Names BY DEF Names
  <2>5. cache' # NoPool => Has(cache, CacheLabel)'
    <3>1. ASSUME cache' # NoPool PROVE Has(cache, CacheLabel)'
      <4>1. PICK c \in Pools : c = cache' BY <2>3, <3>1
      <4>2. Has(c, CacheLabel)' BY <1>6, <2>3, <2>4, <3>1, <4>1
      <4> QED BY <4>1, <4>2 DEF Has, Absent
    <3> QED BY <3>1
  <2> QED BY <1>0, <2>1, <2>2, <2>5 DEF StorageTypes, Counted, Absent, NoPool
<1>8. Placement' BY <1>0, <1>6, PlacementStays DEF Counted
<1> QED BY <1>2, <1>3, <1>4, <1>6, <1>7, <1>8

\* What the call under way knows survives it.
LEMMA BusyStays ==
    ASSUME StorageTypes, BusyHolds, UNCHANGED <<busy, boots, cache, vdisk>>,
           \A q \in Pools, m \in Names : Has(q, m)' <=> Has(q, m)
    PROVE  BusyHolds'
<1>1. ASSUME busy.op = "limit" PROVE Has(busy.pool, busy.name)'
  <2>1. busy.pool \in Pools /\ busy.name \in Names /\ Has(busy.pool, busy.name)
    BY <1>1, StorageConstants DEF BusyHolds
  <2>2. PICK q \in Pools, m \in Names : q = busy.pool /\ m = busy.name BY <2>1
  <2>3. Has(q, m)' BY <2>1, <2>2
  <2> QED BY <2>2, <2>3 DEF Has, Absent
<1> QED BY <1>1 DEF BusyHolds, NoDisk, NoPool, Absent, Quiet, At

\* A volume that gets a quota is whole.
LEMMA QuotaWhole ==
    ASSUME StorageTypes, Placement, WholeParts,
           NEW p \in Pools, NEW n \in Names, NEW k \in Nat, Requota(p, n, k),
           busy'.op \in {"limit", "fallocate", "copy"} => busy' = busy
    PROVE  WholeParts'
<1>1. /\ StorageTypes' /\ Placement'
      /\ \A q \in Pools, m \in Names : q # p \/ m # n => subvol'[q][m] = subvol[q][m]
      /\ subvol'[p][n] = k /\ subvol[p][n] \in Nat
      /\ \A q \in Pools, m \in Names : Has(q, m)' <=> Has(q, m)
  BY QuotaTypes
<1>2. /\ n \in Volumes => k > 0
      /\ vdisk' = vdisk
      /\ reported' = reported \/ (n \in Volumes /\ reported' = reported \cup {n})
      /\ busy' = busy \/ (busy.op = "limit" /\ busy.pool = p /\ busy.name = n)
  BY DEF Requota
<1>3. ASSUME NEW q \in Pools, NEW m \in Volumes, Has(q, m)'
      PROVE  subvol'[q][m] > 0 \/ (busy'.op = "limit" /\ busy'.pool = q /\ busy'.name = m)
  <2>1. m \in Names BY DEF Names
  <2>2. CASE q = p /\ m = n BY <1>1, <1>2, <2>2
  <2>3. CASE q # p \/ m # n
    <3>1. Has(q, m) BY <1>1, <1>3, <2>1
    <3>2. subvol[q][m] > 0 \/ (busy.op = "limit" /\ busy.pool = q /\ busy.name = m)
      BY <3>1 DEF WholeParts
    <3> QED BY <1>1, <1>2, <2>1, <2>3, <3>2
  <2> QED BY <2>2, <2>3
<1>4. ASSUME NEW q \in Pools, NEW d \in Disks, vdisk'[q][d] # NoDisk
      PROVE  vdisk'[q][d].size > 0 \/ (busy'.op = "fallocate" /\ busy'.pool = q /\ busy'.name = d)
  <2>1. vdisk[q][d].size > 0 \/ (busy.op = "fallocate" /\ busy.pool = q /\ busy.name = d)
    BY <1>2, <1>4 DEF WholeParts
  <2> QED BY <1>2, <2>1
<1>5. ASSUME NEW q \in Pools, NEW d \in Disks, vdisk'[q][d].content = "partial"
      PROVE  busy'.op = "copy" /\ busy'.pool = q /\ busy'.name = d
  <2>1. busy.op = "copy" /\ busy.pool = q /\ busy.name = d
    BY <1>2, <1>5 DEF WholeParts
  <2> QED BY <1>2, <2>1
<1>6. ASSUME NEW m \in reported' \cap Volumes PROVE \E q \in Pools : subvol'[q][m] > 0
  <2>1. CASE m = n BY <1>1, <1>2, <2>1
  <2>2. CASE m # n
    <3>1. m \in reported \cap Volumes BY <1>2, <2>2, SMT
    <3>2. PICK q \in Pools : subvol[q][m] > 0 BY <3>1 DEF WholeParts
    <3>3. m \in Names BY DEF Names
    <3> QED BY <1>1, <2>2, <3>2, <3>3
  <2> QED BY <2>1, <2>2
<1>7. ASSUME NEW d \in reported' \cap Disks PROVE \E q \in Pools : vdisk'[q][d].size > 0
  <2>1. d \notin Volumes BY StorageConstants
  <2>2. d \in reported \cap Disks BY <1>2, <2>1
  <2>3. \E q \in Pools : vdisk[q][d].size > 0 BY <2>2 DEF WholeParts
  <2> QED BY <1>2, <2>3
<1> QED BY <1>3, <1>4, <1>5, <1>6, <1>7 DEF WholeParts, NoDisk, Absent

\* A step without faults that takes no space, and nothing from what the call
\* under way created.
Shrinks ==
    /\ faults = 0 /\ ~grown /\ \A q \in Pools : Reserved(q)' <= Reserved(q)
    /\ busy.op = "limit" => subvol'[busy.pool][busy.name] = subvol[busy.pool][busy.name]
    /\ busy.op = "fallocate" => vdisk'[busy.pool][busy.name].size = vdisk[busy.pool][busy.name].size

\* It leaves the call under way the room it found.
LEMMA RoomStays ==
    ASSUME StorageTypes, StorageTypes', BusyHolds, RoomForBusy, busy' = busy,
           faults' = 0 /\ ~grown' => Shrinks
    PROVE  RoomForBusy'
<1> SUFFICES ASSUME faults' = 0, ~grown', Shrinks PROVE RoomForBusy' BY DEF RoomForBusy
<1>1. faults = 0 /\ ~grown /\ \A q \in Pools : Reserved(q)' <= Reserved(q) BY DEF Shrinks
<1>2. \A q \in Pools : Reserved(q) \in Nat /\ Reserved(q)' \in Nat /\ PoolSize[q] \in Nat
  BY ReservedType, ReservedTypeNext, StorageConstants
<1>3. \A q \in Pools : Reserved(q) <= PoolSize[q] BY <1>1 DEF RoomForBusy
<1>4. ASSUME NEW q \in Pools, NEW k \in Nat, Reserved(q) + k <= PoolSize[q]
      PROVE  Reserved(q)' + k <= PoolSize[q]
  <2>1. Reserved(q)' <= Reserved(q) /\ Reserved(q) \in Nat /\ Reserved(q)' \in Nat /\ PoolSize[q] \in Nat
    BY <1>1, <1>2
  <2> QED BY <1>4, <2>1, SMT
<1>5. \A q \in Pools : Reserved(q)' <= PoolSize[q]
  <2>1. ASSUME NEW q \in Pools PROVE Reserved(q)' <= PoolSize[q]
    <3>1. /\ Reserved(q)' <= Reserved(q) /\ Reserved(q) <= PoolSize[q]
          /\ Reserved(q) \in Nat /\ Reserved(q)' \in Nat /\ PoolSize[q] \in Nat
      BY <1>1, <1>2, <1>3
    <3> QED BY <3>1, SMT
  <2> QED BY <2>1
<1>6. ASSUME busy.op \in {"limit", "fallocate"}
      PROVE  Reserved(busy.pool)' + busy'.size <= PoolSize[busy'.pool]
  <2>1. busy.pool \in Pools /\ busy.size \in Nat BY <1>6 DEF BusyHolds
  <2>2. PICK b \in Pools : b = busy.pool BY <2>1
  <2>3. Reserved(b) + busy.size <= PoolSize[b] BY <1>1, <1>6, <2>2 DEF RoomForBusy
  <2>4. Reserved(b)' + busy.size <= PoolSize[b] BY <1>4, <2>1, <2>3
  <2>5. b = busy'.pool BY <2>2
  <2> QED BY <2>4, <2>5 DEF Reserved, Quotas, Files
<1>7. busy.op = "limit" => subvol'[busy.pool][busy.name] = 0
  BY <1>1 DEF RoomForBusy, Shrinks
<1>8. busy.op = "fallocate" => vdisk'[busy.pool][busy.name].size = 0
  BY <1>1 DEF RoomForBusy, Shrinks
<1> QED BY <1>5, <1>6, <1>7, <1>8 DEF RoomForBusy

\* Such a step keeps the invariant.
LEMMA QuotaKeeps ==
    ASSUME StorageIInv, NEW p \in Pools, NEW n \in Names, NEW k \in Nat, Requota(p, n, k)
    PROVE  StorageIInv'
<1>0. StorageTypes /\ Placement /\ BusyHolds /\ WholeButBusy /\ RoomForBusy BY DEF StorageIInv
<1>1. /\ StorageTypes' /\ Placement'
      /\ \A q \in Pools, m \in Names : q # p \/ m # n => subvol'[q][m] = subvol[q][m]
      /\ subvol'[p][n] = k /\ subvol[p][n] \in Nat
      /\ \A q \in Pools, m \in Names : Has(q, m)' <=> Has(q, m)
  BY <1>0, QuotaTypes
<1>2. Counted /\ UNCHANGED <<vdisk, boots, torn>> BY DEF Requota
<1>3. /\ Reserved(p)' = Reserved(p) + (k - Positive(subvol[p][n]))
      /\ \A q \in Pools : q # p => Reserved(q)' = Reserved(q)
  BY <1>0, <1>1, <1>2, QuotaChanges
<1>4. Reserved(p) \in Nat /\ PoolSize[p] \in Nat BY <1>0, ReservedType, StorageConstants
<1>5. Positive(subvol[p][n]) = subvol[p][n] BY <1>1, SMT DEF Positive
<1>6. CASE /\ busy' = busy /\ cache' = cache
           /\ faults' = 0 /\ ~grown' =>
                ~grown /\ k <= subvol[p][n] /\ (busy.op = "limit" => busy.pool # p \/ busy.name # n)
  <2>1. BusyHolds' BY <1>0, <1>1, <1>2, <1>6, BusyStays
  <2>2. WholeButBusy'
    BY <1>0, <1>2, <1>6, QuotaWhole DEF WholeButBusy, Counted
  <2>3. RoomForBusy'
    <3>1. ASSUME faults' = 0, ~grown' PROVE Shrinks
      <4>1. ~grown /\ faults = 0 /\ k <= subvol[p][n] BY <1>2, <1>6, <3>1 DEF Counted
      <4>2. Reserved(p)' <= Reserved(p) BY <1>1, <1>3, <1>4, <1>5, <4>1, SMT
      <4>3. \A q \in Pools : Reserved(q)' <= Reserved(q)
        <5>1. ASSUME NEW q \in Pools, q # p PROVE Reserved(q)' <= Reserved(q)
          <6>1. Reserved(q) \in Nat BY <1>0, ReservedType
          <6>2. Reserved(q)' = Reserved(q) BY <1>3, <5>1
          <6> QED BY <6>1, <6>2, SMT
        <5> QED BY <4>2, <5>1
      <4>4. busy.op = "limit" => subvol'[busy.pool][busy.name] = subvol[busy.pool][busy.name]
        BY <1>0, <1>1, <1>6, <3>1, StorageConstants DEF BusyHolds
      <4>5. vdisk' = vdisk BY <1>2
      <4> QED BY <4>1, <4>3, <4>4, <4>5 DEF Shrinks
    <3> QED BY <1>0, <1>1, <1>6, <3>1, RoomStays
  <2> QED BY <1>1, <2>1, <2>2, <2>3 DEF StorageIInv
<1>7. CASE /\ busy' = Quiet \/ (busy' = At("shutdownUnused") /\ boots' > 0)
           /\ faults' = 0 /\ ~grown' =>
                ~grown /\ Reserved(p) + (k - Positive(subvol[p][n])) <= PoolSize[p]
  <2>1. BusyHolds' /\ busy'.op \notin {"limit", "fallocate", "copy"} BY <1>7, BusyRests
  <2>2. WholeButBusy'
    BY <1>0, <1>2, <2>1, QuotaWhole DEF WholeButBusy, Counted
  <2>3. RoomForBusy'
    <3> SUFFICES ASSUME faults' = 0, ~grown' PROVE \A q \in Pools : Reserved(q)' <= PoolSize[q]
      BY <2>1 DEF RoomForBusy
    <3>1. \A q \in Pools : Reserved(q) <= PoolSize[q] BY <1>0, <1>2, <1>7 DEF RoomForBusy, Counted
    <3> QED BY <1>3, <1>7, <3>1
  <2> QED BY <1>1, <2>1, <2>2, <2>3 DEF StorageIInv
<1> QED BY <1>6, <1>7 DEF Requota

\* A subvolume that exists has a quota, 0 for none.
LEMMA HasQuota ==
    ASSUME StorageIInv, NEW p \in Pools, NEW n \in Names, Has(p, n)
    PROVE  subvol[p][n] \in Nat
<1>1. subvol \in [Pools -> [Names -> Nat \cup {Absent}]] BY DEF StorageIInv, StorageTypes
<1>2. subvol[p][n] \in Nat \cup {Absent} BY <1>1
<1> QED BY <1>2 DEF Has

\* SetQuota ends VolumeCreate; the failure of it is counted.
LEMMA SetQuotaKeeps ==
    ASSUME StorageIInv, SetQuota
    PROVE  StorageIInv'
<1>1. /\ busy.op = "limit" /\ busy.name # CacheLabel /\ busy' = Quiet
      /\ UNCHANGED <<managed, mounted, vdisk, cache, cacheUse, torn, grown, boots>>
  BY DEF SetQuota
<1>2. PICK p \in Pools, n \in Volumes, size \in Nat \ {0} :
        busy.pool = p /\ busy.name = n /\ busy.size = size /\ Has(p, n)
  <2>1. /\ busy.pool \in Pools /\ busy.name \in Looked /\ busy.size \in Nat \ {0}
        /\ Has(busy.pool, busy.name)
    BY <1>1 DEF StorageIInv, BusyHolds
  <2>2. busy.name \in Volumes BY <1>1, <2>1 DEF Looked
  <2> QED BY <2>1, <2>2
<1>3. n \in Names /\ size \in Nat /\ size > 0 /\ cacheUse' \in Nat /\ faults \in Nat
  <2>1. size > 0 BY SMT
  <2> QED BY <1>1, <2>1 DEF Names, StorageIInv, StorageTypes
<1>4. faults' = faults \/ (Counted /\ faults' # 0)
  <2>1. Fail(1) => Counted /\ faults' # 0
    <3>1. 1 \in Nat /\ 1 # 0 BY SMT
    <3> QED BY <1>3, <3>1, FailCounts DEF Counted
  <2> QED BY <2>1 DEF SetQuota
<1>5. Counted BY <1>3, <1>4 DEF Counted
<1>6. CASE /\ subvol' = [subvol EXCEPT ![busy.pool][busy.name] = busy.size]
           /\ reported' = reported \cup {busy.name} \/ reported' = reported
  <2>1. subvol' = [subvol EXCEPT ![p][n] = size] BY <1>2, <1>6
  <2>2. faults' = 0 /\ ~grown' =>
          ~grown /\ Reserved(p) + (size - Positive(subvol[p][n])) <= PoolSize[p]
    <3> SUFFICES ASSUME faults' = 0, ~grown'
                 PROVE  Reserved(p) + (size - Positive(subvol[p][n])) <= PoolSize[p]
      BY <1>1
    <3>1. subvol[p][n] = 0 /\ Reserved(p) + size <= PoolSize[p]
      BY <1>1, <1>2, <1>5 DEF StorageIInv, RoomForBusy, Counted
    <3>2. Positive(subvol[p][n]) = 0 BY <3>1, SMT DEF Positive
    <3>3. Reserved(p) \in Nat BY ReservedType DEF StorageIInv
    <3> QED BY <1>3, <3>1, <3>2, <3>3, SMT
  <2>3. Requota(p, n, size) BY <1>1, <1>2, <1>3, <1>5, <1>6, <2>1, <2>2 DEF Requota
  <2> QED BY <1>3, <2>3, QuotaKeeps
<1>7. CASE UNCHANGED <<subvol, reported>> /\ faults' # 0
  <2>1. \A q, m : Has(q, m)' <=> Has(q, m) BY <1>7 DEF Has, Absent
  <2>2. StorageTypes' BY <1>1, <1>5, <1>7 DEF StorageIInv, StorageTypes, Counted, Has, Absent, NoPool
  <2>3. Placement' BY <1>1, <1>5, <2>1, PlacementStays DEF Counted, StorageIInv
  <2>4. WholeButBusy' /\ RoomForBusy' BY <1>7 DEF WholeButBusy, RoomForBusy
  <2>5. BusyHolds' BY <1>1, BusyRests
  <2> QED BY <2>2, <2>3, <2>4, <2>5 DEF StorageIInv
<1>8. \/ /\ subvol' = [subvol EXCEPT ![busy.pool][busy.name] = busy.size]
         /\ reported' = reported \cup {busy.name} \/ reported' = reported
      \/ UNCHANGED <<subvol, reported>> /\ Fail(1)
  BY DEF SetQuota
<1>9. Fail(1) => faults' # 0
  <2>1. 1 \in Nat /\ 1 # 0 BY SMT
  <2> QED BY <1>3, <2>1, FailCounts
<1> QED BY <1>6, <1>7, <1>8, <1>9

\* VolumeUpdate gives a quota for a quota; a larger one is noted.
LEMMA VolumeUpdateKeeps ==
    ASSUME StorageIInv, NEW n \in Volumes, NEW size \in LargerSizes, VolumeUpdate(n, size)
    PROVE  StorageIInv'
<1>1. /\ busy = Quiet
      /\ UNCHANGED <<managed, mounted, vdisk, cache, cacheUse, busy, reported, torn, faults, boots>>
  BY DEF VolumeUpdate, Running
<1>2. PICK p \in Homes(n) : /\ subvol' = [subvol EXCEPT ![p][n] = size]
                            /\ grown' = (grown \/ size > subvol[p][n])
  BY DEF VolumeUpdate
<1>3. p \in Pools /\ Has(p, n) BY DEF Homes, SSDFirst, StorageIInv, StorageTypes
<1>4. size \in Nat /\ size > 0
  <2>1. size \in Nat \ {0} BY StoragedAssumption
  <2> QED BY <2>1, SMT
<1>5. n \in Names /\ cacheUse' \in Nat /\ Counted
  BY <1>1 DEF Names, Counted, StorageIInv, StorageTypes
<1>6. subvol[p][n] \in Nat BY <1>3, <1>5, HasQuota
<1>7. ~grown' => ~grown /\ size <= subvol[p][n]
  <2>1. ~(size > subvol[p][n]) => size <= subvol[p][n] BY <1>4, <1>6, SMT
  <2> QED BY <1>2, <2>1
<1>8. busy.op # "limit" BY <1>1 DEF Quiet, At
<1>9. Requota(p, n, size) BY <1>1, <1>2, <1>3, <1>4, <1>5, <1>7, <1>8 DEF Requota
<1> QED BY <1>3, <1>4, <1>5, <1>9, QuotaKeeps

\* A zdb takes room in its volume only where there is room; beside a call that
\* has yet to take its room, that is noted.
LEMMA ZdbReserveKeeps ==
    ASSUME StorageIInv, NEW size \in Sizes, ZdbReserve(size)
    PROVE  StorageIInv'
<1>1. UNCHANGED <<managed, mounted, vdisk, cache, cacheUse, busy, reported, torn, faults, boots>>
  BY DEF ZdbReserve
<1>2. PICK p \in managed \cap Hdds : /\ Has(p, ZdbVolume) /\ Fits(p, size)
                                     /\ subvol' = [subvol EXCEPT ![p][ZdbVolume] = @ + size]
  BY DEF ZdbReserve
<1>3. p \in Pools /\ ZdbVolume \in Names /\ ZdbVolume \notin Volumes
  BY StorageConstants DEF StorageIInv, StorageTypes, Looked
<1>4. size \in Nat BY StoragedAssumption
<1>5. subvol[p][ZdbVolume] \in Nat BY <1>2, <1>3, HasQuota
<1>6. PICK k \in Nat : k = subvol[p][ZdbVolume] + size
  <2>1. subvol[p][ZdbVolume] + size \in Nat BY <1>4, <1>5, SMT
  <2> QED BY <2>1
<1>7. subvol' = [subvol EXCEPT ![p][ZdbVolume] = k] BY <1>2, <1>6
<1>8. cacheUse' \in Nat /\ Counted BY <1>1 DEF Counted, StorageIInv, StorageTypes
<1>9. CASE busy = Quiet
  <2>1. Reserved(p) + (k - Positive(subvol[p][ZdbVolume])) <= PoolSize[p]
    <3>1. Reserved(p) \in Nat BY <1>3, ReservedType DEF StorageIInv
    <3>2. Reserved(p) + size <= PoolSize[p] BY <1>2 DEF Fits
    <3>3. Positive(subvol[p][ZdbVolume]) = subvol[p][ZdbVolume] BY <1>5, SMT DEF Positive
    <3> QED BY <1>4, <1>5, <1>6, <3>1, <3>2, <3>3, SMT
  <2>2. ~grown' => ~grown BY DEF ZdbReserve
  <2>3. Requota(p, ZdbVolume, k) BY <1>1, <1>2, <1>3, <1>7, <1>8, <1>9, <2>1, <2>2 DEF Requota
  <2> QED BY <1>3, <2>3, QuotaKeeps
<1>10. CASE busy # Quiet
  <2>1. grown' BY <1>10 DEF ZdbReserve
  <2>2. Requota(p, ZdbVolume, k) BY <1>1, <1>2, <1>3, <1>7, <1>8, <2>1 DEF Requota
  <2> QED BY <1>3, <2>2, QuotaKeeps
<1> QED BY <1>9, <1>10

\* The sizes checkAndResizeCache computes are sizes.
LEMMA CacheSizeType ==
    ASSUME NEW use \in Nat, NEW size \in Nat
    PROVE  CacheSize(use, size) \in Nat /\ Max({CacheUnit, 2 * use}) \in Nat
<1>1. CacheUnit \in Nat \ {0} BY StoragedAssumption
<1>2. ASSUME NEW a \in Nat, NEW b \in Nat PROVE Max({a, b}) \in Nat
  <2>1. \E x \in {a, b} : \A y \in {a, b} : x >= y BY SMT
  <2> QED BY <2>1 DEF Max
<1>3. 2 * use \in Nat BY SMT
<1>4. (2 * use) \div CacheUnit \in Nat BY <1>1, SMT
<1>5. ((2 * use) \div CacheUnit) * CacheUnit \in Nat
  <2>1. \A x, y \in Nat : x * y \in Nat BY SMT
  <2> QED BY <1>1, <1>4, <2>1
<1>6. ((2 * use) \div CacheUnit) * CacheUnit + CacheUnit \in Nat
  <2>1. \A x, y \in Nat : x + y \in Nat BY SMT
  <2> QED BY <1>1, <1>5, <2>1
<1>7. size + CacheUnit \in Nat BY <1>1, SMT
<1>8. Max({size, CacheUnit}) \in Nat /\ Max({CacheUnit, 2 * use}) \in Nat BY <1>1, <1>2, <1>3
<1> QED BY <1>6, <1>7, <1>8 DEF CacheSize

\* The watcher holds a cache that exists, and none while one is created.
LEMMA WatchCacheKeeps ==
    ASSUME StorageIInv, WatchCache
    PROVE  StorageIInv'
<1>1. UNCHANGED <<managed, mounted, vdisk, cache, cacheUse, busy, reported, torn, faults, boots>>
  BY DEF WatchCache
<1>2. PICK p \in Pools : p = cache /\ p # NoPool /\ Has(p, CacheLabel)
  BY DEF WatchCache, StorageIInv, StorageTypes
<1>3. CacheLabel \in Names /\ CacheLabel \notin Volumes BY StorageConstants DEF Names
<1>4. cacheUse \in Nat /\ cacheUse' \in Nat /\ Counted
  BY <1>1 DEF Counted, StorageIInv, StorageTypes
<1>5. subvol[p][CacheLabel] \in Nat BY <1>2, <1>3, HasQuota
<1>6. CacheQuota \in Nat
  <2>1. Max({CacheUnit, 2 * cacheUse}) \in Nat BY <1>4, CacheSizeType
  <2> QED BY <1>2, <1>5, <2>1 DEF CacheQuota
<1>7. PICK k \in Nat : k = CacheSize(cacheUse, CacheQuota) BY <1>4, <1>6, CacheSizeType
<1>8. subvol' = [subvol EXCEPT ![p][CacheLabel] = k] BY <1>2, <1>7 DEF WatchCache
<1>9. subvol'[p][CacheLabel] = k BY <1>3, <1>8, SMT DEF StorageIInv, StorageTypes
<1>10. ~grown' => ~grown /\ k <= subvol[p][CacheLabel]
  <2>1. ~(k > subvol[p][CacheLabel]) => k <= subvol[p][CacheLabel] BY <1>5, SMT
  <2>2. grown' = (grown \/ subvol'[p][CacheLabel] > subvol[p][CacheLabel])
    BY <1>2 DEF WatchCache
  <2> QED BY <1>9, <2>1, <2>2
<1>11. busy.op = "limit" => busy.name # CacheLabel BY <1>2 DEF StorageIInv, BusyHolds
<1>12. Requota(p, CacheLabel, k)
  BY <1>1, <1>2, <1>3, <1>4, <1>8, <1>10, <1>11 DEF Requota
<1> QED BY <1>3, <1>12, QuotaKeeps

\* The cache gets its quota, and the watcher the cache.
LEMMA CacheCreatedKeeps ==
    ASSUME StorageIInv, CacheCreated
    PROVE  StorageIInv'
<1>1. /\ busy.op = "limit" /\ busy.name = CacheLabel /\ busy' = At("shutdownUnused")
      /\ UNCHANGED <<managed, mounted, vdisk, reported, torn, grown, boots>>
  BY DEF CacheCreated
<1>2. PICK p \in Pools : busy.pool = p /\ busy.size = CacheUnit /\ Has(p, CacheLabel)
  BY <1>1 DEF StorageIInv, BusyHolds
<1>3. boots' > 0 BY <1>1, SMT DEF StorageIInv, BusyHolds
<1>4. CacheUnit \in Nat BY StoragedAssumption
<1>5. CacheLabel \in Names /\ CacheLabel \notin Volumes BY StorageConstants DEF Names
<1>6. faults \in Nat /\ cacheUse \in Nat /\ 0 \in Nat
  <2>1. 0 \in Nat BY SMT
  <2> QED BY <2>1 DEF StorageIInv, StorageTypes
<1>7. CASE /\ subvol' = [subvol EXCEPT ![busy.pool][CacheLabel] = CacheUnit]
           /\ cache' = busy.pool /\ cacheUse' = 0 /\ UNCHANGED faults
  <2>1. subvol' = [subvol EXCEPT ![p][CacheLabel] = CacheUnit] BY <1>2, <1>7
  <2>2. Counted BY <1>6, <1>7 DEF Counted
  <2>3. faults' = 0 /\ ~grown' =>
          ~grown /\ Reserved(p) + (CacheUnit - Positive(subvol[p][CacheLabel])) <= PoolSize[p]
    <3> SUFFICES ASSUME faults' = 0, ~grown'
                 PROVE  Reserved(p) + (CacheUnit - Positive(subvol[p][CacheLabel])) <= PoolSize[p]
      BY <1>1
    <3>1. subvol[p][CacheLabel] = 0 /\ Reserved(p) + CacheUnit <= PoolSize[p]
      BY <1>1, <1>2, <1>7 DEF StorageIInv, RoomForBusy
    <3>2. Positive(subvol[p][CacheLabel]) = 0 BY <3>1, SMT DEF Positive
    <3>3. Reserved(p) \in Nat BY ReservedType DEF StorageIInv
    <3> QED BY <1>4, <3>1, <3>2, <3>3, SMT
  <2>4. cache' \in Pools /\ Has(cache', CacheLabel) BY <1>2, <1>7
  <2>5. Requota(p, CacheLabel, CacheUnit)
    BY <1>1, <1>2, <1>3, <1>5, <1>6, <1>7, <2>1, <2>2, <2>3, <2>4 DEF Requota
  <2> QED BY <1>4, <1>5, <2>5, QuotaKeeps
<1>8. CASE Fail(1) /\ UNCHANGED <<subvol, cache, cacheUse>>
  <2>0. 1 \in Nat /\ 1 # 0 BY SMT
  <2>1. Counted /\ faults' # 0 BY <1>6, <1>8, <2>0, FailCounts DEF Counted
  <2>2. \A q, m : Has(q, m)' <=> Has(q, m) BY <1>8 DEF Has, Absent
  <2>3. StorageTypes' BY <1>1, <1>8, <2>1 DEF StorageIInv, StorageTypes, Counted, Has, Absent, NoPool
  <2>4. Placement' BY <1>1, <2>1, <2>2, PlacementStays DEF Counted, StorageIInv
  <2>5. WholeButBusy' /\ RoomForBusy' BY <2>1 DEF WholeButBusy, RoomForBusy
  <2>6. BusyHolds' BY <1>1, <1>3, BusyRests
  <2> QED BY <2>3, <2>4, <2>5, <2>6 DEF StorageIInv
<1> QED BY <1>7, <1>8 DEF CacheCreated
-----------------------------------------------------------------------------
\* The file of a disk, and the steps that change it or a field of it.
FileType == [size : Nat \cup {Absent}, content : DiskContents]
SetFileSize(p, d, k) == vdisk' = [vdisk EXCEPT ![p][d].size = k]
SetContent(p, d, c) == vdisk' = [vdisk EXCEPT ![p][d].content = c]
SetFile(p, d, v) == vdisk' = [vdisk EXCEPT ![p][d] = v]

\* A step on the file of one virtual disk, which is there before it: the file
\* v takes its place, for NoDisk it goes.  It ends the call under way or finds
\* none, and what it leaves is whole and has room.
Refile(p, d, v) ==
    /\ vdisk[p][d] # NoDisk /\ SetFile(p, d, v)
    /\ Counted /\ UNCHANGED <<managed, mounted, subvol, cache, cacheUse, boots, torn>>
    /\ busy.op = "none" \/ (busy.op \in {"fallocate", "copy"} /\ busy.pool = p /\ busy.name = d)
    /\ \/ busy' = Quiet
       \/ busy' = [op |-> "copy", name |-> d, size |-> 0, pool |-> p] /\ v # NoDisk /\ boots > 0
    /\ faults' = 0 /\ ~torn =>
         \/ v = NoDisk /\ reported' = reported \ {d}
         \/ /\ v.size > 0 /\ (v.content = "partial" => busy'.op = "copy")
            /\ reported' = reported \/ reported' = reported \cup {d}
    /\ faults' = 0 /\ ~grown' =>
         ~grown /\ Reserved(p) + (Positive(v.size) - Positive(vdisk[p][d].size)) <= PoolSize[p]

\* What changes with it.
LEMMA RefileTypes ==
    ASSUME StorageTypes, Placement, NEW p \in Pools, NEW d \in Disks,
           NEW v \in FileType, Refile(p, d, v)
    PROVE  /\ StorageTypes' /\ Placement'
           /\ \A q \in Pools, e \in Disks : q # p \/ e # d => vdisk'[q][e] = vdisk[q][e]
           /\ vdisk'[p][d] = v
           /\ \A q \in Pools, m \in Names : Has(q, m)' <=> Has(q, m)
<1>0. /\ vdisk[p][d] # NoDisk /\ vdisk' = [vdisk EXCEPT ![p][d] = v]
      /\ Counted /\ UNCHANGED <<managed, mounted, subvol, cache, cacheUse, boots>>
  BY DEF Refile, SetFile
<1>1. vdisk \in [Pools -> [Disks -> [size : Nat \cup {Absent}, content : DiskContents]]]
  BY DEF StorageTypes
<1>2. vdisk \in [Pools -> [Disks -> FileType]] BY <1>1 DEF FileType
<1>3. \A q \in Pools, e \in Disks : q # p \/ e # d => vdisk'[q][e] = vdisk[q][e]
  BY <1>0, <1>2, SMT
<1>4. vdisk'[p][d] = v BY <1>0, <1>2, SMT
<1>5. vdisk' \in [Pools -> [Disks -> FileType]] BY <1>0, <1>2, SMT
<1>6. \A q \in Pools, m \in Names : Has(q, m)' <=> Has(q, m) BY <1>0 DEF Has, Absent
<1>7. StorageTypes' BY <1>0, <1>5 DEF FileType, StorageTypes, Counted, Has, Absent, NoPool, DiskContents
<1>8. Placement'
  <2>1. \A q \in Pools, e \in Disks : vdisk'[q][e] # NoDisk => vdisk[q][e] # NoDisk BY <1>0, <1>3
  <2> QED BY <1>0, <1>6, <2>1, PlacementStays DEF Counted
<1> QED BY <1>3, <1>4, <1>6, <1>7, <1>8

\* The disks stay whole.
LEMMA RefileWhole ==
    ASSUME StorageTypes, Placement, WholeParts, faults' = 0, ~torn, NEW p \in Pools, NEW d \in Disks,
           NEW v \in FileType, Refile(p, d, v)
    PROVE  WholeParts'
<1>1. /\ \A q \in Pools, e \in Disks : q # p \/ e # d => vdisk'[q][e] = vdisk[q][e]
      /\ vdisk'[p][d] = v
      /\ \A q \in Pools, m \in Names : Has(q, m)' <=> Has(q, m)
  BY RefileTypes
<1>2. subvol' = subvol BY DEF Refile
<1>3. busy.op = "none" \/ (busy.op \in {"fallocate", "copy"} /\ busy.pool = p /\ busy.name = d)
  BY DEF Refile
<1>4. \/ v = NoDisk /\ reported' = reported \ {d}
      \/ /\ v.size > 0 /\ (v.content = "partial" => busy'.op = "copy")
         /\ reported' = reported \/ reported' = reported \cup {d}
  BY DEF Refile
<1>5. \/ busy' = Quiet
      \/ busy' = [op |-> "copy", name |-> d, size |-> 0, pool |-> p]
  BY DEF Refile
<1>6. busy'.op = "copy" => busy'.pool = p /\ busy'.name = d
  <2>1. CASE busy' = Quiet
    <3>1. busy'.op = "none" BY <2>1 DEF Quiet, At
    <3> QED BY <3>1
  <2>2. CASE busy' = [op |-> "copy", name |-> d, size |-> 0, pool |-> p] BY <2>2
  <2> QED BY <1>5, <2>1, <2>2
<1>7. NoDisk.content = "none" BY DEF NoDisk
<1>8. ASSUME NEW q \in Pools, NEW m \in Volumes, Has(q, m)'
      PROVE  subvol'[q][m] > 0
  <2>1. Has(q, m) BY <1>1, <1>8 DEF Names
  <2>2. subvol[q][m] > 0 BY <1>3, <2>1 DEF WholeParts
  <2> QED BY <1>2, <2>2
<1>9. ASSUME NEW q \in Pools, NEW e \in Disks, vdisk'[q][e] # NoDisk
      PROVE  vdisk'[q][e].size > 0
  <2>1. CASE q = p /\ e = d BY <1>1, <1>4, <1>9, <2>1
  <2>2. CASE q # p \/ e # d
    <3>1. vdisk[q][e] # NoDisk BY <1>1, <1>9, <2>2
    <3>2. vdisk[q][e].size > 0 \/ (busy.op = "fallocate" /\ busy.pool = q /\ busy.name = e)
      BY <3>1 DEF WholeParts
    <3> QED BY <1>1, <1>3, <2>2, <3>2
  <2> QED BY <2>1, <2>2
<1>10. ASSUME NEW q \in Pools, NEW e \in Disks, vdisk'[q][e].content = "partial"
       PROVE  busy'.op = "copy" /\ busy'.pool = q /\ busy'.name = e
  <2>1. CASE q = p /\ e = d BY <1>1, <1>4, <1>6, <1>7, <1>10, <2>1
  <2>2. CASE q # p \/ e # d
    <3>1. vdisk[q][e].content = "partial" BY <1>1, <1>10, <2>2
    <3>2. busy.op = "copy" /\ busy.pool = q /\ busy.name = e BY <3>1 DEF WholeParts
    <3> QED BY <1>3, <2>2, <3>2
  <2> QED BY <2>1, <2>2
<1>11. ASSUME NEW m \in reported' \cap Volumes PROVE \E q \in Pools : subvol'[q][m] > 0
  <2>1. m # d BY StorageConstants
  <2>2. m \in reported \cap Volumes BY <1>4, <2>1
  <2> QED BY <1>2, <2>2 DEF WholeParts
<1>12. ASSUME NEW e \in reported' \cap Disks PROVE \E q \in Pools : vdisk'[q][e].size > 0
  <2>1. CASE e = d BY <1>1, <1>4, <2>1
  <2>2. CASE e # d
    <3>1. e \in reported \cap Disks BY <1>4, <2>2
    <3>2. PICK q \in Pools : vdisk[q][e].size > 0 BY <3>1 DEF WholeParts
    <3> QED BY <1>1, <2>2, <3>2
  <2> QED BY <2>1, <2>2
<1> QED BY <1>8, <1>9, <1>10, <1>11, <1>12 DEF WholeParts, NoDisk, Absent

\* Such a step keeps the invariant.
LEMMA RefileKeeps ==
    ASSUME StorageIInv, NEW p \in Pools, NEW d \in Disks,
           NEW v \in FileType, Refile(p, d, v)
    PROVE  StorageIInv'
<1>0. StorageTypes /\ Placement /\ BusyHolds /\ WholeButBusy /\ RoomForBusy BY DEF StorageIInv
<1>1. /\ StorageTypes' /\ Placement'
      /\ \A q \in Pools, e \in Disks : q # p \/ e # d => vdisk'[q][e] = vdisk[q][e]
      /\ vdisk'[p][d] = v
      /\ \A q \in Pools, m \in Names : Has(q, m)' <=> Has(q, m)
  BY <1>0, RefileTypes
<1>2. Counted /\ UNCHANGED <<subvol, boots, torn>> BY DEF Refile
<1>3. v.size \in Nat \cup {Absent} BY DEF FileType
<1>4. /\ Reserved(p)' = Reserved(p) + (Positive(v.size) - Positive(vdisk[p][d].size))
      /\ \A q \in Pools : q # p => Reserved(q)' = Reserved(q)
  <2>1. /\ \A q \in Pools, e \in Disks : q # p \/ e # d => vdisk'[q][e].size = vdisk[q][e].size
        /\ vdisk'[p][d].size = v.size
    BY <1>1
  <2> QED BY <1>0, <1>1, <1>2, <1>3, <2>1, FileChanges
<1>5. BusyHolds' /\ busy'.op \notin {"limit", "fallocate"}
  <2>1. CASE busy' = Quiet BY <2>1, BusyRests
  <2>2. CASE busy' = [op |-> "copy", name |-> d, size |-> 0, pool |-> p] /\ v # NoDisk /\ boots > 0
    <3>1. busy'.op = "copy" /\ busy'.name = d /\ busy'.pool = p /\ boots' > 0 BY <1>2, <2>2
    <3>2. vdisk'[busy'.pool][busy'.name] # NoDisk BY <1>1, <2>2, <3>1
    <3> QED BY <3>1, <3>2 DEF BusyHolds, NoDisk, Absent
  <2> QED BY <2>1, <2>2 DEF Refile
<1>6. WholeButBusy' BY <1>0, <1>2, RefileWhole DEF WholeButBusy, Counted
<1>7. RoomForBusy'
  <2> SUFFICES ASSUME faults' = 0, ~grown' PROVE \A q \in Pools : Reserved(q)' <= PoolSize[q]
    BY <1>5 DEF RoomForBusy
  <2>1. ~grown /\ Reserved(p) + (Positive(v.size) - Positive(vdisk[p][d].size)) <= PoolSize[p]
    BY DEF Refile
  <2>2. \A q \in Pools : Reserved(q) <= PoolSize[q] BY <1>0, <1>2, <2>1 DEF RoomForBusy, Counted
  <2> QED BY <1>4, <2>1, <2>2
<1> QED BY <1>1, <1>5, <1>6, <1>7 DEF StorageIInv

\* The fields of a file.
LEMMA FileFields ==
    ASSUME StorageIInv, NEW p \in Pools, NEW d \in Disks
    PROVE  /\ vdisk[p][d] \in FileType
           /\ vdisk[p][d].size \in Nat \cup {Absent} /\ vdisk[p][d].content \in DiskContents
<1>1. vdisk \in [Pools -> [Disks -> [size : Nat \cup {Absent}, content : DiskContents]]]
  BY DEF StorageIInv, StorageTypes
<1>2. vdisk[p][d] \in [size : Nat \cup {Absent}, content : DiskContents] BY <1>1
<1> QED BY <1>2 DEF FileType

\* A file of another size takes the place of the one it was.
LEMMA SizeFile ==
    ASSUME StorageIInv, NEW p \in Pools, NEW d \in Disks, NEW k \in Nat, SetFileSize(p, d, k)
    PROVE  \E v \in FileType : v.size = k /\ v.content = vdisk[p][d].content /\ SetFile(p, d, v)
<1>1. PICK r \in FileType : r = vdisk[p][d] BY FileFields
<1>2. PICK v : v = [size |-> k, content |-> r.content] OBVIOUS
<1>3. v = [r EXCEPT !.size = k] BY <1>2, SMT DEF FileType
<1>4. v \in FileType /\ v.size = k /\ v.content = r.content BY <1>2, SMT DEF FileType
<1>5. [vdisk[p] EXCEPT ![d].size = k] = [vdisk[p] EXCEPT ![d] = v] BY <1>1, <1>3
<1>6. SetFile(p, d, v) BY <1>5 DEF SetFileSize, SetFile
<1> QED BY <1>1, <1>4, <1>6

\* So does one of another content.
LEMMA ContentFile ==
    ASSUME StorageIInv, NEW p \in Pools, NEW d \in Disks, NEW c \in DiskContents, SetContent(p, d, c)
    PROVE  \E v \in FileType : v.content = c /\ v.size = vdisk[p][d].size /\ SetFile(p, d, v)
<1>1. PICK r \in FileType : r = vdisk[p][d] BY FileFields
<1>2. PICK v : v = [size |-> r.size, content |-> c] OBVIOUS
<1>3. v = [r EXCEPT !.content = c] BY <1>2, SMT DEF FileType
<1>4. v \in FileType /\ v.size = r.size /\ v.content = c BY <1>2, SMT DEF FileType
<1>5. [vdisk[p] EXCEPT ![d].content = c] = [vdisk[p] EXCEPT ![d] = v] BY <1>1, <1>3
<1>6. SetFile(p, d, v) BY <1>5 DEF SetContent, SetFile
<1> QED BY <1>1, <1>4, <1>6

\* A file that does not grow has room.
LEMMA FileRoom ==
    ASSUME StorageIInv, NEW p \in Pools, NEW d \in Disks, NEW k \in Nat \cup {Absent},
           k = Absent \/ k = vdisk[p][d].size, faults = 0, ~grown
    PROVE  Reserved(p) + (Positive(k) - Positive(vdisk[p][d].size)) <= PoolSize[p]
<1>1. Reserved(p) \in Nat /\ PoolSize[p] \in Nat BY ReservedType, StorageConstants DEF StorageIInv
<1>2. Reserved(p) <= PoolSize[p] BY DEF StorageIInv, RoomForBusy
<1>3. Positive(k) \in Nat /\ Positive(vdisk[p][d].size) \in Nat
  <2>1. vdisk[p][d].size \in Nat \cup {Absent} BY FileFields
  <2> QED BY <2>1, SMT DEF Positive, Absent
<1>4. CASE k = Absent
  <2>1. Positive(k) = 0 BY <1>4, SMT DEF Positive, Absent
  <2> QED BY <1>1, <1>2, <1>3, <2>1, SMT
<1>5. CASE k = vdisk[p][d].size
  <2>1. Positive(k) = Positive(vdisk[p][d].size) BY <1>5
  <2> QED BY <1>1, <1>2, <1>3, <2>1, SMT
<1> QED BY <1>4, <1>5

\* What the calls on a disk find.
LEMMA DiskFound ==
    ASSUME StorageIInv, Running, NEW d \in Disks, NEW p \in DiskHomes(d)
    PROVE  /\ p \in Pools /\ vdisk[p][d] # NoDisk /\ busy.op = "none" /\ boots > 0
           /\ vdisk[p][d].size \in Nat \cup {Absent} /\ vdisk[p][d].content \in DiskContents
           /\ faults = 0 /\ ~torn => vdisk[p][d].size > 0 /\ vdisk[p][d].content # "partial"
<1>1. p \in Pools /\ vdisk[p][d] # NoDisk BY DEF DiskHomes, SSDFirst, StorageIInv, StorageTypes
<1>2. busy.op = "none" /\ boots > 0 BY DEF Running, Quiet, At
<1>3. vdisk[p][d].size \in Nat \cup {Absent} /\ vdisk[p][d].content \in DiskContents
  BY <1>1, FileFields
<1>4. ASSUME faults = 0, ~torn PROVE vdisk[p][d].size > 0 /\ vdisk[p][d].content # "partial"
  <2>1. WholeParts BY <1>4 DEF StorageIInv, WholeButBusy
  <2> QED BY <1>1, <1>2, <2>1 DEF WholeParts
<1> QED BY <1>1, <1>2, <1>3, <1>4

\* A step that fails and changes nothing on the disks.
LEMMA FailedKeeps ==
    ASSUME StorageIInv, Fail(1), BusyHolds',
           UNCHANGED <<managed, mounted, subvol, vdisk, cache, cacheUse, boots>>
    PROVE  StorageIInv'
<1>0. 1 \in Nat /\ 1 # 0 BY SMT
<1>1. Counted /\ faults' # 0 BY <1>0, FailCounts DEF Counted, StorageIInv, StorageTypes
<1>2. \A q, m : Has(q, m)' <=> Has(q, m) BY DEF Has, Absent
<1>3. StorageTypes' BY <1>1 DEF StorageIInv, StorageTypes, Counted, Has, Absent, NoPool
<1>4. Placement' BY <1>1, <1>2, PlacementStays DEF Counted, StorageIInv
<1>5. WholeButBusy' /\ RoomForBusy' BY <1>1 DEF WholeButBusy, RoomForBusy
<1> QED BY <1>3, <1>4, <1>5 DEF StorageIInv

\* DiskCreate gives the new file its size, or removes it.
LEMMA DiskAllocateKeeps ==
    ASSUME StorageIInv, DiskAllocate
    PROVE  StorageIInv'
<1>1. /\ busy.op = "fallocate" /\ busy' = Quiet
      /\ UNCHANGED <<managed, mounted, subvol, cache, cacheUse, torn, grown, boots>>
  BY DEF DiskAllocate
<1>2. PICK p \in Pools, d \in Disks, size \in Nat \ {0} :
        busy.pool = p /\ busy.name = d /\ busy.size = size /\ vdisk[p][d] # NoDisk
  BY <1>1 DEF StorageIInv, BusyHolds
<1>3. size \in Nat /\ size > 0 /\ faults \in Nat
  <2>1. size > 0 BY SMT
  <2> QED BY <2>1 DEF StorageIInv, StorageTypes
<1>4. CASE /\ vdisk' = [vdisk EXCEPT ![busy.pool][busy.name].size = busy.size]
           /\ reported' = reported \cup {busy.name} /\ UNCHANGED faults
  <2>1. PICK v \in FileType :
          v.size = size /\ v.content = vdisk[p][d].content /\ SetFile(p, d, v)
    <3>1. SetFileSize(p, d, size) BY <1>2, <1>4 DEF SetFileSize
    <3> QED BY <1>3, <3>1, SizeFile
  <2>2. Counted BY <1>3, <1>4 DEF Counted
  <2>3. ASSUME faults' = 0, ~torn PROVE v.content # "partial"
    <3>1. WholeParts BY <1>4, <2>3 DEF StorageIInv, WholeButBusy
    <3>2. vdisk[p][d].content = "partial" => busy.op = "copy" BY <3>1 DEF WholeParts
    <3> QED BY <1>1, <2>1, <3>2
  <2>4. faults' = 0 /\ ~grown' =>
          ~grown /\ Reserved(p) + (Positive(v.size) - Positive(vdisk[p][d].size)) <= PoolSize[p]
    <3> SUFFICES ASSUME faults' = 0, ~grown'
                 PROVE  Reserved(p) + (Positive(v.size) - Positive(vdisk[p][d].size)) <= PoolSize[p]
      BY <1>1
    <3>1. vdisk[p][d].size = 0 /\ Reserved(p) + size <= PoolSize[p]
      BY <1>1, <1>2, <1>4 DEF StorageIInv, RoomForBusy
    <3>2. Positive(vdisk[p][d].size) = 0 /\ Positive(v.size) = size
      BY <1>3, <2>1, <3>1, SMT DEF Positive
    <3>3. Reserved(p) \in Nat BY ReservedType DEF StorageIInv
    <3> QED BY <1>3, <3>1, <3>2, <3>3, SMT
  <2>5. Refile(p, d, v) BY <1>1, <1>2, <1>3, <1>4, <2>1, <2>2, <2>3, <2>4 DEF Refile
  <2> QED BY <2>5, RefileKeeps
<1>5. CASE Fail(1) /\ vdisk' = [vdisk EXCEPT ![busy.pool][busy.name] = NoDisk] /\ UNCHANGED reported
  <2>0. 1 \in Nat /\ 1 # 0 BY SMT
  <2>1. Counted /\ faults' # 0 BY <1>3, <1>5, <2>0, FailCounts DEF Counted
  <2>2. NoDisk \in FileType BY DEF NoDisk, FileType, DiskContents
  <2>3. SetFile(p, d, NoDisk) BY <1>2, <1>5 DEF SetFile
  <2>4. Refile(p, d, NoDisk) BY <1>1, <1>2, <2>1, <2>3 DEF Refile
  <2> QED BY <2>2, <2>4, RefileKeeps
<1> QED BY <1>4, <1>5 DEF DiskAllocate

\* DiskResize enlarges the file, and that is noted.
LEMMA DiskResizeKeeps ==
    ASSUME StorageIInv, NEW d \in Disks, NEW size \in LargerSizes, DiskResize(d, size)
    PROVE  StorageIInv'
<1>1. /\ Running /\ grown' = TRUE
      /\ UNCHANGED <<managed, mounted, subvol, cache, cacheUse, busy, reported, torn, faults, boots>>
  BY DEF DiskResize
<1>2. PICK p \in DiskHomes(d) : SetFileSize(p, d, size) BY DEF DiskResize, SetFileSize
<1>3. /\ p \in Pools /\ vdisk[p][d] # NoDisk /\ busy.op = "none" /\ boots > 0
      /\ faults = 0 /\ ~torn => vdisk[p][d].size > 0 /\ vdisk[p][d].content # "partial"
  BY <1>1, DiskFound
<1>4. size \in Nat /\ size > 0
  <2>1. size \in Nat \ {0} BY StoragedAssumption
  <2> QED BY <2>1, SMT
<1>5. PICK v \in FileType :
        v.size = size /\ v.content = vdisk[p][d].content /\ SetFile(p, d, v)
  BY <1>2, <1>3, <1>4, SizeFile
<1>6. Counted /\ busy' = Quiet BY <1>1 DEF Counted, Running, StorageIInv, StorageTypes
<1>7. Refile(p, d, v) BY <1>1, <1>3, <1>4, <1>5, <1>6 DEF Refile
<1> QED BY <1>3, <1>7, RefileKeeps

\* DiskDelete removes the file.
LEMMA DiskDeleteKeeps ==
    ASSUME StorageIInv, NEW d \in Disks, DiskDelete(d)
    PROVE  StorageIInv'
<1>1. /\ Running /\ reported' = reported \ {d}
      /\ UNCHANGED <<managed, mounted, subvol, cache, cacheUse, busy, torn, grown, faults, boots>>
  BY DEF DiskDelete
<1>2. PICK p \in DiskHomes(d) : SetFile(p, d, NoDisk) BY DEF DiskDelete, SetFile
<1>3. p \in Pools /\ vdisk[p][d] # NoDisk /\ busy.op = "none" BY <1>1, DiskFound
<1>4. NoDisk \in FileType /\ NoDisk.size = Absent
  BY DEF NoDisk, FileType, DiskContents
<1>5. Counted /\ busy' = Quiet BY <1>1 DEF Counted, Running, StorageIInv, StorageTypes
<1>6. faults' = 0 /\ ~grown' =>
        ~grown /\ Reserved(p) + (Positive(NoDisk.size) - Positive(vdisk[p][d].size)) <= PoolSize[p]
  BY <1>1, <1>3, <1>4, FileRoom
<1>7. Refile(p, d, NoDisk) BY <1>1, <1>2, <1>3, <1>5, <1>6 DEF Refile
<1> QED BY <1>3, <1>4, <1>7, RefileKeeps

\* DiskFormat and DiskWrite fill the file without changing its size.
LEMMA DiskFilledKeeps ==
    ASSUME StorageIInv, NEW d \in Disks, DiskFormat(d) \/ DiskWrite(d)
    PROVE  StorageIInv'
<1>1. /\ Running
      /\ UNCHANGED <<managed, mounted, subvol, cache, cacheUse, reported, torn, grown, faults, boots>>
  BY DEF DiskFormat, DiskWrite
<1>2. PICK p \in DiskHomes(d), c \in DiskContents :
        /\ SetContent(p, d, c)
        /\ \/ busy' = busy /\ c = "whole"
           \/ busy' = [op |-> "copy", name |-> d, size |-> 0, pool |-> p] /\ c = "partial"
  <2>1. "whole" \in DiskContents /\ "partial" \in DiskContents BY DEF DiskContents
  <2> QED BY <2>1 DEF DiskFormat, DiskWrite, SetContent
<1>3. /\ p \in Pools /\ vdisk[p][d] # NoDisk /\ busy.op = "none" /\ boots > 0
      /\ faults = 0 /\ ~torn => vdisk[p][d].size > 0 /\ vdisk[p][d].content # "partial"
  BY <1>1, DiskFound
<1>4. PICK v \in FileType :
        v.content = c /\ v.size = vdisk[p][d].size /\ SetFile(p, d, v)
  BY <1>2, <1>3, ContentFile
<1>5. Counted BY <1>1 DEF Counted, StorageIInv, StorageTypes
<1>6. faults' = 0 /\ ~grown' =>
        ~grown /\ Reserved(p) + (Positive(v.size) - Positive(vdisk[p][d].size)) <= PoolSize[p]
  <2>1. v.size \in Nat \cup {Absent} BY DEF FileType
  <2> QED BY <1>1, <1>3, <1>4, <2>1, FileRoom
<1>7. v # NoDisk
  <2>1. v.content # "none" BY <1>2, <1>4
  <2>2. NoDisk.content = "none" BY DEF NoDisk
  <2> QED BY <2>1, <2>2
<1>8. \/ busy' = Quiet /\ v.content # "partial"
      \/ busy' = [op |-> "copy", name |-> d, size |-> 0, pool |-> p]
  BY <1>1, <1>2, <1>4 DEF Running
<1>9. busy' = [op |-> "copy", name |-> d, size |-> 0, pool |-> p] => busy'.op = "copy"
  <2>1. [op |-> "copy", name |-> d, size |-> 0, pool |-> p].op = "copy" OBVIOUS
  <2> QED BY <2>1
<1>10. Refile(p, d, v) BY <1>1, <1>3, <1>4, <1>5, <1>6, <1>7, <1>8, <1>9 DEF Refile
<1> QED BY <1>3, <1>10, RefileKeeps

\* The image is on the disk.
LEMMA DiskWrittenKeeps ==
    ASSUME StorageIInv, DiskWritten
    PROVE  StorageIInv'
<1>1. /\ busy.op = "copy" /\ busy' = Quiet
      /\ UNCHANGED <<managed, mounted, subvol, cache, cacheUse, reported, torn, grown, boots>>
  BY DEF DiskWritten
<1>2. PICK p \in Pools, d \in Disks : busy.pool = p /\ busy.name = d /\ vdisk[p][d] # NoDisk
  BY <1>1 DEF StorageIInv, BusyHolds
<1>3. CASE vdisk' = [vdisk EXCEPT ![busy.pool][busy.name].content = "whole"] /\ UNCHANGED faults
  <2>1. PICK v \in FileType :
          v.content = "whole" /\ v.size = vdisk[p][d].size /\ SetFile(p, d, v)
    <3>1. "whole" \in DiskContents BY DEF DiskContents
    <3>2. SetContent(p, d, "whole") BY <1>2, <1>3 DEF SetContent
    <3> QED BY <3>1, <3>2, ContentFile
  <2>2. Counted BY <1>3 DEF Counted, StorageIInv, StorageTypes
  <2>3. faults' = 0 /\ ~grown' =>
          ~grown /\ Reserved(p) + (Positive(v.size) - Positive(vdisk[p][d].size)) <= PoolSize[p]
    <3>1. v.size \in Nat \cup {Absent} BY DEF FileType
    <3> QED BY <1>1, <1>3, <2>1, <3>1, FileRoom
  <2>4. ASSUME faults' = 0, ~torn PROVE v.size > 0
    <3>1. WholeParts BY <1>3, <2>4 DEF StorageIInv, WholeButBusy
    <3>2. vdisk[p][d].size > 0 \/ busy.op = "fallocate" BY <1>2, <3>1, ZenonT(30) DEF WholeParts
    <3> QED BY <1>1, <2>1, <3>2
  <2>5. Refile(p, d, v) BY <1>1, <1>2, <1>3, <2>1, <2>2, <2>3, <2>4 DEF Refile
  <2> QED BY <2>5, RefileKeeps
<1>4. CASE Fail(1) /\ UNCHANGED vdisk
  <2>1. BusyHolds' BY <1>1, BusyRests
  <2> QED BY <1>1, <1>4, <2>1, FailedKeeps
<1> QED BY <1>3, <1>4 DEF DiskWritten

\* A disk that exists is whole when no call is under way.
LEMMA DiskExistsKeeps ==
    ASSUME StorageIInv, NEW d \in Disks, DiskExists(d)
    PROVE  StorageIInv'
<1>1. /\ Running /\ reported' = reported \cup {d}
      /\ UNCHANGED <<managed, mounted, subvol, vdisk, cache, cacheUse, busy, torn, grown, faults, boots>>
  BY DEF DiskExists
<1>2. PICK p \in DiskHomes(d) : TRUE BY DEF DiskExists
<1>3. p \in Pools /\ (faults = 0 /\ ~torn => vdisk[p][d].size > 0) BY <1>1, DiskFound
<1>4. d \notin Volumes BY StorageConstants
<1> QED BY <1>1, <1>3, <1>4, ReportsKeep
-----------------------------------------------------------------------------
\* A step that creates nothing and unmounts only pools that are empty.
LEMMA PlacementShrinks ==
    ASSUME StorageTypes, Placement, faults' = 0 => faults = 0, UNCHANGED <<managed, boots, vdisk>>,
           \A q \in Pools, m \in Names : Has(q, m)' => Has(q, m),
           \A q \in Pools : Has(q, VDiskVolume) => Has(q, VDiskVolume)',
           \A q \in managed \ mounted' : VolumesOf(q)' = {}
    PROVE  Placement'
<1>1. UnmountedIsEmpty' BY DEF UnmountedIsEmpty
<1>2. Looked \subseteq Names BY StorageConstants
<1>3. OneHome'
  <2> SUFFICES ASSUME faults' = 0
               PROVE  /\ \A m \in Looked : \A p, q \in Pools : Has(p, m)' /\ Has(q, m)' => p = q
                      /\ \A e \in Disks : \A p, q \in Pools :
                           vdisk'[p][e] # NoDisk /\ vdisk'[q][e] # NoDisk => p = q
    BY DEF OneHome, Looked, NoDisk, Absent
  <2>1. /\ \A m \in Looked : \A p, q \in Pools : Has(p, m) /\ Has(q, m) => p = q
        /\ \A e \in Disks : \A p, q \in Pools : vdisk[p][e] # NoDisk /\ vdisk[q][e] # NoDisk => p = q
    BY DEF Placement, OneHome, Looked
  <2> QED BY <1>2, <2>1
<1>4. SeenByLookups'
  <2> SUFFICES ASSUME faults' = 0
               PROVE  /\ boots > 0 => managed = Pools
                      /\ \A p \in Pools : VolumesOf(p)' # {} => boots > 0
                      /\ \A p \in Pools, m \in Looked : Has(p, m)' => p \in Usable
                      /\ \A p \in Pools, e \in Disks :
                           vdisk'[p][e] # NoDisk => Has(p, VDiskVolume)' /\ p \in Usable
    BY DEF SeenByLookups, NoDisk, Absent
  <2>1. /\ boots > 0 => managed = Pools
        /\ \A p \in Pools : VolumesOf(p) # {} => boots > 0
        /\ \A p \in Pools, m \in Looked : Has(p, m) => p \in Usable
        /\ \A p \in Pools, e \in Disks : vdisk[p][e] # NoDisk => Has(p, VDiskVolume) /\ p \in Usable
    BY DEF Placement, SeenByLookups
  <2>2. \A p \in Pools : VolumesOf(p)' # {} => VolumesOf(p) # {} BY DEF VolumesOf
  <2> QED BY <1>2, <2>1, <2>2
<1> QED BY <1>1, <1>3, <1>4 DEF Placement

\* A step that creates or removes one subvolume.
SetSubvol(p, n, k) == subvol' = [subvol EXCEPT ![p][n] = k]

\* What it changes.
LEMMA SubvolChanges ==
    ASSUME StorageTypes, NEW p \in Pools, NEW n \in Names, NEW k \in {0, Absent}, SetSubvol(p, n, k)
    PROVE  /\ subvol' \in [Pools -> [Names -> Nat \cup {Absent}]]
           /\ \A q \in Pools, m \in Names : q # p \/ m # n => subvol'[q][m] = subvol[q][m]
           /\ subvol'[p][n] = k
           /\ \A q \in Pools, m \in Names : q # p \/ m # n => (Has(q, m)' <=> Has(q, m))
           /\ Has(p, n)' <=> k = 0
           /\ \A q \in Pools, m \in Names : Quotas(q)'[m] <= Quotas(q)[m]
<1>0. subvol' = [subvol EXCEPT ![p][n] = k] BY DEF SetSubvol
<1>1. subvol \in [Pools -> [Names -> Nat \cup {Absent}]] BY DEF StorageTypes
<1>2. k \in Nat \cup {Absent} /\ (k # Absent <=> k = 0) BY SMT DEF Absent
<1>3. subvol' \in [Pools -> [Names -> Nat \cup {Absent}]] BY <1>0, <1>1, <1>2, SMT
<1>4. \A q \in Pools, m \in Names : q # p \/ m # n => subvol'[q][m] = subvol[q][m] BY <1>0, <1>1, SMT
<1>5. subvol'[p][n] = k BY <1>0, <1>1, SMT
<1>6. \A q \in Pools, m \in Names : q # p \/ m # n => (Has(q, m)' <=> Has(q, m))
  BY <1>4 DEF Has, Absent
<1>7. Has(p, n)' <=> k = 0 BY <1>2, <1>5 DEF Has, Absent
<1>8. ASSUME NEW q \in Pools, NEW m \in Names PROVE Quotas(q)'[m] <= Quotas(q)[m]
  <2>1. Quotas(q)[m] = Positive(subvol[q][m]) /\ Quotas(q)'[m] = Positive(subvol'[q][m])
    BY DEF Quotas, Positive
  <2>2. Positive(subvol[q][m]) \in Nat
    <3>1. subvol[q][m] \in Nat \cup {Absent} BY <1>1
    <3> QED BY <3>1, SMT DEF Positive, Absent
  <2>3. CASE q = p /\ m = n
    <3>1. Positive(subvol'[q][m]) = 0 BY <1>5, <2>3, SMT DEF Positive, Absent
    <3> QED BY <2>1, <2>2, <3>1, SMT
  <2>4. CASE q # p \/ m # n
    <3>1. subvol'[q][m] = subvol[q][m] BY <1>4, <2>4
    <3> QED BY <2>1, <2>2, <3>1, SMT
  <2> QED BY <2>3, <2>4
<1> QED BY <1>3, <1>4, <1>5, <1>6, <1>7, <1>8

\* Files that stay do not grow.
LEMMA FilesStay ==
    ASSUME StorageTypes, vdisk' = vdisk, NEW q \in Pools
    PROVE  \A d \in Disks : Files(q)'[d] <= Files(q)[d]
<1>1. Files(q)' = Files(q) BY DEF Files, Positive
<1>2. \A d \in Disks : Files(q)[d] \in Nat BY ReservedType
<1>3. \A x \in Nat : x <= x BY SMT
<1> QED BY <1>1, <1>2, <1>3

\* VolumeDelete removes a volume and, with its last one, unmounts the pool.
LEMMA VolumeDeleteKeeps ==
    ASSUME StorageIInv, NEW n \in Volumes, VolumeDelete(n)
    PROVE  StorageIInv'
<1>0. StorageTypes /\ Placement /\ BusyHolds /\ WholeButBusy /\ RoomForBusy BY DEF StorageIInv
<1>1. /\ busy = Quiet /\ reported' = reported \ {n}
      /\ UNCHANGED <<managed, vdisk, cache, cacheUse, busy, torn, grown, boots>>
  BY DEF VolumeDelete, Running
<1>2. PICK p \in Homes(n) :
        /\ SetSubvol(p, n, Absent)
        /\ IF VolumesOf(p) = {n}
           THEN \/ /\ mounted' = mounted \ {p}
                   /\ \/ spinning' = spinning \ {p} /\ UNCHANGED faults
                      \/ Fail(1) /\ UNCHANGED spinning
                \/ Fail(1) /\ UNCHANGED <<mounted, spinning>>
           ELSE UNCHANGED <<mounted, spinning, faults>>
  BY DEF VolumeDelete, SetSubvol
<1>3. /\ p \in Pools /\ n \in Names /\ n # CacheLabel /\ n # VDiskVolume /\ n \notin Disks
      /\ CacheLabel \in Names /\ VDiskVolume \in Names
  BY <1>0, StorageConstants DEF Homes, SSDFirst, StorageTypes, Names, Looked
<1>4. /\ subvol' \in [Pools -> [Names -> Nat \cup {Absent}]]
      /\ \A q \in Pools, m \in Names : q # p \/ m # n => subvol'[q][m] = subvol[q][m]
      /\ \A q \in Pools, m \in Names : q # p \/ m # n => (Has(q, m)' <=> Has(q, m))
      /\ \A q \in Pools, m \in Names : Quotas(q)'[m] <= Quotas(q)[m]
  BY <1>0, <1>2, <1>3, SubvolChanges
<1>5. ~Has(p, n)'
  <2>1. subvol'[p][n] = Absent BY <1>0, <1>2, <1>3, SubvolChanges
  <2> QED BY <2>1 DEF Has, Absent
<1>6. Counted
  <2>1. 1 \in Nat /\ faults \in Nat BY <1>0, SMT DEF StorageTypes
  <2>2. faults' = faults \/ Fail(1) BY <1>2
  <2> QED BY <2>1, <2>2, FailCounts DEF Counted
<1>7. mounted' = mounted \/ (mounted' = mounted \ {p} /\ VolumesOf(p) = {n}) BY <1>2
<1>8. StorageTypes'
  <2>1. cache' # NoPool => Has(cache, CacheLabel)'
    <3>1. ASSUME cache # NoPool PROVE Has(cache, CacheLabel)'
      <4>1. PICK c \in Pools : c = cache /\ Has(c, CacheLabel) BY <1>0, <3>1 DEF StorageTypes
      <4>2. Has(c, CacheLabel)' BY <1>3, <1>4, <4>1
      <4> QED BY <1>1, <4>1, <4>2 DEF Has, Absent
    <3> QED BY <1>1, <3>1
  <2>2. mounted' \subseteq Pools BY <1>0, <1>7 DEF StorageTypes
  <2> QED BY <1>0, <1>1, <1>4, <1>6, <2>1, <2>2 DEF StorageTypes, Counted, Absent, NoPool
<1>9. \A q \in Pools, m \in Names : Has(q, m)' => Has(q, m) BY <1>4, <1>5
<1>10. Placement'
  <2>1. \A q \in Pools : Has(q, VDiskVolume) => Has(q, VDiskVolume)' BY <1>3, <1>4
  <2>2. ASSUME NEW q \in managed \ mounted' PROVE VolumesOf(q)' = {}
    <3>0. q \in Pools BY <1>0 DEF StorageTypes
    <3>1. CASE q \notin mounted
      <4>1. VolumesOf(q) = {} BY <1>0, <3>1 DEF Placement, UnmountedIsEmpty
      <4> QED BY <1>9, <3>0, <4>1 DEF VolumesOf
    <3>2. CASE q = p /\ VolumesOf(p) = {n}
      <4>1. \A m \in Names : Has(p, m) => m = n BY <3>2 DEF VolumesOf
      <4> QED BY <1>5, <1>9, <3>0, <3>2, <4>1 DEF VolumesOf
    <3> QED BY <1>7, <3>1, <3>2
  <2> QED BY <1>0, <1>1, <1>6, <1>9, <2>1, <2>2, PlacementShrinks DEF Counted
<1>11. BusyHolds' /\ busy'.op \notin {"limit", "fallocate", "copy"} BY <1>1, BusyRests
<1>12. WholeButBusy'
  <2> SUFFICES ASSUME faults' = 0, ~torn' PROVE WholeParts' BY DEF WholeButBusy
  <2>1. WholeParts BY <1>0, <1>1, <1>6 DEF WholeButBusy, Counted
  <2>2. busy.op \notin {"limit", "fallocate", "copy"} BY <1>1 DEF Quiet, At
  <2>3. ASSUME NEW q \in Pools, NEW m \in Volumes, Has(q, m)' PROVE subvol'[q][m] > 0
    <3>1. m \in Names BY DEF Names
    <3>2. Has(q, m) /\ (q # p \/ m # n) BY <1>5, <1>9, <2>3, <3>1
    <3>3. subvol[q][m] > 0 BY <2>1, <2>2, <3>2 DEF WholeParts
    <3> QED BY <1>4, <3>1, <3>2, <3>3
  <2>4. ASSUME NEW m \in reported' \cap Volumes PROVE \E q \in Pools : subvol'[q][m] > 0
    <3>1. m \in reported \cap Volumes /\ m # n /\ m \in Names BY <1>1 DEF Names
    <3>2. PICK q \in Pools : subvol[q][m] > 0 BY <2>1, <3>1 DEF WholeParts
    <3> QED BY <1>4, <3>1, <3>2
  <2>5. \A d \in reported' \cap Disks : \E q \in Pools : vdisk'[q][d].size > 0
    BY <1>1, <2>1 DEF WholeParts
  <2>6. /\ \A q \in Pools, d \in Disks : vdisk'[q][d] # NoDisk => vdisk'[q][d].size > 0
        /\ \A q \in Pools, d \in Disks : vdisk'[q][d].content # "partial"
    BY <1>1, <2>1, <2>2 DEF WholeParts
  <2> QED BY <2>3, <2>4, <2>5, <2>6 DEF WholeParts, NoDisk, Absent
<1>13. RoomForBusy'
  <2> SUFFICES ASSUME faults' = 0, ~grown' PROVE \A q \in Pools : Reserved(q)' <= PoolSize[q]
    BY <1>11 DEF RoomForBusy
  <2>1. ASSUME NEW q \in Pools PROVE Reserved(q)' <= PoolSize[q]
    <3>1. Reserved(q) <= PoolSize[q] BY <1>0, <1>1, <1>6 DEF RoomForBusy, Counted
    <3>2. Reserved(q) \in Nat /\ Reserved(q)' \in Nat /\ PoolSize[q] \in Nat
      BY <1>0, <1>8, ReservedType, ReservedTypeNext, StorageConstants
    <3>3. \A d \in Disks : Files(q)'[d] <= Files(q)[d] BY <1>0, <1>1, FilesStay
    <3>4. Reserved(q)' <= Reserved(q) BY <1>0, <1>4, <1>8, <3>3, ReservedShrinks
    <3> QED BY <3>1, <3>2, <3>4, SMT
  <2> QED BY <2>1
<1> QED BY <1>8, <1>10, <1>11, <1>12, <1>13 DEF StorageIInv

\* The last step of a start unmounts the pools that are empty.
LEMMA ShutdownUnusedPoolsKeeps ==
    ASSUME StorageIInv, ShutdownUnusedPools
    PROVE  StorageIInv'
<1>0. StorageTypes /\ Placement /\ BusyHolds /\ WholeButBusy /\ RoomForBusy BY DEF StorageIInv
<1>1. /\ busy.op = "shutdownUnused" /\ busy' = Quiet
      /\ UNCHANGED <<managed, subvol, vdisk, cache, cacheUse, reported, torn, grown, boots>>
  BY DEF ShutdownUnusedPools
<1> DEFINE unused == {p \in managed \cap mounted : VolumesOf(p) = {}}
<1>2. PICK left, awake : /\ left \in SUBSET unused /\ awake \in SUBSET (unused \ left)
                         /\ Fail((IF left = {} THEN 0 ELSE 1) + Cardinality(awake))
                         /\ mounted' = mounted \ (unused \ left)
  BY DEF ShutdownUnusedPools
<1>3. Counted
  <2>1. awake \in SUBSET Pools BY <1>0, <1>2 DEF StorageTypes
  <2>2. Cardinality(awake) \in Nat BY <2>1, NoneFailed
  <2>3. (IF left = {} THEN 0 ELSE 1) + Cardinality(awake) \in Nat BY <2>2, SMT
  <2> QED BY <1>0, <1>2, <2>3, FailCounts DEF Counted, StorageTypes
<1>4. \A q, m : Has(q, m)' <=> Has(q, m) BY <1>1 DEF Has, Absent
<1>5. \A q : VolumesOf(q)' = VolumesOf(q) BY <1>1 DEF VolumesOf, Has, Absent
<1>6. StorageTypes' BY <1>0, <1>1, <1>2, <1>3 DEF StorageTypes, Counted, Has, Absent, NoPool
<1>7. Placement'
  <2>1. ASSUME NEW q \in managed \ mounted' PROVE VolumesOf(q)' = {}
    <3>1. VolumesOf(q) = {} BY <1>0, <1>2 DEF Placement, UnmountedIsEmpty
    <3> QED BY <1>5, <3>1
  <2> QED BY <1>0, <1>1, <1>3, <1>4, <2>1, PlacementShrinks DEF Counted
<1>8. BusyHolds' /\ busy'.op \notin {"limit", "fallocate", "copy"} BY <1>1, BusyRests
<1>9. busy.op \notin {"limit", "fallocate", "copy"} BY <1>1
<1>10. WholeButBusy'
  BY <1>0, <1>1, <1>3, <1>9 DEF WholeButBusy, WholeParts, Has, Absent, NoDisk, Counted
<1>11. \A p \in Pools : Reserved(p)' = Reserved(p) BY <1>1 DEF Reserved, Quotas, Files, Positive
<1>12. RoomForBusy' BY <1>0, <1>1, <1>3, <1>8, <1>11 DEF RoomForBusy, Counted
<1> QED BY <1>6, <1>7, <1>8, <1>10, <1>12 DEF StorageIInv

\* A start mounts all pools; without faults it manages them all.
LEMMA BootKeeps ==
    ASSUME StorageIInv, Boot
    PROVE  StorageIInv'
<1>0. StorageTypes /\ Placement /\ BusyHolds /\ WholeButBusy /\ RoomForBusy BY DEF StorageIInv
<1>1. /\ boots' = boots + 1 /\ mounted' = mounted \cup managed' /\ torn' = (torn \/ busy # Quiet)
      /\ cache' = NoPool /\ busy' = At("ensureCache")
      /\ UNCHANGED <<subvol, vdisk, cacheUse, reported, grown>>
  BY DEF Boot
<1>2. PICK broken \in SUBSET Pools : Fail(Cardinality(broken)) /\ managed' = Pools \ broken
  BY DEF Boot
<1>3. Counted /\ (faults' = 0 => broken = {})
  <2>1. Cardinality(broken) \in Nat /\ (Cardinality(broken) = 0 => broken = {}) BY NoneFailed
  <2> QED BY <1>0, <1>2, <2>1, FailCounts DEF Counted, StorageTypes
<1>4. boots' \in Nat /\ boots' > 0
  <2>1. boots \in Nat BY <1>0 DEF StorageTypes
  <2> QED BY <1>1, <2>1, SMT
<1>5. StorageTypes'
  BY <1>0, <1>1, <1>2, <1>3, <1>4 DEF StorageTypes, Counted, Absent, NoPool
<1>6. BusyHolds' /\ busy'.op \notin {"limit", "fallocate", "copy"}
  <2>1. busy'.op = "ensureCache" BY <1>1 DEF At
  <2> QED BY <1>1, <1>4, <2>1 DEF BusyHolds, NoPool
<1>7. Placement'
  <2>1. UnmountedIsEmpty' BY <1>1 DEF UnmountedIsEmpty
  <2>2. OneHome' BY <1>0, <1>1, <1>3 DEF OneHome, Placement, Has, Absent, NoDisk, Counted
  <2>3. SeenByLookups'
    <3>1. faults' = 0 => managed' = Pools BY <1>2, <1>3
    <3> QED BY <1>0, <1>1, <1>3, <1>4, <3>1
        DEF SeenByLookups, Placement, Has, Absent, NoDisk, Counted
  <2> QED BY <2>1, <2>2, <2>3 DEF Placement
<1>8. WholeButBusy'
  <2>1. ASSUME faults' = 0, ~torn' PROVE WholeParts'
    <3>1. WholeParts /\ busy = Quiet BY <1>0, <1>1, <1>3, <2>1 DEF WholeButBusy, Counted
    <3>2. busy.op \notin {"limit", "fallocate", "copy"} BY <3>1 DEF Quiet, At
    <3> QED BY <1>1, <3>1, <3>2 DEF WholeParts, Has, Absent, NoDisk
  <2> QED BY <2>1 DEF WholeButBusy
<1>9. \A p \in Pools : Reserved(p)' = Reserved(p) BY <1>1 DEF Reserved, Quotas, Files, Positive
<1>10. RoomForBusy' BY <1>0, <1>1, <1>3, <1>6, <1>9 DEF RoomForBusy, Counted
<1> QED BY <1>5, <1>6, <1>7, <1>8, <1>10 DEF StorageIInv

\* What a pool keeps free, a step that reserves nothing leaves free.
LEMMA RoomLeft ==
    ASSUME StorageTypes, StorageTypes', NEW q \in Pools, NEW k \in Nat, Reserved(q) + k <= PoolSize[q],
           \A m \in Names : Quotas(q)'[m] <= Quotas(q)[m],
           \A d \in Disks : Files(q)'[d] <= Files(q)[d]
    PROVE  Reserved(q)' <= PoolSize[q] /\ Reserved(q)' + k <= PoolSize[q]
<1>1. Reserved(q) \in Nat /\ Reserved(q)' \in Nat /\ PoolSize[q] \in Nat
  BY ReservedType, ReservedTypeNext, StorageConstants
<1>2. Reserved(q)' <= Reserved(q) BY ReservedShrinks
<1> QED BY <1>1, <1>2, SMT

\* A step that creates a subvolume keeps the types.
LEMMA MadeTypes ==
    ASSUME StorageTypes, NEW p \in Pools, NEW n \in Names, n # CacheLabel, SetSubvol(p, n, 0),
           vdisk' \in [Pools -> [Disks -> FileType]], Counted, mounted' \subseteq Pools,
           UNCHANGED <<managed, cache, cacheUse, boots>>
    PROVE  /\ StorageTypes'
           /\ \A q \in Pools, m \in Names : Has(q, m)' <=> Has(q, m) \/ (q \in {p} /\ m = n)
<1>1. /\ subvol' \in [Pools -> [Names -> Nat \cup {Absent}]]
      /\ \A q \in Pools, m \in Names : q # p \/ m # n => (Has(q, m)' <=> Has(q, m))
      /\ Has(p, n)'
  BY SubvolChanges
<1>2. CacheLabel \in Names BY DEF Names
<1>3. ASSUME cache # NoPool PROVE Has(cache, CacheLabel)'
  <2>1. PICK c \in Pools : c = cache /\ Has(c, CacheLabel) BY <1>3 DEF StorageTypes
  <2>2. Has(c, CacheLabel)' BY <1>1, <1>2, <2>1
  <2> QED BY <2>1, <2>2 DEF Has, Absent
<1>4. StorageTypes'
  BY <1>1, <1>3 DEF StorageTypes, FileType, DiskContents, Counted, Absent, NoPool
<1> QED BY <1>1, <1>4

\* DeviceAllocate puts a zdb volume on a pool without one.
LEMMA DeviceAllocateKeeps ==
    ASSUME StorageIInv, NEW min, DeviceAllocate(min)
    PROVE  StorageIInv'
<1>0. StorageTypes /\ Placement /\ BusyHolds /\ WholeButBusy /\ RoomForBusy BY DEF StorageIInv
<1>1. /\ busy = Quiet /\ boots > 0
      /\ UNCHANGED <<managed, vdisk, cache, cacheUse, busy, reported, torn, grown, boots>>
  BY DEF DeviceAllocate, Running
<1>2. PICK tried, broken, large :
        /\ tried \in SUBSET (managed \cap Hdds) /\ broken \in SUBSET tried /\ large \in SUBSET tried
        /\ Fail(Cardinality(broken)) /\ Mount(large)
        /\ \/ UNCHANGED subvol
           \/ \E p \in large : SetSubvol(p, ZdbVolume, 0)
  <2>1. PICK tried \in SUBSET (managed \cap Hdds) : \E broken \in SUBSET tried :
          LET large == {p \in tried : min <= PoolSize[p]}
              usable == {p \in large \ broken : ~Has(p, ZdbVolume) /\ Fits(p, min)}
          IN  /\ Fail(Cardinality(broken))
              /\ Mount(large)
              /\ \/ UNCHANGED subvol
                 \/ \E p \in Pools : usable = {p} /\ SetSubvol(p, ZdbVolume, 0)
    BY DEF DeviceAllocate, SetSubvol
  <2>2. PICK broken \in SUBSET tried :
          LET large == {p \in tried : min <= PoolSize[p]}
              usable == {p \in large \ broken : ~Has(p, ZdbVolume) /\ Fits(p, min)}
          IN  /\ Fail(Cardinality(broken))
              /\ Mount(large)
              /\ \/ UNCHANGED subvol
                 \/ \E p \in Pools : usable = {p} /\ SetSubvol(p, ZdbVolume, 0)
    BY <2>1
  <2> DEFINE large == {p \in tried : min <= PoolSize[p]}
  <2>3. \/ UNCHANGED subvol
        \/ \E p \in large : SetSubvol(p, ZdbVolume, 0)
    <3>1. \A p : {q \in large \ broken : ~Has(q, ZdbVolume) /\ Fits(q, min)} = {p} => p \in large
      OBVIOUS
    <3> QED BY <2>2, <3>1
  <2>4. large \in SUBSET tried OBVIOUS
  <2> QED BY <2>2, <2>3, <2>4
<1>3. large \subseteq Pools /\ mounted' = mounted \cup large /\ mounted \subseteq Pools
  BY <1>0, <1>2 DEF Mount, StorageTypes
<1>4. mounted \subseteq mounted' /\ mounted' \subseteq Pools BY <1>3
<1>5. Counted
  <2>1. broken \in SUBSET Pools BY <1>0, <1>2 DEF StorageTypes
  <2> QED BY <1>0, <1>2, <2>1, NoneFailed, FailCounts DEF Counted, StorageTypes
<1>6. cacheUse' \in Nat BY <1>0, <1>1 DEF StorageTypes
<1>7. CASE UNCHANGED subvol
  BY <1>1, <1>4, <1>5, <1>6, <1>7, MountsKeep
<1>8. ASSUME NEW p \in large, SetSubvol(p, ZdbVolume, 0) PROVE StorageIInv'
  <2>1. p \in Pools /\ p \in mounted' BY <1>3
  <2>2. /\ ZdbVolume \in Names /\ ZdbVolume \notin Looked /\ ZdbVolume \notin Volumes
        /\ CacheLabel \in Names /\ ZdbVolume # CacheLabel
    BY StorageConstants DEF Looked, Names
  <2>3. /\ subvol' \in [Pools -> [Names -> Nat \cup {Absent}]]
        /\ \A q \in Pools, m \in Names : q # p \/ m # ZdbVolume => subvol'[q][m] = subvol[q][m]
        /\ \A q \in Pools, m \in Names : q # p \/ m # ZdbVolume => (Has(q, m)' <=> Has(q, m))
        /\ Has(p, ZdbVolume)'
        /\ \A q \in Pools, m \in Names : Quotas(q)'[m] <= Quotas(q)[m]
    BY <1>0, <1>8, <2>1, <2>2, SubvolChanges
  <2>4. /\ StorageTypes'
        /\ \A q \in Pools, m \in Names : Has(q, m)' <=> Has(q, m) \/ (q \in {p} /\ m = ZdbVolume)
    <3>1. vdisk' \in [Pools -> [Disks -> FileType]] BY <1>0, <1>1 DEF StorageTypes, FileType
    <3> QED BY <1>0, <1>1, <1>4, <1>5, <1>8, <2>1, <2>2, <3>1, MadeTypes
  <2>5. Placement'
    <3>1. Creates(ZdbVolume, {p}, 0, {})
      BY <1>1, <1>4, <1>5, <2>1, <2>2, <2>4 DEF Creates, Counted
    <3> QED BY <1>0, <2>2, <3>1, PlacementGrows
  <2>6. BusyHolds' /\ busy'.op \notin {"limit", "fallocate", "copy"} BY <1>1, BusyRests
  <2>7. WholeButBusy'
    <3> SUFFICES ASSUME faults' = 0, ~torn' PROVE WholeParts' BY DEF WholeButBusy
    <3>1. WholeParts BY <1>0, <1>1, <1>5 DEF WholeButBusy, Counted
    <3>2. \A q \in Pools, m \in Volumes :
            subvol'[q][m] = subvol[q][m] /\ (Has(q, m)' <=> Has(q, m))
      BY <2>2, <2>3 DEF Names
    <3>3. ASSUME NEW m \in reported \cap Volumes PROVE \E q \in Pools : subvol'[q][m] > 0
      <4>1. \E q \in Pools : subvol[q][m] > 0 BY <3>1 DEF WholeParts
      <4> QED BY <3>2, <4>1
    <3>4. \A q \in Pools, m \in Volumes :
            Has(q, m)' => subvol'[q][m] > 0 \/ (busy.op = "limit" /\ busy.pool = q /\ busy.name = m)
      BY <3>1, <3>2 DEF WholeParts
    <3>5. /\ \A q \in Pools, d \in Disks :
               vdisk[q][d] # NoDisk => \/ vdisk[q][d].size > 0
                                       \/ busy.op = "fallocate" /\ busy.pool = q /\ busy.name = d
          /\ \A q \in Pools, d \in Disks :
               vdisk[q][d].content = "partial" => busy.op = "copy" /\ busy.pool = q /\ busy.name = d
          /\ \A d \in reported \cap Disks : \E q \in Pools : vdisk[q][d].size > 0
      BY <3>1 DEF WholeParts
    <3> QED BY <1>1, <3>3, <3>4, <3>5, ZenonT(30) DEF WholeParts, NoDisk, Absent
  <2>8. RoomForBusy'
    <3> SUFFICES ASSUME faults' = 0, ~grown' PROVE \A q \in Pools : Reserved(q)' <= PoolSize[q]
      BY <2>6 DEF RoomForBusy
    <3>1. ASSUME NEW q \in Pools PROVE Reserved(q)' <= PoolSize[q]
      <4>1. Reserved(q) <= PoolSize[q] BY <1>0, <1>1, <1>5 DEF RoomForBusy, Counted
      <4>2. 0 \in Nat /\ Reserved(q) + 0 <= PoolSize[q]
        <5>1. Reserved(q) \in Nat BY <1>0, ReservedType
        <5> QED BY <4>1, <5>1, SMT
      <4>3. \A d \in Disks : Files(q)'[d] <= Files(q)[d] BY <1>0, <1>1, FilesStay
      <4>4. \A m \in Names : Quotas(q)'[m] <= Quotas(q)[m] BY <2>3
      <4> QED BY <1>0, <2>4, <4>2, <4>3, <4>4, RoomLeft
    <3> QED BY <3>1
  <2> QED BY <2>4, <2>5, <2>6, <2>7, <2>8 DEF StorageIInv
<1> QED BY <1>2, <1>7, <1>8

\* What the file of one disk changes.
LEMMA FileSet ==
    ASSUME StorageTypes, NEW p \in Pools, NEW d \in Disks, NEW v \in FileType, SetFile(p, d, v)
    PROVE  /\ vdisk' \in [Pools -> [Disks -> FileType]] /\ vdisk'[p][d] = v
           /\ \A q \in Pools, e \in Disks : q # p \/ e # d => vdisk'[q][e] = vdisk[q][e]
<1>1. vdisk \in [Pools -> [Disks -> FileType]] BY DEF StorageTypes, FileType
<1>2. vdisk' = [vdisk EXCEPT ![p][d] = v] BY DEF SetFile
<1>3. vdisk' \in [Pools -> [Disks -> FileType]] BY <1>1, <1>2, SMT
<1>4. vdisk'[p][d] = v BY <1>1, <1>2, SMT
<1>5. \A q \in Pools, e \in Disks : q # p \/ e # d => vdisk'[q][e] = vdisk[q][e] BY <1>1, <1>2, SMT
<1> QED BY <1>3, <1>4, <1>5

\* the file of a disk before it is allocated
EmptyFile == [size |-> 0, content |-> "empty"]

\* DiskCreate, without the fault: the file is made in a pool with room for it.
Makes(p, d, size) ==
    /\ p \in SSDFirst /\ p \in mounted' /\ Fits(p, size)
    /\ SetSubvol(p, VDiskVolume, 0) /\ SetFile(p, d, EmptyFile)
    /\ busy' = [op |-> "fallocate", name |-> d, size |-> size, pool |-> p]
    /\ DiskHomes(d) = {} /\ busy = Quiet /\ boots > 0
    /\ Counted /\ mounted \subseteq mounted' /\ mounted' \subseteq Pools
    /\ UNCHANGED <<managed, cache, cacheUse, reported, torn, grown, boots>>

\* Such a step keeps the invariant.
LEMMA MakesKeeps ==
    ASSUME StorageIInv, NEW p \in Pools, NEW d \in Disks, NEW size \in Nat \ {0}, Makes(p, d, size)
    PROVE  StorageIInv'
<1>0. StorageTypes /\ Placement /\ BusyHolds /\ WholeButBusy /\ RoomForBusy BY DEF StorageIInv
<1>1. /\ p \in SSDFirst /\ p \in mounted' /\ Fits(p, size)
      /\ SetSubvol(p, VDiskVolume, 0) /\ SetFile(p, d, EmptyFile)
      /\ busy' = [op |-> "fallocate", name |-> d, size |-> size, pool |-> p]
      /\ DiskHomes(d) = {} /\ busy = Quiet /\ boots > 0
      /\ Counted /\ mounted \subseteq mounted' /\ mounted' \subseteq Pools
      /\ UNCHANGED <<managed, cache, cacheUse, reported, torn, grown, boots>>
  BY DEF Makes
<1>2. /\ VDiskVolume \in Names /\ VDiskVolume \notin Looked /\ VDiskVolume \notin Volumes
      /\ VDiskVolume # CacheLabel
  BY StorageConstants DEF Looked
<1>3. /\ EmptyFile \in FileType /\ EmptyFile.size = 0 /\ EmptyFile.content = "empty"
      /\ NoDisk.content = "none" /\ NoDisk.size = Absent
  <2>1. 0 \in Nat BY SMT
  <2> QED BY <2>1 DEF EmptyFile, FileType, DiskContents, NoDisk
<1>4. /\ vdisk' \in [Pools -> [Disks -> FileType]] /\ vdisk'[p][d] = EmptyFile
      /\ \A q \in Pools, e \in Disks : q # p \/ e # d => vdisk'[q][e] = vdisk[q][e]
  BY <1>0, <1>1, <1>3, FileSet
<1>5. /\ StorageTypes'
      /\ \A q \in Pools, m \in Names : Has(q, m)' <=> Has(q, m) \/ (q \in {p} /\ m = VDiskVolume)
  BY <1>0, <1>1, <1>2, <1>4, MadeTypes
<1>6. /\ \A q \in Pools, m \in Names : q # p \/ m # VDiskVolume => subvol'[q][m] = subvol[q][m]
      /\ \A q \in Pools, m \in Names : Quotas(q)'[m] <= Quotas(q)[m]
  BY <1>0, <1>1, <1>2, SubvolChanges
<1>7. faults' = 0 => faults = 0 /\ \A q \in Pools : vdisk[q][d] = NoDisk
  BY <1>0, <1>1, LookupsSeeAll DEF Counted
<1>8. Placement'
  <2>1. p \in Usable BY <1>1 DEF SSDFirst, Usable
  <2>2. \A q \in Pools, e \in Disks :
          vdisk'[q][e] # NoDisk => vdisk[q][e] # NoDisk \/ (q \in {p} /\ e = d)
    BY <1>4
  <2>3. Has(p, VDiskVolume)' BY <1>2, <1>5
  <2>4. Creates(VDiskVolume, {p}, d, {p})
    BY <1>1, <1>2, <1>5, <1>7, <2>1, <2>2, <2>3 DEF Creates
  <2> QED BY <1>0, <1>2, <2>4, PlacementGrows
<1>9. busy'.op = "fallocate" /\ busy'.name = d /\ busy'.size = size /\ busy'.pool = p BY <1>1
<1>10. BusyHolds'
  <2>1. vdisk'[busy'.pool][busy'.name] # NoDisk BY <1>3, <1>4, <1>9
  <2> QED BY <1>1, <1>9, <2>1 DEF BusyHolds, NoDisk, Absent
<1>11. WholeButBusy'
  <2> SUFFICES ASSUME faults' = 0, ~torn' PROVE WholeParts' BY DEF WholeButBusy
  <2>1. WholeParts BY <1>0, <1>1, <1>7 DEF WholeButBusy
  <2>2. busy.op \notin {"limit", "fallocate", "copy"} BY <1>1 DEF Quiet, At
  <2>3. \A q \in Pools, m \in Volumes : subvol'[q][m] = subvol[q][m] /\ (Has(q, m)' <=> Has(q, m))
    BY <1>2, <1>5, <1>6 DEF Names
  <2>4. \A q \in Pools, m \in Volumes : Has(q, m)' => subvol'[q][m] > 0
    BY <2>1, <2>2, <2>3 DEF WholeParts
  <2>5. ASSUME NEW m \in reported' \cap Volumes PROVE \E q \in Pools : subvol'[q][m] > 0
    <3>1. \E q \in Pools : subvol[q][m] > 0 BY <1>1, <2>1 DEF WholeParts
    <3> QED BY <2>3, <3>1
  <2>6. \A q \in Pools, e \in Disks :
          vdisk'[q][e] # NoDisk => vdisk'[q][e].size > 0 \/ (q = p /\ e = d)
    <3>1. \A q \in Pools, e \in Disks : vdisk[q][e] # NoDisk => vdisk[q][e].size > 0
      BY <2>1, <2>2 DEF WholeParts
    <3> QED BY <1>4, <3>1
  <2>7. \A q \in Pools, e \in Disks : vdisk'[q][e].content # "partial"
    <3>1. \A q \in Pools, e \in Disks : vdisk[q][e].content # "partial"
      BY <2>1, <2>2 DEF WholeParts
    <3>2. vdisk'[p][d].content # "partial" BY <1>3, <1>4
    <3>3. \A q \in Pools, e \in Disks : q # p \/ e # d => vdisk'[q][e].content # "partial"
      BY <1>4, <3>1
    <3> QED BY <3>2, <3>3
  <2>8. ASSUME NEW e \in reported' \cap Disks PROVE \E q \in Pools : vdisk'[q][e].size > 0
    <3>1. PICK q \in Pools : vdisk[q][e].size > 0 BY <1>1, <2>1 DEF WholeParts
    <3>2. ~(Absent > 0) BY SMT DEF Absent
    <3>3. q # p \/ e # d BY <1>3, <1>7, <3>1, <3>2
    <3> QED BY <1>4, <3>1, <3>3
  <2> QED BY <1>9, <2>4, <2>5, <2>6, <2>7, <2>8 DEF WholeParts, NoDisk, Absent
<1>12. RoomForBusy'
  <2> SUFFICES ASSUME faults' = 0, ~grown'
               PROVE  /\ \A q \in Pools : Reserved(q)' <= PoolSize[q]
                      /\ vdisk'[p][d].size = 0 /\ Reserved(p)' + size <= PoolSize[p]
    BY <1>9, SMT DEF RoomForBusy
  <2>1. ASSUME NEW q \in Pools
        PROVE  /\ \A m \in Names : Quotas(q)'[m] <= Quotas(q)[m]
               /\ \A e \in Disks : Files(q)'[e] <= Files(q)[e]
    <3>1. \A m \in Names : Quotas(q)'[m] <= Quotas(q)[m] BY <1>6
    <3>2. ASSUME NEW e \in Disks PROVE Files(q)'[e] <= Files(q)[e]
      <4>1. Files(q)[e] = Positive(vdisk[q][e].size) /\ Files(q)'[e] = Positive(vdisk'[q][e].size)
        BY DEF Files, Positive
      <4>2. Files(q)[e] \in Nat BY <1>0, ReservedType
      <4>3. CASE q = p /\ e = d
        <5>1. Files(q)'[e] = 0 BY <1>3, <1>4, <4>1, <4>3, SMT DEF Positive
        <5> QED BY <4>2, <5>1, SMT
      <4>4. CASE q # p \/ e # d
        <5>1. Files(q)'[e] = Files(q)[e] BY <1>4, <4>1, <4>4
        <5> QED BY <4>2, <5>1, SMT
      <4> QED BY <4>3, <4>4
    <3> QED BY <3>1, <3>2
  <2>2. ASSUME NEW q \in Pools PROVE Reserved(q)' <= PoolSize[q]
    <3>1. Reserved(q) <= PoolSize[q] BY <1>0, <1>1, <1>7 DEF RoomForBusy
    <3>2. 0 \in Nat /\ Reserved(q) + 0 <= PoolSize[q]
      <4>1. Reserved(q) \in Nat BY <1>0, ReservedType
      <4> QED BY <3>1, <4>1, SMT
    <3> QED BY <1>0, <1>5, <2>1, <3>2, RoomLeft
  <2>3. Reserved(p)' + size <= PoolSize[p]
    <3>1. Reserved(p) + size <= PoolSize[p] /\ size \in Nat BY <1>1 DEF Fits
    <3> QED BY <1>0, <1>5, <2>1, <3>1, RoomLeft
  <2> QED BY <1>3, <1>4, <2>2, <2>3
<1> QED BY <1>5, <1>8, <1>10, <1>11, <1>12 DEF StorageIInv

\* The ways DiskCreate goes on a pool that has room.
DiskMade(blind, c, p, d, size) ==
    /\ Mount(Opened(size, blind) \cup c)
    /\ \/ /\ Fail(Cardinality(blind))
          /\ SetSubvol(p, VDiskVolume, 0) /\ SetFile(p, d, EmptyFile)
          /\ busy' = [op |-> "fallocate", name |-> d, size |-> size, pool |-> p]
       \/ /\ Fail(Cardinality(blind) + 1)
          /\ SetSubvol(p, VDiskVolume, 0) \/ UNCHANGED subvol
          /\ UNCHANGED <<vdisk, busy>>

\* DiskCreate makes the file where there is room for it.
LEMMA DiskCreateKeeps ==
    ASSUME StorageIInv, NEW d \in Disks, NEW size \in Sizes, DiskCreate(d, size)
    PROVE  StorageIInv'
<1>0. StorageTypes /\ Placement BY DEF StorageIInv
<1>1. /\ boots > 0 /\ busy = Quiet /\ DiskHomes(d) = {}
      /\ UNCHANGED <<managed, cache, cacheUse, reported, torn, grown, boots>>
  BY DEF DiskCreate, Running
<1>2. size \in Nat \ {0} BY StoragedAssumption
<1>3. SSDFirst \subseteq Pools /\ faults \in Nat /\ mounted \subseteq Pools /\ cacheUse' \in Nat
  BY <1>0, <1>1 DEF SSDFirst, StorageTypes
<1>4. CASE NoCandidate(size) /\ UNCHANGED <<subvol, vdisk, busy>>
  <2>1. Counted /\ mounted \subseteq mounted' /\ mounted' \subseteq Pools
    BY <1>0, <1>4, NoCandidateMounts
  <2> QED BY <1>1, <1>3, <1>4, <2>1, MountsKeep
<1>5. ASSUME NEW blind \in SUBSET SSDFirst, NEW c \in Candidates(size, blind), NEW p \in DiskBase(c),
             DiskMade(blind, c, p, d, size)
      PROVE  StorageIInv'
  <2>1. c \subseteq SSDFirst /\ \A q \in c : Fits(q, size) BY CandidatesFit
  <2>2. p \in c BY DEF DiskBase, Best
  <2>3. p \in Pools /\ p \in SSDFirst /\ Fits(p, size) BY <1>3, <2>1, <2>2
  <2>4. Opened(size, blind) \subseteq blind BY DEF Opened
  <2>5. mounted' = mounted \cup (Opened(size, blind) \cup c) BY <1>5 DEF DiskMade, Mount
  <2>6. mounted \subseteq mounted' /\ mounted' \subseteq Pools /\ p \in mounted'
    BY <1>3, <2>1, <2>2, <2>4, <2>5
  <2>7. Cardinality(blind) \in Nat
    <3>1. blind \in SUBSET Pools BY <1>3
    <3> QED BY <3>1, NoneFailed
  <2>8. CASE /\ Fail(Cardinality(blind))
             /\ SetSubvol(p, VDiskVolume, 0) /\ SetFile(p, d, EmptyFile)
             /\ busy' = [op |-> "fallocate", name |-> d, size |-> size, pool |-> p]
    <3>1. Counted BY <1>3, <2>7, <2>8, FailCounts DEF Counted
    <3>2. Makes(p, d, size) BY <1>1, <2>3, <2>6, <2>8, <3>1 DEF Makes
    <3> QED BY <1>2, <2>3, <3>2, MakesKeeps
  <2>9. CASE /\ Fail(Cardinality(blind) + 1)
             /\ SetSubvol(p, VDiskVolume, 0) \/ UNCHANGED subvol
             /\ UNCHANGED <<vdisk, busy>>
    <3>1. Cardinality(blind) + 1 \in Nat /\ Cardinality(blind) + 1 # 0 BY <2>7, SMT
    <3>2. Counted /\ faults' # 0 BY <1>3, <2>9, <3>1, FailCounts DEF Counted
    <3>3. CASE UNCHANGED subvol BY <1>1, <1>3, <2>6, <2>9, <3>2, <3>3, MountsKeep
    <3>4. CASE SetSubvol(p, VDiskVolume, 0)
      <4>1. VDiskVolume \in Names /\ VDiskVolume \notin Looked /\ VDiskVolume # CacheLabel
        BY StorageConstants DEF Looked
      <4>2. vdisk' \in [Pools -> [Disks -> FileType]] BY <1>0, <2>9 DEF StorageTypes, FileType
      <4>3. /\ StorageTypes'
            /\ \A q \in Pools, m \in Names :
                 Has(q, m)' <=> Has(q, m) \/ (q \in {p} /\ m = VDiskVolume)
        BY <1>0, <1>1, <2>3, <2>6, <3>2, <3>4, <4>1, <4>2, MadeTypes
      <4>4. Creates(VDiskVolume, {p}, 0, {})
        BY <1>1, <2>3, <2>6, <2>9, <3>2, <4>1, <4>3 DEF Creates, Counted
      <4>5. Placement' BY <1>0, <4>1, <4>4, PlacementGrows
      <4>6. BusyHolds' BY <1>1, <2>9, BusyRests
      <4>7. WholeButBusy' /\ RoomForBusy' BY <3>2 DEF WholeButBusy, RoomForBusy
      <4> QED BY <4>3, <4>5, <4>6, <4>7 DEF StorageIInv
    <3> QED BY <2>9, <3>3, <3>4
  <2> QED BY <1>5, <2>8, <2>9 DEF DiskMade
<1>6. \/ NoCandidate(size) /\ UNCHANGED <<subvol, vdisk, busy>>
      \/ \E blind \in SUBSET SSDFirst : \E c \in Candidates(size, blind) : \E p \in DiskBase(c) :
           DiskMade(blind, c, p, d, size)
  BY DEF DiskCreate, DiskMade, SetSubvol, SetFile, EmptyFile
<1> QED BY <1>4, <1>5, <1>6

\* The background loops, and files that come and go in the cache.
LEMMA LoopsKeep ==
    ASSUME StorageIInv, ShutdownDisks \/ (\E use \in 0 .. MaxCacheUse : WriteCache(use))
                          \/ UNCHANGED storagedVars
    PROVE  StorageIInv'
<1>1. UNCHANGED <<managed, mounted, subvol, vdisk, cache, busy, reported, torn, grown, faults, boots>>
  BY DEF ShutdownDisks, WriteCache, storagedVars
<1>2. cacheUse' \in Nat
  <2>1. \A use \in 0 .. MaxCacheUse : use \in Nat BY SMT
  <2> QED BY <2>1 DEF ShutdownDisks, WriteCache, storagedVars, StorageIInv, StorageTypes
<1>3. Counted /\ mounted \subseteq mounted' /\ mounted' \subseteq Pools
  BY <1>1 DEF Counted, StorageIInv, StorageTypes
<1> QED BY <1>1, <1>2, <1>3, MountsKeep

\* Nothing exists at first.
LEMMA StorageInitHolds == StoragedInit => StorageIInv
<1> SUFFICES ASSUME StoragedInit PROVE StorageIInv OBVIOUS
<1> USE DEF StoragedInit
<1>0. 0 \in Nat /\ ~(0 > 0) BY SMT
<1>1. \A p \in Pools, n \in Names : subvol[p][n] = Absent OBVIOUS
<1>2. \A p \in Pools, d \in Disks : vdisk[p][d] = NoDisk OBVIOUS
<1>3. \A p \in Pools, n \in Names : ~Has(p, n) BY <1>1 DEF Has
<1>4. StorageTypes
  <2>1. NoDisk \in [size : Nat \cup {Absent}, content : DiskContents] BY DEF NoDisk, DiskContents
  <2> QED BY <1>0, <2>1 DEF StorageTypes
<1>5. BusyHolds
  <2>1. busy.op = "none" BY DEF Quiet, At
  <2> QED BY <2>1 DEF BusyHolds
<1>6. Placement
  <2>1. \A p \in Pools : VolumesOf(p) = {} BY <1>3 DEF VolumesOf
  <2>2. Looked \subseteq Names BY StorageConstants
  <2>3. UnmountedIsEmpty BY <2>1 DEF UnmountedIsEmpty
  <2>4. OneHome BY <1>2, <1>3, <2>2 DEF OneHome, Looked
  <2>5. SeenByLookups BY <1>0, <1>2, <1>3, <2>1, <2>2 DEF SeenByLookups
  <2> QED BY <2>3, <2>4, <2>5 DEF Placement
<1>7. WholeButBusy
  <2>1. NoDisk.content # "partial" BY DEF NoDisk
  <2> QED BY <1>2, <1>3, <2>1 DEF WholeButBusy, WholeParts, Names
<1>8. RoomForBusy
  <2>1. busy.op = "none" BY DEF Quiet, At
  <2>2. ASSUME NEW p \in Pools PROVE Reserved(p) <= PoolSize[p]
    <3>1. \A n \in Names : Quotas(p)[n] = 0 BY <1>1, SMT DEF Quotas, Positive, Absent
    <3>2. NoDisk.size = Absent BY DEF NoDisk
    <3>3. \A d \in Disks : Files(p)[d] = 0 BY <1>2, <3>2, SMT DEF Files, Positive, Absent
    <3>4. SumFunctionOnSet(Quotas(p), Names) = 0 BY <3>1, SumZero, StorageConstants
    <3>5. SumFunctionOnSet(Files(p), Disks) = 0 BY <3>3, SumZero, StorageConstants
    <3>6. PoolSize[p] \in Nat BY StorageConstants
    <3> QED BY <3>4, <3>5, <3>6, SMT DEF Reserved
  <2> QED BY <2>1, <2>2 DEF RoomForBusy
<1> QED BY <1>4, <1>5, <1>6, <1>7, <1>8 DEF StorageIInv
-----------------------------------------------------------------------------
\* Every step keeps the invariant.
LEMMA StorageStepKeeps ==
    ASSUME StorageIInv, [StoragedNext]_storagedVars
    PROVE  StorageIInv'
<1>1. ASSUME NEW n \in Volumes, NEW size \in Sizes, VolumeCreate(n, size) PROVE StorageIInv'
  BY <1>1, VolumeCreateKeeps
<1>2. ASSUME NEW n \in Volumes, NEW size \in LargerSizes, VolumeUpdate(n, size) PROVE StorageIInv'
  BY <1>2, VolumeUpdateKeeps
<1>3. ASSUME NEW n \in Volumes, VolumeDelete(n) PROVE StorageIInv'
  BY <1>3, VolumeDeleteKeeps
<1>4. CASE SetQuota BY <1>4, SetQuotaKeeps
<1>5. ASSUME NEW d \in Disks, NEW size \in Sizes, DiskCreate(d, size) PROVE StorageIInv'
  BY <1>5, DiskCreateKeeps
<1>6. ASSUME NEW d \in Disks, NEW size \in LargerSizes, DiskResize(d, size) PROVE StorageIInv'
  BY <1>6, DiskResizeKeeps
<1>7. ASSUME NEW d \in Disks, DiskExists(d) \/ DiskDelete(d) \/ DiskFormat(d) \/ DiskWrite(d)
      PROVE  StorageIInv'
  BY <1>7, DiskExistsKeeps, DiskDeleteKeeps, DiskFilledKeeps
<1>8. CASE DiskAllocate BY <1>8, DiskAllocateKeeps
<1>9. CASE DiskWritten BY <1>9, DiskWrittenKeeps
<1>10. ASSUME NEW size \in Sizes, DeviceAllocate(size) PROVE StorageIInv'
  BY <1>10, DeviceAllocateKeeps
<1>11. ASSUME NEW size \in Sizes, ZdbReserve(size) PROVE StorageIInv' BY <1>11, ZdbReserveKeeps
<1>12. CASE WatchCache BY <1>12, WatchCacheKeeps
<1>13. CASE ShutdownDisks \/ (\E use \in 0 .. MaxCacheUse : WriteCache(use)) \/ UNCHANGED storagedVars
  BY <1>13, LoopsKeep
<1>14. CASE Boot BY <1>14, BootKeeps
<1>15. CASE EnsureCache BY <1>15, EnsureCacheKeeps
<1>16. CASE CacheCreated BY <1>16, CacheCreatedKeeps
<1>17. CASE ShutdownUnusedPools BY <1>17, ShutdownUnusedPoolsKeeps
<1> QED BY <1>1, <1>2, <1>3, <1>4, <1>5, <1>6, <1>7, <1>8, <1>9, <1>10, <1>11, <1>12, <1>13,
           <1>14, <1>15, <1>16, <1>17 DEF StoragedNext

\* The invariant says what was promised is there, and fits.
LEMMA StorageIInvReserved ==
    ASSUME StorageIInv
    PROVE  VolumesReserved
<1>0. StorageTypes /\ Placement /\ BusyHolds /\ WholeButBusy /\ RoomForBusy BY DEF StorageIInv
<1>1. NotOverAllocated BY <1>0 DEF NotOverAllocated, RoomForBusy
<1>2. ASSUME faults = 0, ~torn
      PROVE  /\ \A n \in reported \cap Volumes : \E p \in Homes(n) : subvol[p][n] > 0
             /\ \A d \in reported \cap Disks : \E p \in DiskHomes(d) : vdisk[p][d].size > 0
             /\ \A p \in Pools : \A d \in Disks :
                  vdisk[p][d].content = "partial" => busy.op = "copy" /\ busy.name = d
  <2>1. WholeParts BY <1>0, <1>2 DEF WholeButBusy
  <2>2. ~(Absent > 0) BY SMT DEF Absent
  <2>3. ASSUME NEW n \in reported \cap Volumes PROVE \E p \in Homes(n) : subvol[p][n] > 0
    <3>1. PICK p \in Pools : subvol[p][n] > 0 BY <2>1 DEF WholeParts
    <3>2. Has(p, n) BY <2>2, <3>1 DEF Has
    <3>3. n \in Looked BY DEF Looked
    <3>4. p \in Homes(n) BY <1>0, <1>2, <3>2, <3>3, LookupsSeeAll
    <3> QED BY <3>1, <3>4
  <2>4. ASSUME NEW d \in reported \cap Disks PROVE \E p \in DiskHomes(d) : vdisk[p][d].size > 0
    <3>1. PICK p \in Pools : vdisk[p][d].size > 0 BY <2>1 DEF WholeParts
    <3>2. NoDisk.size = Absent BY DEF NoDisk
    <3>3. vdisk[p][d] # NoDisk BY <2>2, <3>1, <3>2
    <3>4. p \in DiskHomes(d) BY <1>0, <1>2, <3>3, LookupsSeeAll
    <3> QED BY <3>1, <3>4
  <2>5. \A p \in Pools : \A d \in Disks :
          vdisk[p][d].content = "partial" => busy.op = "copy" /\ busy.name = d
    BY <2>1 DEF WholeParts
  <2> QED BY <2>3, <2>4, <2>5
<1> QED BY <1>1, <1>2 DEF VolumesReserved, ReportedIsWhole

\* What exists is found, and in one place (VolumesFound).
THEOREM VolumesFoundAlways == StoragedSpec => []VolumesFound
<1>1. StoragedInit => StorageIInv BY StorageInitHolds
<1>2. StorageIInv /\ [StoragedNext]_storagedVars => StorageIInv' BY StorageStepKeeps
<1>3. StorageIInv => VolumesFound BY DEF StorageIInv, Placement, VolumesFound
<1> QED BY <1>1, <1>2, <1>3, PTL DEF StoragedSpec

\* What is promised is there, and fits (VolumesReserved).
THEOREM VolumesReservedAlways == StoragedSpec => []VolumesReserved
<1>1. StoragedInit => StorageIInv BY StorageInitHolds
<1>2. StorageIInv /\ [StoragedNext]_storagedVars => StorageIInv' BY StorageStepKeeps
<1>3. StorageIInv => VolumesReserved BY StorageIInvReserved
<1> QED BY <1>1, <1>2, <1>3, PTL DEF StoragedSpec
=============================================================================
