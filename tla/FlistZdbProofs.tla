--------------------------- MODULE FlistZdbProofs ---------------------------
(***************************************************************************)
(* What a sum over a finite set is: SumFunctionOnSet, which adds up the    *)
(* reservations of a pool and of the namespaces of a disk, is a natural    *)
(* number, changes with one summand by what the summand changes by, grows  *)
(* with its summands, and is zero when they are.  Its definition recurses  *)
(* on the set; the induction over the naturals is stated with a set in     *)
(* place of a predicate, so that the provers can use it.  StoragedProofs   *)
(* rests on this part.                                                     *)
(* The namespaces of the 0-dbs, for any disks, namespaces, sizes and       *)
(* faults: the space reserved on a disk is the sum of the sizes of its     *)
(* namespaces.  And the mounts of flistd, for any flists, names, servers   *)
(* and faults, whose invariant counts the dead servers.                    *)
(***************************************************************************)
EXTENDS Flistd, ZdbManager, FiniteSetTheorems, TLAPS

\* first-order steps; those that need arithmetic or sequences cite SMT
USE Zenon

\* Induction over the naturals, with a set in place of a predicate.
LEMMA SetInduction ==
    ASSUME NEW T \in SUBSET Nat, 0 \in T, \A n \in T : n + 1 \in T
    PROVE  T = Nat
<1> SUFFICES ASSUME Nat \ T # {} PROVE FALSE
  OBVIOUS
<1>1. PICK x \in Nat \ T : \A y \in Nat \ T : ~(<<y, x>> \in OpToRel(<, Nat))
  <2>1. Nat \ T \subseteq Nat OBVIOUS
  <2> QED BY <2>1, WFMin, NatLessThanWellFounded
<1>2. x # 0 BY <1>1
<1>3. x - 1 \in Nat /\ x - 1 < x /\ (x - 1) + 1 = x
  <2>1. x \in Nat BY <1>1
  <2> QED BY <1>2, <2>1, SMT
<1>4. <<x - 1, x>> \in OpToRel(<, Nat) BY <1>3, SMT DEF OpToRel
<1>5. x - 1 \in T BY <1>1, <1>3, <1>4
<1> QED BY <1>1, <1>3, <1>5

\* the element the fold takes
Pick(s) == CHOOSE x \in s : TRUE

\* what is left of a set when the fold has taken an element
Others(s) == s \ {Pick(s)}

\* It is an element of the set.
LEMMA PickIn == ASSUME NEW s, s # {} PROVE Pick(s) \in s
BY DEF Pick

\* What is left of a finite set is finite, and smaller by one.
LEMMA RestSmaller ==
    ASSUME NEW S, IsFiniteSet(S), S # {}
    PROVE  /\ IsFiniteSet(Others(S)) /\ Cardinality(S) \in Nat /\ Cardinality(Others(S)) \in Nat
           /\ Cardinality(S) = Cardinality(Others(S)) + 1
<1>1. Pick(S) \in S BY PickIn
<1>2. IsFiniteSet(Others(S)) /\ Cardinality(Others(S)) = Cardinality(S) - 1
  BY <1>1, FS_RemoveElement DEF Others
<1>3. Cardinality(S) \in Nat /\ Cardinality(Others(S)) \in Nat
  BY <1>2, FS_CardinalityType
<1> QED BY <1>2, <1>3, SMT

\* Induction over the subsets of a finite set, in the order of the fold.
LEMMA FoldInduction ==
    ASSUME NEW S, IsFiniteSet(S), NEW U, {} \in U,
           \A s \in SUBSET S : s # {} /\ Others(s) \in U => s \in U
    PROVE  \A s \in SUBSET S : s \in U
<1> DEFINE T == {n \in Nat : \A s \in SUBSET S : Cardinality(s) = n => s \in U}
<1>1. \A s \in SUBSET S : IsFiniteSet(s) /\ Cardinality(s) \in Nat
  BY FS_Subset, FS_CardinalityType
<1>2. 0 \in T
  <2>1. \A s \in SUBSET S : Cardinality(s) = 0 => s = {} BY <1>1, FS_EmptySet
  <2>2. 0 \in Nat BY SMT
  <2> QED BY <2>1, <2>2
<1>3. ASSUME NEW n \in T PROVE n + 1 \in T
  <2>1. n + 1 \in Nat /\ n + 1 # 0 BY <1>3, SMT
  <2>2. ASSUME NEW s \in SUBSET S, Cardinality(s) = n + 1 PROVE s \in U
    <3>1. s # {} BY <2>1, <2>2, FS_EmptySet
    <3>2. Cardinality(Others(s)) = n
      <4>1. Cardinality(Others(s)) \in Nat /\ n + 1 = Cardinality(Others(s)) + 1
        BY <1>1, <2>2, <3>1, RestSmaller
      <4> QED BY <1>3, <4>1, SMT
    <3>3. Others(s) \in SUBSET S BY DEF Others
    <3> QED BY <1>3, <3>1, <3>2, <3>3
  <2> QED BY <2>1, <2>2
<1>4. T = Nat
  <2>1. T \in SUBSET Nat OBVIOUS
  <2> HIDE DEF T
  <2> QED BY <1>2, <1>3, <2>1, SetInduction
<1> QED BY <1>1, <1>4
-----------------------------------------------------------------------------
\* the function the fold is defined by
SumIs(F, S, g) == g = [s \in S |-> IF s = {} THEN 0 ELSE F[Pick(s)] + g[Others(s)]]

\* The sum is the value of that function for the whole set.
LEMMA SumUnfold ==
    ASSUME NEW F, NEW S
    PROVE  SumFunctionOnSet(F, S) = (CHOOSE g : SumIs(F, SUBSET S, g))[S]
BY SMT DEF SumFunctionOnSet, FoldFunctionOnSet, MapThenFoldSet, SumIs, Pick, Others

\* the subsets of at most n elements
Small(S, n) == {s \in SUBSET S : Cardinality(s) <= n}

\* There is such a function.
LEMMA SumExists ==
    ASSUME NEW F, NEW S, IsFiniteSet(S)
    PROVE  \E g : SumIs(F, SUBSET S, g)
<1> DEFINE T == {n \in Nat : \E g : SumIs(F, Small(S, n), g)}
<1>1. \A s \in SUBSET S : IsFiniteSet(s) /\ Cardinality(s) \in Nat /\ Cardinality(s) <= Cardinality(S)
  BY FS_Subset, FS_CardinalityType
<1>2. 0 \in T
  <2>1. 0 \in Nat /\ \A n \in Nat : n <= 0 => n = 0 BY SMT
  <2>2. \A s \in Small(S, 0) : s = {} BY <1>1, <2>1, FS_EmptySet DEF Small
  <2>3. SumIs(F, Small(S, 0), [s \in Small(S, 0) |-> 0]) BY <2>2 DEF SumIs
  <2> QED BY <2>1, <2>3
<1>3. ASSUME NEW n \in T PROVE n + 1 \in T
  <2>1. PICK g : SumIs(F, Small(S, n), g) BY <1>3
  <2> DEFINE h == [s \in Small(S, n + 1) |-> IF s = {} THEN 0 ELSE F[Pick(s)] + g[Others(s)]]
  <2>2. ASSUME NEW s \in Small(S, n + 1), s # {}
        PROVE  Others(s) \in Small(S, n) /\ Others(s) \in Small(S, n + 1)
    <3>1. /\ Cardinality(Others(s)) \in Nat /\ Cardinality(s) = Cardinality(Others(s)) + 1
          /\ Cardinality(s) <= n + 1 /\ n \in Nat
      BY <1>1, <1>3, <2>2, RestSmaller DEF Small
    <3>2. Cardinality(Others(s)) <= n /\ Cardinality(Others(s)) <= n + 1 BY <3>1, SMT
    <3> QED BY <2>2, <3>2 DEF Small, Others
  <2>3. \A t \in Small(S, n) : t \in Small(S, n + 1) => h[t] = g[t]
    BY <2>1 DEF SumIs
  <2>4. \A s \in Small(S, n + 1) : s # {} => h[Others(s)] = g[Others(s)]
    BY <2>2, <2>3
  <2>5. h = [s \in Small(S, n + 1) |-> IF s = {} THEN 0 ELSE F[Pick(s)] + h[Others(s)]]
    BY <2>4
  <2>6. SumIs(F, Small(S, n + 1), h) BY <2>5 DEF SumIs
  <2>7. n + 1 \in Nat BY <1>3, SMT
  <2> HIDE DEF h
  <2> QED BY <2>6, <2>7
<1>4. T = Nat
  <2>1. T \in SUBSET Nat OBVIOUS
  <2> HIDE DEF T
  <2> QED BY <1>2, <1>3, <2>1, SetInduction
<1>5. Cardinality(S) \in T BY <1>4, FS_CardinalityType
<1>6. Small(S, Cardinality(S)) = SUBSET S BY <1>1 DEF Small
<1> QED BY <1>5, <1>6

\* a sum, one element at a time
SumBy(F, S, g) == g[{}] = 0 /\ \A s \in SUBSET S : s # {} => g[s] = F[Pick(s)] + g[Others(s)]

\* The fold is such a sum.
LEMMA SumSteps ==
    ASSUME NEW F, NEW S, IsFiniteSet(S)
    PROVE  \E g : SumFunctionOnSet(F, S) = g[S] /\ SumBy(F, S, g)
<1> DEFINE g == CHOOSE g : SumIs(F, SUBSET S, g)
<1>1. SumIs(F, SUBSET S, g) BY SumExists
<1>2. SumFunctionOnSet(F, S) = g[S] BY SumUnfold
<1> HIDE DEF g
<1>3. SumBy(F, S, g) BY <1>1 DEF SumIs, SumBy
<1> QED BY <1>2, <1>3

\* A sum of naturals is one.
LEMMA SumType ==
    ASSUME NEW S, IsFiniteSet(S), NEW F, \A x \in S : F[x] \in Nat
    PROVE  SumFunctionOnSet(F, S) \in Nat
<1>1. PICK g : SumFunctionOnSet(F, S) = g[S] /\ SumBy(F, S, g)
  BY SumSteps
<1> DEFINE U == {s \in SUBSET S : g[s] \in Nat}
<1>2. {} \in U
  <2>1. 0 \in Nat BY SMT
  <2> QED BY <1>1, <2>1 DEF SumBy
<1>3. ASSUME NEW s \in SUBSET S, s # {}, Others(s) \in U PROVE s \in U
  <2>1. F[Pick(s)] \in Nat /\ g[Others(s)] \in Nat BY <1>3, PickIn
  <2>2. F[Pick(s)] + g[Others(s)] \in Nat BY <2>1, SMT
  <2> QED BY <1>1, <1>3, <2>2 DEF SumBy
<1>4. \A s \in SUBSET S : s \in U
  <2> HIDE DEF U
  <2> QED BY <1>2, <1>3, FoldInduction
<1> QED BY <1>1, <1>4

\* When one summand changes, the sum changes by as much.
LEMMA SumChange ==
    ASSUME NEW S, IsFiniteSet(S), NEW F, NEW G, NEW x \in S,
           \A y \in S : F[y] \in Nat /\ G[y] \in Nat, \A y \in S : y # x => F[y] = G[y]
    PROVE  SumFunctionOnSet(G, S) = SumFunctionOnSet(F, S) + (G[x] - F[x])
<1>1. PICK f : SumFunctionOnSet(F, S) = f[S] /\ SumBy(F, S, f)
  BY SumSteps
<1>2. PICK g : SumFunctionOnSet(G, S) = g[S] /\ SumBy(G, S, g)
  BY SumSteps
<1> DEFINE U == {s \in SUBSET S : /\ f[s] \in Nat /\ g[s] \in Nat
                                  /\ x \notin s => g[s] = f[s]
                                  /\ x \in s => g[s] = f[s] + (G[x] - F[x])}
<1>3. {} \in U
  <2>1. 0 \in Nat BY SMT
  <2> QED BY <1>1, <1>2, <2>1 DEF SumBy
<1>4. ASSUME NEW s \in SUBSET S, s # {}, Others(s) \in U PROVE s \in U
  <2>1. Pick(s) \in s /\ Pick(s) \in S BY <1>4, PickIn
  <2>2. F[Pick(s)] \in Nat /\ G[Pick(s)] \in Nat /\ F[x] \in Nat /\ G[x] \in Nat BY <2>1
  <2>3. f[Others(s)] \in Nat /\ g[Others(s)] \in Nat BY <1>4
  <2>4. f[s] = F[Pick(s)] + f[Others(s)] /\ g[s] = G[Pick(s)] + g[Others(s)] BY <1>1, <1>2, <1>4 DEF SumBy
  <2>5. f[s] \in Nat /\ g[s] \in Nat BY <2>2, <2>3, <2>4, SMT
  <2>6. CASE x \notin s
    <3>1. F[Pick(s)] = G[Pick(s)] /\ x \notin Others(s) BY <2>1, <2>6 DEF Others
    <3>2. g[Others(s)] = f[Others(s)] BY <1>4, <3>1
    <3> QED BY <2>4, <2>5, <2>6, <3>1, <3>2
  <2>7. CASE x = Pick(s)
    <3>1. x \notin Others(s) /\ x \in s BY <2>1, <2>7 DEF Others
    <3>2. g[Others(s)] = f[Others(s)] BY <1>4, <3>1
    <3>3. g[s] = f[s] + (G[x] - F[x]) BY <2>2, <2>3, <2>4, <2>7, <3>2, SMT
    <3> QED BY <2>5, <3>1, <3>3
  <2>8. CASE x \in s /\ x # Pick(s)
    <3>1. x \in Others(s) /\ F[Pick(s)] = G[Pick(s)] BY <2>1, <2>8 DEF Others
    <3>2. g[Others(s)] = f[Others(s)] + (G[x] - F[x]) BY <1>4, <3>1
    <3>3. g[s] = f[s] + (G[x] - F[x]) BY <2>2, <2>3, <2>4, <3>1, <3>2, SMT
    <3> QED BY <2>5, <2>8, <3>3
  <2> QED BY <2>6, <2>7, <2>8
<1>5. \A s \in SUBSET S : s \in U
  <2> HIDE DEF U
  <2> QED BY <1>3, <1>4, FoldInduction
<1> QED BY <1>1, <1>2, <1>5

\* Smaller summands have a smaller sum.
LEMMA SumMono ==
    ASSUME NEW S, IsFiniteSet(S), NEW F, NEW G,
           \A y \in S : F[y] \in Nat /\ G[y] \in Nat /\ F[y] <= G[y]
    PROVE  SumFunctionOnSet(F, S) <= SumFunctionOnSet(G, S)
<1>1. PICK f : SumFunctionOnSet(F, S) = f[S] /\ SumBy(F, S, f)
  BY SumSteps
<1>2. PICK g : SumFunctionOnSet(G, S) = g[S] /\ SumBy(G, S, g)
  BY SumSteps
<1> DEFINE U == {s \in SUBSET S : f[s] \in Nat /\ g[s] \in Nat /\ f[s] <= g[s]}
<1>3. {} \in U
  <2>1. 0 \in Nat /\ 0 <= 0 BY SMT
  <2> QED BY <1>1, <1>2, <2>1 DEF SumBy
<1>4. ASSUME NEW s \in SUBSET S, s # {}, Others(s) \in U PROVE s \in U
  <2>1. Pick(s) \in S BY <1>4, PickIn
  <2>2. F[Pick(s)] \in Nat /\ G[Pick(s)] \in Nat /\ F[Pick(s)] <= G[Pick(s)] BY <2>1
  <2>3. f[Others(s)] \in Nat /\ g[Others(s)] \in Nat /\ f[Others(s)] <= g[Others(s)] BY <1>4
  <2>4. f[s] = F[Pick(s)] + f[Others(s)] /\ g[s] = G[Pick(s)] + g[Others(s)]
    BY <1>1, <1>2, <1>4 DEF SumBy
  <2>5. f[s] \in Nat /\ g[s] \in Nat /\ f[s] <= g[s] BY <2>2, <2>3, <2>4, SMT
  <2> QED BY <2>5
<1>5. \A s \in SUBSET S : s \in U
  <2> HIDE DEF U
  <2> QED BY <1>3, <1>4, FoldInduction
<1> QED BY <1>1, <1>2, <1>5

\* The sum of nothing but zeros is zero.
LEMMA SumZero ==
    ASSUME NEW S, IsFiniteSet(S), NEW F, \A y \in S : F[y] = 0
    PROVE  SumFunctionOnSet(F, S) = 0
<1>1. PICK f : SumFunctionOnSet(F, S) = f[S] /\ SumBy(F, S, f)
  BY SumSteps
<1> DEFINE U == {s \in SUBSET S : f[s] = 0}
<1>2. {} \in U BY <1>1 DEF SumBy
<1>3. ASSUME NEW s \in SUBSET S, s # {}, Others(s) \in U PROVE s \in U
  <2>1. F[Pick(s)] = 0 /\ f[Others(s)] = 0 BY <1>3, PickIn
  <2>2. f[s] = F[Pick(s)] + f[Others(s)] BY <1>1, <1>3 DEF SumBy
  <2>3. f[s] = 0 BY <2>1, <2>2, SMT
  <2> QED BY <2>3
<1>4. \A s \in SUBSET S : s \in U
  <2> HIDE DEF U
  <2> QED BY <1>2, <1>3, FoldInduction
<1> QED BY <1>1, <1>4
-----------------------------------------------------------------------------
\* flistd: the invariant counts the dead servers, so that a free pid is found, and
\* follows a call: the name it mounts under is free, and a volume without an
\* overlay is the one it created.

\* what is mounted under a name, or nothing
MountOK(m) ==
    m = Nothing \/ (m.kind \in {"bind", "overlay"} /\ m.flist \in Flists /\ m.pid \in Servers)

\* the parts of a call that mounts
MountCall == call.at \in {"ro", "bind", "volume", "overlay"}

\* the part of the types the proof needs, and the count of dead servers
FlistTypes ==
    /\ roMount \in [Flists -> Servers \cup {NoServer}]
    /\ flistMounts = [n \in Mounts |-> flistMounts[n]] /\ \A n \in Mounts : MountOK(flistMounts[n])
    /\ flistFaults \in Nat /\ flistFaults <= MaxFlistFaults
    /\ IsFiniteSet(dead) /\ Cardinality(dead) <= flistFaults
    /\ volumes \subseteq Mounts /\ stray \subseteq volumes
    /\ call.at \in {"idle", "clean", "ro", "bind", "volume", "overlay"}
    /\ call.at = "idle" => call = Rest
    /\ MountCall => /\ call = [at |-> call.at, n |-> call.n, flist |-> call.flist, rw |-> call.rw,
                               new |-> call.new]
                    /\ call.n \in Mounts /\ call.flist \in Flists

\* the name a call mounts under is free, and a volume without an overlay is the
\* one it just created
VolumeOfCall ==
    /\ MountCall => flistMounts[call.n] = Nothing
    /\ call.at = "overlay" => call.n \in volumes /\ (call.new => call.n \notin stray)
    /\ \A n \in volumes \ stray : \/ flistMounts[n].kind = "overlay"
                                  \/ call.at = "overlay" /\ call.new /\ n = call.n

\* the inductive invariant
FlistInv == FlistTypes /\ VolumeOfCall /\ LayerStays /\ NoneUnused

\* the count of faults, and the dead, after a step
FaultsOK ==
    /\ flistFaults \in Nat /\ flistFaults <= MaxFlistFaults
    /\ IsFiniteSet(dead) /\ Cardinality(dead) <= flistFaults

\* A mount keeps the read-only mount it is made of, a finished call leaves none
\* that is unused and no volume without its overlay: for any flists, names and
\* faults (mountRO, mountOverlay, cleanUnusedMounts).
THEOREM FlistMountsAlways == FlistSpec => []FlistMounts
\* the pids in use are fewer than the servers
<1>FreeServerIsOne. ASSUME FlistTypes
    PROVE  FreeServer \in Servers
  <2> USE <1>FreeServerIsOne
  <2> DEFINE R == {roMount[h] : h \in Flists}
             M == {n \in Mounts : flistMounts[n] # Nothing}
             P == {flistMounts[n].pid : n \in M}
             f == [n \in M |-> flistMounts[n].pid]
             U == (dead \cup R) \cup P
  <2>1. IsFiniteSet(R) /\ Cardinality(R) <= Cardinality(Flists)
    <3>1. roMount \in Surjection(Flists, R)
      BY DEF Surjection, FlistTypes
    <3> QED BY <3>1, FS_Surjection, FlistAssumption
  <2>2. IsFiniteSet(M) /\ Cardinality(M) <= Cardinality(Mounts)
    BY FS_Subset, FlistAssumption
  <2>3. IsFiniteSet(P) /\ Cardinality(P) <= Cardinality(M)
    <3>1. f \in Surjection(M, P)
      BY DEF Surjection
    <3> QED BY <2>2, <3>1, FS_Surjection
  <2>4. IsFiniteSet(dead) /\ Cardinality(dead) <= MaxFlistFaults
    <3>1. Cardinality(dead) \in Nat BY FS_CardinalityType DEF FlistTypes
    <3> QED BY <3>1, FlistAssumption, SMT DEF FlistTypes
  <2> HIDE DEF R, P, M
  <2>5. /\ IsFiniteSet(dead \cup R)
        /\ Cardinality(dead \cup R) <= Cardinality(dead) + Cardinality(R)
    <3>1. /\ Cardinality(dead) \in Nat /\ Cardinality(R) \in Nat
          /\ Cardinality(dead \cap R) \in Nat
      BY <2>1, <2>4, FS_CardinalityType, FS_Intersection
    <3>2. /\ IsFiniteSet(dead \cup R)
          /\ Cardinality(dead \cup R) = Cardinality(dead) + Cardinality(R) - Cardinality(dead \cap R)
      BY <2>1, <2>4, FS_Union
    <3> QED BY <3>1, <3>2, SMT
  <2>6. IsFiniteSet(U) /\ Cardinality(U) <= Cardinality(dead \cup R) + Cardinality(P)
    <3>1. /\ Cardinality(dead \cup R) \in Nat /\ Cardinality(P) \in Nat
          /\ Cardinality((dead \cup R) \cap P) \in Nat
      BY <2>3, <2>5, FS_CardinalityType, FS_Intersection
    <3>2. /\ IsFiniteSet(U)
          /\ Cardinality(U) = Cardinality(dead \cup R) + Cardinality(P)
                              - Cardinality((dead \cup R) \cap P)
      BY <2>3, <2>5, FS_Union
    <3> QED BY <3>1, <3>2, SMT
  <2>7. Cardinality(U) < Cardinality(Servers)
    <3>1. /\ Cardinality(U) \in Nat /\ Cardinality(Servers) \in Nat /\ Cardinality(dead) \in Nat
          /\ Cardinality(R) \in Nat /\ Cardinality(P) \in Nat /\ Cardinality(dead \cup R) \in Nat
          /\ Cardinality(Mounts) \in Nat /\ Cardinality(Flists) \in Nat /\ Cardinality(M) \in Nat
      BY <2>1, <2>2, <2>3, <2>4, <2>5, <2>6, FS_CardinalityType, FlistAssumption
    <3> HIDE DEF U
    <3> QED BY <2>1, <2>2, <2>3, <2>4, <2>5, <2>6, <3>1, FlistAssumption, SMTT(30)
  <2>8. \E p \in Servers : p \notin U
    <3> SUFFICES ASSUME Servers \subseteq U PROVE FALSE
      OBVIOUS
    <3> HIDE DEF U
    <3>1. /\ Cardinality(Servers) <= Cardinality(U)
          /\ Cardinality(U) \in Nat /\ Cardinality(Servers) \in Nat
      BY <2>6, FS_Subset, FS_CardinalityType, FlistAssumption
    <3> QED BY <2>7, <3>1, SMTT(30)
  <2>9. \E p \in Servers : /\ p \notin dead \cup {roMount[h] : h \in Flists}
                           /\ \A n \in Mounts : flistMounts[n] # Nothing => flistMounts[n].pid # p
    BY <2>8 DEF R, P, M
  <2> QED BY <2>9 DEF FreeServer
\* The records of the module, seen through their fields.
<1>FlistRecords. /\ Nothing.kind = "none" /\ Rest.at = "idle" /\ CleanUp.at = "clean" /\ CleanUp # Rest
  BY DEF Nothing, Rest, CleanUp
\* The first state satisfies the invariant: nothing is mounted.
<1>FlistInvInit. FlistInit => FlistInv
  <2> SUFFICES ASSUME FlistInit PROVE FlistInv
    OBVIOUS
  <2>1. 0 \in Nat /\ 0 <= MaxFlistFaults /\ 0 <= 0
    BY FlistAssumption, SMT
  <2>2. FlistTypes
    BY <2>1, <1>FlistRecords, FS_EmptySet DEF FlistInit, FlistTypes, MountOK, MountCall
  <2> QED BY <2>2, <1>FlistRecords DEF FlistInit, FlistInv, VolumeOfCall, LayerStays, NoneUnused, MountCall
\* A fault is counted, and adds at most one dead server.
<1>FaultCounted. ASSUME FlistTypes, FlistFault, NEW p
    PROVE  /\ flistFaults' \in Nat /\ flistFaults' <= MaxFlistFaults
           /\ Cardinality(dead) <= flistFaults'
           /\ IsFiniteSet(dead \cup {p}) /\ Cardinality(dead \cup {p}) <= flistFaults'
  <2> USE <1>FaultCounted
  <2>1. /\ Cardinality(dead) \in Nat /\ IsFiniteSet(dead \cup {p})
        /\ \/ Cardinality(dead \cup {p}) = Cardinality(dead)
           \/ Cardinality(dead \cup {p}) = Cardinality(dead) + 1
    BY FS_CardinalityType, FS_AddElement DEF FlistTypes
  <2> QED BY <2>1, FlistAssumption, SMT DEF FlistTypes, FlistFault
\* The count of faults bounds the dead servers after a step that kills none.
<1>FaultsKept. ASSUME FlistTypes, dead' = dead, UNCHANGED flistFaults \/ FlistFault
    PROVE  FaultsOK'
  <2> USE <1>FaultsKept
  <2>1. CASE UNCHANGED flistFaults BY <2>1 DEF FaultsOK, FlistTypes
  <2>2. CASE FlistFault BY <2>2, <1>FaultCounted DEF FaultsOK, FlistTypes
  <2> QED BY <2>1, <2>2
\* A call of Mount begins under a name where nothing is mounted.
<1>FlistInvMountBegin. ASSUME FlistInv, NEW n \in Mounts, NEW h \in Flists, NEW rw \in BOOLEAN, MountBegin(n, h, rw)
    PROVE  FlistInv'
  <2> USE <1>FlistInvMountBegin
  <2>1. /\ call = Rest /\ call.at = "idle"
        /\ UNCHANGED <<roMount, dead, volumes, interrupted, stray, flistFaults>>
    BY <1>FlistRecords DEF MountBegin
  <2> DEFINE gone == flistMounts[n].kind = "bind" /\ flistMounts[n].pid \in dead
  <2>2. CASE ~ (flistMounts[n] = Nothing \/ gone)
    <3>1. flistMounts' = flistMounts /\ call' = CleanUp /\ call'.at = "clean" /\ call' # Rest
      BY <2>2, <1>FlistRecords DEF MountBegin
    <3> QED BY <2>1, <3>1 DEF FlistInv, FlistTypes, VolumeOfCall, LayerStays, NoneUnused, MountCall, MountOK
  <2>3. CASE flistMounts[n] = Nothing \/ gone
    <3>1. /\ call' = [at |-> "ro", n |-> n, flist |-> h, rw |-> rw, new |-> FALSE]
          /\ flistMounts' = [flistMounts EXCEPT ![n] = Nothing]
      BY <2>3 DEF MountBegin, FlistInv, FlistTypes
    <3>2. /\ call'.at = "ro" /\ call'.n = n /\ call'.flist = h /\ call'.rw = rw /\ call'.new = FALSE
      BY <3>1
    <3>3. /\ flistMounts' = [m \in Mounts |-> flistMounts'[m]] /\ flistMounts'[n] = Nothing
          /\ \A m \in Mounts \ {n} : flistMounts'[m] = flistMounts[m]
          /\ flistMounts[n].kind # "overlay"
      BY <2>3, <3>1, <1>FlistRecords DEF FlistInv, FlistTypes
    <3>4. FlistTypes' BY <2>1, <3>1, <3>2, <3>3 DEF FlistInv, FlistTypes, MountCall, MountOK
    <3>5. VolumeOfCall' BY <2>1, <3>2, <3>3 DEF FlistInv, FlistTypes, VolumeOfCall, MountCall
    <3>6. LayerStays' BY <2>1, <3>2, <3>3 DEF FlistInv, LayerStays
    <3>7. NoneUnused' BY <3>2, <1>FlistRecords DEF NoneUnused
    <3> QED BY <3>4, <3>5, <3>6, <3>7 DEF FlistInv
  <2> QED BY <2>2, <2>3
\* The read only mount is found, or made by a server that is free.
<1>FlistInvMountRO. ASSUME FlistInv, MountRO
    PROVE  FlistInv'
  <2> USE <1>FlistInvMountRO
  <2> DEFINE f == call.flist
  <2>1. /\ call.at = "ro" /\ f \in Flists /\ call.n \in Mounts
        /\ UNCHANGED <<dead, flistMounts, volumes, interrupted, stray>>
        /\ UNCHANGED flistFaults \/ FlistFault
    BY DEF MountRO, FlistInv, FlistTypes, MountCall
  <2>2. FaultsOK'
    BY <2>1, <1>FaultsKept DEF FlistInv
  <2>3. CASE /\ \E at \in {"volume", "bind"} : FlistGoto(at)
             /\ \/ roMount[f] \notin dead \cup {NoServer} /\ roMount' = roMount
                \/ roMount[f] \in dead \cup {NoServer} /\ roMount' = [roMount EXCEPT ![f] = FreeServer]
    <3>1. PICK at \in {"volume", "bind"} : FlistGoto(at)
      BY <2>3
    <3>2. call' = [at |-> at, n |-> call.n, flist |-> f, rw |-> call.rw, new |-> call.new]
      BY <2>1, <3>1 DEF FlistGoto, FlistInv, FlistTypes, MountCall
    <3>3. /\ call'.at = at /\ call'.n = call.n /\ call'.flist = f /\ call'.rw = call.rw
          /\ call'.new = call.new
      BY <3>2
    <3>4. /\ roMount' \in [Flists -> Servers \cup {NoServer}] /\ roMount'[f] # NoServer
          /\ \A g \in Flists : g # f \/ roMount[f] \notin dead \cup {NoServer} => roMount'[g] = roMount[g]
      BY <2>1, <2>3, <1>FreeServerIsOne, FlistAssumption DEF FlistInv, FlistTypes, NoServer
    <3>5. FlistTypes' BY <2>1, <2>2, <3>2, <3>3, <3>4 DEF FlistInv, FlistTypes, FaultsOK, MountCall, MountOK
    <3>6. VolumeOfCall' BY <2>1, <3>3 DEF FlistInv, FlistTypes, VolumeOfCall, MountCall
    <3>7. LayerStays'
      <4>1. ASSUME NEW n \in Mounts, flistMounts[n] # Nothing, flistMounts[n].pid \notin dead
            PROVE  roMount'[flistMounts[n].flist] = flistMounts[n].pid
        <5>1. /\ roMount[flistMounts[n].flist] = flistMounts[n].pid /\ flistMounts[n].pid # NoServer
              /\ flistMounts[n].flist \in Flists
          BY <4>1, FlistAssumption DEF FlistInv, FlistTypes, MountOK, LayerStays, NoServer
        <5> QED BY <2>1, <3>4, <4>1, <5>1
      <4> QED BY <2>1, <3>3, <3>4, <4>1 DEF LayerStays
    <3>8. NoneUnused' BY <3>3, <1>FlistRecords DEF NoneUnused
    <3> QED BY <3>5, <3>6, <3>7, <3>8 DEF FlistInv
  <2>4. CASE /\ roMount[f] \in dead \cup {NoServer} /\ call' = CleanUp
             /\ roMount' = [roMount EXCEPT ![f] = NoServer]
    <3>1. call'.at = "clean" /\ call' # Rest BY <2>4, <1>FlistRecords
    <3>2. /\ roMount' \in [Flists -> Servers \cup {NoServer}]
          /\ \A g \in Flists \ {f} : roMount'[g] = roMount[g]
      BY <2>1, <2>4 DEF FlistInv, FlistTypes
    <3>3. FlistTypes' BY <2>1, <2>2, <3>1, <3>2 DEF FlistInv, FlistTypes, FaultsOK, MountCall, MountOK
    <3>4. VolumeOfCall' BY <2>1, <3>1 DEF FlistInv, FlistTypes, VolumeOfCall, MountCall
    <3>5. LayerStays'
      <4>1. ASSUME NEW n \in Mounts, flistMounts[n] # Nothing, flistMounts[n].pid \notin dead
            PROVE  roMount'[flistMounts[n].flist] = flistMounts[n].pid
        <5>1. /\ roMount[flistMounts[n].flist] = flistMounts[n].pid /\ flistMounts[n].pid # NoServer
              /\ flistMounts[n].flist \in Flists
          BY <4>1, FlistAssumption DEF FlistInv, FlistTypes, MountOK, LayerStays, NoServer
        <5> QED BY <2>4, <3>2, <4>1, <5>1
      <4> QED BY <2>1, <3>1, <4>1 DEF LayerStays
    <3>6. NoneUnused' BY <3>1 DEF NoneUnused
    <3> QED BY <3>3, <3>4, <3>5, <3>6 DEF FlistInv
  <2> QED BY <2>3, <2>4 DEF MountRO
\* A read only flist is bound, and keeps its server in use.
<1>FlistInvMountBind. ASSUME FlistInv, MountBind
    PROVE  FlistInv'
  <2> USE <1>FlistInvMountBind
  <2> DEFINE p == roMount[call.flist]
  <2>1. /\ call.at = "bind" /\ call.flist \in Flists /\ call.n \in Mounts
        /\ flistMounts[call.n] = Nothing /\ p \in Servers
        /\ UNCHANGED <<roMount, dead, volumes, interrupted, stray>>
        /\ call' = CleanUp /\ call'.at = "clean" /\ call' # Rest
    BY <1>FlistRecords DEF MountBind, FlistInv, FlistTypes, MountCall, VolumeOfCall, LayerStays
  <2>2. FaultsOK'
    BY <2>1, <1>FaultsKept DEF FlistInv, MountBind
  <2>3. /\ flistMounts' = [n \in Mounts |-> flistMounts'[n]]
        /\ \A n \in Mounts \ {call.n} : flistMounts'[n] = flistMounts[n]
        /\ flistMounts'[call.n] = Nothing \/ flistMounts'[call.n] = Bind(call.flist, p)
    BY <2>1 DEF MountBind, FlistInv, FlistTypes
  <2> DEFINE m == flistMounts'[call.n]
  <2>4. m = Nothing \/ (m.kind = "bind" /\ m.flist = call.flist /\ m.pid = p)
    BY <2>3, SMT DEF Bind
  <2>5. MountOK(m) BY <2>1, <2>4 DEF MountOK
  <2>6. \A n \in Mounts : MountOK(flistMounts'[n]) BY <2>3, <2>5 DEF FlistInv, FlistTypes
  <2>7. FlistTypes'
    BY <2>1, <2>2, <2>3, <2>6 DEF FlistInv, FlistTypes, FaultsOK, MountCall, MountOK
  <2>8. VolumeOfCall'
    BY <2>1, <2>3, <1>FlistRecords DEF FlistInv, FlistTypes, VolumeOfCall, MountCall
  <2>9. LayerStays'
    <3>1. ASSUME NEW n \in Mounts, flistMounts'[n] # Nothing, flistMounts'[n].pid \notin dead
          PROVE  roMount[flistMounts'[n].flist] = flistMounts'[n].pid
      <4>1. CASE n = call.n BY <2>4, <3>1, <4>1
      <4>2. CASE n # call.n BY <2>3, <3>1, <4>2 DEF FlistInv, LayerStays
      <4> QED BY <4>1, <4>2
    <3> QED BY <2>1, <3>1 DEF LayerStays
  <2>10. NoneUnused' BY <2>1 DEF NoneUnused
  <2> QED BY <2>7, <2>8, <2>9, <2>10 DEF FlistInv
\* The volume of a writable flist is found or created.
<1>FlistInvMountVolume. ASSUME FlistInv, MountVolume
    PROVE  FlistInv'
  <2> USE <1>FlistInvMountVolume
  <2>1. /\ call.at = "volume" /\ call.flist \in Flists /\ call.n \in Mounts
        /\ flistMounts[call.n] = Nothing
        /\ call = [at |-> call.at, n |-> call.n, flist |-> call.flist, rw |-> call.rw,
                   new |-> call.new]
        /\ UNCHANGED <<roMount, dead, flistMounts, interrupted, stray>>
    BY DEF MountVolume, FlistInv, FlistTypes, MountCall, VolumeOfCall
  <2>2. FaultsOK'
    BY <2>1, <1>FaultsKept DEF FlistInv, MountVolume
  <2>3. CASE /\ volumes' = volumes \cup {call.n}
             /\ call' = [call EXCEPT !.at = "overlay", !.new = call.n \notin volumes]
    <3>1. call' = [at |-> "overlay", n |-> call.n, flist |-> call.flist, rw |-> call.rw,
                   new |-> call.n \notin volumes]
      BY <2>1, <2>3
    <3>2. /\ call'.at = "overlay" /\ call'.n = call.n /\ call'.flist = call.flist
          /\ call'.rw = call.rw /\ call'.new = (call.n \notin volumes)
      BY <3>1
    <3>3. call' = [at |-> call'.at, n |-> call'.n, flist |-> call'.flist, rw |-> call'.rw,
                   new |-> call'.new]
      BY <3>1, <3>2
    <3>4. FlistTypes'
      BY <2>1, <2>2, <2>3, <3>2, <3>3 DEF FlistInv, FlistTypes, FaultsOK, MountCall, MountOK
    <3>5. VolumeOfCall'
      BY <2>1, <2>3, <3>2, <1>FlistRecords DEF FlistInv, FlistTypes, VolumeOfCall, MountCall
    <3>6. LayerStays' BY <2>1, <3>2 DEF FlistInv, LayerStays
    <3>7. NoneUnused' BY <3>2, <1>FlistRecords DEF NoneUnused
    <3> QED BY <3>4, <3>5, <3>6, <3>7 DEF FlistInv
  <2>4. CASE call' = CleanUp /\ volumes' = volumes
    <3>1. call'.at = "clean" /\ call' # Rest BY <2>4, <1>FlistRecords
    <3>2. FlistTypes' BY <2>1, <2>2, <2>4, <3>1 DEF FlistInv, FlistTypes, FaultsOK, MountCall, MountOK
    <3>3. VolumeOfCall' BY <2>1, <2>4, <3>1 DEF FlistInv, VolumeOfCall, MountCall
    <3>4. LayerStays' BY <2>1, <3>1 DEF FlistInv, LayerStays
    <3>5. NoneUnused' BY <3>1 DEF NoneUnused
    <3> QED BY <3>2, <3>3, <3>4, <3>5 DEF FlistInv
  <2> QED BY <2>3, <2>4 DEF MountVolume
\* The overlay is mounted, or the new volume is deleted again.
<1>FlistInvMountOverlay. ASSUME FlistInv, MountOverlay
    PROVE  FlistInv'
  <2> USE <1>FlistInvMountOverlay
  <2> DEFINE p == roMount[call.flist]
  <2>1. /\ call.at = "overlay" /\ call.flist \in Flists /\ call.n \in Mounts
        /\ flistMounts[call.n] = Nothing /\ p \in Servers
        /\ UNCHANGED <<roMount, dead, interrupted>>
        /\ call' = CleanUp /\ call'.at = "clean" /\ call' # Rest
    BY <1>FlistRecords DEF MountOverlay, FlistInv, FlistTypes, MountCall, VolumeOfCall, LayerStays
  <2>2. FaultsOK'
    BY <2>1, <1>FaultsKept DEF FlistInv, MountOverlay
  <2>3. /\ flistMounts' = [n \in Mounts |-> flistMounts'[n]]
        /\ \A n \in Mounts \ {call.n} : flistMounts'[n] = flistMounts[n]
        /\ flistMounts'[call.n] = Nothing \/ flistMounts'[call.n] = Overlay(call.flist, p)
    BY <2>1 DEF MountOverlay, FlistInv, FlistTypes
  <2> DEFINE m == flistMounts'[call.n]
  <2>4. m = Nothing \/ (m.kind = "overlay" /\ m.flist = call.flist /\ m.pid = p)
    BY <2>3, SMT DEF Overlay
  <2>5. MountOK(m) BY <2>1, <2>4 DEF MountOK
  <2>6. \A n \in Mounts : MountOK(flistMounts'[n]) BY <2>3, <2>5 DEF FlistInv, FlistTypes
  <2>7. /\ volumes' \subseteq volumes /\ stray' \subseteq volumes'
        /\ \A n \in volumes' \ stray' : n \in volumes \ stray
        /\ call.n \in volumes' \ stray' => m.kind = "overlay"
    <3>1. /\ stray \subseteq volumes /\ (call.new => call.n \notin stray)
          /\ call.n \in volumes \ stray => call.new
      BY <2>1, <1>FlistRecords DEF FlistInv, FlistTypes, VolumeOfCall
    <3>2. CASE m = Overlay(call.flist, p) /\ UNCHANGED <<volumes, stray>>
      <4>1. m.kind = "overlay" BY <3>2, SMT DEF Overlay
      <4> QED BY <3>1, <3>2, <4>1
    <3>3. CASE volumes' = (IF call.new THEN volumes \ {call.n} ELSE volumes) /\ stray' = stray
      BY <3>1, <3>3
    <3>4. CASE stray' = stray \cup {call.n} /\ volumes' = volumes
      <4>1. call.n \in volumes BY <2>1 DEF FlistInv, VolumeOfCall
      <4> QED BY <3>1, <3>4, <4>1
    <3> QED BY <2>1, <3>2, <3>3, <3>4 DEF MountOverlay, FlistInv, FlistTypes
  <2>8. FlistTypes'
    BY <2>1, <2>2, <2>3, <2>6, <2>7 DEF FlistInv, FlistTypes, FaultsOK, MountCall, MountOK
  <2>9. VolumeOfCall'
    <3>1. ASSUME NEW n \in volumes' \ stray' PROVE flistMounts'[n].kind = "overlay"
      <4>1. CASE n = call.n BY <2>7, <3>1, <4>1
      <4>2. CASE n # call.n
        BY <2>3, <2>7, <3>1, <4>2, ZenonT(30) DEF FlistInv, FlistTypes, VolumeOfCall
      <4> QED BY <4>1, <4>2
    <3> QED BY <2>1, <3>1 DEF VolumeOfCall, MountCall
  <2>10. LayerStays'
    <3>1. ASSUME NEW n \in Mounts, flistMounts'[n] # Nothing, flistMounts'[n].pid \notin dead
          PROVE  roMount[flistMounts'[n].flist] = flistMounts'[n].pid
      <4>1. CASE n = call.n BY <2>4, <3>1, <4>1
      <4>2. CASE n # call.n BY <2>3, <3>1, <4>2 DEF FlistInv, LayerStays
      <4> QED BY <4>1, <4>2
    <3> QED BY <2>1, <3>1 DEF LayerStays
  <2>11. NoneUnused' BY <2>1 DEF NoneUnused
  <2> QED BY <2>8, <2>9, <2>10, <2>11 DEF FlistInv
\* Unmount takes the mount and the volume, and leaves the clean up to do.
<1>FlistInvUnmount. ASSUME FlistInv, NEW n \in Mounts, Unmount(n)
    PROVE  FlistInv'
  <2> USE <1>FlistInvUnmount
  <2>1. /\ call.at = "idle" /\ UNCHANGED <<roMount, dead, interrupted>>
        /\ call' = CleanUp /\ call'.at = "clean" /\ call' # Rest
    BY <1>FlistRecords DEF Unmount
  <2>2. FaultsOK'
    BY <2>1, <1>FaultsKept DEF FlistInv, Unmount
  <2>3. /\ flistMounts' = [m \in Mounts |-> flistMounts'[m]]
        /\ \A m \in Mounts \ {n} : flistMounts'[m] = flistMounts[m]
        /\ flistMounts'[n] = Nothing \/ flistMounts'[n] = flistMounts[n]
    BY <2>1 DEF Unmount, FlistInv, FlistTypes
  <2>4. /\ volumes' \subseteq volumes /\ stray' \subseteq volumes'
        /\ \A m \in volumes' \ stray' : m \in volumes \ stray /\ m # n
    <3>1. stray \subseteq volumes BY DEF FlistInv, FlistTypes
    <3>2. CASE volumes' = volumes \ {n} /\ stray' = stray \ {n}
      BY <3>1, <3>2
    <3>3. CASE /\ volumes' = volumes \/ volumes' = volumes \ {n}
               /\ stray' = IF n \in volumes' THEN stray \cup {n} ELSE stray \ {n}
      BY <3>1, <3>3
    <3> QED BY <3>2, <3>3 DEF Unmount
  <2>5. \A m \in Mounts : MountOK(flistMounts'[m])
    BY <2>3 DEF FlistInv, FlistTypes, MountOK
  <2>6. FlistTypes'
    BY <2>1, <2>2, <2>3, <2>4, <2>5 DEF FlistInv, FlistTypes, FaultsOK, MountCall, MountOK
  <2>7. VolumeOfCall'
    BY <2>1, <2>3, <2>4, <1>FlistRecords DEF FlistInv, FlistTypes, VolumeOfCall, MountCall
  <2>8. LayerStays'
    <3>1. ASSUME NEW m \in Mounts, flistMounts'[m] # Nothing
          PROVE  flistMounts'[m] = flistMounts[m]
      BY <2>3, <3>1
    <3> QED BY <2>1, <3>1 DEF FlistInv, LayerStays
  <2>9. NoneUnused' BY <2>1 DEF NoneUnused
  <2> QED BY <2>6, <2>7, <2>8, <2>9 DEF FlistInv
\* cleanUnusedMounts unmounts what no mount is made of.
<1>FlistInvClean. ASSUME FlistInv, cleanUnusedMounts
    PROVE  FlistInv'
  <2> USE <1>FlistInvClean
  <2>1. /\ call.at = "clean" /\ call' = Rest /\ call'.at = "idle"
        /\ UNCHANGED <<dead, flistMounts, volumes, stray>>
    BY <1>FlistRecords DEF cleanUnusedMounts
  <2>2. FaultsOK'
    BY <2>1, <1>FaultsKept DEF FlistInv, cleanUnusedMounts
  <2>3. VolumeOfCall' BY <2>1 DEF FlistInv, VolumeOfCall, MountCall
  <2>4. CASE roMount' = roMount /\ interrupted' = TRUE
    <3>1. FlistTypes' BY <2>1, <2>2, <2>4 DEF FlistInv, FlistTypes, FaultsOK, MountCall, MountOK
    <3>2. LayerStays' BY <2>1, <2>4 DEF FlistInv, LayerStays
    <3>3. NoneUnused' BY <2>4 DEF NoneUnused
    <3> QED BY <2>3, <3>1, <3>2, <3>3 DEF FlistInv
  <2>5. CASE roMount' = [h \in Flists |-> IF h \in Unused THEN NoServer ELSE roMount[h]]
    <3>1. /\ roMount' \in [Flists -> Servers \cup {NoServer}]
          /\ \A h \in Flists : IF h \in Unused THEN roMount'[h] = NoServer
                              ELSE roMount'[h] = roMount[h]
      BY <2>5 DEF FlistInv, FlistTypes
    <3>2. \A n \in Mounts : flistMounts[n] # Nothing => flistMounts[n].flist \in Flists
      BY DEF FlistInv, FlistTypes, MountOK
    <3>3. ASSUME NEW n \in Mounts
          PROVE  ServerOf(n)' = ServerOf(n)
      <4>1. CASE flistMounts[n].kind = "overlay"
        <5>1. ServerOf(n) = roMount[flistMounts[n].flist] /\ flistMounts[n].flist \in Flists
          BY <3>2, <4>1, <1>FlistRecords DEF ServerOf
        <5>2. flistMounts[n].flist \notin Unused
          BY <3>3, <5>1 DEF Unused
        <5> QED BY <2>1, <3>1, <4>1, <5>1, <5>2 DEF ServerOf
      <4>2. CASE flistMounts[n].kind # "overlay"
        BY <2>1, <4>2 DEF ServerOf
      <4> QED BY <4>1, <4>2
    <3>4. FlistTypes' BY <2>1, <2>2, <3>1 DEF FlistInv, FlistTypes, FaultsOK, MountCall, MountOK
    <3>5. LayerStays'
      <4>1. ASSUME NEW n \in Mounts, flistMounts[n] # Nothing, flistMounts[n].pid \notin dead
            PROVE  roMount'[flistMounts[n].flist] = flistMounts[n].pid
        <5>1. /\ roMount[flistMounts[n].flist] = flistMounts[n].pid
              /\ flistMounts[n].flist \in Flists /\ flistMounts[n].kind \in {"bind", "overlay"}
          BY <4>1, <1>FlistRecords DEF FlistInv, FlistTypes, MountOK, LayerStays
        <5>2. ServerOf(n) = flistMounts[n].pid
          BY <5>1 DEF ServerOf
        <5>3. flistMounts[n].flist \notin Unused
          BY <4>1, <5>1, <5>2 DEF Unused
        <5> QED BY <3>1, <5>1, <5>3
      <4> QED BY <2>1, <4>1 DEF LayerStays
    <3>6. NoneUnused'
      <4>1. ASSUME NEW h \in Flists, roMount'[h] # NoServer
            PROVE  \E n \in Mounts : ServerOf(n)' = roMount'[h]
        <5>1. h \notin Unused /\ roMount'[h] = roMount[h] BY <3>1, <4>1
        <5>2. PICK n \in Mounts : ServerOf(n) = roMount[h] BY <4>1, <5>1 DEF Unused
        <5> QED BY <3>3, <5>1, <5>2
      <4> QED BY <4>1 DEF NoneUnused
    <3> QED BY <2>3, <3>4, <3>5, <3>6 DEF FlistInv
  <2> QED BY <2>4, <2>5 DEF cleanUnusedMounts
\* A server that dies and a restart of flistd are counted.
<1>FlistInvFaults. ASSUME FlistInv, FlistdRestart \/ \E h \in Flists : ServerDies(h)
    PROVE  FlistInv'
  <2> USE <1>FlistInvFaults
  <2>1. CASE FlistdRestart
    <3>1. /\ call' = Rest /\ call'.at = "idle" /\ interrupted' = TRUE
          /\ UNCHANGED <<roMount, dead, flistMounts, volumes>>
          /\ stray' = {n \in volumes : n \in stray \/ flistMounts[n].kind # "overlay"}
      BY <2>1, <1>FlistRecords DEF FlistdRestart
    <3>2. FaultsOK' BY <2>1, <3>1, <1>FaultsKept DEF FlistInv, FlistdRestart
    <3>3. FlistTypes' BY <3>1, <3>2 DEF FlistInv, FlistTypes, FaultsOK, MountCall, MountOK
    <3>4. VolumeOfCall' BY <3>1 DEF VolumeOfCall, MountCall
    <3>5. LayerStays' BY <3>1 DEF FlistInv, LayerStays
    <3>6. NoneUnused' BY <3>1 DEF NoneUnused
    <3> QED BY <3>3, <3>4, <3>5, <3>6 DEF FlistInv
  <2>2. ASSUME NEW h \in Flists, ServerDies(h) PROVE FlistInv'
    <3>1. /\ dead' = dead \cup {roMount[h]}
          /\ UNCHANGED <<roMount, flistMounts, volumes, call, interrupted, stray>>
      BY <2>2 DEF ServerDies
    <3>2. FaultsOK' BY <2>2, <3>1, <1>FaultCounted DEF FlistInv, ServerDies, FaultsOK
    <3>3. FlistTypes' BY <3>1, <3>2 DEF FlistInv, FlistTypes, FaultsOK, MountCall, MountOK
    <3>4. VolumeOfCall' BY <3>1 DEF FlistInv, VolumeOfCall, MountCall
    <3>5. LayerStays' BY <3>1 DEF FlistInv, LayerStays
    <3>6. NoneUnused' BY <3>1 DEF FlistInv, NoneUnused, ServerOf
    <3> QED BY <3>3, <3>4, <3>5, <3>6 DEF FlistInv
  <2> QED BY <2>1, <2>2
<1>1. FlistInv /\ [FlistNext]_flistVars => FlistInv'
  <2> SUFFICES ASSUME FlistInv, [FlistNext]_flistVars PROVE FlistInv'
    OBVIOUS
  <2>1. CASE FlistNext
    BY <2>1, <1>FlistInvMountBegin, <1>FlistInvMountRO, <1>FlistInvMountBind, <1>FlistInvMountVolume,
       <1>FlistInvMountOverlay, <1>FlistInvUnmount, <1>FlistInvClean, <1>FlistInvFaults
       DEF FlistNext, FlistStep
  <2>2. CASE UNCHANGED flistVars
    <3>1. FlistTypes' BY <2>2 DEF flistVars, FlistInv, FlistTypes, MountOK, MountCall
    <3>2. VolumeOfCall' BY <2>2 DEF flistVars, FlistInv, VolumeOfCall, MountCall
    <3>3. LayerStays' BY <2>2 DEF flistVars, FlistInv, LayerStays
    <3>4. NoneUnused' BY <2>2 DEF flistVars, FlistInv, NoneUnused, ServerOf
    <3> QED BY <3>1, <3>2, <3>3, <3>4 DEF FlistInv
  <2> QED BY <2>1, <2>2
<1>2. FlistInv => FlistMounts
  BY <1>FlistRecords DEF FlistInv, VolumeOfCall, FlistMounts, VolumeHasOverlay
<1> QED BY <1>FlistInvInit, <1>1, <1>2, PTL DEF FlistSpec
-----------------------------------------------------------------------------
\* the workloads the properties leave out
Loose == half \cup hidden

\* the sizes of the namespaces of the other ones
SoundSize(d) == [z \in Zdbs |-> IF z \in Loose THEN 0 ELSE ZdbSize(d)[z]]

\* their sum
Sound(d) == SumFunctionOnSet(SoundSize(d), Zdbs)

\* a call on its way
ZdbCalls == [at : {"container", "create", "size"}, z : todo, d : allocated]

\* the types the proof needs
ZdbTypes ==
    /\ allocated \subseteq Devices /\ containers \subseteq allocated /\ answering \subseteq containers
    /\ space \in [Devices -> [Zdbs -> Nat \cup {NoSpace}]]
    /\ wanted \in [Zdbs -> Nat]
    /\ zstate \in [Zdbs -> {"none", "ok", "error", "deleted"}]
    /\ todo \subseteq Zdbs /\ kept \subseteq Zdbs
    /\ \A z \in kept : zstate[z] = "deleted"
    /\ \A z \in todo : zstate[z] \in {"none", "ok"}
    /\ zcall = NoCall \/ zcall \in ZdbCalls

\* namespaces are on disks with a volume
HomesAllocated == \A z \in Zdbs : ZdbHomes(z) \subseteq allocated

\* what a call found still holds at each of its steps
CallHasRoom ==
    /\ zcall.at = "container" => /\ wanted[zcall.z] <= DeviceSize
                                 /\ \A z \in Zdbs : space[zcall.d][z] = NoSpace
    /\ zcall.at \in {"create", "size"} => Sound(zcall.d) + wanted[zcall.z] <= DeviceSize
    /\ zcall.at = "size" => space[zcall.d][zcall.z] \in Nat

\* the namespace of a call that saw all containers is where the call put it
CallHasNone ==
    zcall.at # "idle" /\ zcall.z \notin hidden =>
    IF zcall.at = "size" THEN ZdbHomes(zcall.z) = {zcall.d} /\ space[zcall.d][zcall.z] = 0
                         ELSE ZdbHomes(zcall.z) = {}

\* the other namespaces fit
SoundFits == \A d \in Devices : Sound(d) <= DeviceSize

\* a workload without a result has no namespace before its call creates it
NewIsNowhere ==
    \A z \in Zdbs \ Loose :
        zstate[z] = "none" /\ ~(zcall.at = "size" /\ zcall.z = z) => ZdbHomes(z) = {}

\* every namespace of a workload that is ok has its size
OkSizedWhole ==
    \A z \in Zdbs \ Loose :
        zstate[z] = "ok" => /\ ZdbHomes(z) # {}
                            /\ \A d \in ZdbHomes(z) : space[d][z] >= wanted[z]

\* the inductive invariant of the zdb primitive
ZdbIInv ==
    /\ ZdbTypes /\ HomesAllocated /\ CallHasRoom /\ CallHasNone
    /\ SoundFits /\ NewIsNowhere /\ OkSizedWhole /\ OneSpace

\* the namespaces of sound workloads that a step leaves are as they were, or
\* have no size
KeepsSizes ==
    \A d \in Devices, z \in Zdbs :
        z \notin Loose' => /\ z \notin Loose
                           /\ space'[d][z] = space[d][z] \/ space'[d][z] \in {NoSpace, 0}

-----------------------------------------------------------------------------
-----------------------------------------------------------------------------
\* ZdbSpaces holds for all disks, workloads, sizes, restarts and faults.
THEOREM ZdbSpacesAlways == ZdbSpec => []ZdbSpaces
\* It holds when the node has no namespaces.
<1>ZdbInitHolds. ZdbInit => ZdbIInv
  <2> SUFFICES ASSUME ZdbInit PROVE ZdbIInv OBVIOUS
  <2>1. ZdbTypes
    <3>1. ZdbSizes \subseteq Nat BY ZdbAssumption
    <3>2. NoSpace \in Nat \cup {NoSpace} OBVIOUS
    <3> QED BY <3>1, <3>2 DEF ZdbInit, ZdbTypes
  <2>2. \A d \in Devices, z \in Zdbs : space[d][z] = NoSpace BY DEF ZdbInit
  <2>3. \A z \in Zdbs : ZdbHomes(z) = {} BY <2>2 DEF ZdbHomes
  <2>4. SoundFits
    <3> SUFFICES ASSUME NEW d \in Devices PROVE Sound(d) <= DeviceSize BY DEF SoundFits
    <3>1. \A z \in Zdbs : SoundSize(d)[z] = 0 BY <2>2 DEF SoundSize, ZdbSize
    <3>2. Sound(d) = 0 BY <3>1, SumZero, ZdbAssumption DEF Sound
    <3> QED BY <3>2, ZdbAssumption, SMT
  <2>5. zcall.at = "idle" BY DEF ZdbInit, NoCall
  <2>6. \A z \in Zdbs : zstate[z] = "none" BY DEF ZdbInit
  <2> QED BY <2>1, <2>3, <2>4, <2>5, <2>6
          DEF ZdbIInv, HomesAllocated, CallHasRoom, CallHasNone, NewIsNowhere, OkSizedWhole, OneSpace
\* Every step keeps the invariant.
<1>ZdbStepKeeps. ZdbIInv /\ [ZdbNext]_zdbVars => ZdbIInv'
    \* The sums are natural numbers, and that of the sound part is the smaller.
  <2>SumsOfDevice. ASSUME ZdbTypes, NEW d \in Devices
      PROVE  /\ \A z \in Zdbs : SoundSize(d)[z] \in Nat
             /\ Sound(d) \in Nat /\ ZdbReserved(d) \in Nat /\ Sound(d) <= ZdbReserved(d)
    <3> USE <2>SumsOfDevice
    <3>1. \A z \in Zdbs : space[d][z] \in Nat \cup {NoSpace} BY SMT DEF ZdbTypes
    <3>2. \A z \in Zdbs : ZdbSize(d)[z] \in Nat BY <3>1, SMTT(30) DEF ZdbSize
    <3>3. \A z \in Zdbs : /\ SoundSize(d)[z] \in Nat /\ ZdbSize(d)[z] \in Nat
                          /\ SoundSize(d)[z] <= ZdbSize(d)[z]
      BY <3>2, SMT DEF SoundSize
    <3>4. IsFiniteSet(Zdbs) BY ZdbAssumption
    <3>5. Sound(d) \in Nat /\ ZdbReserved(d) \in Nat BY <3>3, <3>4, SumType DEF Sound, ZdbReserved
    <3>6. Sound(d) <= ZdbReserved(d) BY <3>3, <3>4, SumMono DEF Sound, ZdbReserved
    <3> QED BY <3>3, <3>5, <3>6
    \* The same of the next state.
  <2>ZdbTypesSum. ASSUME ZdbTypes', NEW d \in Devices
      PROVE  Sound(d)' \in Nat
    <3> USE <2>ZdbTypesSum
    <3>1. \A z \in Zdbs : space'[d][z] \in Nat \cup {NoSpace} BY SMTT(30) DEF ZdbTypes
    <3>2. \A z \in Zdbs : SoundSize(d)'[z] \in Nat BY <3>1, SMT DEF SoundSize, ZdbSize, NoSpace
    <3> QED BY <3>2, SumType, ZdbAssumption DEF Sound
    \* Such a step adds nothing to the sums.
  <2>SoundShrinks. ASSUME ZdbTypes, ZdbTypes', KeepsSizes, NEW d \in Devices
      PROVE  Sound(d)' <= Sound(d)
    <3> USE <2>SoundShrinks
    <3>1. ASSUME NEW z \in Zdbs
          PROVE  SoundSize(d)'[z] \in Nat /\ SoundSize(d)[z] \in Nat /\ SoundSize(d)'[z] <= SoundSize(d)[z]
      <4>1. space[d][z] \in Nat \cup {NoSpace} /\ space'[d][z] \in Nat \cup {NoSpace} BY SMT DEF ZdbTypes
      <4>2. SoundSize(d)[z] = IF z \in Loose \/ space[d][z] = NoSpace THEN 0 ELSE space[d][z]
        BY DEF SoundSize, ZdbSize
      <4>3. SoundSize(d)'[z] = IF z \in Loose' \/ space'[d][z] = NoSpace THEN 0 ELSE space'[d][z]
        BY DEF SoundSize, ZdbSize, NoSpace
      <4>4. z \notin Loose' => /\ z \notin Loose
                               /\ space'[d][z] = space[d][z] \/ space'[d][z] \in {NoSpace, 0}
        BY DEF KeepsSizes
      <4>5. SoundSize(d)[z] \in Nat BY <4>1, <4>2, SMTT(30)
      <4>6. SoundSize(d)'[z] \in {0, SoundSize(d)[z]} BY <4>2, <4>3, <4>4, SMTT(30)
      <4> QED BY <4>5, <4>6, SMT
    <3>2. IsFiniteSet(Zdbs) BY ZdbAssumption
    <3> QED BY <3>1, <3>2, SumMono, ZenonT(30) DEF Sound
    \* Growing one namespace adds as much to the sum of its disk, and nothing to
    \* those of the others.
  <2>SoundGrows. ASSUME ZdbTypes, ZdbTypes', NEW d \in Devices, NEW z \in Zdbs, NEW size \in Nat,
             space' = [space EXCEPT ![d][z] = size], space[d][z] \in Nat, UNCHANGED <<half, hidden>>
      PROVE  /\ Sound(d)' = IF z \in Loose THEN Sound(d) ELSE Sound(d) + (size - space[d][z])
             /\ \A e \in Devices : e # d => Sound(e)' = Sound(e)
    <3> USE <2>SoundGrows
    <3>1. Loose' = Loose BY DEF Loose
    <3>2. ASSUME NEW e \in Devices, NEW y \in Zdbs, e # d \/ y # z PROVE space'[e][y] = space[e][y]
      BY <3>2 DEF ZdbTypes
    <3>3. space'[d][z] = size BY DEF ZdbTypes
    <3>4. \A e \in Devices : e # d => SoundSize(e)' = SoundSize(e)
      BY <3>1, <3>2, SMTT(30) DEF SoundSize, ZdbSize, NoSpace
    <3>5. \A e \in Devices : e # d => Sound(e)' = Sound(e)
      BY <3>4 DEF Sound
    <3>6. CASE z \in Loose
      <4>1. SoundSize(d)' = SoundSize(d) BY <3>1, <3>2, <3>6, ZenonT(30) DEF SoundSize, ZdbSize, NoSpace
      <4>2. Sound(d)' = Sound(d) BY <4>1 DEF Sound
      <4> QED BY <3>5, <3>6, <4>2
    <3>7. CASE z \notin Loose
      <4>1. \A y \in Zdbs : SoundSize(d)[y] \in Nat /\ SoundSize(d)'[y] \in Nat
        <5>1. \A y \in Zdbs : SoundSize(d)[y] \in Nat BY <2>SumsOfDevice
        <5>2. \A y \in Zdbs : space'[d][y] \in Nat \cup {NoSpace} BY SMTT(30) DEF ZdbTypes
        <5>3. \A y \in Zdbs : SoundSize(d)'[y] \in Nat BY <5>2, SMTT(30) DEF SoundSize, ZdbSize, NoSpace
        <5> QED BY <5>1, <5>3
      <4>2. \A y \in Zdbs : y # z => SoundSize(d)[y] = SoundSize(d)'[y]
        BY <3>1, <3>2 DEF SoundSize, ZdbSize, NoSpace
      <4>3. size # NoSpace /\ space[d][z] # NoSpace BY SMT DEF NoSpace
      <4>4. SoundSize(d)[z] = space[d][z] /\ SoundSize(d)'[z] = size
        BY <3>1, <3>3, <3>7, <4>3 DEF SoundSize, ZdbSize, NoSpace
      <4>5. IsFiniteSet(Zdbs) BY ZdbAssumption
      <4>6. Sound(d)' = Sound(d) + (SoundSize(d)'[z] - SoundSize(d)[z])
        BY <4>1, <4>2, <4>5, SumChange, SMT DEF Sound
      <4> QED BY <3>5, <3>7, <4>4, <4>6
    <3> QED BY <3>6, <3>7
    \* Where no sum grows, all of them still fit.
  <2>SoundStaysFit. ASSUME ZdbTypes, ZdbTypes', SoundFits, \A d \in Devices : Sound(d)' <= Sound(d)
      PROVE  SoundFits'
    <3> USE <2>SoundStaysFit
    <3> SUFFICES ASSUME NEW d \in Devices PROVE Sound(d)' <= DeviceSize BY DEF SoundFits
    <3>1. Sound(d) \in Nat /\ Sound(d)' \in Nat BY <2>SumsOfDevice, <2>ZdbTypesSum
    <3>2. Sound(d)' <= Sound(d) /\ Sound(d) <= DeviceSize BY DEF SoundFits
    <3> QED BY <3>1, <3>2, ZdbAssumption, SMT
    \* An error that is stored as the result.
  <2>ErrorResultKeeps. ASSUME ZdbIInv, NEW z \in Zdbs, zcall = NoCall \/ zcall.z = z, z \notin kept,
             ZdbResult(z, "error"), UNCHANGED <<diskState, space, wanted, half, kept>>,
             hidden \subseteq hidden'
      PROVE  ZdbIInv'
    <3> USE <2>ErrorResultKeeps
    <3> USE DEF ZdbIInv
    <3>1. /\ zstate' = [zstate EXCEPT ![z] = "error"] /\ todo' = todo \ {z} /\ zcall' = NoCall
          /\ allocated' = allocated /\ containers' = containers /\ answering' = answering
          /\ space' = space /\ wanted' = wanted /\ half' = half /\ kept' = kept
      BY DEF ZdbResult, diskState
    <3>2. /\ \A y \in Zdbs : ZdbHomes(y)' = ZdbHomes(y)
          /\ \A y \in Zdbs : y \notin Loose' => y \notin Loose
      BY <3>1 DEF ZdbHomes, Loose, NoSpace
    <3>3. \A y \in Zdbs : zstate'[y] = IF y = z THEN "error" ELSE zstate[y] BY <3>1 DEF ZdbTypes
    <3>4. zstate' \in [Zdbs -> {"none", "ok", "error", "deleted"}] BY <3>1 DEF ZdbTypes
    <3>5. \A y \in kept : zstate'[y] = "deleted" BY <3>3 DEF ZdbTypes
    <3>6. ZdbTypes' BY <3>1, <3>3, <3>4, <3>5 DEF ZdbTypes, NoCall, NoSpace
    <3>7. KeepsSizes BY <3>1, <3>2 DEF KeepsSizes
    <3>8. SoundFits' BY <3>6, <3>7, <2>SoundShrinks, <2>SoundStaysFit
    <3>9. HomesAllocated' BY <3>1, <3>2 DEF HomesAllocated
    <3>10. zcall'.at = "idle" BY <3>1 DEF NoCall
    <3>11. CallHasRoom' /\ CallHasNone' BY <3>10 DEF CallHasRoom, CallHasNone
    <3>12. \A y \in Zdbs : y # z => ~(zcall.at = "size" /\ zcall.z = y) BY SMT DEF NoCall
    <3>13. NewIsNowhere' BY <3>2, <3>3, <3>12 DEF NewIsNowhere
    <3>14. OkSizedWhole' BY <3>1, <3>2, <3>3, SMT DEF OkSizedWhole
    <3>15. OneSpace' BY <3>1, <3>2, <3>3, SMT DEF OneSpace
    <3> QED BY <3>6, <3>8, <3>9, <3>11, <3>13, <3>14, <3>15
    \* A call that starts finds room for what it wants, or the namespace there.
  <2>ProvisionZdbKeeps. ASSUME ZdbIInv, NEW z \in Zdbs, ProvisionZdb(z)
      PROVE  ZdbIInv'
    <3> USE <2>ProvisionZdbKeeps
    <3> USE DEF ZdbIInv
    <3>0. /\ zcall = NoCall /\ z \in todo /\ containers' = containers /\ answering' = answering
          /\ space' = space /\ wanted' = wanted /\ half' = half /\ kept' = kept
          /\ hidden' = IF ZdbHomes(z) \subseteq containers THEN hidden ELSE hidden \cup {z}
      BY DEF ProvisionZdb
    <3>1. zcall.at = "idle" BY <3>0 DEF NoCall
    <3>2. /\ \A y \in Zdbs : ZdbHomes(y)' = ZdbHomes(y)
          /\ \A y \in Zdbs : y \notin Loose' => y \notin Loose
          /\ \A y \in Zdbs : y \notin hidden' => y \notin hidden
          /\ z \notin hidden' => ZdbHomes(z) \subseteq containers
      BY <3>0 DEF ZdbHomes, Loose, NoSpace
    <3>3. zstate[z] \in {"none", "ok"} /\ zstate \in [Zdbs -> {"none", "ok", "error", "deleted"}]
      BY <3>0 DEF ZdbTypes
    <3>4. KeepsSizes BY <3>0, <3>2 DEF KeepsSizes
    <3>5. ASSUME ZdbTypes' PROVE SoundFits' /\ \A d \in Devices : Sound(d)' <= Sound(d)
      BY <3>4, <3>5, <2>SoundShrinks, <2>SoundStaysFit
    <3>11. z \notin kept BY <3>3 DEF ZdbTypes
    <3>6. CASE SeenHomes(z) # {} /\ ZdbResult(z, "ok") /\ UNCHANGED allocated
      <4>1. zstate' = [zstate EXCEPT ![z] = "ok"] /\ todo' = todo \ {z} /\ zcall' = NoCall
        BY <3>6 DEF ZdbResult
      <4>6. \A y \in Zdbs : zstate'[y] = IF y = z THEN "ok" ELSE zstate[y] BY <3>3, <4>1
      <4>2. ZdbTypes' BY <3>0, <3>6, <3>11, <4>1, <4>6 DEF ZdbTypes, NoCall, NoSpace
      <4>3. HomesAllocated' BY <3>2, <3>6 DEF HomesAllocated
      <4>4. zcall'.at = "idle" BY <4>1 DEF NoCall
      <4>5. CallHasRoom' /\ CallHasNone' BY <4>4 DEF CallHasRoom, CallHasNone
      <4>7. NewIsNowhere' BY <3>1, <3>2, <4>4, <4>6 DEF NewIsNowhere
      <4>8. z \notin Loose' => zstate[z] = "ok"
        <5>1. ZdbHomes(z) # {} BY <3>6 DEF SeenHomes
        <5> QED BY <3>1, <3>2, <3>3, <5>1 DEF NewIsNowhere
      <4>9. OkSizedWhole' BY <3>0, <3>2, <4>6, <4>8 DEF OkSizedWhole
      <4>10. OneSpace' BY <3>0, <3>2, <4>6, SMT DEF OneSpace
      <4> QED BY <3>5, <4>2, <4>3, <4>5, <4>7, <4>9, <4>10
    <3>7. ASSUME SeenHomes(z) = {}, z \notin hidden' PROVE ZdbHomes(z) = {}
      BY <3>2, <3>7 DEF SeenHomes
    <3>8. ASSUME SeenHomes(z) = {}, NEW d \in ZdbRoom(z), zcall' = [at |-> "create", z |-> z, d |-> d],
                 UNCHANGED <<zstate, todo, allocated>>
          PROVE  ZdbIInv'
      <4>1. d \in Devices /\ d \in allocated BY <3>8 DEF ZdbRoom, ZdbTypes
      <4>2. zcall' \in ZdbCalls' BY <3>0, <3>8, <4>1 DEF ZdbCalls
      <4>3. ZdbTypes' BY <3>0, <3>8, <4>2 DEF ZdbTypes, NoSpace
      <4>4. HomesAllocated' BY <3>2, <3>8 DEF HomesAllocated
      <4>5. zcall'.at = "create" /\ zcall'.z = z /\ zcall'.d = d BY <3>8
      <4>6. Sound(d)' + wanted[z] <= DeviceSize
        <5>1. ZdbReserved(d) + wanted[z] <= DeviceSize BY <3>8 DEF ZdbRoom
        <5>2. /\ Sound(d)' \in Nat /\ Sound(d) \in Nat /\ ZdbReserved(d) \in Nat /\ wanted[z] \in Nat
              /\ Sound(d)' <= Sound(d) /\ Sound(d) <= ZdbReserved(d)
          <6>1. wanted[z] \in Nat BY DEF ZdbTypes
          <6> QED BY <3>5, <4>1, <4>3, <6>1, <2>SumsOfDevice, <2>ZdbTypesSum
        <5> QED BY <5>1, <5>2, ZdbAssumption, SMT
      <4>7. CallHasRoom'
        BY <3>0, <4>5, <4>6 DEF CallHasRoom
      <4>11. CallHasNone' BY <3>2, <3>7, <3>8, <4>5 DEF CallHasNone
      <4>8. NewIsNowhere' BY <3>1, <3>2, <3>8, <4>5 DEF NewIsNowhere
      <4>9. OkSizedWhole' BY <3>0, <3>2, <3>8 DEF OkSizedWhole
      <4>10. OneSpace' BY <3>0, <3>2, <3>8, SMT DEF OneSpace
      <4> QED BY <3>5, <4>3, <4>4, <4>7, <4>8, <4>9, <4>10, <4>11
    <3>9. ASSUME SeenHomes(z) = {}, NEW d \in Devices \ allocated, wanted[z] <= DeviceSize,
                 allocated' = allocated \cup {d}, zcall' = [at |-> "container", z |-> z, d |-> d],
                 UNCHANGED <<zstate, todo>>
          PROVE  ZdbIInv'
      <4>2. zcall' \in ZdbCalls' BY <3>0, <3>9 DEF ZdbCalls
      <4>3. ZdbTypes' BY <3>0, <3>9, <4>2 DEF ZdbTypes, NoSpace
      <4>4. HomesAllocated' BY <3>2, <3>9 DEF HomesAllocated
      <4>5. zcall'.at = "container" /\ zcall'.z = z /\ zcall'.d = d BY <3>9
      <4>6. \A y \in Zdbs : space[d][y] = NoSpace BY <3>9 DEF HomesAllocated, ZdbHomes
      <4>7. CallHasRoom'
        BY <3>0, <3>9, <4>5, <4>6 DEF CallHasRoom, NoSpace
      <4>11. CallHasNone' BY <3>2, <3>7, <3>9, <4>5 DEF CallHasNone
      <4>8. NewIsNowhere' BY <3>1, <3>2, <3>9, <4>5 DEF NewIsNowhere
      <4>9. OkSizedWhole' BY <3>0, <3>2, <3>9 DEF OkSizedWhole
      <4>10. OneSpace' BY <3>0, <3>2, <3>9, SMT DEF OneSpace
      <4> QED BY <3>5, <4>3, <4>4, <4>7, <4>8, <4>9, <4>10, <4>11
    <3>10. CASE ZdbResult(z, "error") /\ UNCHANGED allocated
      <4>1. UNCHANGED <<diskState, space, wanted, half, kept>> /\ hidden \subseteq hidden'
        BY <3>0, <3>10 DEF diskState
      <4> QED BY <3>0, <3>10, <3>11, <4>1, <2>ErrorResultKeeps
    <3> QED BY <3>6, <3>8, <3>9, <3>10 DEF ProvisionZdb
    \* The container of a new disk, which is empty.
  <2>ProvisionContainerKeeps. ASSUME ZdbIInv, ProvisionContainer
      PROVE  ZdbIInv'
    <3> USE <2>ProvisionContainerKeeps
    <3> USE DEF ZdbIInv
    <3>1. /\ zcall.at = "container" /\ allocated' = allocated /\ space' = space /\ wanted' = wanted
          /\ half' = half /\ hidden' = hidden /\ kept' = kept
      BY DEF ProvisionContainer
    <3>2. zcall \in ZdbCalls BY <3>1, SMT DEF ZdbTypes, NoCall
    <3>3. zcall.z \in todo /\ zcall.z \in Zdbs /\ zcall.d \in allocated /\ zcall.d \in Devices
      BY <3>2 DEF ZdbCalls, ZdbTypes
    <3>4. CASE /\ containers' = containers \cup {zcall.d} /\ answering' = answering \cup {zcall.d}
               /\ zcall' = [zcall EXCEPT !.at = "create"] /\ UNCHANGED <<zstate, todo, zdbUse>>
      <4>1. zcall'.at = "create" /\ zcall'.z = zcall.z /\ zcall'.d = zcall.d /\ zcall' \in ZdbCalls
        BY <3>2, <3>4 DEF ZdbCalls
      <4>2. zcall' \in ZdbCalls' BY <3>1, <3>4, <4>1 DEF ZdbCalls
      <4>3. ZdbTypes' BY <3>1, <3>3, <3>4, <4>2 DEF ZdbTypes, NoSpace
      <4>4. /\ \A y \in Zdbs : ZdbHomes(y)' = ZdbHomes(y)
            /\ \A y \in Zdbs : y \notin Loose' => y \notin Loose
        BY <3>1 DEF ZdbHomes, Loose, NoSpace
      <4>5. KeepsSizes BY <3>1, <4>4 DEF KeepsSizes
      <4>6. SoundFits' BY <4>3, <4>5, <2>SoundShrinks, <2>SoundStaysFit
      <4>7. HomesAllocated' BY <3>1, <4>4 DEF HomesAllocated
      <4>8. Sound(zcall.d)' + wanted[zcall.z] <= DeviceSize
        <5>1. \A z \in Zdbs : space'[zcall.d][z] = NoSpace BY <3>1 DEF CallHasRoom
        <5>2. \A z \in Zdbs : SoundSize(zcall.d)'[z] = 0 BY <4>1, <5>1 DEF SoundSize, ZdbSize, NoSpace
        <5>3. Sound(zcall.d)' = 0 BY <5>2, SumZero, ZdbAssumption DEF Sound
        <5>4. wanted[zcall.z] <= DeviceSize /\ wanted[zcall.z] \in Nat
          BY <3>1, <3>3 DEF CallHasRoom, ZdbTypes
        <5> QED BY <5>3, <5>4, ZdbAssumption, SMT
      <4>9. CallHasRoom' BY <3>1, <4>1, <4>8 DEF CallHasRoom
      <4>10. CallHasNone' BY <3>1, <3>3, <4>1, <4>4 DEF CallHasNone
      <4>11. NewIsNowhere' BY <3>1, <3>4, <4>1, <4>4 DEF NewIsNowhere
      <4>12. OkSizedWhole' BY <3>1, <3>4, <4>4 DEF OkSizedWhole
      <4>13. OneSpace' BY <3>1, <3>4, <4>4, SMT DEF OneSpace
      <4> QED BY <4>3, <4>6, <4>7, <4>9, <4>10, <4>11, <4>12, <4>13
    <3>5. CASE ZdbResult(zcall.z, "error") /\ UNCHANGED <<containers, answering>>
      <4>1. zcall.z \notin kept BY <3>3 DEF ZdbTypes
      <4>2. UNCHANGED <<diskState, space, wanted, half, kept>> /\ hidden \subseteq hidden'
        BY <3>1, <3>5 DEF diskState
      <4> QED BY <3>3, <3>5, <4>1, <4>2, <2>ErrorResultKeeps
    <3> QED BY <3>4, <3>5 DEF ProvisionContainer
    \* A new namespace has no size, and adds nothing to the sum.
  <2>CreateNamespaceKeeps. ASSUME ZdbIInv, CreateNamespace
      PROVE  ZdbIInv'
    <3> USE <2>CreateNamespaceKeeps
    <3> USE DEF ZdbIInv
    <3>1. /\ zcall.at = "create" /\ UNCHANGED diskState /\ wanted' = wanted
          /\ allocated' = allocated /\ containers' = containers /\ answering' = answering
          /\ half' = half /\ hidden' = hidden /\ kept' = kept
      BY DEF CreateNamespace, diskState
    <3>2. zcall \in ZdbCalls BY <3>1, SMT DEF ZdbTypes, NoCall
    <3>3. zcall.z \in todo /\ zcall.z \in Zdbs /\ zcall.d \in allocated /\ zcall.d \in Devices
      BY <3>2 DEF ZdbCalls, ZdbTypes
    <3>4. CASE /\ space' = [space EXCEPT ![zcall.d][zcall.z] = IF @ = NoSpace THEN 0 ELSE @]
               /\ zcall' = [zcall EXCEPT !.at = "size"] /\ UNCHANGED <<zstate, todo>>
      <4>0. PICK z \in Zdbs, d \in Devices : zcall.z = z /\ zcall.d = d BY <3>3
      <4>1. zcall'.at = "size" /\ zcall'.z = z /\ zcall'.d = d /\ zcall' \in ZdbCalls
        BY <3>2, <3>4, <4>0 DEF ZdbCalls
      <4>2. zcall' \in ZdbCalls' BY <3>1, <3>4, <4>1 DEF ZdbCalls
      <4>3. 0 \in Nat /\ 0 # NoSpace BY SMT DEF NoSpace
      <4>4. space \in [Devices -> [Zdbs -> Nat \cup {NoSpace}]] BY DEF ZdbTypes
      <4>5. space' \in [Devices -> [Zdbs -> Nat \cup {NoSpace}]] BY <3>3, <3>4, <4>3, <4>4, SMT
      <4>6. \A e \in Devices, y \in Zdbs : e # d \/ y # z => space'[e][y] = space[e][y]
        BY <3>4, <4>0, <4>4, SMT
      <4>7. space'[d][z] = IF space[d][z] = NoSpace THEN 0 ELSE space[d][z]
        BY <3>4, <4>0, <4>4, SMT
      <4>8. z \in Zdbs /\ d \in Devices /\ d \in allocated /\ z \in todo /\ zcall.z = z /\ zcall.d = d
        BY <3>3, <4>0
      <4>9. ZdbTypes' BY <3>1, <3>4, <4>2, <4>5 DEF ZdbTypes, NoSpace
      <4>10. \A y \in Zdbs : y # z => ZdbHomes(y)' = ZdbHomes(y)
        BY <4>6 DEF ZdbHomes, NoSpace
      <4>11. ZdbHomes(z)' = ZdbHomes(z) \cup {d}
        BY <4>3, <4>6, <4>7, <4>8, SMT DEF ZdbHomes, NoSpace
      <4>12. Loose' = Loose BY <3>1 DEF Loose
      <4>13. KeepsSizes BY <4>6, <4>7, <4>12 DEF KeepsSizes
      <4>14. \A e \in Devices : Sound(e)' <= Sound(e) BY <4>9, <4>13, <2>SoundShrinks
      <4>15. SoundFits' BY <4>9, <4>14, <2>SoundStaysFit
      <4>16. HomesAllocated' BY <3>1, <4>8, <4>10, <4>11 DEF HomesAllocated
      <4>17. space'[d][z] \in Nat
        <5>1. space[d][z] \in Nat \cup {NoSpace} BY <4>4, <4>8
        <5> QED BY <4>3, <4>7, <5>1
      <4>18. Sound(d)' + wanted[z] <= DeviceSize
        <5>1. Sound(d) + wanted[z] <= DeviceSize BY <3>1, <4>8 DEF CallHasRoom
        <5>2. Sound(d)' \in Nat /\ Sound(d) \in Nat /\ wanted[z] \in Nat /\ Sound(d)' <= Sound(d)
          <6>1. wanted[z] \in Nat BY <4>8 DEF ZdbTypes
          <6> QED BY <4>8, <4>9, <4>14, <6>1, <2>SumsOfDevice, <2>ZdbTypesSum
        <5> QED BY <5>1, <5>2, ZdbAssumption, SMT
      <4>19. CallHasRoom' BY <3>1, <4>1, <4>17, <4>18 DEF CallHasRoom
      <4>20. z \notin hidden => ZdbHomes(z) = {} BY <3>1, <4>8 DEF CallHasNone
      <4>21. CallHasNone'
        <5>1. z \notin hidden => space[d][z] = NoSpace BY <4>8, <4>20 DEF ZdbHomes
        <5>2. z \notin hidden => ZdbHomes(z)' = {d} /\ space'[d][z] = 0 BY <4>7, <4>11, <4>20, <5>1
        <5> QED BY <3>1, <4>1, <5>2 DEF CallHasNone
      <4>22. NewIsNowhere' BY <3>1, <3>4, <4>1, <4>8, <4>10, <4>12 DEF NewIsNowhere
      <4>23. OkSizedWhole'
        <5>1. z \notin Loose => zstate[z] # "ok" BY <4>8, <4>20 DEF OkSizedWhole, Loose
        <5>2. ASSUME NEW y \in Zdbs, y # z, NEW e \in ZdbHomes(y) PROVE space'[e][y] = space[e][y]
          BY <4>6, <5>2 DEF ZdbHomes
        <5> QED BY <3>1, <3>4, <4>10, <4>12, <5>1, <5>2, SMT DEF OkSizedWhole
      <4>24. OneSpace'
        <5>1. zstate[z] # "deleted" BY <4>8 DEF ZdbTypes
        <5> QED BY <3>1, <3>4, <4>10, <4>11, <4>20, <5>1, SMT DEF OneSpace
      <4> QED BY <4>9, <4>15, <4>16, <4>19, <4>21, <4>22, <4>23, <4>24
    <3>5. CASE ZdbResult(zcall.z, "error") /\ UNCHANGED space
      <4>1. zcall.z \notin kept BY <3>3 DEF ZdbTypes
      <4>2. UNCHANGED <<diskState, space, wanted, half, kept>> /\ hidden \subseteq hidden'
        BY <3>1, <3>5
      <4> QED BY <3>3, <3>5, <4>1, <4>2, <2>ErrorResultKeeps
    <3> QED BY <3>4, <3>5 DEF CreateNamespace
    \* Setting its size uses the room the call found.
  <2>SetSizeKeeps. ASSUME ZdbIInv, SetSize
      PROVE  ZdbIInv'
    <3> USE <2>SetSizeKeeps
    <3> USE DEF ZdbIInv
    <3>1. /\ zcall.at = "size" /\ UNCHANGED diskState /\ wanted' = wanted
          /\ allocated' = allocated /\ containers' = containers /\ answering' = answering
          /\ half' = half /\ hidden' = hidden /\ kept' = kept
      BY DEF SetSize, diskState
    <3>2. zcall \in ZdbCalls BY <3>1, SMT DEF ZdbTypes, NoCall
    <3>3. zcall.z \in todo /\ zcall.z \in Zdbs /\ zcall.d \in allocated /\ zcall.d \in Devices
      BY <3>2 DEF ZdbCalls, ZdbTypes
    <3>4. CASE /\ space' = [space EXCEPT ![zcall.d][zcall.z] = wanted[zcall.z]]
               /\ ZdbResult(zcall.z, "ok")
      <4>0. PICK z \in Zdbs, d \in Devices : zcall.z = z /\ zcall.d = d BY <3>3
      <4>1. zstate' = [zstate EXCEPT ![z] = "ok"] /\ todo' = todo \ {z} /\ zcall' = NoCall
        BY <3>4, <4>0 DEF ZdbResult
      <4>2. z \in todo /\ z \notin kept BY <3>3, <4>0 DEF ZdbTypes
      <4>3. wanted[z] \in Nat /\ wanted[z] # NoSpace
        <5>1. wanted[z] \in Nat BY DEF ZdbTypes
        <5> QED BY <5>1, SMT DEF NoSpace
      <4>4. space \in [Devices -> [Zdbs -> Nat \cup {NoSpace}]] BY DEF ZdbTypes
      <4>5. space' \in [Devices -> [Zdbs -> Nat \cup {NoSpace}]] BY <3>4, <4>0, <4>3, <4>4, SMT
      <4>6. \A e \in Devices, y \in Zdbs : e # d \/ y # z => space'[e][y] = space[e][y]
        BY <3>4, <4>0, <4>4, SMT
      <4>7. space'[d][z] = wanted[z] BY <3>4, <4>0, <4>4, SMT
      <4>8. space[d][z] \in Nat /\ Sound(d) + wanted[z] <= DeviceSize BY <3>1, <4>0 DEF CallHasRoom
      <4>9. space[d][z] # NoSpace BY <4>8, SMT DEF NoSpace
      <4>10. \A y \in Zdbs : zstate'[y] = IF y = z THEN "ok" ELSE zstate[y] BY <4>1 DEF ZdbTypes
      <4>11. ZdbTypes' BY <3>1, <4>1, <4>2, <4>5, <4>10 DEF ZdbTypes, NoSpace
      <4>12. \A y \in Zdbs : ZdbHomes(y)' = ZdbHomes(y)
        BY <4>3, <4>6, <4>7, <4>9, SMT DEF ZdbHomes, NoSpace
      <4>13. Loose' = Loose BY <3>1 DEF Loose
      <4>14. SoundFits'
        <5>1. /\ Sound(d)' = IF z \in Loose THEN Sound(d) ELSE Sound(d) + (wanted[z] - space[d][z])
              /\ \A e \in Devices : e # d => Sound(e)' = Sound(e)
          BY <3>1, <3>4, <4>0, <4>3, <4>8, <4>11, <2>SoundGrows
        <5>2. Sound(d) \in Nat BY <2>SumsOfDevice
        <5>3. Sound(d)' <= DeviceSize BY <4>3, <4>8, <5>1, <5>2, ZdbAssumption, SMT
        <5> QED BY <5>1, <5>3 DEF SoundFits
      <4>15. HomesAllocated' BY <3>1, <4>12 DEF HomesAllocated
      <4>16. zcall'.at = "idle" BY <4>1 DEF NoCall
      <4>17. CallHasRoom' /\ CallHasNone' BY <4>16, SMT DEF CallHasRoom, CallHasNone
      <4>18. NewIsNowhere' BY <4>0, <4>10, <4>12, <4>13, SMT DEF NewIsNowhere
      <4>19. OkSizedWhole'
        <5>1. z \notin Loose => ZdbHomes(z) = {d} BY <3>1, <4>0, SMT DEF CallHasNone, Loose
        <5>2. wanted[z] >= wanted[z] BY <4>3, SMT
        <5>3. ASSUME NEW y \in Zdbs, y # z, NEW e \in ZdbHomes(y) PROVE space'[e][y] = space[e][y]
          BY <4>6, <5>3 DEF ZdbHomes
        <5> QED BY <3>1, <4>7, <4>10, <4>12, <4>13, <5>1, <5>2, <5>3, SMT DEF OkSizedWhole
      <4>20. OneSpace' BY <3>1, <4>10, <4>12, SMT DEF OneSpace
      <4> QED BY <4>11, <4>14, <4>15, <4>17, <4>18, <4>19, <4>20
    <3>5. CASE ZdbResult(zcall.z, "error") /\ UNCHANGED space
      <4>1. zcall.z \notin kept BY <3>3 DEF ZdbTypes
      <4>2. UNCHANGED <<diskState, space, wanted, half, kept>> /\ hidden \subseteq hidden'
        BY <3>1, <3>5
      <4> QED BY <3>3, <3>5, <4>1, <4>2, <2>ErrorResultKeeps
    <3> QED BY <3>4, <3>5 DEF SetSize
    \* An update checks the room with the old size taken off, and grows by the rest.
  <2>UpdateZdbKeeps. ASSUME ZdbIInv, NEW z \in Zdbs, NEW size \in ZdbSizes, NEW free \in 0 .. DeviceSize,
             UpdateZdb(z, size, free)
      PROVE  ZdbIInv'
    <3> USE <2>UpdateZdbKeeps
    <3> USE DEF ZdbIInv
    <3>1. /\ zcall = NoCall /\ zstate[z] = "ok" /\ size > wanted[z] /\ UNCHANGED diskState
          /\ zstate' = zstate /\ todo' = todo /\ zcall' = zcall
          /\ half' = half /\ hidden' = hidden /\ kept' = kept
          /\ allocated' = allocated /\ containers' = containers /\ answering' = answering
      BY DEF UpdateZdb, diskState
    <3>2. PICK d \in ZdbHomes(z) :
            /\ free <= DeviceSize /\ ZdbReserved(d) + size - wanted[z] <= free
            /\ space' = [space EXCEPT ![d][z] = size]
            /\ wanted' = [wanted EXCEPT ![z] = size] \/ wanted' = wanted
      BY DEF UpdateZdb
    <3>3. d \in Devices /\ space[d][z] # NoSpace BY DEF ZdbHomes
    <3>4. space \in [Devices -> [Zdbs -> Nat \cup {NoSpace}]] /\ wanted \in [Zdbs -> Nat] BY DEF ZdbTypes
    <3>5. space[d][z] \in Nat /\ wanted[z] \in Nat BY <3>3, <3>4
    <3>6. size \in Nat /\ size # NoSpace
      <4>1. size \in Nat BY ZdbAssumption
      <4> QED BY <4>1, SMT DEF NoSpace
    <3>7. space' \in [Devices -> [Zdbs -> Nat \cup {NoSpace}]] BY <3>2, <3>3, <3>4, <3>6, SMT
    <3>8. \A e \in Devices, y \in Zdbs : e # d \/ y # z => space'[e][y] = space[e][y]
      BY <3>2, <3>4, SMT
    <3>9. space'[d][z] = size BY <3>2, <3>3, <3>4, SMT
    <3>10. wanted' \in [Zdbs -> Nat] BY <3>2, <3>4, <3>6
    <3>11. \A y \in Zdbs : y # z => wanted'[y] = wanted[y] BY <3>2, <3>4
    <3>12. wanted'[z] \in {size, wanted[z]} BY <3>2, <3>4
    <3>13. ZdbCalls' = ZdbCalls BY <3>1 DEF ZdbCalls
    <3>14. ZdbTypes' BY <3>1, <3>7, <3>10 DEF ZdbTypes, NoSpace, NoCall
    <3>15. \A y \in Zdbs : ZdbHomes(y)' = ZdbHomes(y)
      BY <3>3, <3>6, <3>8, <3>9, SMT DEF ZdbHomes, NoSpace
    <3>16. Loose' = Loose BY <3>1 DEF Loose
    <3>17. SoundFits'
      <4>1. /\ Sound(d)' = IF z \in Loose THEN Sound(d) ELSE Sound(d) + (size - space[d][z])
            /\ \A e \in Devices : e # d => Sound(e)' = Sound(e)
        BY <3>1, <3>2, <3>3, <3>5, <3>6, <3>14, <2>SoundGrows
      <4>2. Sound(d) \in Nat /\ ZdbReserved(d) \in Nat /\ Sound(d) <= ZdbReserved(d)
        BY <3>3, <2>SumsOfDevice
      <4>3. z \notin Loose => space[d][z] >= wanted[z] BY <3>1, <3>2 DEF OkSizedWhole
      <4>4. free \in Int BY SMT
      <4>5. Sound(d) <= DeviceSize BY <3>3 DEF SoundFits
      <4>6. Sound(d)' <= DeviceSize
        BY <3>2, <3>5, <3>6, <4>1, <4>2, <4>3, <4>4, <4>5, ZdbAssumption, SMT
      <4> QED BY <4>1, <4>6 DEF SoundFits
    <3>18. HomesAllocated' BY <3>1, <3>15 DEF HomesAllocated
    <3>19. zcall.at = "idle" BY <3>1 DEF NoCall
    <3>20. CallHasRoom' /\ CallHasNone' BY <3>1, <3>19, SMT DEF CallHasRoom, CallHasNone
    <3>21. NewIsNowhere' BY <3>1, <3>15, <3>16 DEF NewIsNowhere
    <3>22. OkSizedWhole'
      <4>1. z \notin kept BY <3>1 DEF ZdbTypes
      <4>2. z \notin Loose => \A e \in ZdbHomes(z) : e = d BY <3>2, <4>1 DEF OneSpace, Loose
      <4>3. size >= wanted'[z] BY <3>1, <3>5, <3>6, <3>12, SMT
      <4>4. ASSUME NEW y \in Zdbs, y # z, NEW e \in ZdbHomes(y) PROVE space'[e][y] = space[e][y]
        BY <3>8, <4>4 DEF ZdbHomes
      <4> QED BY <3>1, <3>9, <3>11, <3>15, <3>16, <4>2, <4>3, <4>4, SMT DEF OkSizedWhole
    <3>23. OneSpace' BY <3>1, <3>15, SMT DEF OneSpace
    <3> QED BY <3>14, <3>17, <3>18, <3>20, <3>21, <3>22, <3>23
    \* Deleting a workload deletes its namespace, or keeps it with the failed ones.
  <2>DeprovisionZdbKeeps. ASSUME ZdbIInv, NEW z \in Zdbs, DeprovisionZdb(z)
      PROVE  ZdbIInv'
    <3> USE <2>DeprovisionZdbKeeps
    <3> USE DEF ZdbIInv
    <3>1. /\ zcall = NoCall /\ zstate[z] \in {"ok", "error"} /\ UNCHANGED diskState
          /\ zstate' = [zstate EXCEPT ![z] = "deleted"] /\ todo' = todo \ {z} /\ zcall' = NoCall
          /\ hidden' = IF ZdbHomes(z) \subseteq containers THEN hidden ELSE hidden \cup {z}
          /\ allocated' = allocated /\ containers' = containers /\ answering' = answering
          /\ wanted' = wanted /\ half' = half
      BY DEF DeprovisionZdb, ZdbResult, diskState
    <3>2. PICK gone \in SUBSET SeenHomes(z) :
            /\ space' = [d \in Devices |-> [space[d] EXCEPT ![z] = IF d \in gone THEN NoSpace ELSE @]]
            /\ (gone = SeenHomes(z) /\ kept' = kept) \/ kept' = kept \cup {z}
      <4>1. ASSUME space' = space, kept' = kept \cup {z}
            PROVE  space' = [d \in Devices |-> [space[d] EXCEPT ![z] = IF d \in {} THEN NoSpace ELSE @]]
        <5>1. space \in [Devices -> [Zdbs -> Nat \cup {NoSpace}]] BY DEF ZdbTypes
        <5> QED BY <4>1, <5>1, SMT
      <4>2. \/ \E gone \in SUBSET SeenHomes(z) :
                 /\ space' = [d \in Devices |-> [space[d] EXCEPT ![z] = IF d \in gone THEN NoSpace ELSE @]]
                 /\ kept' = IF gone = SeenHomes(z) THEN kept ELSE kept \cup {z}
            \/ space' = space /\ kept' = kept \cup {z}
        BY DEF DeprovisionZdb
      <4>3. {} \in SUBSET SeenHomes(z) OBVIOUS
      <4> QED BY <4>1, <4>2, <4>3
    <3>3. space \in [Devices -> [Zdbs -> Nat \cup {NoSpace}]] BY DEF ZdbTypes
    <3>4. \A d \in Devices, y \in Zdbs :
            space'[d][y] = IF y = z /\ d \in gone THEN NoSpace ELSE space[d][y]
      BY <3>2, <3>3, SMT
    <3>5. space' \in [Devices -> [Zdbs -> Nat \cup {NoSpace}]]
      <4>1. space' = [d \in Devices |-> space'[d]] BY <3>2
      <4>2. \A d \in Devices : space'[d] \in [Zdbs -> Nat \cup {NoSpace}] BY <3>2, <3>3, SMT
      <4> QED BY <4>1, <4>2
    <3>6. \A y \in Zdbs : zstate'[y] = IF y = z THEN "deleted" ELSE zstate[y] BY <3>1 DEF ZdbTypes
    <3>7. ZdbTypes'
      <4>1. \A y \in kept' : y \in Zdbs /\ zstate'[y] = "deleted" BY <3>2, <3>6 DEF ZdbTypes
      <4> QED BY <3>1, <3>5, <3>6, <4>1 DEF ZdbTypes, NoSpace, NoCall
    <3>8. /\ \A y \in Zdbs : ZdbHomes(y)' \subseteq ZdbHomes(y)
          /\ \A y \in Zdbs : y # z => ZdbHomes(y)' = ZdbHomes(y)
      BY <3>4, SMT DEF ZdbHomes, NoSpace
    <3>9. \A y \in Zdbs : /\ y \notin Loose' => y \notin Loose
                          /\ y \notin hidden' => y \notin hidden
      BY <3>1 DEF Loose
    <3>10. KeepsSizes BY <3>4, <3>9 DEF KeepsSizes
    <3>11. SoundFits' BY <3>7, <3>10, <2>SoundShrinks, <2>SoundStaysFit
    <3>12. HomesAllocated' BY <3>1, <3>8 DEF HomesAllocated
    <3>13. zcall'.at = "idle" /\ zcall.at = "idle" BY <3>1 DEF NoCall
    <3>14. CallHasRoom' /\ CallHasNone' BY <3>13, SMT DEF CallHasRoom, CallHasNone
    <3>15. NewIsNowhere' BY <3>6, <3>8, <3>9, <3>13 DEF NewIsNowhere
    <3>16. OkSizedWhole'
      <4>1. ASSUME NEW y \in Zdbs, y # z, NEW e \in ZdbHomes(y) PROVE space'[e][y] = space[e][y]
        BY <3>4, <4>1 DEF ZdbHomes
      <4> QED BY <3>1, <3>6, <3>8, <3>9, <4>1, SMT DEF OkSizedWhole
    <3>17. OneSpace'
      <4>1. ASSUME z \notin hidden' \cup kept' PROVE ZdbHomes(z)' = {}
        <5>1. ZdbHomes(z) \subseteq containers /\ gone = SeenHomes(z) BY <3>1, <3>2, <4>1
        <5>2. \A d \in Devices : space[d][z] # NoSpace => d \in gone
          BY <5>1 DEF SeenHomes, ZdbHomes
        <5>3. \A d \in Devices : space'[d][z] = NoSpace BY <3>4, <5>2
        <5> QED BY <5>3 DEF ZdbHomes, NoSpace
      <4>2. \A y \in Zdbs : y \notin kept' => y \notin kept BY <3>2
      <4> QED BY <3>6, <3>8, <3>9, <4>1, <4>2, SMT DEF OneSpace
    <3> QED BY <3>7, <3>11, <3>12, <3>14, <3>15, <3>16, <3>17
    \* zdb goes down and comes back: nothing the invariant speaks of
  <2>AnsweringKeeps. ASSUME ZdbIInv, answering' \subseteq containers,
             UNCHANGED <<allocated, containers, space, wanted, zstate, todo, zcall, half, hidden, kept>>
      PROVE  ZdbIInv'
    <3> USE <2>AnsweringKeeps
    <3>1. ZdbTypes' BY DEF ZdbIInv, ZdbTypes, ZdbCalls, NoCall, NoSpace
    <3>2. HomesAllocated' BY DEF ZdbIInv, HomesAllocated, ZdbHomes, NoSpace
    <3>3. \A d \in Devices : Sound(d)' = Sound(d) BY DEF Sound, SoundSize, ZdbSize, Loose, NoSpace
    <3>4. SoundFits' BY <3>3 DEF ZdbIInv, SoundFits
    <3>5. CallHasRoom' /\ CallHasNone'
      BY DEF ZdbIInv, CallHasRoom, CallHasNone, Sound, SoundSize, ZdbSize, Loose, ZdbHomes, NoSpace
    <3>6. NewIsNowhere' /\ OkSizedWhole' /\ OneSpace'
      BY DEF ZdbIInv, NewIsNowhere, OkSizedWhole, OneSpace, Loose, ZdbHomes, NoSpace
    <3> QED BY <3>1, <3>2, <3>4, <3>5, <3>6 DEF ZdbIInv
    \* A restart forgets the call; its namespace counts as half made.
  <2>RestartZdbKeeps. ASSUME ZdbIInv, RestartZdb
      PROVE  ZdbIInv'
    <3> USE <2>RestartZdbKeeps
    <3> USE DEF ZdbIInv
    <3>1. /\ containers' \subseteq allocated /\ answering' = containers'
          /\ todo' = {z \in Zdbs : zstate[z] \in {"none", "ok"}}
          /\ half' = half \cup {z \in Zdbs : zcall.at = "size" /\ zcall.z = z}
          /\ zcall' = NoCall /\ allocated' = allocated /\ space' = space /\ wanted' = wanted
          /\ zstate' = zstate /\ hidden' = hidden /\ kept' = kept
      BY DEF RestartZdb
    <3>2. ZdbTypes' BY <3>1 DEF ZdbTypes, NoCall, NoSpace
    <3>3. /\ \A y \in Zdbs : ZdbHomes(y)' = ZdbHomes(y)
          /\ \A y \in Zdbs : y \notin Loose' => y \notin Loose /\ ~(zcall.at = "size" /\ zcall.z = y)
      BY <3>1 DEF ZdbHomes, Loose, NoSpace
    <3>4. KeepsSizes BY <3>1, <3>3 DEF KeepsSizes
    <3>5. SoundFits' BY <3>2, <3>4, <2>SoundShrinks, <2>SoundStaysFit
    <3>6. HomesAllocated' BY <3>1, <3>3 DEF HomesAllocated
    <3>7. zcall'.at = "idle" BY <3>1 DEF NoCall
    <3>8. CallHasRoom' /\ CallHasNone' BY <3>7, SMT DEF CallHasRoom, CallHasNone
    <3>9. NewIsNowhere' BY <3>1, <3>3 DEF NewIsNowhere
    <3>10. OkSizedWhole' BY <3>1, <3>3 DEF OkSizedWhole
    <3>11. OneSpace' BY <3>1, <3>3, SMT DEF OneSpace
    <3> QED BY <3>2, <3>5, <3>6, <3>8, <3>9, <3>10, <3>11
  <2> SUFFICES ASSUME ZdbIInv, [ZdbNext]_zdbVars PROVE ZdbIInv' OBVIOUS
  <2>1. ASSUME NEW z \in Zdbs, ProvisionZdb(z) \/ DeprovisionZdb(z) PROVE ZdbIInv'
    BY <2>1, <2>ProvisionZdbKeeps, <2>DeprovisionZdbKeeps
  <2>2. ASSUME NEW z \in Zdbs, NEW size \in ZdbSizes, NEW free \in 0 .. DeviceSize,
               UpdateZdb(z, size, free)
        PROVE  ZdbIInv'
    BY <2>2, <2>UpdateZdbKeeps
  <2>3. CASE ZdbStep
    BY <2>3, <2>ProvisionContainerKeeps, <2>CreateNamespaceKeeps, <2>SetSizeKeeps DEF ZdbStep
  <2>4. CASE RestartZdb BY <2>4, <2>RestartZdbKeeps
  <2>5. ASSUME NEW d \in Devices, ZdbDown(d) \/ ZdbBack(d) PROVE ZdbIInv'
    <3>1. answering \subseteq containers BY DEF ZdbIInv, ZdbTypes
    <3>2. /\ answering' \subseteq containers
          /\ UNCHANGED <<allocated, containers, space, wanted, zstate, todo, zcall, half, hidden, kept>>
      BY <2>5, <3>1 DEF ZdbDown, ZdbBack
    <3> QED BY <3>2, <2>AnsweringKeeps
  <2>6. CASE UNCHANGED zdbVars
    <3>1. answering \subseteq containers BY DEF ZdbIInv, ZdbTypes
    <3> QED BY <2>6, <3>1, <2>AnsweringKeeps DEF zdbVars
  <2> QED BY <2>1, <2>2, <2>3, <2>4, <2>5, <2>6 DEF ZdbNext
\* The invariant is strong enough.
<1>ZdbIInvSpaces. ZdbIInv => ZdbSpaces
  <2> SUFFICES ASSUME ZdbIInv PROVE ZdbSpaces OBVIOUS
  <2> USE DEF ZdbIInv
  <2>1. FitsDevice
    <3> SUFFICES ASSUME NEW d \in Devices, \A z \in half \cup hidden : space[d][z] = NoSpace
                 PROVE  ZdbReserved(d) <= DeviceSize
      BY DEF FitsDevice
    <3>1. SoundSize(d) = ZdbSize(d) BY DEF SoundSize, ZdbSize, Loose
    <3>2. Sound(d) = ZdbReserved(d) BY <3>1 DEF Sound, ZdbReserved
    <3> QED BY <3>2 DEF SoundFits
  <2>2. OkIsSized BY DEF OkIsSized, OkSizedWhole, Loose
  <2> QED BY <2>1, <2>2 DEF ZdbSpaces
<1> QED BY <1>ZdbInitHolds, <1>ZdbStepKeeps, <1>ZdbIInvSpaces, PTL DEF ZdbSpec
=============================================================================
