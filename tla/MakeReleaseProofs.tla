------------------------- MODULE MakeReleaseProofs -------------------------
(***************************************************************************)
(* Proofs about version selection: the types, that a release never takes a *)
(* later version than was asked for, that it takes the latest allowed one  *)
(* and misses nothing, that the tables are complete for whatever the       *)
(* verifier is given, and that it is given what belongs together.          *)
(***************************************************************************)
EXTENDS MakeReleasePolicy, NumberLemmas, SequenceTheorems

\* The selection is chosen from what was indexed, and the tables only grow.
Grown ==
  /\ versions \subseteq pkg_info /\ known \subseteq pkg_info
  /\ unsaved # {} => pkg_info \subseteq index.pkg_info
  /\ (pc = "select" \/ Settled) => known \subseteq versions
  /\ selected \subseteq versions
  /\ \A a \in Architectures : plan[a].check \subseteq pkg_info
  /\ remote \subseteq bases /\ import.from \subseteq bases
  /\ \A r \in bases : r.release \subseteq r.pkg_deps
  /\ \A q, r \in import.from : q = r
  /\ pc = "import" => unmerged = ImportTables
  /\ unmerged # {} => pc \in {"import", "merged", "interrupted"}
  /\ \A n \in AliasNames : aliases[n] <= Len(releases)

IInv == TypeOK /\ Grown
-----------------------------------------------------------------------------
(* The order. *)

\* The three results of a comparison.
LEMMA CompareType == \A v, w \in Versions : Compare[v][w] \in {-1, 0, 1}
BY OrderAssumption DEF IsOrder

\* Every version is at most itself.
LEMMA AtMostReflexive == \A v \in Versions : AtMost(v, v)
BY OrderAssumption, CompareType, SMT DEF IsOrder, AtMost

\* The order of versions is transitive.
LEMMA AtMostTransitive ==
  \A u, v, w \in Versions : AtMost(u, v) /\ AtMost(v, w) => AtMost(u, w)
BY OrderAssumption DEF IsOrder, AtMost

\* A package is its name, its version and its architecture.
LEMMA NVAParts ==
  ASSUME NEW x \in NVA
  PROVE  /\ x[1] \in Names /\ x[2] \in Versions /\ x[3] \in Archs
         /\ x = <<x[1], x[2], x[3]>>
BY DEF NVA
-----------------------------------------------------------------------------
(* Selection. *)

\* What is selected is part of the list and at least as late as all of it.
LEMMA LatestOfAll ==
  ASSUME NEW S, NEW T \in SelectLatestPackages(S)
  PROVE  /\ T \subseteq S
         /\ \A x \in T, y \in S : Key(x) = Key(y) => AtMost(y[2], x[2])
         /\ \A x, y \in T : Key(x) = Key(y) => x = y
BY DEF SelectLatestPackages, OneForEach

\* What is selected are candidates from the version dictionary, one for each key.
LEMMA SelectionsFromVersions ==
  ASSUME NEW W, NEW T \in Selections(W)
  PROVE  /\ T \subseteq versions
         /\ \A x \in T : \E y \in W : Key(y) = Key(x) /\ x[2] \in Candidates(Key(x), y[2])
         /\ \A x, y \in T : Key(x) = Key(y) => x = y
BY DEF Selections, OneForEach

\* A candidate is not above the version asked for, passes the filter, and no
\* version that does so too is later.
LEMMA CandidateIsBest ==
  ASSUME versions \subseteq NVA,
         NEW x \in versions, NEW w \in Versions, x[2] \in Candidates(Key(x), w)
  PROVE  /\ AtMost(x[2], w)
         /\ Allowed(x)
         /\ \A y \in versions :
              Key(y) = Key(x) /\ AtMost(y[2], w) /\ Allowed(y) => AtMost(y[2], x[2])
<1> DEFINE k == Key(x)
           V == VersionsOf(versions, k)
           left(s) == {i \in CutOffVersions(s, w) : Allowed(<<k[1], s[i], k[2]>>)}
<1>1. V \subseteq Versions
  BY NVAParts DEF VersionsOf
<1>2. \A y \in versions : Key(y) = k => /\ y[2] \in V
                                        /\ y = <<k[1], y[2], k[2]>>
  BY NVAParts DEF VersionsOf, Key
<1>3. PICK s \in Descending(V) : \E i \in left(s) : s[i] = x[2] /\ \A j \in left(s) : i <= j
  BY DEF Candidates
<1>4. PICK i \in left(s) : s[i] = x[2] /\ \A j \in left(s) : i <= j
  BY <1>3
<1>5. /\ DOMAIN s \subseteq Int
      /\ \A v \in V : \E n \in DOMAIN s : s[n] = v
      /\ \A m, n \in DOMAIN s : m < n => AtMost(s[n], s[m])
      /\ \A n \in DOMAIN s : s[n] \in Versions
  BY <1>1 DEF Descending
<1> HIDE DEF V
<1>6. \A m, n \in DOMAIN s : m <= n => AtMost(s[n], s[m])
  BY <1>5, AtMostReflexive, SMT
<1>7. i \in CutOffVersions(s, w) /\ Allowed(<<k[1], s[i], k[2]>>)
  BY <1>4
<1>8. PICK j \in 1 .. i : AtMost(s[j], w)
  BY <1>7 DEF CutOffVersions
<1>9. i \in DOMAIN s /\ j \in DOMAIN s /\ j <= i
  <2>1. i \in DOMAIN s
    BY <1>7 DEF CutOffVersions
  <2>2. DOMAIN s = 1 .. Cardinality(V)
    BY <1>3 DEF Descending
  <2>3. Cardinality(V) \in Nat
    BY <1>1, ScenarioAssumption, FS_Subset, FS_CardinalityType
  <2> QED
    BY <1>8, <2>1, <2>2, <2>3, SMT
<1>10. AtMost(x[2], w)
  BY <1>4, <1>5, <1>6, <1>8, <1>9, AtMostTransitive
<1>11. Allowed(x)
  BY <1>2, <1>4, <1>7
<1>12. ASSUME NEW y \in versions, Key(y) = k, AtMost(y[2], w), Allowed(y)
       PROVE  AtMost(y[2], x[2])
  <2>1. PICK n \in DOMAIN s : s[n] = y[2]
    BY <1>2, <1>5, <1>12
  <2>2. n \in CutOffVersions(s, w)
    <3>1. DOMAIN s = 1 .. Cardinality(V)
      BY <1>3 DEF Descending
    <3>2. n \in 1 .. n
      BY <1>5, <2>1, <3>1, SMT
    <3> QED
      BY <1>12, <2>1, <3>2 DEF CutOffVersions
  <2>3. n \in left(s)
    BY <1>2, <1>12, <2>1, <2>2
  <2> QED
    BY <1>4, <1>6, <1>9, <2>1, <2>3
<1> QED
  BY <1>10, <1>11, <1>12
-----------------------------------------------------------------------------
(* What exists: a latest version, a list of the versions, a candidate.      *)

\* Of finitely many versions one is at least as late as all: the one that the
\* fewest are above.
LEMMA LatestExists ==
  ASSUME NEW V \in SUBSET Versions, V # {}
  PROVE  \E m \in V : \A v \in V : AtMost(v, m)
<1> DEFINE above(m) == {v \in V : ~ AtMost(v, m)}
           U == {above(m) : m \in V}
           R == StrictSubsetOrdering(Versions)
<1>1. U \subseteq FiniteSubsetsOf(Versions)
  <2>1. FiniteSubsetsOf(Versions) = SUBSET Versions
    BY ScenarioAssumption, FS_FiniteSubsetsOfFinite
  <2> QED
    BY <2>1
<1>2. PICK A \in U : \A B \in U : <<B, A>> \notin R
  <2>1. IsWellFoundedOn(R, FiniteSubsetsOf(Versions))
    BY FS_StrictSubsetOrderingWellFounded
  <2>2. U # {}
    OBVIOUS
  <2> HIDE DEF U, R
  <2> QED
    BY <1>1, <2>1, <2>2, WFMin
<1>3. PICK m \in V : A = above(m)
  BY <1>2
<1>4. ASSUME NEW v \in V, ~ AtMost(v, m)
      PROVE  FALSE
  <2>1. AtMost(m, v)
    BY <1>4, CompareType, OrderAssumption, SMT DEF IsOrder, AtMost
  <2>2. \A w \in V : ~ AtMost(w, v) => ~ AtMost(w, m)
    BY <2>1, AtMostTransitive
  <2>3. v \in above(m) /\ v \notin above(v)
    BY <1>4, AtMostReflexive
  <2>4. above(v) \subseteq above(m) /\ above(v) # above(m)
    BY <2>2, <2>3
  <2>5. <<above(v), above(m)>> \in R
    BY <2>4 DEF StrictSubsetOrdering
  <2> QED
    BY <1>2, <1>3, <2>5
<1> QED
  BY <1>4

\* A selection of the latest packages has one that is at least as late for
\* every package it is made from.
LEMMA LatestSelected ==
  ASSUME NEW S \in SUBSET NVA, NEW T \in SelectLatestPackages(S), NEW x \in S
  PROVE  \E y \in T : Key(y) = Key(x) /\ AtMost(x[2], y[2])
<1> DEFINE V == VersionsOf(S, Key(x))
<1>1. V \subseteq Versions /\ x[2] \in V
  BY NVAParts DEF VersionsOf
<1>2. PICK m \in V : \A v \in V : AtMost(v, m)
  <2> HIDE DEF V
  <2> QED
    BY <1>1, LatestExists
<1>3. PICK z \in S : Key(z) = Key(x) /\ z[2] = m
  BY <1>2 DEF VersionsOf
<1>4. \A y \in S : Key(y) = Key(z) => AtMost(y[2], z[2])
  BY <1>2, <1>3 DEF VersionsOf
<1>5. PICK y \in T : Key(y) = Key(z)
  BY <1>3, <1>4 DEF SelectLatestPackages, OneForEach
<1>6. AtMost(x[2], y[2])
  BY <1>3, <1>5, LatestOfAll
<1> QED
  BY <1>3, <1>5, <1>6

\* The versions of a set can be listed, latest first: of a smallest set that
\* could not, take out the latest and put it in front of a list of the others.
LEMMA VersionsCanBeListed == \A V \in SUBSET Versions : Descending(V) # {}
<1> DEFINE Bad == {V \in SUBSET Versions : Descending(V) = {}}
           R == StrictSubsetOrdering(Versions)
<1>1. Bad \subseteq FiniteSubsetsOf(Versions)
  <2>1. FiniteSubsetsOf(Versions) = SUBSET Versions
    BY ScenarioAssumption, FS_FiniteSubsetsOfFinite
  <2> QED
    BY <2>1
<1>2. SUFFICES ASSUME Bad # {} PROVE FALSE
  OBVIOUS
<1>3. PICK V \in Bad : \A W \in Bad : <<W, V>> \notin R
  <2>1. IsWellFoundedOn(R, FiniteSubsetsOf(Versions))
    BY FS_StrictSubsetOrderingWellFounded
  <2> HIDE DEF Bad, R
  <2> QED
    BY <1>1, <1>2, <2>1, WFMin
<1>4. V \subseteq Versions /\ Descending(V) = {} /\ IsFiniteSet(V)
  BY ScenarioAssumption, FS_Subset
<1>5. V # {}
  <2> SUFFICES ASSUME V = {} PROVE FALSE
    OBVIOUS
  <2>1. Cardinality(V) = 0
    BY FS_EmptySet
  <2> DEFINE s == [i \in 1 .. 0 |-> i]
  <2>2. s \in [1 .. Cardinality(V) -> V]
    BY <2>1
  <2>3. /\ \A v \in V : \E i \in DOMAIN s : s[i] = v
        /\ \A i, j \in DOMAIN s : i < j => AtMost(s[j], s[i])
    OBVIOUS
  <2>4. s \in Descending(V)
    BY <2>2, <2>3 DEF Descending
  <2> QED
    BY <1>4, <2>4
<1>6. PICK m \in V : \A v \in V : AtMost(v, m)
  BY <1>4, <1>5, LatestExists
<1> DEFINE W == V \ {m}
<1>7. Descending(W) # {}
  <2>1. W \subseteq V /\ W # V /\ W \in SUBSET Versions
    BY <1>4, <1>6
  <2>2. <<W, V>> \in R
    BY <1>4, <2>1 DEF StrictSubsetOrdering
  <2> QED
    BY <1>3, <2>1, <2>2
<1>8. PICK s \in Descending(W) : TRUE
  BY <1>7
<1>9. /\ Cardinality(V) = Cardinality(W) + 1
      /\ Cardinality(W) \in Nat
  BY <1>4, <1>6, FS_RemoveElement, FS_CardinalityType, FS_Subset
<1> DEFINE n == Cardinality(W)
           t == [i \in 1 .. n + 1 |-> IF i = 1 THEN m ELSE s[i - 1]]
<1>10. /\ \A i \in 1 .. n : s[i] \in W
       /\ \A v \in W : \E i \in 1 .. n : s[i] = v
       /\ \A i, j \in 1 .. n : i < j => AtMost(s[j], s[i])
  BY <1>8 DEF Descending
<1> HIDE DEF n
<1>11. n \in Nat
  BY <1>9 DEF n
<1>12. t \in [1 .. n + 1 -> V]
  <2>1. \A i \in 1 .. n + 1 : i # 1 => i - 1 \in 1 .. n
    BY <1>11
  <2> QED
    BY <1>6, <1>10, <2>1
<1>13. \A v \in V : \E i \in 1 .. n + 1 : t[i] = v
  <2> SUFFICES ASSUME NEW v \in V PROVE \E i \in 1 .. n + 1 : t[i] = v
    OBVIOUS
  <2>1. CASE v = m
    <3>1. 1 \in 1 .. n + 1
      BY <1>11
    <3> QED
      BY <2>1, <3>1
  <2>2. CASE v # m
    <3>1. PICK i \in 1 .. n : s[i] = v
      BY <1>10, <2>2
    <3>2. i + 1 \in 1 .. n + 1 /\ i + 1 # 1 /\ (i + 1) - 1 = i
      BY <1>11, <3>1
    <3> QED
      BY <3>1, <3>2
  <2> QED
    BY <2>1, <2>2
<1>14. ASSUME NEW i \in 1 .. n + 1, NEW j \in 1 .. n + 1, i < j
       PROVE  AtMost(t[j], t[i])
  <2>1. j # 1 /\ j - 1 \in 1 .. n
    BY <1>11, <1>14
  <2>2. t[j] = s[j - 1] /\ t[j] \in V
    BY <1>10, <2>1
  <2>3. CASE i = 1
    BY <1>6, <2>2, <2>3
  <2>4. CASE i # 1
    <3>1. i - 1 \in 1 .. n /\ i - 1 < j - 1
      BY <1>11, <1>14, <2>4
    <3> QED
      BY <1>10, <2>1, <2>2, <2>4, <3>1
  <2> QED
    BY <2>3, <2>4
<1>15. t \in Descending(V)
  <2>1. Cardinality(V) = n + 1
    BY <1>9 DEF n
  <2>2. DOMAIN t = 1 .. n + 1
    OBVIOUS
  <2> HIDE DEF t
  <2> QED
    BY <1>12, <1>13, <1>14, <2>1, <2>2 DEF Descending
<1> QED
  BY <1>4, <1>15

\* When a version passes the filter and is not above the one asked for, there
\* is a candidate.
LEMMA CandidateExists ==
  ASSUME versions \subseteq NVA,
         NEW y \in versions, NEW w \in Versions, AtMost(y[2], w), Allowed(y)
  PROVE  \E x \in versions : Key(x) = Key(y) /\ x[2] \in Candidates(Key(y), w)
<1> DEFINE k == Key(y)
           V == VersionsOf(versions, k)
           left(s) == {i \in CutOffVersions(s, w) : Allowed(<<k[1], s[i], k[2]>>)}
<1>1. V \in SUBSET Versions /\ y[2] \in V
  BY NVAParts DEF VersionsOf
<1>2. y = <<k[1], y[2], k[2]>>
  BY NVAParts DEF Key
<1>3. PICK s \in Descending(V) : TRUE
  <2> HIDE DEF V
  <2> QED
    BY <1>1, VersionsCanBeListed
<1>4. /\ DOMAIN s = 1 .. Cardinality(V)
      /\ \A i \in DOMAIN s : s[i] \in V
      /\ \E i \in DOMAIN s : s[i] = y[2]
  <2> HIDE DEF V
  <2> QED
    BY <1>1, <1>3 DEF Descending
<1>5. Cardinality(V) \in Nat
  <2> HIDE DEF V
  <2> QED
    BY <1>1, ScenarioAssumption, FS_Subset, FS_CardinalityType
<1>6. PICK n \in DOMAIN s : s[n] = y[2]
  BY <1>4
<1>7. n \in left(s)
  <2>1. n \in 1 .. n
    BY <1>4, <1>5
  <2>2. n \in CutOffVersions(s, w)
    BY <1>6, <2>1 DEF CutOffVersions
  <2> QED
    BY <1>2, <1>6, <2>2
<1>8. left(s) \subseteq DOMAIN s /\ DOMAIN s \subseteq Nat
  BY <1>4, <1>5 DEF CutOffVersions
<1>9. PICK i \in left(s) : \A j \in left(s) : i <= j
  <2>1. left(s) \in SUBSET Nat /\ left(s) # {}
    BY <1>7, <1>8
  <2> HIDE DEF left
  <2> QED
    BY <2>1, NumbersHaveMinimum
<1>10. s[i] \in V
  BY <1>4, <1>8
<1>11. s[i] \in Candidates(k, w)
  BY <1>3, <1>9, <1>10 DEF Candidates
<1>12. PICK x \in versions : Key(x) = k /\ x[2] = s[i]
  BY <1>10 DEF VersionsOf
<1> QED
  BY <1>11, <1>12
-----------------------------------------------------------------------------
(* Types and growth. *)

\* AppendEntry keeps the owners of a file and adds those that arrive.
LEMMA AppendEntryKeeps ==
  ASSUME NEW e \in Seq(NVA), NEW v \in Seq(NVA)
  PROVE  /\ AppendEntry(e, v) \in Seq(NVA)
         /\ \A i \in DOMAIN e : \E n \in DOMAIN AppendEntry(e, v) : AppendEntry(e, v)[n] = e[i]
         /\ \A i \in DOMAIN v : \E n \in DOMAIN AppendEntry(e, v) : AppendEntry(e, v)[n] = v[i]
<1>1. CASE \E i \in 0 .. Len(e) - Len(v) : SubSeq(e, i + 1, i + Len(v)) = v
  <2>1. AppendEntry(e, v) = e
    BY <1>1 DEF AppendEntry
  <2>2. PICK i \in 0 .. Len(e) - Len(v) : SubSeq(e, i + 1, i + Len(v)) = v
    BY <1>1
  <2>3. ASSUME NEW j \in DOMAIN v
        PROVE  i + j \in DOMAIN e /\ e[i + j] = v[j]
    <3>1. j \in 1 .. Len(v) /\ Len(v) \in Nat /\ Len(e) \in Nat /\ i \in Int
      OBVIOUS
    <3>2. i + j \in 1 .. Len(e)
      BY <2>2, <3>1, SMT
    <3>3. SubSeq(e, i + 1, i + Len(v))[j] = e[i + j]
      BY <2>2, <3>1, <3>2, SMT
    <3>4. DOMAIN e = 1 .. Len(e)
      OBVIOUS
    <3> QED
      BY <2>2, <3>2, <3>3, <3>4
  <2> QED
    BY <2>1, <2>3
<1>2. CASE ~ \E i \in 0 .. Len(e) - Len(v) : SubSeq(e, i + 1, i + Len(v)) = v
  <2>1. AppendEntry(e, v) = e \o v
    BY <1>2 DEF AppendEntry
  <2>2. \A i \in DOMAIN e : i \in DOMAIN (e \o v) /\ (e \o v)[i] = e[i]
    OBVIOUS
  <2>3. \A i \in DOMAIN v : Len(e) + i \in DOMAIN (e \o v) /\ (e \o v)[Len(e) + i] = v[i]
    OBVIOUS
  <2>4. e \o v \in Seq(NVA)
    OBVIOUS
  <2> QED
    BY <2>1, <2>2, <2>3, <2>4
<1> QED
  BY <1>1, <1>2

\* The scenarios satisfy the invariant.
LEMMA InitHolds == Init => IInv
<1> SUFFICES ASSUME Init PROVE IInv
  OBVIOUS
<1>1. PICK s \in Scenarios : /\ pool = s.pool /\ pkg_info = s.indexed /\ pkg_deps = s.indexed
                             /\ file_pkg = s.files /\ options = s.options /\ bases = s.bases
                             /\ marred = When(~ Owned(s.indexed, s.files), "cut")
  BY DEF Init
<1>2. /\ s \in [pool : SUBSET NVA, indexed : SUBSET NVA, files : [Paths -> Seq(NVA)],
                options : Options, bases : SUBSET Repository]
      /\ \A r \in s.bases : r.release \subseteq r.pkg_deps
  BY ScenarioAssumption DEF AreScenarios
<1>3. /\ pool \subseteq NVA /\ pkg_info \subseteq NVA /\ pkg_deps \subseteq NVA
      /\ file_pkg \in [Paths -> Seq(NVA)] /\ options \in Options /\ bases \subseteq Repository
  BY <1>1, <1>2
<1>4. MaxRelease \in Nat
  BY ScenarioAssumption
<1>5. TypeOK
  <2>1. marred \subseteq {"overlap", "cut"}
    BY <1>1 DEF When
  <2>2. /\ index \in [pool : SUBSET NVA, pkg_info : SUBSET NVA, pkg_deps : SUBSET NVA,
                      file_pkg : [Paths -> Seq(NVA)]]
        /\ import \in [from : SUBSET Repository, pkg_deps : SUBSET NVA, file_pkg : [Paths -> Seq(NVA)]]
    BY DEF Init, NoIndex, NoImport, NoOwners
  <2> QED
    BY <1>3, <1>4, <2>1, <2>2 DEF TypeOK, Init, NoPlan
<1>6. Grown
  <2>1. \A n \in AliasNames : aliases[n] <= Len(releases)
    BY DEF Init
  <2> QED
    BY <1>1, <1>2, <2>1 DEF Grown, Init, Settled, Importing, NoPlan, NoImport
<1> QED
  BY <1>5, <1>6 DEF IInv

\* An accident is remembered and leaves the type.
LEMMA Marks ==
  ASSUME marred \subseteq {"overlap", "cut"}, NEW c, NEW k \in {"overlap", "cut"}, Mark(When(c, k))
  PROVE  /\ marred' \subseteq {"overlap", "cut"} /\ marred \subseteq marred'
         /\ c => k \in marred'
         /\ ~ c => marred' = marred
BY DEF Mark, When

\* A commit leaves the types of the records.
LEMMA PublishKeeps ==
  ASSUME IInv, NEW S \in SUBSET NVA, Publish(S)
  PROVE  /\ releases' \in Seq(SUBSET NVA)
         /\ aliases' \in [AliasNames -> 0 .. MaxRelease]
         /\ \A n \in AliasNames : aliases'[n] <= Len(releases')
<1>1. releases \in Seq(SUBSET NVA) /\ MaxRelease \in Nat
  BY ScenarioAssumption DEF IInv, TypeOK
<1>2. releases' = Append(releases, S) /\ Len(releases) < MaxRelease
  BY DEF Publish
<1>3. releases' \in Seq(SUBSET NVA) /\ Len(releases') = Len(releases) + 1
  BY <1>1, <1>2
<1>4. Len(releases) + 1 \in 0 .. MaxRelease
  BY <1>1, <1>2, SMT
<1>5. aliases' = [n \in AliasNames |-> Len(releases) + 1]
  BY DEF Publish
<1> QED
  BY <1>1, <1>3, <1>4, <1>5, SMT

\* The verifier is given packages.
LEMMA PlanType ==
  ASSUME selected \subseteq NVA, base \subseteq NVA, Verify
  PROVE  plan' \in [Architectures -> [check : SUBSET NVA, below : SUBSET NVA]]
<1>1. \A S : S \subseteq NVA => GroupByArch(S) \in [Architectures -> SUBSET NVA]
  BY DEF GroupByArch
<1>2. PICK U \in SelectLatestPackages(selected \cup base) :
        plan' = [a \in Architectures |-> [check |-> GroupByArch(U \cap selected)[a],
                                          below |-> GroupByArch(U \ selected)[a]]]
  BY DEF Verify, Partition
<1>3. U \subseteq NVA
  BY <1>2, LatestOfAll
<1> QED
  BY <1>1, <1>2, <1>3

\* The tables in memory after the steps of the import.
LEMMA ImportSteps ==
  ASSUME TypeOK
  PROVE  /\ \A r \in remote : FetchUnderlying(r) =>
              /\ import' = [from |-> {r}, pkg_deps |-> import.pkg_deps, file_pkg |-> import.file_pkg]
                 \/ import' = import
              /\ \/ base' = base
                 \/ base' = base \cup r.release /\ r.release \subseteq pkg_deps
         /\ OpenTables => import' = [from |-> import.from, pkg_deps |-> pkg_deps, file_pkg |-> file_pkg]
         /\ \A r \in import.from : MergeUnderlying(r) =>
              \E D \in SUBSET r.pkg_deps, P \in SUBSET Paths :
                /\ import' = [from |-> import.from, pkg_deps |-> import.pkg_deps \cup D,
                              file_pkg |-> [p \in Paths |->
                                IF p \in P THEN AppendEntry(import.file_pkg[p], r.file_pkg[p])
                                           ELSE import.file_pkg[p]]]
                /\ pc' = IF D = r.pkg_deps /\ P = Paths THEN "merged" ELSE "interrupted"
                /\ Mark(When(pc' = "interrupted" \/ ~ Owned(r.pkg_deps, r.file_pkg), "cut"))
<1>1. import = [from |-> import.from, pkg_deps |-> import.pkg_deps, file_pkg |-> import.file_pkg]
  BY DEF TypeOK
<1>2. ASSUME NEW r \in remote, FetchUnderlying(r)
      PROVE  /\ import' = [from |-> {r}, pkg_deps |-> import.pkg_deps, file_pkg |-> import.file_pkg]
                \/ import' = import
             /\ \/ base' = base
                \/ base' = base \cup r.release /\ r.release \subseteq pkg_deps
  BY <1>1, <1>2 DEF FetchUnderlying, IsMissing
<1>3. ASSUME OpenTables
      PROVE  import' = [from |-> import.from, pkg_deps |-> pkg_deps, file_pkg |-> file_pkg]
  BY <1>1, <1>3 DEF OpenTables
<1>4. ASSUME NEW r \in import.from, MergeUnderlying(r)
      PROVE  \E D \in SUBSET r.pkg_deps, P \in SUBSET Paths :
               /\ import' = [from |-> import.from, pkg_deps |-> import.pkg_deps \cup D,
                             file_pkg |-> [p \in Paths |->
                               IF p \in P THEN AppendEntry(import.file_pkg[p], r.file_pkg[p])
                                          ELSE import.file_pkg[p]]]
               /\ pc' = IF D = r.pkg_deps /\ P = Paths THEN "merged" ELSE "interrupted"
               /\ Mark(When(pc' = "interrupted" \/ ~ Owned(r.pkg_deps, r.file_pkg), "cut"))
  <2>1. PICK D \in SUBSET r.pkg_deps, P \in SUBSET Paths :
          /\ pc' = IF D = r.pkg_deps /\ P = Paths THEN "merged" ELSE "interrupted"
          /\ Mark(When(pc' = "interrupted" \/ ~ Owned(r.pkg_deps, r.file_pkg), "cut"))
          /\ import' = [import EXCEPT
                          !.pkg_deps = import.pkg_deps \cup D,
                          !.file_pkg = [p \in Paths |->
                             IF p \in P THEN AppendEntry(import.file_pkg[p], r.file_pkg[p])
                                        ELSE import.file_pkg[p]]]
    BY <1>4 DEF MergeUnderlying
  <2>2. import' = [from |-> import.from, pkg_deps |-> import.pkg_deps \cup D,
                   file_pkg |-> [p \in Paths |->
                     IF p \in P THEN AppendEntry(import.file_pkg[p], r.file_pkg[p])
                                ELSE import.file_pkg[p]]]
    BY <1>1, <2>1
  <2> QED
    BY <2>1, <2>2
<1> QED
  BY <1>2, <1>3, <1>4

\* Every step keeps the types.
LEMMA TypeStep == IInv /\ [Next]_vars => TypeOK'
<1> SUFFICES ASSUME IInv, [Next]_vars PROVE TypeOK'
  OBVIOUS
<1> USE DEF IInv, TypeOK, writers
<1>1. CASE CommitElsewhere
  <2>1. PICK S \in SelectLatestPackages(pkg_info) : Publish(S)
    BY <1>1 DEF CommitElsewhere
  <2>2. S \in SUBSET NVA
    BY LatestOfAll
  <2>3. releases' \in Seq(SUBSET NVA) /\ aliases' \in [AliasNames -> 0 .. MaxRelease]
    BY <2>1, <2>2, PublishKeeps
  <2> QED
    BY <1>1, <2>3 DEF CommitElsewhere, tables, local
<1>2. CASE IndexPool
  <2>1. marred' \subseteq {"overlap", "cut"}
    BY <1>2, Marks DEF IndexPool
  <2> QED
    BY <1>2, <2>1 DEF IndexPool, tables, record, local
<1>3. CASE IndexPoolKilled
  <2>1. marred' \subseteq {"overlap", "cut"}
    BY <1>3, Marks DEF IndexPoolKilled
  <2> QED
    BY <1>3, <2>1 DEF IndexPoolKilled, tables, record, local, NoIndex, NoOwners
<1>4. ASSUME NEW x \in index.pool, Index(x) PROVE TypeOK'
  <2>1. x \in NVA /\ <<x>> \in Seq(NVA)
    OBVIOUS
  <2>2. \A p \in Paths : AppendEntry(index.file_pkg[p], <<x>>) \in Seq(NVA)
    BY <2>1, AppendEntryKeeps
  <2>3. index' \in [pool : SUBSET NVA, pkg_info : SUBSET NVA, pkg_deps : SUBSET NVA,
                    file_pkg : [Paths -> Seq(NVA)]]
    BY <1>4, <2>1, <2>2 DEF Index
  <2> QED
    BY <1>4, <2>3 DEF Index, tables, record, local
<1>5. ASSUME NEW t \in IndexTables, CloseIndexed(t) PROVE TypeOK'
  <2>1. NoIndex \in [pool : SUBSET NVA, pkg_info : SUBSET NVA, pkg_deps : SUBSET NVA,
                    file_pkg : [Paths -> Seq(NVA)]]
    BY DEF NoIndex, NoOwners
  <2>2. /\ pool' \subseteq NVA /\ pkg_info' \subseteq NVA /\ pkg_deps' \subseteq NVA
        /\ file_pkg' \in [Paths -> Seq(NVA)] /\ unsaved' \subseteq IndexTables
    BY <1>5 DEF CloseIndexed
  <2>3. index' \in [pool : SUBSET NVA, pkg_info : SUBSET NVA, pkg_deps : SUBSET NVA,
                    file_pkg : [Paths -> Seq(NVA)]]
    BY <1>5, <2>1 DEF CloseIndexed
  <2> QED
    BY <1>5, <2>2, <2>3 DEF CloseIndexed, record, local
<1>6. CASE Start
  BY <1>6 DEF Start, tables, record, NoPlan
<1>7. CASE TakeSnapshot
  <2>1. options.lists \subseteq NVA
    BY DEF Options
  <2>2. \A S \in SelectLatestPackages(pkg_info) : S \subseteq NVA
    BY LatestOfAll
  <2>3. packages' \subseteq NVA
    BY <1>7, <2>1, <2>2 DEF TakeSnapshot
  <2> QED
    BY <1>7, <2>3 DEF TakeSnapshot, tables, record
<1>8. CASE Retrieve
  <2>1. options.release \in AliasNames \cup {NoAlias}
    BY DEF Options
  <2>2. ASSUME options.release # NoAlias, aliases[options.release] # 0
        PROVE  releases[aliases[options.release]] \subseteq NVA
    <3>1. aliases[options.release] \in 1 .. Len(releases)
      BY <2>1, <2>2, ScenarioAssumption DEF Grown
    <3> QED
      BY <3>1
  <2>3. packages' \subseteq NVA
    BY <1>8, <2>2 DEF Retrieve
  <2> QED
    BY <1>8, <2>3 DEF Retrieve, tables, record
<1>9. CASE CollectPackageVersions
  BY <1>9 DEF CollectPackageVersions, tables, record
<1>10. CASE SelectVersions
  <2>1. selected' \subseteq NVA
    BY <1>10, SelectionsFromVersions DEF SelectVersions
  <2>2. options.command \in {"list", "commit", "diff", "verify"}
    BY DEF Options
  <2> QED
    BY <1>10, <2>1, <2>2 DEF SelectVersions, tables, record
<1>11. CASE Show
  BY <1>11 DEF Show, tables, record, local
<1>12. CASE Commit
  <2>1. releases' \in Seq(SUBSET NVA) /\ aliases' \in [AliasNames -> 0 .. MaxRelease]
    BY <1>12, PublishKeeps DEF Commit, record
  <2> QED
    BY <1>12, <2>1 DEF Commit, tables, local
<1>13. CASE ImportFails
  <2>1. marred' \subseteq {"overlap", "cut"}
    BY <1>13, Marks DEF ImportFails
  <2> QED
    BY <1>13, <2>1 DEF ImportFails, tables, record, NoPlan, NoImport, NoOwners
<1>14. CASE Verify
  <2>1. plan' \in [Architectures -> [check : SUBSET NVA, below : SUBSET NVA]]
    BY <1>14, PlanType
  <2> QED
    BY <1>14, <2>1 DEF Verify, tables, record
<1>15. ASSUME NEW r \in remote, FetchUnderlying(r) PROVE TypeOK'
  <2>1. r \in Repository /\ r.release \subseteq NVA
    BY DEF Repository
  <2>2. base' \subseteq NVA
    BY <1>15, <2>1, ImportSteps
  <2>3. import' \in [from : SUBSET Repository, pkg_deps : SUBSET NVA, file_pkg : [Paths -> Seq(NVA)]]
    <3>1. import' = [from |-> {r}, pkg_deps |-> import.pkg_deps, file_pkg |-> import.file_pkg]
          \/ import' = import
      BY <1>15, ImportSteps
    <3> QED
      BY <2>1, <3>1
  <2>4. remote' \subseteq Repository /\ pc' \in {"verify", "open"}
    BY <1>15 DEF FetchUnderlying
  <2> QED
    BY <1>15, <2>2, <2>3, <2>4 DEF FetchUnderlying, tables, record
<1>16. CASE OpenTables
  <2>1. marred' \subseteq {"overlap", "cut"}
    BY <1>16, Marks DEF OpenTables
  <2> QED
    BY <1>16, <2>1 DEF OpenTables, tables, record, local
<1>17. ASSUME NEW r \in import.from, MergeUnderlying(r) PROVE TypeOK'
  <2>1. r \in Repository /\ r.pkg_deps \subseteq NVA /\ r.file_pkg \in [Paths -> Seq(NVA)]
    BY DEF Repository
  <2>2. \A p \in Paths : AppendEntry(import.file_pkg[p], r.file_pkg[p]) \in Seq(NVA)
    BY <2>1, AppendEntryKeeps
  <2>7. TypeOK
    OBVIOUS
  <2>3. marred' \subseteq {"overlap", "cut"}
    BY <1>17, Marks DEF MergeUnderlying
  <2> HIDE DEF TypeOK, IInv
  <2>4. PICK D \in SUBSET r.pkg_deps, P \in SUBSET Paths :
          /\ import' = [from |-> import.from, pkg_deps |-> import.pkg_deps \cup D,
                        file_pkg |-> [p \in Paths |->
                          IF p \in P THEN AppendEntry(import.file_pkg[p], r.file_pkg[p])
                                     ELSE import.file_pkg[p]]]
          /\ pc' = IF D = r.pkg_deps /\ P = Paths THEN "merged" ELSE "interrupted"
    BY <1>17, <2>7, ImportSteps
  <2>5. import' \in [from : SUBSET Repository, pkg_deps : SUBSET NVA, file_pkg : [Paths -> Seq(NVA)]]
    <3>1. [p \in Paths |-> IF p \in P THEN AppendEntry(import.file_pkg[p], r.file_pkg[p])
                                      ELSE import.file_pkg[p]] \in [Paths -> Seq(NVA)]
      BY <2>2, <2>7 DEF TypeOK
    <3> QED
      BY <2>1, <2>4, <2>7, <3>1 DEF TypeOK
  <2>6. pc' \in {"merged", "interrupted"}
    BY <2>4
  <2> QED
    BY <1>17, <2>3, <2>5, <2>6, <2>7 DEF MergeUnderlying, TypeOK, tables, record, local
<1>18. ASSUME NEW r \in import.from, Imported(r) PROVE TypeOK'
  <2>1. r \in Repository /\ r.release \subseteq NVA
    BY DEF Repository
  <2> QED
    BY <1>18, <2>1 DEF Imported, tables, record, NoImport, NoOwners
<1>19. ASSUME NEW t \in ImportTables, CloseImported(t) PROVE TypeOK'
  <2>1. /\ pkg_deps' \subseteq NVA /\ file_pkg' \in [Paths -> Seq(NVA)] /\ unmerged' \subseteq ImportTables
    BY <1>19 DEF CloseImported
  <2> QED
    BY <1>19, <2>1 DEF CloseImported, record, local
<1>20. CASE UNCHANGED vars
  BY <1>20 DEF vars, tables, record, local, writers
<1> QED
  BY <1>1, <1>2, <1>3, <1>4, <1>5, <1>6, <1>7, <1>8, <1>9, <1>10, <1>11, <1>12, <1>13,
     <1>14, <1>15, <1>16, <1>17, <1>18, <1>19, <1>20 DEF Next, Environment, Run

\* What is verified is selected, and the rest of it is underlying.
LEMMA VerifiedPlan ==
  ASSUME Verify
  PROVE  \A a \in Architectures : plan'[a].check \subseteq selected /\ plan'[a].below \subseteq base
<1>1. PICK U \in SelectLatestPackages(selected \cup base) :
        plan' = [a \in Architectures |-> [check |-> GroupByArch(U \cap selected)[a],
                                          below |-> GroupByArch(U \ selected)[a]]]
  BY DEF Verify, Partition
<1>2. U \subseteq selected \cup base
  BY <1>1, LatestOfAll
<1>3. \A S, a : a \in Architectures => GroupByArch(S)[a] \subseteq S
  BY DEF GroupByArch
<1> QED
  BY <1>1, <1>2, <1>3

\* Every step keeps what was read below the tables.
LEMMA GrownStep == IInv /\ [Next]_vars => Grown'
<1> SUFFICES ASSUME IInv, [Next]_vars PROVE Grown'
  OBVIOUS
<1> USE DEF IInv, Grown, Settled, Importing, writers
<1>1. CASE CommitElsewhere
  <2>1. PICK S \in SelectLatestPackages(pkg_info) : Publish(S)
    BY <1>1 DEF CommitElsewhere
  <2>2. S \in SUBSET NVA
    BY LatestOfAll DEF TypeOK
  <2>3. \A n \in AliasNames : aliases'[n] <= Len(releases')
    BY <2>1, <2>2, PublishKeeps
  <2> QED
    BY <1>1, <2>3 DEF CommitElsewhere, tables, local
<1>2. CASE IndexPool
  BY <1>2 DEF IndexPool, tables, record, local
<1>3. CASE IndexPoolKilled
  BY <1>3 DEF IndexPoolKilled, tables, record, local
<1>4. ASSUME NEW x \in index.pool, Index(x) PROVE Grown'
  BY <1>4 DEF Index, tables, record, local
<1>5. ASSUME NEW t \in IndexTables, CloseIndexed(t) PROVE Grown'
  <2>1. pkg_info \subseteq pkg_info'
    BY <1>5 DEF CloseIndexed
  <2>2. unsaved' # {} => pkg_info' \subseteq index'.pkg_info
    BY <1>5 DEF CloseIndexed
  <2> QED
    BY <1>5, <2>1, <2>2 DEF CloseIndexed, record, local
<1>6. CASE Start
  BY <1>6 DEF Start, tables, record, NoPlan
<1>7. CASE TakeSnapshot
  BY <1>7 DEF TakeSnapshot, tables, record
<1>8. CASE Retrieve
  BY <1>8 DEF Retrieve, tables, record
<1>9. CASE CollectPackageVersions
  BY <1>9 DEF CollectPackageVersions, tables, record
<1>10. CASE SelectVersions
  <2>1. selected' \subseteq versions
    BY <1>10, SelectionsFromVersions DEF SelectVersions
  <2>2. options.command \in {"list", "commit", "diff", "verify"}
    BY DEF TypeOK, Options
  <2>3. pc' # "import" /\ unmerged = {}
    BY <1>10, <2>2 DEF SelectVersions
  <2> QED
    BY <1>10, <2>1, <2>3 DEF SelectVersions, tables, record
<1>11. CASE Show
  BY <1>11 DEF Show, tables, record, local
<1>12. CASE Commit
  <2>1. \A n \in AliasNames : aliases'[n] <= Len(releases')
    BY <1>12, PublishKeeps DEF Commit, record, TypeOK
  <2> QED
    BY <1>12, <2>1 DEF Commit, tables, local
<1>13. CASE ImportFails
  BY <1>13 DEF ImportFails, tables, record, NoPlan, NoImport
<1>14. CASE Verify
  <2>1. \A a \in Architectures : plan'[a].check \subseteq selected
    BY <1>14, VerifiedPlan
  <2> QED
    BY <1>14, <2>1 DEF Verify, tables, record, writers
<1>15. ASSUME NEW r \in remote, FetchUnderlying(r) PROVE Grown'
  <2>1. import'.from \subseteq bases /\ \A q, p \in import'.from : q = p
    <3>1. import' = [from |-> {r}, pkg_deps |-> import.pkg_deps, file_pkg |-> import.file_pkg]
          \/ import' = import
      BY <1>15, ImportSteps
    <3> QED
      BY <3>1
  <2> QED
    BY <1>15, <2>1 DEF FetchUnderlying, tables, record
<1>16. CASE OpenTables
  <2>1. import'.from = import.from
    BY <1>16, ImportSteps
  <2> QED
    BY <1>16, <2>1 DEF OpenTables, tables, record, local
<1>17. ASSUME NEW r \in import.from, MergeUnderlying(r) PROVE Grown'
  <2>1. import'.from = import.from
    BY <1>17, ImportSteps
  <2> QED
    BY <1>17, <2>1 DEF MergeUnderlying, tables, record, local
<1>18. ASSUME NEW r \in import.from, Imported(r) PROVE Grown'
  BY <1>18 DEF Imported, tables, record, NoImport
<1>19. ASSUME NEW t \in ImportTables, CloseImported(t) PROVE Grown'
  BY <1>19 DEF CloseImported, record, local
<1>20. CASE UNCHANGED vars
  BY <1>20 DEF vars, tables, record, local, writers
<1> QED
  BY <1>1, <1>2, <1>3, <1>4, <1>5, <1>6, <1>7, <1>8, <1>9, <1>10, <1>11, <1>12, <1>13,
     <1>14, <1>15, <1>16, <1>17, <1>18, <1>19, <1>20 DEF Next, Environment, Run

\* The inductive invariant of make_release.
LEMMA InvHolds == Spec => []IInv
<1>1. Init => IInv
  BY InitHolds
<1>2. IInv /\ [Next]_vars => IInv'
  BY TypeStep, GrownStep DEF IInv
<1> QED
  BY <1>1, <1>2, PTL DEF Spec
-----------------------------------------------------------------------------
(* The properties. *)

\* The tables and what the command holds keep their types.
THEOREM TypesHold == Spec => []TypeOK
<1>1. IInv => TypeOK
  BY DEF IInv
<1> QED
  BY <1>1, InvHolds, PTL

\* Once chosen, the selection stays, and so does what it was chosen from.
LEMMA SettledStep ==
  ASSUME IInv, [Next]_vars, Settled'
  PROVE  \/ SelectVersions
         \/ /\ Settled
            /\ packages' = packages /\ selected' = selected
            /\ known' = known /\ options' = options
<1> USE DEF Settled, Importing, tables, record, local
<1>1. CASE Environment
  BY <1>1 DEF Environment, CommitElsewhere, IndexPool, IndexPoolKilled, Index, CloseIndexed
<1>2. CASE Start \/ TakeSnapshot \/ Retrieve \/ CollectPackageVersions
  BY <1>2 DEF Start, TakeSnapshot, Retrieve, CollectPackageVersions
<1>3. CASE Show \/ Commit \/ OpenTables \/ ImportFails \/ Verify
  BY <1>3 DEF Show, Commit, OpenTables, ImportFails, Verify
<1>4. CASE \E r \in remote : FetchUnderlying(r)
  BY <1>4 DEF FetchUnderlying
<1>5. CASE \E r \in import.from : MergeUnderlying(r) \/ Imported(r)
  BY <1>5 DEF MergeUnderlying, Imported
<1>6. CASE \E t \in ImportTables : CloseImported(t)
  BY <1>6 DEF CloseImported
<1>7. CASE UNCHANGED vars
  BY <1>7 DEF vars
<1> QED
  BY <1>1, <1>2, <1>3, <1>4, <1>5, <1>6, <1>7 DEF Next, Run

\* No step takes a package out of pkg_info.
LEMMA PoolGrows ==
  ASSUME IInv, [Next]_vars
  PROVE  pkg_info \subseteq pkg_info'
<1> USE DEF tables, record, local
<1>1. CASE CommitElsewhere \/ IndexPool \/ IndexPoolKilled \/ \E x \in index.pool : Index(x)
  BY <1>1 DEF CommitElsewhere, IndexPool, IndexPoolKilled, Index
<1>2. CASE \E t \in IndexTables : CloseIndexed(t)
  BY <1>2 DEF CloseIndexed, IInv, Grown
<1>3. CASE Start \/ TakeSnapshot \/ Retrieve \/ CollectPackageVersions
  BY <1>3 DEF Start, TakeSnapshot, Retrieve, CollectPackageVersions
<1>4. CASE SelectVersions \/ Show \/ Commit \/ OpenTables \/ ImportFails \/ Verify
  BY <1>4 DEF SelectVersions, Show, Commit, OpenTables, ImportFails, Verify
<1>5. CASE \E r \in remote : FetchUnderlying(r)
  BY <1>5 DEF FetchUnderlying
<1>6. CASE \E r \in import.from : MergeUnderlying(r) \/ Imported(r)
  BY <1>6 DEF MergeUnderlying, Imported
<1>7. CASE \E t \in ImportTables : CloseImported(t)
  BY <1>7 DEF CloseImported
<1>8. CASE UNCHANGED vars
  BY <1>8 DEF vars
<1> QED
  BY <1>1, <1>2, <1>3, <1>4, <1>5, <1>6, <1>7, <1>8 DEF Next, Environment, Run

\* What a selected package is, at the step that selects it.
LEMMA SelectedIsBest ==
  ASSUME IInv, SelectVersions
  PROVE  /\ \A x \in selected' :
              /\ x \in versions /\ Requested(x) /\ Allowed(x)
              /\ \A y \in versions :
                   Key(y) = Key(x) /\ Requested(y) /\ Allowed(y) => AtMost(y[2], x[2])
         /\ \A x, y \in selected' : Key(y) = Key(x) => y = x
         /\ packages' = packages /\ known' = known /\ options' = options
         /\ pkg_info' = pkg_info
<1>1. PICK wanted \in SelectLatestPackages(packages) : \E T \in Selections(wanted) : selected' = T
  BY DEF SelectVersions
<1>2. selected' \in Selections(wanted)
  BY <1>1
<1>3. versions \subseteq NVA /\ packages \subseteq NVA
  BY DEF IInv, TypeOK
<1>4. ASSUME NEW x \in selected'
      PROVE  /\ x \in versions /\ Requested(x) /\ Allowed(x)
             /\ \A y \in versions :
                  Key(y) = Key(x) /\ Requested(y) /\ Allowed(y) => AtMost(y[2], x[2])
  <2>1. x \in versions
    BY <1>2, SelectionsFromVersions
  <2>2. PICK w \in wanted : Key(w) = Key(x) /\ x[2] \in Candidates(Key(x), w[2])
    BY <1>2, SelectionsFromVersions
  <2>3. w \in packages /\ \A y \in packages : Key(w) = Key(y) => AtMost(y[2], w[2])
    BY LatestOfAll
  <2>4. w \in NVA /\ w[2] \in Versions
    BY <1>3, <2>3, NVAParts
  <2>5. /\ AtMost(x[2], w[2]) /\ Allowed(x)
        /\ \A y \in versions :
             Key(y) = Key(x) /\ AtMost(y[2], w[2]) /\ Allowed(y) => AtMost(y[2], x[2])
    BY <1>3, <2>1, <2>2, <2>4, CandidateIsBest
  <2>6. Requested(x)
    BY <2>2, <2>3, <2>5 DEF Requested
  <2>7. ASSUME NEW y \in versions, Key(y) = Key(x), Requested(y)
        PROVE  AtMost(y[2], w[2])
    <3>1. PICK z \in packages : Key(z) = Key(y) /\ AtMost(y[2], z[2])
      BY <2>7 DEF Requested
    <3>2. AtMost(z[2], w[2])
      BY <2>2, <2>3, <2>7, <3>1
    <3>3. y[2] \in Versions /\ z[2] \in Versions
      BY <1>3, <3>1, NVAParts
    <3> QED
      BY <2>4, <3>1, <3>2, <3>3, AtMostTransitive
  <2> QED
    BY <2>1, <2>5, <2>6, <2>7
<1>5. \A x, y \in selected' : Key(y) = Key(x) => y = x
  BY <1>2, SelectionsFromVersions
<1> QED
  BY <1>4, <1>5 DEF SelectVersions, tables

\* No release takes a later version than some source of it asks for, one that
\* the specification file keeps out, or one that is not indexed.
THEOREM NeverUpgradesHolds == Spec => []NeverUpgrades
<1>1. Init => NeverUpgrades
  BY DEF Init, NeverUpgrades, Settled, Importing
<1>2. IInv /\ NeverUpgrades /\ [Next]_vars => NeverUpgrades'
  <2> SUFFICES ASSUME IInv, NeverUpgrades, [Next]_vars, Settled', NEW x \in selected'
               PROVE  x \in pkg_info' /\ Requested(x)' /\ Allowed(x)'
    BY DEF NeverUpgrades
  <2>1. CASE SelectVersions
    <3>1. x \in versions /\ Requested(x) /\ Allowed(x)
      BY <2>1, SelectedIsBest
    <3> QED
      BY <2>1, <3>1, SelectedIsBest DEF IInv, Grown, Requested, Allowed
  <2>2. CASE /\ Settled /\ packages' = packages /\ selected' = selected
             /\ known' = known /\ options' = options
    <3>1. x \in pkg_info /\ Requested(x) /\ Allowed(x)
      BY <2>2 DEF NeverUpgrades
    <3> QED
      BY <2>2, <3>1, PoolGrows DEF Requested, Allowed
  <2> QED
    BY <2>1, <2>2, SettledStep
<1> QED
  BY <1>1, <1>2, InvHolds, PTL DEF Spec

\* Of the versions known at the start that are asked for and allowed, a release
\* takes the latest, and one only.
THEOREM NewestAllowedHolds == Spec => []NewestAllowed
<1>1. Init => NewestAllowed
  BY DEF Init, NewestAllowed, Settled, Importing
<1>2. IInv /\ NewestAllowed /\ [Next]_vars => NewestAllowed'
  <2> SUFFICES ASSUME IInv, NewestAllowed, [Next]_vars, Settled',
                      NEW x \in selected', NEW y \in (known \cup selected)'
               PROVE  /\ Key(y) = Key(x) /\ Requested(y)' /\ Allowed(y)' => AtMost(y[2], x[2])
                      /\ Key(y) = Key(x) /\ y \in selected' => y = x
    BY DEF NewestAllowed
  <2>1. CASE SelectVersions
    <3>1. y \in versions
      BY <2>1, SelectedIsBest DEF IInv, Grown, SelectVersions
    <3>2. /\ Key(y) = Key(x) /\ Requested(y) /\ Allowed(y) => AtMost(y[2], x[2])
          /\ Key(y) = Key(x) /\ y \in selected' => y = x
      BY <2>1, <3>1, SelectedIsBest
    <3>3. Requested(y)' = Requested(y) /\ Allowed(y)' = Allowed(y)
      BY <2>1, SelectedIsBest DEF Requested, Allowed
    <3> QED
      BY <3>2, <3>3
  <2>2. CASE /\ Settled /\ packages' = packages /\ selected' = selected
             /\ known' = known /\ options' = options
    <3>1. Requested(y)' = Requested(y) /\ Allowed(y)' = Allowed(y)
      BY <2>2 DEF Requested, Allowed
    <3> QED
      BY <2>2, <3>1 DEF NewestAllowed
  <2> QED
    BY <2>1, <2>2, SettledStep
<1> QED
  BY <1>1, <1>2, InvHolds, PTL DEF Spec

\* Every package that is asked for in some allowed version that was indexed
\* when the command was started is part of the release.
THEOREM NothingMissedHolds == Spec => []NothingMissed
<1>1. Init => NothingMissed
  BY DEF Init, NothingMissed, Settled, Importing
<1>2. IInv /\ NothingMissed /\ [Next]_vars => NothingMissed'
  <2> SUFFICES ASSUME IInv, NothingMissed, [Next]_vars, Settled',
                      NEW y \in known', Requested(y)', Allowed(y)'
               PROVE  \E x \in selected' : Key(x) = Key(y)
    BY DEF NothingMissed
  <2>1. CASE SelectVersions
    <3>1. /\ packages' = packages /\ known' = known /\ options' = options
      BY <2>1, SelectedIsBest
    <3>2. Requested(y) /\ Allowed(y)
      BY <3>1 DEF Requested, Allowed
    <3>3. /\ versions \subseteq NVA /\ packages \subseteq NVA
          /\ y \in versions /\ y[2] \in Versions
      BY <2>1, <3>1, NVAParts DEF IInv, TypeOK, Grown, SelectVersions
    <3>4. PICK wanted \in SelectLatestPackages(packages) : selected' \in Selections(wanted)
      BY <2>1 DEF SelectVersions
    <3>5. PICK z \in packages : Key(z) = Key(y) /\ AtMost(y[2], z[2])
      BY <3>2 DEF Requested
    <3>6. PICK w \in wanted : Key(w) = Key(z) /\ AtMost(z[2], w[2])
      BY <3>3, <3>4, <3>5, LatestSelected
    <3>7. z[2] \in Versions /\ w[2] \in Versions
      BY <3>3, <3>4, <3>5, <3>6, LatestOfAll, NVAParts
    <3>8. AtMost(y[2], w[2])
      BY <3>3, <3>5, <3>6, <3>7, AtMostTransitive
    <3>9. PICK x \in versions : Key(x) = Key(y) /\ x[2] \in Candidates(Key(y), w[2])
      BY <3>2, <3>3, <3>7, <3>8, CandidateExists
    <3>10. Key(w) = Key(x) /\ x[2] \in Candidates(Key(x), w[2])
      BY <3>5, <3>6, <3>9
    <3>11. \E t \in selected' : Key(t) = Key(x)
      BY <3>4, <3>9, <3>10, <3>6 DEF Selections, OneForEach
    <3> QED
      BY <3>9, <3>11
  <2>2. CASE /\ Settled /\ packages' = packages /\ selected' = selected
             /\ known' = known /\ options' = options
    <3>1. Requested(y) /\ Allowed(y) /\ y \in known
      BY <2>2 DEF Requested, Allowed
    <3> QED
      BY <2>2, <3>1 DEF NothingMissed
  <2> QED
    BY <2>1, <2>2, SettledStep
<1> QED
  BY <1>1, <1>2, InvHolds, PTL DEF Spec

\* The stage after the selection is the one of the command line.
Commanded ==
  /\ pc \in {"list", "diff", "commit", "verify"} => pc = options.command
  /\ Importing => options.command = "verify"

\* No step leaves for another command's stage.
LEMMA CommandedHolds == Spec => []Commanded
<1>1. Init => Commanded
  BY DEF Init, Commanded, Importing
<1>2. IInv /\ Commanded /\ [Next]_vars => Commanded'
  <2> SUFFICES ASSUME IInv, Commanded, [Next]_vars PROVE Commanded'
    OBVIOUS
  <2> USE DEF Commanded, Importing
  <2>1. CASE Environment
    BY <2>1 DEF Environment, CommitElsewhere, IndexPool, IndexPoolKilled, Index, CloseIndexed
  <2>2. CASE Start \/ TakeSnapshot \/ Retrieve \/ CollectPackageVersions
    BY <2>2 DEF Start, TakeSnapshot, Retrieve, CollectPackageVersions
  <2>3. CASE SelectVersions
    <3>1. options.command \in {"list", "commit", "diff", "verify"}
      BY DEF IInv, TypeOK, Options
    <3> QED
      BY <2>3, <3>1 DEF SelectVersions
  <2>4. CASE Show \/ Commit \/ OpenTables \/ ImportFails \/ Verify
    BY <2>4 DEF Show, Commit, OpenTables, ImportFails, Verify
  <2>5. CASE \E r \in remote : FetchUnderlying(r)
    BY <2>5 DEF FetchUnderlying
  <2>6. CASE \E r \in import.from : MergeUnderlying(r) \/ Imported(r)
    BY <2>6 DEF MergeUnderlying, Imported
  <2>7. CASE \E t \in ImportTables : CloseImported(t)
    BY <2>7 DEF CloseImported
  <2>8. CASE UNCHANGED vars
    BY <2>8 DEF vars
  <2> QED
    BY <2>1, <2>2, <2>3, <2>4, <2>5, <2>6, <2>7, <2>8 DEF Next, Run
<1> QED
  BY <1>1, <1>2, InvHolds, PTL DEF Spec

\* What the step of the verifier hands over.
LEMMA PartitionIsTogether ==
  ASSUME NEW S \in SUBSET NVA, NEW B \in SUBSET NVA, NEW P \in Partition(S, B),
         NEW a \in Architectures
  PROVE  /\ P[a].check \subseteq S
         /\ \A x, y \in P[a].check \cup P[a].below : Key(x) = Key(y) => x = y
         /\ \A x \in S \cup B : x[3] \in {a, all} =>
              \E y \in P[a].check \cup P[a].below :
                /\ Key(y) = Key(x) /\ AtMost(x[2], y[2])
                /\ y \in P[a].check <=> y \in S
<1>1. PICK U \in SelectLatestPackages(S \cup B) :
        P = [c \in Architectures |-> [check |-> GroupByArch(U \cap S)[c],
                                      below |-> GroupByArch(U \ S)[c]]]
  BY DEF Partition
<1>2. /\ P[a].check = {x \in U \cap S : x[3] = a \/ x[3] = all}
      /\ P[a].below = {x \in U \ S : x[3] = a \/ x[3] = all}
  BY <1>1 DEF GroupByArch
<1>3. \A x, y \in U : Key(x) = Key(y) => x = y
  BY LatestOfAll
<1>4. ASSUME NEW x \in S \cup B, x[3] \in {a, all}
      PROVE  \E y \in P[a].check \cup P[a].below :
               /\ Key(y) = Key(x) /\ AtMost(x[2], y[2])
               /\ y \in P[a].check <=> y \in S
  <2>1. S \cup B \in SUBSET NVA
    OBVIOUS
  <2>2. PICK y \in U : Key(y) = Key(x) /\ AtMost(x[2], y[2])
    BY <2>1, LatestSelected
  <2>3. y[3] = x[3]
    BY <2>2 DEF Key
  <2> QED
    BY <1>2, <1>4, <2>2, <2>3
<1> QED
  BY <1>2, <1>3, <1>4

\* The lists that the verifier is called with hold one version of each package,
\* and every package of the release or a later one below it.
THEOREM VerifiedTogetherHolds == Spec => []VerifiedTogether
<1>1. Init => VerifiedTogether
  BY DEF Init, VerifiedTogether
<1>2. IInv /\ Commanded /\ VerifiedTogether /\ [Next]_vars => VerifiedTogether'
  <2> SUFFICES ASSUME IInv, Commanded, VerifiedTogether, [Next]_vars,
                      pc' = "done", (options.command)' = "verify"
               PROVE  VerifiedTogether'
    BY DEF VerifiedTogether
  <2>1. CASE Verify
    <3>1. /\ selected \in SUBSET NVA /\ base \in SUBSET NVA
          /\ plan' \in Partition(selected, base)
          /\ selected' = selected /\ base' = base
      BY <2>1 DEF Verify, IInv, TypeOK
    <3>2. ASSUME NEW a \in Architectures
          PROVE  /\ plan'[a].check \subseteq selected
                 /\ \A x, y \in plan'[a].check \cup plan'[a].below : Key(x) = Key(y) => x = y
                 /\ \A x \in selected \cup base : x[3] \in {a, all} =>
                      \E y \in plan'[a].check \cup plan'[a].below :
                        /\ Key(y) = Key(x) /\ AtMost(x[2], y[2])
                        /\ y \in plan'[a].check <=> y \in selected
      BY <3>1, PartitionIsTogether
    <3> QED
      BY <3>1, <3>2 DEF VerifiedTogether, Planned
  <2>2. CASE /\ pc = "done" /\ options' = options /\ plan' = plan
             /\ selected' = selected /\ base' = base
    BY <2>2 DEF VerifiedTogether, Planned
  <2>3. Verify \/ (/\ pc = "done" /\ options' = options /\ plan' = plan
                   /\ selected' = selected /\ base' = base)
    <3> USE DEF local
    <3>1. CASE Environment
      BY <3>1 DEF Environment, CommitElsewhere, IndexPool, IndexPoolKilled, Index, CloseIndexed
    <3>2. CASE Start \/ TakeSnapshot \/ Retrieve \/ CollectPackageVersions \/ OpenTables \/ ImportFails
      BY <3>2 DEF Start, TakeSnapshot, Retrieve, CollectPackageVersions, OpenTables, ImportFails
    <3>3. CASE SelectVersions
      BY <3>3 DEF SelectVersions, IInv, TypeOK, Options
    <3>4. CASE Show \/ Commit
      BY <3>4 DEF Show, Commit, Commanded
    <3>5. CASE \E r \in remote : FetchUnderlying(r)
      BY <3>5 DEF FetchUnderlying
    <3>6. CASE \E r \in import.from : MergeUnderlying(r) \/ Imported(r)
      BY <3>6 DEF MergeUnderlying, Imported
    <3>7. CASE \E t \in ImportTables : CloseImported(t)
      BY <3>7 DEF CloseImported
    <3>8. CASE UNCHANGED vars
      BY <3>8 DEF vars
    <3> QED
      BY <3>1, <3>2, <3>3, <3>4, <3>5, <3>6, <3>7, <3>8 DEF Next, Run
  <2> QED
    BY <2>1, <2>2, <2>3
<1> QED
  BY <1>1, <1>2, InvHolds, CommandedHolds, PTL DEF Spec

-----------------------------------------------------------------------------
(* The tables of the verifier. *)

\* While writers do not overlap, pkg_deps only grows, and every release that
\* counts as an underlying one is in it.
Kept ==
  "overlap" \notin marred =>
    /\ unsaved = {} \/ unmerged = {}
    /\ unsaved # {} => pkg_deps \subseteq index.pkg_deps
    /\ unmerged # {} => pkg_deps \subseteq import.pkg_deps
    /\ base \subseteq pkg_deps
    /\ UnderlyingKnown
    /\ pc = "merged" => \A r \in import.from :
         r.release \subseteq (IF "pkg_deps" \in unmerged THEN import.pkg_deps ELSE pkg_deps)

\* The tables that a writer has in memory are complete, and those that it has
\* closed are equal to them.
Whole ==
  marred = {} =>
    /\ unsaved \in {{}, IndexTables} /\ unmerged \in {{}, ImportTables} =>
         pkg_info \subseteq pkg_deps /\ Owned(pkg_deps, file_pkg)
    /\ unsaved # {} =>
         /\ index.pkg_info \subseteq index.pkg_deps /\ Owned(index.pkg_deps, index.file_pkg)
         /\ "pkg_info" \notin unsaved => pkg_info = index.pkg_info
         /\ "pkg_deps" \notin unsaved => pkg_deps = index.pkg_deps
         /\ "file_pkg" \notin unsaved => file_pkg = index.file_pkg
    /\ unmerged # {} =>
         /\ pkg_info \subseteq import.pkg_deps /\ Owned(import.pkg_deps, import.file_pkg)
         /\ "pkg_deps" \notin unmerged => pkg_deps = import.pkg_deps
         /\ "file_pkg" \notin unmerged => file_pkg = import.file_pkg

\* The other steps of make_release and of the commits elsewhere touch no table
\* and no writer.
LEMMA AsideSteps ==
  ASSUME IInv,
         \/ CommitElsewhere \/ Start \/ TakeSnapshot \/ Retrieve \/ CollectPackageVersions
         \/ SelectVersions \/ Show \/ Commit \/ Verify \/ UNCHANGED vars
  PROVE  /\ UNCHANGED <<tables, writers>>
         /\ pc' = "merged" => pc = "merged"
<1>1. options.command # "merged"
  BY DEF IInv, TypeOK, Options
<1>2. CASE SelectVersions
  BY <1>1, <1>2 DEF SelectVersions
<1>3. CASE CommitElsewhere \/ Start \/ TakeSnapshot \/ Retrieve \/ CollectPackageVersions
  BY <1>3 DEF CommitElsewhere, Start, TakeSnapshot, Retrieve, CollectPackageVersions
<1>4. CASE Show \/ Commit \/ Verify \/ UNCHANGED vars
  BY <1>4 DEF Show, Commit, Verify, vars
<1> QED
  BY <1>2, <1>3, <1>4

\* Nor do they make packages underlying ones, except that the verifier is given
\* what has been fetched.
LEMMA AsideBase ==
  ASSUME \/ CommitElsewhere \/ Start \/ TakeSnapshot \/ Retrieve \/ CollectPackageVersions
         \/ SelectVersions \/ Show \/ Commit \/ Verify \/ UNCHANGED vars
  PROVE  /\ base' \subseteq base
         /\ \/ \A a \in Architectures : plan'[a].below \subseteq base
            \/ plan' = plan
<1>1. CASE Verify
  BY <1>1, VerifiedPlan DEF Verify
<1>2. CASE Start
  BY <1>2 DEF Start, NoPlan
<1>3. CASE CommitElsewhere \/ TakeSnapshot \/ Retrieve \/ CollectPackageVersions \/ SelectVersions
  BY <1>3 DEF CommitElsewhere, TakeSnapshot, Retrieve, CollectPackageVersions, SelectVersions, local
<1>4. CASE Show \/ Commit \/ UNCHANGED vars
  BY <1>4 DEF Show, Commit, vars, local
<1> QED
  BY <1>1, <1>2, <1>3, <1>4

\* Every step keeps the dependencies of underlying releases.
LEMMA KeptHolds == Spec => []Kept
<1>1. Init => Kept
  BY DEF Init, Kept, UnderlyingKnown, NoPlan
<1>2. IInv /\ Kept /\ [Next]_vars => Kept'
  <2> SUFFICES ASSUME IInv, Kept, [Next]_vars PROVE Kept'
    OBVIOUS
  <2> USE DEF Kept, UnderlyingKnown
  <2>0. marred \subseteq {"overlap", "cut"} /\ (unmerged # {} => pc \in {"import", "merged", "interrupted"})
    BY DEF IInv, TypeOK, Grown
  <2>1. CASE \/ CommitElsewhere \/ Start \/ TakeSnapshot \/ Retrieve \/ CollectPackageVersions
             \/ SelectVersions \/ Show \/ Commit \/ Verify \/ UNCHANGED vars
    <3>1. UNCHANGED <<tables, writers>> /\ (pc' = "merged" => pc = "merged")
      BY <2>1, AsideSteps
    <3>2. /\ base' \subseteq base
          /\ \/ \A a \in Architectures : plan'[a].below \subseteq base
             \/ plan' = plan
      BY <2>1, AsideBase
    <3> QED
      BY <3>1, <3>2 DEF tables, writers
  <2>2. CASE IndexPool
    <3>1. /\ "overlap" \notin marred' => unmerged = {} /\ "overlap" \notin marred
      BY <2>0, <2>2, Marks DEF IndexPool
    <3> QED
      BY <2>2, <3>1 DEF IndexPool, tables, local
  <2>3. CASE IndexPoolKilled
    <3>1. "overlap" \notin marred' => "overlap" \notin marred
      BY <2>0, <2>3, Marks DEF IndexPoolKilled
    <3> QED
      BY <2>3, <3>1 DEF IndexPoolKilled, tables, local
  <2>4. CASE \E x \in index.pool : Index(x)
    BY <2>4 DEF Index, tables, local
  <2>5. CASE \E t \in IndexTables : CloseIndexed(t)
    BY <2>5 DEF CloseIndexed, local
  <2>6. CASE OpenTables
    <3>1. /\ "overlap" \notin marred' => unsaved = {} /\ "overlap" \notin marred
      BY <2>0, <2>6, Marks DEF OpenTables
    <3>2. import'.pkg_deps = pkg_deps
      BY <2>6 DEF OpenTables, IInv, TypeOK
    <3> QED
      BY <2>6, <3>1, <3>2 DEF OpenTables, tables, local
  <2>7. ASSUME NEW r \in import.from, MergeUnderlying(r) PROVE Kept'
    <3>1. "overlap" \notin marred' => "overlap" \notin marred
      BY <2>0, <2>7, Marks DEF MergeUnderlying
    <3>2. unmerged = ImportTables /\ r.release \subseteq r.pkg_deps
      BY <2>7 DEF MergeUnderlying, IInv, Grown
    <3>3. PICK D \in SUBSET r.pkg_deps, P \in SUBSET Paths :
            /\ import' = [from |-> import.from, pkg_deps |-> import.pkg_deps \cup D,
                          file_pkg |-> [p \in Paths |->
                            IF p \in P THEN AppendEntry(import.file_pkg[p], r.file_pkg[p])
                                       ELSE import.file_pkg[p]]]
            /\ pc' = IF D = r.pkg_deps /\ P = Paths THEN "merged" ELSE "interrupted"
      BY <2>7, ImportSteps DEF IInv
    <3>4. import'.from = import.from /\ import'.pkg_deps = import.pkg_deps \cup D
      BY <3>3
    <3>5. pc' = "merged" => D = r.pkg_deps
      BY <3>3
    <3>6. \A q \in import.from : q = r
      BY DEF IInv, Grown
    <3> QED
      BY <2>7, <3>1, <3>2, <3>4, <3>5, <3>6 DEF MergeUnderlying, tables, local, ImportTables
  <2>8. ASSUME NEW r \in import.from, Imported(r) PROVE Kept'
    BY <2>8 DEF Imported, tables, NoImport
  <2>9. CASE \E t \in ImportTables : CloseImported(t)
    BY <2>9 DEF CloseImported, local
  <2>10. CASE ImportFails
    <3>1. "overlap" \notin marred' => "overlap" \notin marred
      BY <2>0, <2>10, Marks DEF ImportFails
    <3> QED
      BY <2>10, <3>1 DEF ImportFails, tables, NoPlan
  <2>11. ASSUME NEW r \in remote, FetchUnderlying(r) PROVE Kept'
    <3>1. /\ import' = [from |-> {r}, pkg_deps |-> import.pkg_deps, file_pkg |-> import.file_pkg]
             \/ import' = import
          /\ \/ base' = base
             \/ base' = base \cup r.release /\ r.release \subseteq pkg_deps
      BY <2>11, ImportSteps DEF IInv
    <3>2. import'.pkg_deps = import.pkg_deps
      BY <3>1
    <3>3. pc' # "merged"
      BY <2>11 DEF FetchUnderlying
    <3> QED
      BY <2>11, <3>1, <3>2, <3>3 DEF FetchUnderlying, tables
  <2> QED
    BY <2>1, <2>2, <2>3, <2>4, <2>5, <2>6, <2>7, <2>8, <2>9, <2>10, <2>11 DEF Next, Environment, Run
<1> QED
  BY <1>1, <1>2, InvHolds, PTL DEF Spec

\* A package that is entered with its files owns them.
LEMMA OwnedEntry ==
  ASSUME NEW deps \in SUBSET NVA, NEW files \in [Paths -> Seq(NVA)], NEW y \in NVA, Owned(deps, files)
  PROVE  Owned(deps \cup {y}, [p \in Paths |-> IF p \in FilesOf[y[1]] THEN AppendEntry(files[p], <<y>>)
                                                                     ELSE files[p]])
<1> DEFINE new == [p \in Paths |-> IF p \in FilesOf[y[1]] THEN AppendEntry(files[p], <<y>>) ELSE files[p]]
<1> SUFFICES ASSUME NEW x \in deps \cup {y}, NEW p \in FilesOf[x[1]]
             PROVE  \E i \in DOMAIN new[p] : new[p][i] = x
  BY DEF Owned
<1>1. x \in NVA /\ p \in Paths
  BY NVAParts, ScenarioAssumption
<1>2. x \in deps => \E i \in DOMAIN files[p] : files[p][i] = x
  BY DEF Owned
<1>3. CASE p \notin FilesOf[y[1]]
  BY <1>1, <1>2, <1>3
<1>4. CASE p \in FilesOf[y[1]]
  <2> DEFINE e == AppendEntry(files[p], <<y>>)
  <2>1. new[p] = e
    BY <1>1, <1>4
  <2>2. <<y>> \in Seq(NVA) /\ <<y>>[1] = y /\ 1 \in DOMAIN <<y>> /\ files[p] \in Seq(NVA)
    BY <1>1
  <2>3. /\ \A i \in DOMAIN files[p] : \E n \in DOMAIN e : e[n] = files[p][i]
        /\ \A i \in DOMAIN <<y>> : \E n \in DOMAIN e : e[n] = <<y>>[i]
    BY <2>2, AppendEntryKeeps
  <2>4. \E n \in DOMAIN e : e[n] = <<y>>[1]
    BY <2>2, <2>3
  <2>5. \E n \in DOMAIN e : e[n] = y
    BY <2>2, <2>4
  <2> HIDE DEF e
  <2>6. \E n \in DOMAIN e : e[n] = x
    BY <1>2, <2>3, <2>5
  <2> QED
    BY <2>1, <2>6
<1> QED
  BY <1>3, <1>4

\* Tables that are merged own what each of them owns.
LEMMA OwnedMerge ==
  ASSUME NEW deps \in SUBSET NVA, NEW files \in [Paths -> Seq(NVA)], Owned(deps, files),
         NEW others \in SUBSET NVA, NEW owners \in [Paths -> Seq(NVA)], Owned(others, owners)
  PROVE  Owned(deps \cup others, [p \in Paths |-> AppendEntry(files[p], owners[p])])
<1> DEFINE new == [p \in Paths |-> AppendEntry(files[p], owners[p])]
<1> SUFFICES ASSUME NEW x \in deps \cup others, NEW p \in FilesOf[x[1]]
             PROVE  \E i \in DOMAIN new[p] : new[p][i] = x
  BY DEF Owned
<1>1. x \in NVA /\ p \in Paths
  BY NVAParts, ScenarioAssumption
<1>2. /\ x \in deps => \E i \in DOMAIN files[p] : files[p][i] = x
      /\ x \in others => \E i \in DOMAIN owners[p] : owners[p][i] = x
  BY DEF Owned
<1> DEFINE e == AppendEntry(files[p], owners[p])
<1>3. new[p] = e
  BY <1>1
<1>4. files[p] \in Seq(NVA) /\ owners[p] \in Seq(NVA)
  BY <1>1
<1>5. /\ \A i \in DOMAIN files[p] : \E n \in DOMAIN e : e[n] = files[p][i]
      /\ \A i \in DOMAIN owners[p] : \E n \in DOMAIN e : e[n] = owners[p][i]
  BY <1>4, AppendEntryKeeps
<1> HIDE DEF e
<1>6. \E n \in DOMAIN e : e[n] = x
  BY <1>2, <1>5
<1> QED
  BY <1>3, <1>6

\* Every step keeps what the writers have in memory complete.
LEMMA WholeHolds == Spec => []Whole
<1>1. Init => Whole
  <2> SUFFICES ASSUME Init PROVE Whole
    OBVIOUS
  <2>1. /\ pkg_info = pkg_deps /\ unsaved = {} /\ unmerged = {}
        /\ marred = When(~ Owned(pkg_deps, file_pkg), "cut")
    BY DEF Init
  <2> QED
    BY <2>1 DEF Whole, When
<1>2. IInv /\ Kept /\ Whole /\ [Next]_vars => Whole'
  <2> SUFFICES ASSUME IInv, Kept, Whole, [Next]_vars, marred' = {} PROVE Whole'
    BY DEF Whole
  <2>0. /\ marred \subseteq {"overlap", "cut"}
        /\ unmerged # {} => pc \in {"import", "merged", "interrupted"}
        /\ pc = "import" => unmerged = ImportTables
    BY DEF IInv, TypeOK, Grown
  <2>1. CASE \/ CommitElsewhere \/ Start \/ TakeSnapshot \/ Retrieve \/ CollectPackageVersions
             \/ SelectVersions \/ Show \/ Commit \/ Verify \/ UNCHANGED vars
    <3>1. UNCHANGED <<tables, writers>>
      BY <2>1, AsideSteps
    <3> QED
      BY <3>1 DEF Whole, tables, writers
  <2>2. CASE IndexPool
    <3>1. unmerged = {} /\ marred = {}
      BY <2>0, <2>2, Marks DEF IndexPool
    <3>2. pkg_info \subseteq pkg_deps /\ Owned(pkg_deps, file_pkg)
      BY <2>2, <3>1 DEF IndexPool, Whole
    <3> QED
      BY <2>2, <3>1, <3>2 DEF IndexPool, tables, Whole, IndexTables
  <2>3. CASE IndexPoolKilled
    <3>1. unsaved = IndexTables /\ marred = {}
      BY <2>0, <2>3, Marks DEF IndexPoolKilled
    <3>2. unmerged = {}
      BY <2>3, <3>1 DEF Kept, IndexPoolKilled
    <3>3. pkg_info \subseteq pkg_deps /\ Owned(pkg_deps, file_pkg)
      BY <3>1, <3>2 DEF Whole
    <3> QED
      BY <2>3, <3>2, <3>3 DEF IndexPoolKilled, tables, Whole
  <2>4. ASSUME NEW x \in index.pool, Index(x) PROVE Whole'
    <3>1. marred = {} /\ unsaved = IndexTables
      BY <2>4 DEF Index
    <3>2. unmerged = {}
      BY <3>1 DEF Kept, IndexTables
    <3>3. x \in NVA /\ index.pkg_deps \in SUBSET NVA /\ index.file_pkg \in [Paths -> Seq(NVA)]
      BY DEF IInv, TypeOK
    <3>4. /\ index.pkg_info \subseteq index.pkg_deps /\ Owned(index.pkg_deps, index.file_pkg)
          /\ pkg_info \subseteq pkg_deps /\ Owned(pkg_deps, file_pkg)
      BY <3>1, <3>2 DEF Whole, IndexTables
    <3>5. index'.pkg_info \subseteq index'.pkg_deps /\ Owned(index'.pkg_deps, index'.file_pkg)
      BY <2>4, <3>3, <3>4, OwnedEntry DEF Index
    <3> QED
      BY <2>4, <3>1, <3>2, <3>4, <3>5 DEF Index, tables, Whole, IndexTables
  <2>5. ASSUME NEW t \in IndexTables, CloseIndexed(t) PROVE Whole'
    <3>1. marred = {} /\ unsaved # {} /\ t \in unsaved
      BY <2>5 DEF CloseIndexed
    <3>2. unmerged = {}
      BY <3>1 DEF Kept
    <3>3. /\ index.pkg_info \subseteq index.pkg_deps /\ Owned(index.pkg_deps, index.file_pkg)
          /\ "pkg_info" \notin unsaved => pkg_info = index.pkg_info
          /\ "pkg_deps" \notin unsaved => pkg_deps = index.pkg_deps
          /\ "file_pkg" \notin unsaved => file_pkg = index.file_pkg
      BY <3>1 DEF Whole
    <3>4. /\ "pkg_info" \notin unsaved' => pkg_info' = index.pkg_info
          /\ "pkg_deps" \notin unsaved' => pkg_deps' = index.pkg_deps
          /\ "file_pkg" \notin unsaved' => file_pkg' = index.file_pkg
      BY <2>5, <3>3 DEF CloseIndexed
    <3>5. unsaved' # IndexTables /\ unmerged' = {}
      BY <2>5, <3>1, <3>2 DEF CloseIndexed
    <3>6. unsaved' # {} => index' = index
      BY <2>5 DEF CloseIndexed
    <3>7. unsaved' = {} => pkg_info' \subseteq pkg_deps' /\ Owned(pkg_deps', file_pkg')
      BY <3>3, <3>4
    <3> QED
      BY <3>3, <3>4, <3>5, <3>6, <3>7 DEF Whole
  <2>6. CASE OpenTables
    <3>1. unsaved = {} /\ marred = {} /\ unmerged = {}
      BY <2>0, <2>6, Marks DEF OpenTables
    <3>2. pkg_info \subseteq pkg_deps /\ Owned(pkg_deps, file_pkg)
      BY <3>1 DEF Whole
    <3>3. import'.pkg_deps = pkg_deps /\ import'.file_pkg = file_pkg
      BY <2>6 DEF OpenTables, IInv, TypeOK
    <3> QED
      BY <2>6, <3>1, <3>2, <3>3 DEF OpenTables, tables, Whole, ImportTables
  <2>7. ASSUME NEW r \in import.from, MergeUnderlying(r) PROVE Whole'
    <3>1. unmerged = ImportTables /\ unmerged' = ImportTables /\ ImportTables # {}
      BY <2>0, <2>7 DEF MergeUnderlying, ImportTables
    <3>2. marred = {} /\ pc' # "interrupted" /\ Owned(r.pkg_deps, r.file_pkg)
      BY <2>0, <2>7, Marks DEF MergeUnderlying
    <3>3. unsaved = {} /\ unsaved' = {}
      BY <2>7, <3>1, <3>2 DEF Kept, MergeUnderlying
    <3>4. /\ import.pkg_deps \in SUBSET NVA /\ import.file_pkg \in [Paths -> Seq(NVA)]
          /\ r.pkg_deps \in SUBSET NVA /\ r.file_pkg \in [Paths -> Seq(NVA)]
      BY DEF IInv, TypeOK, Repository
    <3>5. /\ import'.pkg_deps = import.pkg_deps \cup r.pkg_deps
          /\ import'.file_pkg = [p \in Paths |-> AppendEntry(import.file_pkg[p], r.file_pkg[p])]
      <4>1. PICK D \in SUBSET r.pkg_deps, P \in SUBSET Paths :
              /\ import' = [from |-> import.from, pkg_deps |-> import.pkg_deps \cup D,
                            file_pkg |-> [p \in Paths |->
                              IF p \in P THEN AppendEntry(import.file_pkg[p], r.file_pkg[p])
                                         ELSE import.file_pkg[p]]]
              /\ pc' = IF D = r.pkg_deps /\ P = Paths THEN "merged" ELSE "interrupted"
        BY <2>7, ImportSteps DEF IInv
      <4>2. D = r.pkg_deps /\ P = Paths
        BY <3>2, <4>1
      <4> QED
        BY <4>1, <4>2
    <3>6. /\ pkg_info \subseteq import.pkg_deps /\ Owned(import.pkg_deps, import.file_pkg)
          /\ pkg_info \subseteq pkg_deps /\ Owned(pkg_deps, file_pkg)
      BY <3>1, <3>2, <3>3 DEF Whole
    <3>7. Owned(import'.pkg_deps, import'.file_pkg)
      <4>1. Owned(import.pkg_deps \cup r.pkg_deps,
                  [p \in Paths |-> AppendEntry(import.file_pkg[p], r.file_pkg[p])])
        BY <3>2, <3>4, <3>6, OwnedMerge
      <4> QED
        BY <3>5, <4>1
    <3> QED
      BY <2>7, <3>1, <3>3, <3>5, <3>6, <3>7 DEF MergeUnderlying, tables, Whole, ImportTables
  <2>8. ASSUME NEW r \in import.from, Imported(r) PROVE Whole'
    BY <2>8 DEF Imported, tables, Whole
  <2>9. ASSUME NEW t \in ImportTables, CloseImported(t) PROVE Whole'
    <3>1. marred = {} /\ unmerged # {} /\ t \in unmerged /\ import' = import
      BY <2>9 DEF CloseImported
    <3>2. unsaved = {} /\ unsaved' = {}
      BY <2>9, <3>1 DEF Kept, CloseImported
    <3>3. /\ pkg_info \subseteq import.pkg_deps /\ Owned(import.pkg_deps, import.file_pkg)
          /\ "pkg_deps" \notin unmerged => pkg_deps = import.pkg_deps
          /\ "file_pkg" \notin unmerged => file_pkg = import.file_pkg
      BY <3>1 DEF Whole
    <3>4. /\ "pkg_deps" \notin unmerged' => pkg_deps' = import.pkg_deps
          /\ "file_pkg" \notin unmerged' => file_pkg' = import.file_pkg
          /\ pkg_info' = pkg_info
      BY <2>9, <3>3 DEF CloseImported
    <3>5. unmerged' # ImportTables
      BY <2>9, <3>1 DEF CloseImported
    <3>6. unmerged' = {} => pkg_info' \subseteq pkg_deps' /\ Owned(pkg_deps', file_pkg')
      BY <3>3, <3>4
    <3> QED
      BY <3>1, <3>2, <3>3, <3>4, <3>5, <3>6 DEF Whole
  <2>10. CASE ImportFails
    <3>1. /\ marred = {} /\ unmerged' = {}
          /\ pc \in {"merged", "interrupted"} => unmerged \in {{}, ImportTables}
      BY <2>0, <2>10, Marks DEF ImportFails
    <3>2. unmerged \in {{}, ImportTables}
      BY <2>0, <2>10, <3>1 DEF ImportFails
    <3> QED
      BY <2>10, <3>1, <3>2 DEF ImportFails, tables, Whole
  <2>11. ASSUME NEW r \in remote, FetchUnderlying(r) PROVE Whole'
    <3>1. import'.pkg_deps = import.pkg_deps /\ import'.file_pkg = import.file_pkg
      BY <2>11 DEF FetchUnderlying, IInv, TypeOK
    <3> QED
      BY <2>11, <3>1 DEF FetchUnderlying, tables, Whole
  <2> QED
    BY <2>1, <2>2, <2>3, <2>4, <2>5, <2>6, <2>7, <2>8, <2>9, <2>10, <2>11 DEF Next, Environment, Run
<1> QED
  BY <1>1, <1>2, InvHolds, KeptHolds, PTL DEF Spec

\* The dependencies of every underlying package are on record, whatever was cut
\* off, as long as writers do not overlap; and when no writer was cut off, so
\* are, between two writers, the dependencies of what is to be checked and all
\* owners of a file (the invariant TablesSuffice).
THEOREM TablesSufficeHolds == Spec => []TablesSuffice
<1>1. IInv /\ Kept /\ Whole => TablesSuffice
  <2> SUFFICES ASSUME IInv, Kept, Whole, marred = {}, unsaved = {}, unmerged = {}
               PROVE  /\ \A a \in Architectures : plan[a].check \subseteq pkg_deps
                      /\ Owned(pkg_deps, file_pkg)
    BY DEF TablesSuffice, TablesComplete, Kept, UnderlyingKnown
  <2>1. pkg_info \subseteq pkg_deps /\ Owned(pkg_deps, file_pkg)
    BY DEF Whole
  <2> QED
    BY <2>1 DEF IInv, Grown
<1> QED
  BY <1>1, InvHolds, KeptHolds, WholeHolds, PTL
-----------------------------------------------------------------------------
(* Versions as strings: CompareVersion and the order of Policy.  First the *)
(* characters.                                                             *)

\* The characters that are no digits.
NonDigits == {"+", "-", ".", ":", "A", "a", "b", "~"}

\* The weight of a character, or of the blank that pads.
WeightOf(c) == IF c = " " THEN 0 ELSE Weight(c)

\* The table of the characters, position by position.
LEMMA AsciiIs ==
  /\ DOMAIN Ascii = 1 .. 12
  /\ Ascii[1] = " " /\ Ascii[2] = "+" /\ Ascii[3] = "-" /\ Ascii[4] = "." /\ Ascii[5] = "0" /\ Ascii[6] = "1"
  /\ Ascii[7] = "2" /\ Ascii[8] = ":" /\ Ascii[9] = "A" /\ Ascii[10] = "a" /\ Ascii[11] = "b" /\ Ascii[12] = "~"
BY DEF Ascii

\* Its positions are positions.
LEMMA AsciiPositions ==
  /\ 1 \in 1 .. 12 /\ 2 \in 1 .. 12 /\ 3 \in 1 .. 12 /\ 4 \in 1 .. 12 /\ 5 \in 1 .. 12 /\ 6 \in 1 .. 12
  /\ 7 \in 1 .. 12 /\ 8 \in 1 .. 12 /\ 9 \in 1 .. 12 /\ 10 \in 1 .. 12 /\ 11 \in 1 .. 12 /\ 12 \in 1 .. 12
OBVIOUS

\* There are no others.
LEMMA PositionCases ==
  \A i \in 1 .. 12 : i = 1 \/ i = 2 \/ i = 3 \/ i = 4 \/ i = 5 \/ i = 6
                     \/ i = 7 \/ i = 8 \/ i = 9 \/ i = 10 \/ i = 11 \/ i = 12
OBVIOUS

\* The characters of the table.
LEMMA CharsAre == Chars = {" ", "+", "-", ".", "0", "1", "2", ":", "A", "a", "b", "~"}
<1> DEFINE E == {" ", "+", "-", ".", "0", "1", "2", ":", "A", "a", "b", "~"}
<1>1. \A i \in DOMAIN Ascii : Ascii[i] \in E
  BY AsciiIs, PositionCases
<1>2. \A c \in E : \E i \in DOMAIN Ascii : Ascii[i] = c
  BY AsciiIs, AsciiPositions, Zenon
<1> HIDE DEF E
<1>3. \A c : c \in Chars <=> c \in E
  BY <1>1, <1>2 DEF Chars
<1>4. Chars = E
  BY <1>3
<1> QED
  BY <1>4 DEF E

\* They and the digits are all characters of a version.
LEMMA TextCharsAre == TextChars = NonDigits \cup Digits
BY CharsAre DEF TextChars, NonDigits, Digits

\* What SplitSubVersion takes first: the non-digits, and the blank.
LEMMA NonDigitsAre == Chars \ Digits = NonDigits \cup {" "}
BY CharsAre DEF Digits, NonDigits

\* The code of each character.
LEMMA Codes ==
  /\ Code(" ") = 1 /\ Code("+") = 2 /\ Code("-") = 3 /\ Code(".") = 4 /\ Code("0") = 5 /\ Code("1") = 6
  /\ Code("2") = 7 /\ Code(":") = 8 /\ Code("A") = 9 /\ Code("a") = 10 /\ Code("b") = 11 /\ Code("~") = 12
<1>1. \A i, j \in 1 .. 12 : Ascii[i] = Ascii[j] => i = j
  BY AsciiIs, PositionCases
<1>2. ASSUME NEW i \in 1 .. 12
      PROVE  Code(Ascii[i]) = i
  BY <1>1, AsciiIs DEF Code
<1> QED
  BY <1>2, AsciiIs, AsciiPositions, Zenon

\* The weight of each character that is no digit.
LEMMA Weights ==
  /\ Weight("~") = -1 /\ Weight("A") = 1 /\ Weight("a") = 2 /\ Weight("b") = 3
  /\ Weight("+") = 101 /\ Weight("-") = 102 /\ Weight(".") = 103 /\ Weight(":") = 104
BY DEF Weight, Alphabet, Signs, Is, Position

\* Both sides see the same digits, of the same values.
LEMMA CharacterKinds ==
  /\ \A c \in Digits : Is(Numerals, c) /\ Position(Numerals, c) - 1 = Code(c) - Code("0")
                       /\ Code(c) - Code("0") \in 0 .. 2 /\ Code(c) \in Int /\ Code("0") \in Int
  /\ \A c \in NonDigits : ~ Is(Numerals, c) /\ Weight(c) \in Int /\ Weight(c) # 0
<1>1. Is(Numerals, "0") /\ Is(Numerals, "1") /\ Is(Numerals, "2")
  BY DEF Is, Numerals
<1>2. Position(Numerals, "0") = 1 /\ Position(Numerals, "1") = 2 /\ Position(Numerals, "2") = 3
  BY DEF Position, Numerals
<1>3. \A c \in NonDigits : ~ Is(Numerals, c)
  BY DEF Is, Numerals, NonDigits
<1>4. \A c \in Digits : c = "0" \/ c = "1" \/ c = "2"
  BY DEF Digits
<1>5. \A c \in NonDigits : Weight(c) \in Int /\ Weight(c) # 0
  BY Weights DEF NonDigits
<1>6. Code("0") = 5 /\ Code("1") = 6 /\ Code("2") = 7
  BY Codes
<1>7. \A c \in Digits : Is(Numerals, c) /\ Position(Numerals, c) - 1 = Code(c) - Code("0")
                       /\ Code(c) - Code("0") \in 0 .. 2 /\ Code(c) \in Int /\ Code("0") \in Int
  BY <1>1, <1>2, <1>4, <1>6
<1> QED
  BY <1>3, <1>5, <1>7

\* The class of each character that is no digit.
LEMMA Classes ==
  /\ Class("~") = 1 /\ Class(" ") = 2 /\ Class("A") = 3 /\ Class("a") = 3 /\ Class("b") = 3
  /\ Class("+") = 4 /\ Class("-") = 4 /\ Class(".") = 4 /\ Class(":") = 4
BY DEF Class, Letters

\* The class, the code and the weight of every character that is no digit.
Ranks(x, m, u) ==
  \/ x = 1 /\ m = 12 /\ u = -1
  \/ x = 2 /\ m = 1 /\ u = 0
  \/ x = 3 /\ m = 9 /\ u = 1
  \/ x = 3 /\ m = 10 /\ u = 2
  \/ x = 3 /\ m = 11 /\ u = 3
  \/ x = 4 /\ m = 2 /\ u = 101
  \/ x = 4 /\ m = 3 /\ u = 102
  \/ x = 4 /\ m = 4 /\ u = 103
  \/ x = 4 /\ m = 8 /\ u = 104

\* Characters compare like their weights.
LEMMA RanksDecide ==
  ASSUME NEW c, NEW d, Ranks(Class(c), Code(c), WeightOf(c)), Ranks(Class(d), Code(d), WeightOf(d))
  PROVE  CompareChar(c, d) = Sign(WeightOf(c) - WeightOf(d))
<1> DEFINE x == Class(c)
           y == Class(d)
           m == Code(c)
           n == Code(d)
           u == WeightOf(c)
           v == WeightOf(d)
<1>1. Ranks(x, m, u) /\ Ranks(y, n, v)
  OBVIOUS
<1>2. CompareChar(c, d) = Sign(IF x # y THEN x - y ELSE m - n)
  BY DEF CompareChar
<1> HIDE DEF x, y, m, n, u, v
<1>3. CompareChar(c, d) = Sign(u - v)
  BY <1>1, <1>2 DEF Ranks, Sign
<1> QED
  BY <1>3 DEF u, v

\* Class and code order the non-digits and the blank as the weights do.
LEMMA CharByWeight ==
  \A c, d \in NonDigits \cup {" "} : CompareChar(c, d) = Sign(WeightOf(c) - WeightOf(d))
<1>1. \A c \in NonDigits \cup {" "} : Ranks(Class(c), Code(c), WeightOf(c))
  <2>1. /\ Ranks(Class("~"), Code("~"), WeightOf("~")) /\ Ranks(Class(" "), Code(" "), WeightOf(" "))
        /\ Ranks(Class("A"), Code("A"), WeightOf("A")) /\ Ranks(Class("a"), Code("a"), WeightOf("a"))
        /\ Ranks(Class("b"), Code("b"), WeightOf("b"))
    BY Codes, Weights, Classes DEF Ranks, WeightOf
  <2>2. /\ Ranks(Class("+"), Code("+"), WeightOf("+")) /\ Ranks(Class("-"), Code("-"), WeightOf("-"))
        /\ Ranks(Class("."), Code("."), WeightOf(".")) /\ Ranks(Class(":"), Code(":"), WeightOf(":"))
    BY Codes, Weights, Classes DEF Ranks, WeightOf
  <2> QED
    BY <2>1, <2>2, Zenon DEF NonDigits
<1> QED
  BY <1>1, RanksDecide

-----------------------------------------------------------------------------
(* Keys and strings, padded. *)

\* The weights of a key, and those of a string, that go on with zeros.
Pad(k, i) == IF i <= Len(k) THEN k[i] ELSE 0
PadWeight(s, i) == IF i <= Len(s) THEN Weight(s[i]) ELSE 0

\* A non-empty set of numbers has a first one.
LEMMA FirstIs ==
  ASSUME NEW S \in SUBSET Nat, S # {}
  PROVE  First(S) \in S /\ \A j \in S : First(S) <= j
<1>1. \E i \in S : \A j \in S : i <= j
  BY NumbersHaveMinimum
<1> QED
  BY <1>1 DEF First

\* The weights of a key are numbers.
LEMMA PadType ==
  ASSUME NEW k \in Seq(Int), NEW i \in Nat \ {0}
  PROVE  Pad(k, i) \in Int
BY DEF Pad

\* The first difference decides.
LEMMA KeysDiffer ==
  ASSUME NEW k \in Seq(Int), NEW l \in Seq(Int), NEW i \in Nat \ {0},
         \A j \in 1 .. i - 1 : Pad(k, j) = Pad(l, j), Pad(k, i) # Pad(l, i)
  PROVE  CompareKeys(k, l) = Sign(Pad(k, i) - Pad(l, i))
<1> DEFINE differ == {j \in 1 .. Len(k) + Len(l) : Pad(k, j) # Pad(l, j)}
<1>1. CompareKeys(k, l) = IF differ = {} THEN 0 ELSE IF Pad(k, First(differ)) < Pad(l, First(differ)) THEN -1 ELSE 1
  BY Zenon DEF CompareKeys, Pad
<1>2. Len(k) \in Nat /\ Len(l) \in Nat
  OBVIOUS
<1>3. i \in differ
  <2>1. i <= Len(k) + Len(l)
    BY <1>2 DEF Pad
  <2> QED
    BY <1>2, <2>1
<1>4. \A j \in differ : i <= j
  <2> SUFFICES ASSUME NEW j \in differ, ~ i <= j PROVE FALSE
    OBVIOUS
  <2>1. j \in 1 .. i - 1
    BY <1>2
  <2> QED
    BY <2>1
<1>5. differ \in SUBSET Nat
  BY <1>2
<1> HIDE DEF differ
<1>6. First(differ) \in differ /\ \A j \in differ : First(differ) <= j
  BY <1>3, <1>5, FirstIs
<1>7. First(differ) = i
  <2>1. First(differ) <= i /\ i <= First(differ)
    BY <1>3, <1>4, <1>6
  <2>2. First(differ) \in Nat
    BY <1>5, <1>6
  <2> QED
    BY <2>1, <2>2
<1>8. Pad(k, i) \in Int /\ Pad(l, i) \in Int
  BY PadType
<1> QED
  BY <1>1, <1>3, <1>7, <1>8 DEF Sign

\* Keys without a difference compare as equal.
LEMMA KeysAgree ==
  ASSUME NEW k \in Seq(Int), NEW l \in Seq(Int), \A j \in Nat \ {0} : Pad(k, j) = Pad(l, j)
  PROVE  CompareKeys(k, l) = 0
<1> DEFINE differ == {j \in 1 .. Len(k) + Len(l) : Pad(k, j) # Pad(l, j)}
<1>1. CompareKeys(k, l) = IF differ = {} THEN 0 ELSE IF Pad(k, First(differ)) < Pad(l, First(differ)) THEN -1 ELSE 1
  BY Zenon DEF CompareKeys, Pad
<1>2. differ = {}
  OBVIOUS
<1> QED
  BY <1>1, <1>2, Zenon

\* The first of the positions at which two sequences differ, if there is one.
LEMMA FirstDifference ==
  ASSUME NEW k \in Seq(Int), NEW l \in Seq(Int), NEW j \in Nat \ {0}, Pad(k, j) # Pad(l, j)
  PROVE  \E i \in Nat \ {0} : Pad(k, i) # Pad(l, i) /\ \A n \in 1 .. i - 1 : Pad(k, n) = Pad(l, n)
<1> DEFINE S == {i \in Nat \ {0} : Pad(k, i) # Pad(l, i)}
<1>1. S \in SUBSET Nat /\ S # {}
  OBVIOUS
<1> HIDE DEF S
<1>2. PICK i \in S : \A n \in S : i <= n
  BY <1>1, NumbersHaveMinimum
<1>3. i \in Nat \ {0} /\ Pad(k, i) # Pad(l, i)
  BY <1>2 DEF S
<1>4. \A n \in 1 .. i - 1 : n \in Nat \ {0} /\ ~ i <= n
  BY <1>3
<1> QED
  BY <1>2, <1>3, <1>4 DEF S

\* Two keys have the same first n weights; x is what follows them in k.
Agree(k, l, n) == \A j \in 1 .. n : Pad(k, j) = Pad(l, j)
Follows(k, n, x) == \A j \in Nat \ {0} : Pad(k, n + j) = Pad(x, j)

\* Keys that agree on their first n weights compare like what follows.
LEMMA KeysShift ==
  ASSUME NEW k \in Seq(Int), NEW l \in Seq(Int), NEW n \in Nat, Agree(k, l, n),
         NEW x \in Seq(Int), NEW y \in Seq(Int), Follows(k, n, x), Follows(l, n, y)
  PROVE  CompareKeys(k, l) = CompareKeys(x, y)
<1> USE DEF Agree, Follows
<1>1. CASE \A j \in Nat \ {0} : Pad(x, j) = Pad(y, j)
  <2>1. \A j \in Nat \ {0} : Pad(k, j) = Pad(l, j)
    <3> SUFFICES ASSUME NEW j \in Nat \ {0} PROVE Pad(k, j) = Pad(l, j)
      OBVIOUS
    <3>1. CASE j \in 1 .. n
      BY <3>1
    <3>2. CASE j \notin 1 .. n
      <4>1. j - n \in Nat \ {0} /\ n + (j - n) = j
        BY <3>2
      <4> QED
        BY <1>1, <4>1
    <3> QED
      BY <3>1, <3>2
  <2> QED
    BY <1>1, <2>1, KeysAgree
<1>2. ASSUME NEW j \in Nat \ {0}, Pad(x, j) # Pad(y, j)
      PROVE  CompareKeys(k, l) = CompareKeys(x, y)
  <2>1. PICK i \in Nat \ {0} : Pad(x, i) # Pad(y, i) /\ \A m \in 1 .. i - 1 : Pad(x, m) = Pad(y, m)
    BY <1>2, FirstDifference
  <2>2. CompareKeys(x, y) = Sign(Pad(x, i) - Pad(y, i))
    BY <2>1, KeysDiffer
  <2>3. n + i \in Nat \ {0} /\ Pad(k, n + i) = Pad(x, i) /\ Pad(l, n + i) = Pad(y, i)
    OBVIOUS
  <2>4. \A m \in 1 .. (n + i) - 1 : Pad(k, m) = Pad(l, m)
    <3> SUFFICES ASSUME NEW m \in 1 .. (n + i) - 1 PROVE Pad(k, m) = Pad(l, m)
      OBVIOUS
    <3>1. CASE m \in 1 .. n
      BY <3>1
    <3>2. CASE m \notin 1 .. n
      <4>1. m - n \in Nat \ {0} /\ m - n \in 1 .. i - 1 /\ n + (m - n) = m
        BY <3>2
      <4> QED
        BY <2>1, <4>1
    <3> QED
      BY <3>1, <3>2
  <2>5. CompareKeys(k, l) = Sign(Pad(k, n + i) - Pad(l, n + i))
    BY <2>1, <2>3, <2>4, KeysDiffer
  <2> QED
    BY <2>2, <2>3, <2>5
<1> QED
  BY <1>1, <1>2

\* FirstOf of zeros is 0.
LEMMA FirstOfZero ==
  ASSUME NEW d, \A i \in DOMAIN d : d[i] = 0
  PROVE  FirstOf(d) = 0
BY DEF FirstOf

\* FirstOf is the element behind the zeros.
LEMMA FirstOfAt ==
  ASSUME NEW n \in Nat, NEW d, DOMAIN d = 1 .. n, NEW i \in 1 .. n, d[i] # 0,
         \A j \in 1 .. i - 1 : d[j] = 0
  PROVE  FirstOf(d) = d[i]
<1> DEFINE found == {j \in DOMAIN d : d[j] # 0}
           first == CHOOSE j \in found : \A m \in found : j <= m
<1>1. FirstOf(d) = IF found = {} THEN 0 ELSE d[first]
  BY Zenon DEF FirstOf
<1>2. i \in found
  OBVIOUS
<1>3. \A j \in found : j \in Nat /\ i <= j
  <2> SUFFICES ASSUME NEW j \in found, ~ i <= j PROVE FALSE
    OBVIOUS
  <2>1. j \in 1 .. i - 1
    OBVIOUS
  <2> QED
    BY <2>1
<1> HIDE DEF found
<1>4. first \in found /\ \A m \in found : first <= m
  BY <1>2, <1>3
<1> HIDE DEF first
<1>5. first = i
  BY <1>2, <1>3, <1>4
<1> QED
  BY <1>1, <1>2, <1>5

\* CompareString compares the weights of the padded strings.
LEMMA StringsCompared ==
  ASSUME NEW s \in Seq(NonDigits), NEW t \in Seq(NonDigits)
  PROVE  /\ CompareString(s, t) = FirstOf([i \in 1 .. Larger(Len(s), Len(t)) |-> Sign(PadWeight(s, i) - PadWeight(t, i))])
         /\ Larger(Len(s), Len(t)) \in Nat /\ Len(s) <= Larger(Len(s), Len(t)) /\ Len(t) <= Larger(Len(s), Len(t))
<1> DEFINE at(r, i) == IF i <= Len(r) THEN r[i] ELSE " "
           m == Larger(Len(s), Len(t))
<1>1. CompareString(s, t) = FirstOf([i \in 1 .. m |-> CompareChar(at(s, i), at(t, i))])
  BY Zenon DEF CompareString
<1>2. m \in Nat /\ Len(s) <= m /\ Len(t) <= m
  BY DEF Larger
<1>3. \A r \in {s, t}, i \in 1 .. m : at(r, i) \in NonDigits \cup {" "} /\ WeightOf(at(r, i)) = PadWeight(r, i)
  <2>1. " " \notin NonDigits
    BY DEF NonDigits
  <2> SUFFICES ASSUME NEW r \in {s, t}, NEW i \in 1 .. m
               PROVE  at(r, i) \in NonDigits \cup {" "} /\ WeightOf(at(r, i)) = PadWeight(r, i)
    OBVIOUS
  <2>2. CASE i <= Len(r)
    <3>1. r[i] \in NonDigits
      BY <1>2, <2>2
    <3> QED
      BY <2>1, <2>2, <3>1 DEF WeightOf, PadWeight
  <2>3. CASE ~ i <= Len(r)
    BY <2>3 DEF WeightOf, PadWeight
  <2> QED
    BY <2>2, <2>3
<1> HIDE DEF at, m
<1>4. \A i \in 1 .. m : CompareChar(at(s, i), at(t, i)) = Sign(PadWeight(s, i) - PadWeight(t, i))
  <2> SUFFICES ASSUME NEW i \in 1 .. m PROVE CompareChar(at(s, i), at(t, i)) = Sign(PadWeight(s, i) - PadWeight(t, i))
    OBVIOUS
  <2>1. CompareChar(at(s, i), at(t, i)) = Sign(WeightOf(at(s, i)) - WeightOf(at(t, i)))
    BY <1>3, CharByWeight
  <2> QED
    BY <1>3, <2>1
<1>5. [i \in 1 .. m |-> CompareChar(at(s, i), at(t, i))] = [i \in 1 .. m |-> Sign(PadWeight(s, i) - PadWeight(t, i))]
  BY <1>4
<1> QED
  BY <1>1, <1>2, <1>5 DEF m

\* A weight is 0 behind the end of a string of non-digits, and only there.
LEMMA PadWeightType ==
  ASSUME NEW s \in Seq(NonDigits), NEW i \in Nat \ {0}
  PROVE  PadWeight(s, i) \in Int /\ (PadWeight(s, i) # 0 <=> i <= Len(s))
<1>1. CASE i <= Len(s)
  <2>1. s[i] \in NonDigits
    BY <1>1
  <2> QED
    BY <1>1, <2>1, CharacterKinds DEF PadWeight
<1>2. CASE ~ i <= Len(s)
  BY <1>2 DEF PadWeight
<1> QED
  BY <1>1, <1>2

\* The sign of a number is 0 for 0 only.
LEMMA SignZero == \A i \in Int : Sign(i) \in {-1, 0, 1} /\ (Sign(i) = 0 <=> i = 0)
BY DEF Sign

\* The first weight that differs decides between two strings.
LEMMA StringsDiffer ==
  ASSUME NEW s \in Seq(NonDigits), NEW t \in Seq(NonDigits), NEW i \in Nat \ {0},
         \A j \in 1 .. i - 1 : PadWeight(s, j) = PadWeight(t, j), PadWeight(s, i) # PadWeight(t, i)
  PROVE  CompareString(s, t) = Sign(PadWeight(s, i) - PadWeight(t, i))
<1> DEFINE m == Larger(Len(s), Len(t))
           d == [j \in 1 .. m |-> Sign(PadWeight(s, j) - PadWeight(t, j))]
<1>1. CompareString(s, t) = FirstOf(d) /\ m \in Nat /\ Len(s) <= m /\ Len(t) <= m
  BY StringsCompared
<1> HIDE DEF m
<1>2. i \in 1 .. m
  <2>1. i <= Len(s) \/ i <= Len(t)
    BY PadWeightType
  <2> QED
    BY <1>1, <2>1
<1>3. DOMAIN d = 1 .. m /\ \A j \in 1 .. m : d[j] = Sign(PadWeight(s, j) - PadWeight(t, j))
  OBVIOUS
<1> HIDE DEF d
<1>4. \A j \in 1 .. i - 1 : j \in 1 .. m /\ j \in Nat \ {0}
  BY <1>1, <1>2
<1>5. \A j \in 1 .. i - 1 : d[j] = 0
  <2> SUFFICES ASSUME NEW j \in 1 .. i - 1 PROVE d[j] = 0
    OBVIOUS
  <2>1. PadWeight(s, j) = PadWeight(t, j) /\ PadWeight(s, j) \in Int
    BY <1>4, PadWeightType
  <2> QED
    BY <1>3, <1>4, <2>1 DEF Sign
<1>6. d[i] # 0
  <2>1. PadWeight(s, i) \in Int /\ PadWeight(t, i) \in Int
    BY PadWeightType
  <2> QED
    BY <1>2, <1>3, <2>1 DEF Sign
<1>7. FirstOf(d) = d[i]
  BY <1>1, <1>2, <1>3, <1>5, <1>6, FirstOfAt
<1> QED
  BY <1>1, <1>2, <1>3, <1>7

\* Strings of the same weights are equally long and compare as equal.
LEMMA StringsAgree ==
  ASSUME NEW s \in Seq(NonDigits), NEW t \in Seq(NonDigits),
         \A j \in Nat \ {0} : PadWeight(s, j) = PadWeight(t, j)
  PROVE  CompareString(s, t) = 0 /\ Len(s) = Len(t)
<1> DEFINE m == Larger(Len(s), Len(t))
           d == [j \in 1 .. m |-> Sign(PadWeight(s, j) - PadWeight(t, j))]
<1>1. CompareString(s, t) = FirstOf(d) /\ m \in Nat
  BY StringsCompared
<1>2. \A j \in 1 .. m : d[j] = 0
  <2> SUFFICES ASSUME NEW j \in 1 .. m PROVE d[j] = 0
    OBVIOUS
  <2>1. PadWeight(s, j) = PadWeight(t, j) /\ PadWeight(s, j) \in Int
    BY <1>1, PadWeightType
  <2> QED
    BY <2>1 DEF Sign
<1>3. FirstOf(d) = 0
  BY <1>2, FirstOfZero
<1>4. Len(s) = Len(t)
  <2>1. \A j \in Nat \ {0} : j <= Len(s) <=> j <= Len(t)
    BY PadWeightType
  <2>2. Len(s) \in Nat /\ Len(t) \in Nat
    OBVIOUS
  <2> QED
    BY <2>1, <2>2
<1> QED
  BY <1>1, <1>3, <1>4

-----------------------------------------------------------------------------
(* Loops over the characters. *)

\* Leading exists: the characters before the first that is not in C.
LEMMA LeadingIs ==
  ASSUME NEW S, NEW s \in Seq(S), NEW C
  PROVE  /\ Leading(s, C) \in 0 .. Len(s)
         /\ \A i \in 1 .. Leading(s, C) : s[i] \in C
         /\ Leading(s, C) < Len(s) => s[Leading(s, C) + 1] \notin C
<1> DEFINE n == Len(s)
           Fits(m) == (\A i \in 1 .. m : s[i] \in C) /\ (m < n => s[m + 1] \notin C)
           A == {i \in 1 .. n : s[i] \notin C}
<1>1. n \in Nat
  OBVIOUS
<1>2. \E m \in 0 .. n : Fits(m)
  <2>1. CASE A = {}
    <3>1. Fits(n) /\ n \in 0 .. n
      BY <1>1, <2>1
    <3> QED
      BY <3>1
  <2>2. CASE A # {}
    <3>1. A \in SUBSET Nat
      BY <1>1
    <3>2. PICK a \in A : \A b \in A : a <= b
      BY <2>2, <3>1, NumbersHaveMinimum
    <3>3. a - 1 \in 0 .. n /\ (a - 1) + 1 = a /\ a \in 1 .. n /\ s[a] \notin C
      BY <1>1
    <3>4. \A i \in 1 .. a - 1 : s[i] \in C
      <4> SUFFICES ASSUME NEW i \in 1 .. a - 1, s[i] \notin C PROVE FALSE
        OBVIOUS
      <4>1. i \in A /\ ~ a <= i
        BY <3>3
      <4> QED
        BY <3>2, <4>1
    <3>5. Fits(a - 1)
      BY <3>3, <3>4
    <3> QED
      BY <3>3, <3>5
  <2> QED
    BY <2>1, <2>2
<1>3. Leading(s, C) = CHOOSE m \in 0 .. n : Fits(m)
  BY DEF Leading
<1> HIDE DEF Fits, n
<1>4. Leading(s, C) \in 0 .. n /\ Fits(Leading(s, C))
  BY <1>2, <1>3
<1> QED
  BY <1>4 DEF Fits, n

\* What the loop of Number goes through.
NumberRun(f, s) ==
  f[0] = 0 /\ \A i \in 1 .. Len(s) : f[i] = 10 * f[i - 1] + Code(s[i]) - Code("0")

\* The values that Number goes through form a run of its loop.
LEMMA NumberLoop ==
  ASSUME NEW s \in Seq(Digits)
  PROVE  \E f \in [0 .. Len(s) -> Nat] : NumberRun(f, s) /\ Number(s) = f[Len(s)]
<1> DEFINE n == Len(s)
           digit(i) == Code(s[i]) - Code("0")
           next(a, i) == 10 * a + Code(s[i]) - Code("0")
           g == [i \in 1 .. n |-> [a \in Nat |-> next(a, i)]]
           Recurs(f) == f = [i \in 0 .. n |-> IF i = 0 THEN 0 ELSE 10 * f[i - 1] + Code(s[i]) - Code("0")]
           value == CHOOSE f : Recurs(f)
<1>1. n \in Nat
  OBVIOUS
<1>2. Number(s) = value[n]
  BY Zenon DEF Number
<1>3. \A i \in 1 .. n, a \in Nat : next(a, i) \in Nat
  <2> SUFFICES ASSUME NEW i \in 1 .. n, NEW a \in Nat PROVE next(a, i) \in Nat
    OBVIOUS
  <2>1. s[i] \in Digits
    OBVIOUS
  <2>2. Code(s[i]) - Code("0") \in 0 .. 2 /\ Code("0") \in Int
    BY <2>1, CharacterKinds
  <2>3. Code(s[i]) \in Int
    BY <2>1, CharacterKinds
  <2> QED
    BY <2>2, <2>3
<1>4. g \in [1 .. n -> [Nat -> Nat]]
  BY <1>3
<1>5. \A i \in 1 .. n, a \in Nat : g[i][a] = next(a, i)
  OBVIOUS
<1> HIDE DEF g
<1>6. PICK f \in [0 .. n -> Nat] : Steps(f, n, 0, g)
  BY <1>1, <1>4, StepsExist
<1>7. f[0] = 0 /\ \A i \in 1 .. n : f[i] = next(f[i - 1], i)
  <2>1. \A i \in 1 .. n : i - 1 \in 0 .. n /\ f[i - 1] \in Nat
    BY <1>1, <1>6
  <2> QED
    BY <1>5, <1>6, <2>1 DEF Steps
<1>8. Recurs(f)
  <2>1. f = [i \in 0 .. n |-> f[i]]
    BY <1>6
  <2>2. \A i \in 0 .. n : f[i] = IF i = 0 THEN 0 ELSE 10 * f[i - 1] + Code(s[i]) - Code("0")
    <3>1. \A i \in 0 .. n : i = 0 \/ i \in 1 .. n
      BY <1>1
    <3> QED
      BY <1>7, <3>1
  <2> HIDE DEF n
  <2> QED
    BY <2>1, <2>2
<1> HIDE DEF Recurs
<1>9. Recurs(value)
  BY <1>8
<1> HIDE DEF value
<1>10. value[0] = 0 /\ (\A i \in 1 .. n : value[i] = 10 * value[i - 1] + Code(s[i]) - Code("0")) /\ DOMAIN value = 0 .. n
  <2>1. 0 \in 0 .. n /\ \A i \in 1 .. n : i \in 0 .. n /\ i # 0
    BY <1>1
  <2> HIDE DEF n
  <2> QED
    BY <1>9, <2>1 DEF Recurs
<1> DEFINE T == {i \in 0 .. n : value[i] \in Nat}
<1>11. \A i \in 0 .. n : i \in T
  <2>1. 0 \in T
    BY <1>1, <1>10
  <2>2. \A i \in 0 .. n : i \in T /\ i < n => i + 1 \in T
    <3> SUFFICES ASSUME NEW i \in 0 .. n, value[i] \in Nat, i < n PROVE i + 1 \in T
      OBVIOUS
    <3>1. i + 1 \in 1 .. n /\ (i + 1) - 1 = i /\ i + 1 \in 0 .. n
      BY <1>1
    <3>2. value[i + 1] = next(value[i], i + 1)
      BY <1>10, <3>1
    <3>3. next(value[i], i + 1) \in Nat
      BY <1>3, <3>1
    <3> HIDE DEF next
    <3> QED
      BY <3>1, <3>2, <3>3
  <2> HIDE DEF T
  <2> QED
    BY <1>1, <2>1, <2>2, BoundedInduction
<1>12. value \in [0 .. n -> Nat]
  <2>1. value = [i \in 0 .. n |-> value[i]]
    BY <1>9 DEF Recurs
  <2> QED
    BY <1>11, <2>1
<1> QED
  BY <1>2, <1>10, <1>12 DEF NumberRun

\* What PartKey goes through, and what it starts with.
Accumulators == [key : Seq(Int), digits : BOOLEAN, value : Nat]
NoToken == [key |-> <<>>, digits |-> FALSE, value |-> 0]

\* What a digit and a non-digit do, in a number and outside.
LEMMA TokenCases ==
  ASSUME NEW a \in Accumulators, NEW c \in TextChars
  PROVE  /\ c \in Digits /\ a.digits =>
              Token(a, c) = [key |-> a.key, digits |-> TRUE, value |-> 10 * a.value + (Code(c) - Code("0"))]
         /\ c \in Digits /\ ~ a.digits =>
              Token(a, c) = [key |-> a.key \o <<0>>, digits |-> TRUE, value |-> Code(c) - Code("0")]
         /\ c \in NonDigits /\ a.digits =>
              Token(a, c) = [key |-> Append(a.key, a.value) \o <<Weight(c)>>, digits |-> FALSE, value |-> 0]
         /\ c \in NonDigits /\ ~ a.digits =>
              Token(a, c) = [key |-> a.key \o <<Weight(c)>>, digits |-> FALSE, value |-> 0]
<1>1. a = [key |-> a.key, digits |-> a.digits, value |-> a.value]
  BY DEF Accumulators
<1>2. ASSUME c \in Digits
      PROVE  Is(Numerals, c) /\ Position(Numerals, c) - 1 = Code(c) - Code("0")
  BY <1>2, CharacterKinds
<1>3. ASSUME c \in NonDigits
      PROVE  ~ Is(Numerals, c)
  BY <1>3, CharacterKinds
<1>4. ASSUME c \in Digits, a.digits
      PROVE  Token(a, c) = [key |-> a.key, digits |-> TRUE, value |-> 10 * a.value + (Code(c) - Code("0"))]
  <2>1. Token(a, c) = [a EXCEPT !.value = 10 * @ + (Position(Numerals, c) - 1)]
    BY <1>2, <1>4 DEF Token
  <2> QED
    BY <1>1, <1>2, <1>4, <2>1
<1>5. ASSUME c \in Digits, ~ a.digits
      PROVE  Token(a, c) = [key |-> a.key \o <<0>>, digits |-> TRUE, value |-> Code(c) - Code("0")]
  BY <1>2, <1>5 DEF Token
<1>6. ASSUME c \in NonDigits
      PROVE  Token(a, c) = [key |-> (IF a.digits THEN Append(a.key, a.value) ELSE a.key) \o <<Weight(c)>>,
                            digits |-> FALSE, value |-> 0]
  BY <1>3, <1>6 DEF Token
<1> QED
  BY <1>4, <1>5, <1>6

\* Every character leads to tokens and a value again.
LEMMA TokenType ==
  ASSUME NEW a \in Accumulators, NEW c \in TextChars
  PROVE  Token(a, c) \in Accumulators
<1>1. a.key \in Seq(Int) /\ a.digits \in BOOLEAN /\ a.value \in Nat
  BY DEF Accumulators
<1>2. ASSUME NEW k \in Seq(Int), NEW b \in BOOLEAN, NEW v \in Nat
      PROVE  [key |-> k, digits |-> b, value |-> v] \in Accumulators
  BY DEF Accumulators
<1>3. ASSUME c \in Digits, a.digits
      PROVE  Token(a, c) \in Accumulators
  <2>1. Token(a, c) = [key |-> a.key, digits |-> TRUE, value |-> 10 * a.value + (Code(c) - Code("0"))]
    BY <1>3, TokenCases
  <2>2. Code(c) - Code("0") \in 0 .. 2
    BY <1>3, CharacterKinds
  <2>3. 10 * a.value + (Code(c) - Code("0")) \in Nat
    BY <1>1, <2>2
  <2> QED
    BY <1>1, <1>2, <2>1, <2>3
<1>4. ASSUME c \in Digits, ~ a.digits
      PROVE  Token(a, c) \in Accumulators
  <2>1. Token(a, c) = [key |-> a.key \o <<0>>, digits |-> TRUE, value |-> Code(c) - Code("0")]
    BY <1>4, TokenCases
  <2>2. Code(c) - Code("0") \in 0 .. 2
    BY <1>4, CharacterKinds
  <2>3. a.key \o <<0>> \in Seq(Int) /\ Code(c) - Code("0") \in Nat
    BY <1>1, <2>2
  <2> QED
    BY <1>2, <2>1, <2>3
<1>5. ASSUME c \in NonDigits
      PROVE  Token(a, c) \in Accumulators
  <2>1. Weight(c) \in Int
    BY <1>5, CharacterKinds
  <2> DEFINE w == Weight(c)
             x == a.key \o <<w>>
             y == Append(a.key, a.value) \o <<w>>
  <2>2. Token(a, c) \in {[key |-> x, digits |-> FALSE, value |-> 0], [key |-> y, digits |-> FALSE, value |-> 0]}
    BY <1>1, <1>5, TokenCases
  <2>3. x \in Seq(Int) /\ y \in Seq(Int)
    <3> HIDE DEF w
    <3> QED
      BY <1>1, <2>1 DEF w
  <2> HIDE DEF x, y
  <2> QED
    BY <1>2, <2>2, <2>3
<1> QED
  BY <1>1, <1>3, <1>4, <1>5, TextCharsAre

\* What the loop of PartKey goes through, and what it returns.
TokenRun(f, s) == f[0] = NoToken /\ \A i \in 1 .. Len(s) : f[i] = Token(f[i - 1], s[i])
Finished(a) == IF a.digits THEN Append(a.key, a.value) ELSE a.key

\* What PartKey goes through forms a run of its loop.
LEMMA TokenLoop ==
  ASSUME NEW s \in Seq(TextChars)
  PROVE  \E f \in [0 .. Len(s) -> Accumulators] : TokenRun(f, s) /\ PartKey(s) = Finished(f[Len(s)])
<1> DEFINE n == Len(s)
           g == [i \in 1 .. n |-> [a \in Accumulators |-> Token(a, s[i])]]
           Recurs(f) == f = [i \in 0 .. n |-> IF i = 0 THEN [key |-> <<>>, digits |-> FALSE, value |-> 0]
                                              ELSE Token(f[i - 1], s[i])]
           tokens == CHOOSE f : Recurs(f)
<1>1. n \in Nat /\ \A i \in 1 .. n : s[i] \in TextChars
  OBVIOUS
<1>2. PartKey(s) = Finished(tokens[n])
  BY Zenon DEF PartKey, Finished
<1>3. NoToken \in Accumulators
  BY DEF NoToken, Accumulators
<1>4. g \in [1 .. n -> [Accumulators -> Accumulators]]
  BY <1>1, TokenType
<1>5. \A i \in 1 .. n, a \in Accumulators : g[i][a] = Token(a, s[i])
  OBVIOUS
<1> HIDE DEF g
<1>6. PICK f \in [0 .. n -> Accumulators] : Steps(f, n, NoToken, g)
  BY <1>1, <1>3, <1>4, StepsExist
<1>7. f[0] = NoToken /\ \A i \in 1 .. n : f[i] = Token(f[i - 1], s[i])
  <2>1. \A i \in 1 .. n : i - 1 \in 0 .. n /\ f[i - 1] \in Accumulators
    BY <1>1, <1>6
  <2> QED
    BY <1>5, <1>6, <2>1 DEF Steps
<1>8. Recurs(f)
  <2>1. f = [i \in 0 .. n |-> f[i]]
    BY <1>6
  <2>2. \A i \in 0 .. n : f[i] = IF i = 0 THEN [key |-> <<>>, digits |-> FALSE, value |-> 0] ELSE Token(f[i - 1], s[i])
    <3>1. \A i \in 0 .. n : i = 0 \/ i \in 1 .. n
      BY <1>1
    <3> QED
      BY <1>7, <3>1 DEF NoToken
  <2> HIDE DEF n
  <2> QED
    BY <2>1, <2>2
<1> HIDE DEF Recurs
<1>9. Recurs(tokens)
  BY <1>8
<1> HIDE DEF tokens
<1>10. tokens[0] = NoToken /\ (\A i \in 1 .. n : tokens[i] = Token(tokens[i - 1], s[i])) /\ DOMAIN tokens = 0 .. n
  <2>1. 0 \in 0 .. n /\ \A i \in 1 .. n : i \in 0 .. n /\ i # 0
    BY <1>1
  <2> HIDE DEF n
  <2> QED
    BY <1>9, <2>1 DEF Recurs, NoToken
<1> DEFINE T == {i \in 0 .. n : tokens[i] \in Accumulators}
<1>11. \A i \in 0 .. n : i \in T
  <2>1. 0 \in T
    BY <1>1, <1>3, <1>10
  <2>2. \A i \in 0 .. n : i \in T /\ i < n => i + 1 \in T
    <3> SUFFICES ASSUME NEW i \in 0 .. n, tokens[i] \in Accumulators, i < n PROVE i + 1 \in T
      OBVIOUS
    <3>1. i + 1 \in 1 .. n /\ (i + 1) - 1 = i /\ i + 1 \in 0 .. n
      BY <1>1
    <3>2. tokens[i + 1] = Token(tokens[i], s[i + 1])
      BY <1>10, <3>1
    <3>3. Token(tokens[i], s[i + 1]) \in Accumulators
      BY <1>1, <3>1, TokenType
    <3> QED
      BY <3>1, <3>2, <3>3
  <2> HIDE DEF T
  <2> QED
    BY <1>1, <2>1, <2>2, BoundedInduction
<1>12. tokens \in [0 .. n -> Accumulators]
  <2>1. tokens = [i \in 0 .. n |-> tokens[i]]
    BY <1>9 DEF Recurs
  <2> QED
    BY <1>11, <2>1
<1> QED
  BY <1>2, <1>10, <1>12 DEF TokenRun

-----------------------------------------------------------------------------
(* A part and its key, cut after the first number. *)

\* s is the non-digits head, the digits numerals, and rest.
Cut(s, head, numerals, rest) ==
  /\ head \in Seq(NonDigits) /\ numerals \in Seq(Digits) /\ rest \in Seq(TextChars)
  /\ Len(s) = Len(head) + Len(numerals) + Len(rest)
  /\ \A i \in 1 .. Len(head) : s[i] = head[i]
  /\ \A i \in 1 .. Len(numerals) : s[Len(head) + i] = numerals[i]
  /\ \A i \in 1 .. Len(rest) : s[Len(head) + Len(numerals) + i] = rest[i]
  /\ Len(numerals) = 0 => Len(rest) = 0
  /\ Len(rest) # 0 => rest[1] \in NonDigits

\* The elements after the first a, up to the one numbered b.
LEMMA Piece ==
  ASSUME NEW S, NEW s, NEW a \in Nat, NEW b \in Nat, a <= b, \A i \in 1 .. b - a : s[a + i] \in S
  PROVE  /\ SubSeq(s, a + 1, b) \in Seq(S) /\ Len(SubSeq(s, a + 1, b)) = b - a
         /\ \A i \in 1 .. b - a : SubSeq(s, a + 1, b)[i] = s[a + i]
<1> DEFINE m == a + 1
           x == SubSeq(s, m, b)
<1>1. m \in Int /\ b \in Int /\ \A i \in m .. b : s[i] \in S
  <2>1. \A i \in m .. b : i - a \in 1 .. b - a /\ a + (i - a) = i
    OBVIOUS
  <2> QED
    BY <2>1
<1>2. (IF m <= b THEN b - m + 1 ELSE 0) = b - a /\ b - m + 1 = b - a /\ \A i \in 1 .. b - a : m + i - 1 = a + i
  OBVIOUS
<1> HIDE DEF m
<1>3. x \in Seq(S) /\ Len(x) = (IF m <= b THEN b - m + 1 ELSE 0)
  BY <1>1, SubSeqProperties
<1>4. \A i \in 1 .. b - m + 1 : x[i] = s[m + i - 1]
  BY <1>1, SubSeqProperties
<1> HIDE DEF x
<1>5. \A i \in 1 .. b - a : x[i] = s[a + i]
  <2> SUFFICES ASSUME NEW i \in 1 .. b - a PROVE x[i] = s[a + i]
    OBVIOUS
  <2>1. i \in 1 .. b - m + 1 /\ m + i - 1 = a + i
    BY <1>2
  <2>2. x[i] = s[m + i - 1]
    BY <1>4, <2>1
  <2> QED
    BY <2>1, <2>2
<1> QED
  BY <1>2, <1>3, <1>5 DEF x, m

\* A piece of digits.
LEMMA DigitPiece ==
  ASSUME NEW s, NEW a \in Nat, NEW b \in Nat, a <= b, \A i \in 1 .. b - a : s[a + i] \in Digits
  PROVE  /\ SubSeq(s, a + 1, b) \in Seq(Digits) /\ Len(SubSeq(s, a + 1, b)) = b - a
         /\ \A i \in 1 .. b - a : SubSeq(s, a + 1, b)[i] = s[a + i]
BY Piece

\* SplitSubVersion cuts a part after its first number.
LEMMA CutExists ==
  ASSUME NEW s \in Seq(TextChars)
  PROVE  \E head, numerals, rest :
           Cut(s, head, numerals, rest) /\ SplitSubVersion(s) = <<head, Number(numerals), rest>>
<1> DEFINE h == Leading(s, Chars \ Digits)
           later == SubSeq(s, h + 1, Len(s))
           n == Leading(later, Digits)
           head == SubSeq(s, 1, h)
           numerals == SubSeq(s, h + 1, h + n)
           rest == SubSeq(s, h + n + 1, Len(s))
<1>1. Len(s) \in Nat /\ \A i \in 1 .. Len(s) : s[i] \in TextChars
  OBVIOUS
<1>2. \A c \in TextChars : (c \in Chars \ Digits <=> c \in NonDigits) /\ (c \notin NonDigits => c \in Digits)
                            /\ (c \notin Digits => c \in NonDigits)
  <2>1. " " \notin TextChars
    BY TextCharsAre DEF NonDigits, Digits
  <2>2. \A c \in TextChars : c \in NonDigits \/ c \in Digits
    BY TextCharsAre
  <2> QED
    BY <2>1, <2>2, NonDigitsAre
<1>3. h \in 0 .. Len(s) /\ (\A i \in 1 .. h : s[i] \in NonDigits) /\ (h < Len(s) => s[h + 1] \in Digits)
  <2>1. /\ h \in 0 .. Len(s) /\ (\A i \in 1 .. h : s[i] \in Chars \ Digits)
        /\ (h < Len(s) => s[h + 1] \notin Chars \ Digits)
    BY LeadingIs
  <2> HIDE DEF h
  <2>2. (\A i \in 1 .. h : i \in 1 .. Len(s)) /\ (h < Len(s) => h + 1 \in 1 .. Len(s))
    BY <1>1, <2>1
  <2> QED
    BY <1>1, <1>2, <2>1, <2>2
<1> HIDE DEF h
<1>4. later \in Seq(TextChars) /\ Len(later) = Len(s) - h /\ \A i \in 1 .. Len(s) - h : later[i] = s[h + i]
  <2>1. h \in Nat /\ h <= Len(s) /\ \A i \in 1 .. Len(s) - h : s[h + i] \in TextChars
    BY <1>1, <1>3
  <2> QED
    BY <1>1, <2>1, Piece
<1>5. /\ n \in 0 .. Len(s) - h /\ (\A i \in 1 .. n : s[h + i] \in Digits)
      /\ (h + n < Len(s) => s[h + n + 1] \in NonDigits)
  <2>1. /\ n \in 0 .. Len(later) /\ (\A i \in 1 .. n : later[i] \in Digits)
        /\ (n < Len(later) => later[n + 1] \notin Digits)
    BY <1>4, LeadingIs
  <2> HIDE DEF n, later
  <2>2. \A i \in 1 .. n : i \in 1 .. Len(s) - h
    BY <1>1, <1>3, <1>4, <2>1
  <2>3. ASSUME h + n < Len(s)
        PROVE  s[h + n + 1] \in NonDigits
    <3>1. n < Len(later) /\ n + 1 \in 1 .. Len(s) - h /\ h + (n + 1) = h + n + 1 /\ h + n + 1 \in 1 .. Len(s)
      BY <1>1, <1>3, <1>4, <2>1, <2>3
    <3> QED
      BY <1>1, <1>2, <1>4, <2>1, <3>1
  <2> QED
    BY <1>4, <2>1, <2>2, <2>3
<1> HIDE DEF n, later
<1>6. head \in Seq(NonDigits) /\ Len(head) = h /\ \A i \in 1 .. h : head[i] = s[i]
  <2>1. head \in Seq(NonDigits) /\ Len(head) = h - 0 /\ \A i \in 1 .. h - 0 : head[i] = s[0 + i]
    <3>1. h \in Nat /\ 0 <= h /\ 0 + 1 = 1 /\ \A i \in 1 .. h - 0 : s[0 + i] \in NonDigits
      BY <1>1, <1>3
    <3>2. /\ SubSeq(s, 0 + 1, h) \in Seq(NonDigits) /\ Len(SubSeq(s, 0 + 1, h)) = h - 0
          /\ \A i \in 1 .. h - 0 : SubSeq(s, 0 + 1, h)[i] = s[0 + i]
      BY <3>1, Piece
    <3>3. head = SubSeq(s, 0 + 1, h)
      OBVIOUS
    <3> HIDE DEF head
    <3> QED
      BY <3>2, <3>3
  <2> HIDE DEF head
  <2> QED
    BY <1>3, <2>1
<1>7. numerals \in Seq(Digits) /\ Len(numerals) = n /\ \A i \in 1 .. n : numerals[i] = s[h + i]
  <2> DEFINE b == h + n
  <2>1. h \in Nat /\ b \in Nat /\ h <= b /\ b - h = n /\ numerals = SubSeq(s, h + 1, b)
    BY <1>1, <1>3, <1>5
  <2> HIDE DEF numerals, b
  <2>2. \A i \in 1 .. b - h : s[h + i] \in Digits
    BY <1>5, <2>1
  <2>3. /\ SubSeq(s, h + 1, b) \in Seq(Digits) /\ Len(SubSeq(s, h + 1, b)) = b - h
        /\ \A i \in 1 .. b - h : SubSeq(s, h + 1, b)[i] = s[h + i]
    <3>1. h \in Nat /\ b \in Nat /\ h <= b
      BY <2>1
    <3> QED
      BY <2>2, <3>1, DigitPiece
  <2> QED
    BY <2>1, <2>3
<1>8. rest \in Seq(TextChars) /\ Len(rest) = Len(s) - (h + n) /\ \A i \in 1 .. Len(s) - (h + n) : rest[i] = s[h + n + i]
  <2>1. h + n \in Nat /\ h + n <= Len(s) /\ \A i \in 1 .. Len(s) - (h + n) : s[h + n + i] \in TextChars
    BY <1>1, <1>3, <1>5
  <2> QED
    BY <1>1, <2>1, Piece
<1>9. SplitSubVersion(s) = <<head, Number(numerals), rest>>
  BY DEF SplitSubVersion, CutAfter, h, n, later
<1> HIDE DEF head, numerals, rest
<1>10. Cut(s, head, numerals, rest)
  <2>1. Len(s) = Len(head) + Len(numerals) + Len(rest)
    BY <1>1, <1>3, <1>5, <1>6, <1>7, <1>8
  <2>2. Len(numerals) = 0 => Len(rest) = 0
    <3> SUFFICES ASSUME n = 0, Len(rest) # 0 PROVE FALSE
      BY <1>7
    <3>1. h < Len(s) /\ h + n < Len(s) /\ h + n + 1 = h + 1
      BY <1>1, <1>3, <1>5, <1>8
    <3>2. s[h + 1] \in Digits /\ s[h + 1] \in NonDigits
      BY <1>3, <1>5, <3>1
    <3> QED
      BY <3>2 DEF Digits, NonDigits
  <2>3. Len(rest) # 0 => rest[1] \in NonDigits
    <3> SUFFICES ASSUME Len(rest) # 0 PROVE rest[1] \in NonDigits
      OBVIOUS
    <3>1. h + n < Len(s) /\ 1 \in 1 .. Len(s) - (h + n)
      <4> DEFINE m == Len(s) - (h + n)
      <4>1. m \in Nat /\ m # 0
        BY <1>1, <1>3, <1>5, <1>8
      <4>2. h + n < Len(s)
        BY <1>1, <1>3, <1>5, <4>1
      <4> HIDE DEF m
      <4>3. 1 \in 1 .. m
        BY <4>1
      <4> QED
        BY <4>2, <4>3 DEF m
    <3> QED
      BY <1>5, <1>8, <3>1
  <2>4. /\ \A i \in 1 .. Len(head) : s[i] = head[i]
        /\ \A i \in 1 .. Len(numerals) : s[Len(head) + i] = numerals[i]
        /\ \A i \in 1 .. Len(rest) : s[Len(head) + Len(numerals) + i] = rest[i]
    BY <1>6, <1>7, <1>8
  <2> QED
    BY <1>6, <1>7, <1>8, <2>1, <2>2, <2>3, <2>4 DEF Cut
<1> QED
  BY <1>9, <1>10

\* The key of a part is a sequence of numbers.
LEMMA PartKeyType ==
  ASSUME NEW s \in Seq(TextChars)
  PROVE  PartKey(s) \in Seq(Int)
<1>1. PICK f \in [0 .. Len(s) -> Accumulators] : TokenRun(f, s) /\ PartKey(s) = Finished(f[Len(s)])
  BY TokenLoop
<1>2. f[Len(s)] \in Accumulators
  <2>1. Len(s) \in 0 .. Len(s)
    OBVIOUS
  <2> QED
    BY <2>1
<1>3. \A a \in Accumulators : Finished(a) \in Seq(Int)
  <2> SUFFICES ASSUME NEW a \in Accumulators PROVE Finished(a) \in Seq(Int)
    OBVIOUS
  <2>1. a.key \in Seq(Int) /\ a.value \in Int
    BY DEF Accumulators
  <2> QED
    BY <2>1 DEF Finished
<1> QED
  BY <1>1, <1>2, <1>3

\* The elements of two sequences that are joined.
LEMMA Joined ==
  ASSUME NEW S, NEW x \in Seq(S), NEW y \in Seq(S)
  PROVE  /\ Len(x) \in Nat /\ Len(y) \in Nat /\ x \o y \in Seq(S) /\ Len(x \o y) = Len(x) + Len(y)
         /\ (\A i \in 1 .. Len(x) : (x \o y)[i] = x[i])
         /\ \A i \in 1 .. Len(y) : (x \o y)[Len(x) + i] = y[i]
OBVIOUS

\* The elements of a sequence with one more at its end.
LEMMA OneMore ==
  ASSUME NEW S, NEW k \in Seq(S), NEW w \in S
  PROVE  /\ k \o <<w>> \in Seq(S) /\ Len(k \o <<w>>) = Len(k) + 1
         /\ (\A j \in 1 .. Len(k) : (k \o <<w>>)[j] = k[j]) /\ (k \o <<w>>)[Len(k) + 1] = w
OBVIOUS

\* Non-digits give their weights.
LEMMA HeadTokens ==
  ASSUME NEW s \in Seq(TextChars), NEW f \in [0 .. Len(s) -> Accumulators], TokenRun(f, s),
         NEW h \in Nat, h <= Len(s), \A i \in 1 .. h : s[i] \in NonDigits
  PROVE  \A i \in 0 .. h : /\ ~ f[i].digits /\ Len(f[i].key) = i
                           /\ \A j \in 1 .. i : f[i].key[j] = Weight(s[j])
<1> DEFINE Good(i) == ~ f[i].digits /\ Len(f[i].key) = i /\ \A j \in 1 .. i : f[i].key[j] = Weight(s[j])
           T == {i \in 0 .. h : Good(i)}
<1>1. Len(s) \in Nat /\ f[0] = NoToken /\ \A i \in 1 .. Len(s) : f[i] = Token(f[i - 1], s[i])
  BY DEF TokenRun
<1>2. 0 \in T
  BY <1>1 DEF NoToken
<1>3. \A i \in 0 .. h : i \in T /\ i < h => i + 1 \in T
  <2> SUFFICES ASSUME NEW i \in 0 .. h, Good(i), i < h PROVE Good(i + 1)
    BY <1>1
  <2>1. i + 1 \in 1 .. h /\ i + 1 \in 1 .. Len(s) /\ (i + 1) - 1 = i /\ i \in 0 .. Len(s) /\ i \in Nat
    BY <1>1
  <2>2. f[i + 1] = Token(f[i], s[i + 1]) /\ f[i] \in Accumulators
    BY <1>1, <2>1
  <2>3. s[i + 1] \in NonDigits /\ s[i + 1] \in TextChars
    BY <2>1
  <2> DEFINE w == Weight(s[i + 1])
             k == f[i].key
             l == k \o <<w>>
  <2>4. f[i + 1] = [key |-> l, digits |-> FALSE, value |-> 0]
    BY <2>2, <2>3, TokenCases
  <2>5. k \in Seq(Int) /\ Len(k) = i /\ (\A j \in 1 .. i : k[j] = Weight(s[j])) /\ w \in Int
    BY <2>2, <2>3, CharacterKinds DEF Accumulators
  <2>6. f[i + 1].key = l /\ f[i + 1].digits = FALSE
    BY <2>4
  <2> HIDE DEF w, k
  <2>7. Len(l) = i + 1 /\ (\A j \in 1 .. i : l[j] = k[j]) /\ l[i + 1] = w
    <3>1. k \in Seq(Int) /\ w \in Int
      BY <2>5
    <3>2. Len(l) = Len(k) + 1 /\ (\A j \in 1 .. Len(k) : l[j] = k[j]) /\ l[Len(k) + 1] = w
      BY <3>1, OneMore
    <3> HIDE DEF l
    <3> QED
      BY <2>5, <3>2
  <2> HIDE DEF l
  <2>8. \A j \in 1 .. i + 1 : l[j] = Weight(s[j])
    <3> SUFFICES ASSUME NEW j \in 1 .. i + 1 PROVE l[j] = Weight(s[j])
      OBVIOUS
    <3>1. CASE j = i + 1
      BY <2>7, <3>1 DEF w
    <3>2. CASE j # i + 1
      <4>1. j \in 1 .. i
        BY <2>1, <3>2
      <4> QED
        BY <2>5, <2>7, <4>1
    <3> QED
      BY <3>1, <3>2
  <2> QED
    BY <2>6, <2>7, <2>8
<1> HIDE DEF T
<1>4. \A i \in 0 .. h : i \in T
  BY <1>2, <1>3, BoundedInduction
<1> QED
  BY <1>4 DEF T

\* Digits give the end of the non-digits, and their number.
LEMMA NumberTokens ==
  ASSUME NEW s \in Seq(TextChars), NEW f \in [0 .. Len(s) -> Accumulators], TokenRun(f, s),
         NEW h \in Nat, NEW x \in Seq(Digits), h + Len(x) <= Len(s), Len(x) # 0,
         \A i \in 1 .. Len(x) : s[h + i] = x[i], ~ f[h].digits
  PROVE  /\ f[h + Len(x)].key = f[h].key \o <<0>>
         /\ f[h + Len(x)].digits /\ f[h + Len(x)].value = Number(x)
<1> DEFINE n == Len(x)
<1>1. n \in Nat /\ Len(s) \in Nat /\ \A i \in 1 .. Len(s) : f[i] = Token(f[i - 1], s[i])
  BY DEF TokenRun
<1>2. PICK g \in [0 .. n -> Nat] : NumberRun(g, x) /\ Number(x) = g[n]
  BY NumberLoop
<1>3. g[0] = 0 /\ \A i \in 1 .. n : g[i] = 10 * g[i - 1] + Code(x[i]) - Code("0")
  BY <1>2 DEF NumberRun
<1> DEFINE Good(i) == i # 0 => f[h + i].key = f[h].key \o <<0>> /\ f[h + i].digits /\ f[h + i].value = g[i]
           T == {i \in 0 .. n : Good(i)}
<1>4. 0 \in T
  BY <1>1
<1>5. \A i \in 0 .. n : i \in T /\ i < n => i + 1 \in T
  <2>0. \A i \in 0 .. n : i < n => i + 1 \in 0 .. n
    BY <1>1
  <2> HIDE DEF Good, n
  <2> SUFFICES ASSUME NEW i \in 0 .. n, Good(i), i < n PROVE Good(i + 1)
    BY <2>0
  <2> USE DEF Good, n
  <2>1. /\ i + 1 \in 1 .. n /\ (i + 1) - 1 = i /\ i \in Nat
        /\ h + (i + 1) \in 1 .. Len(s) /\ (h + (i + 1)) - 1 = h + i /\ h + i \in 0 .. Len(s)
    BY <1>1
  <2> DEFINE a == f[h + i]
             b == f[h + (i + 1)]
             c == x[i + 1]
             d == Code(c) - Code("0")
  <2>2. b = Token(a, c) /\ a \in Accumulators
    BY <1>1, <2>1
  <2>3. c \in Digits /\ c \in TextChars
    BY <2>1, TextCharsAre
  <2>4. d \in 0 .. 2 /\ Code(c) \in Int /\ Code("0") \in Int
    BY <2>3, CharacterKinds
  <2>5. g[i + 1] = 10 * g[i] + Code(c) - Code("0") /\ g[i] \in Nat
    BY <1>3, <2>1
  <2>6. g[i + 1] = 10 * g[i] + d
    BY <2>4, <2>5
  <2>7. CASE i = 0
    <3>1. ~ a.digits /\ a.key = f[h].key /\ g[i] = 0
      BY <1>3, <2>7
    <3>2. b = [key |-> a.key \o <<0>>, digits |-> TRUE, value |-> d]
      <4> HIDE DEF a, b, c
      <4> QED
        BY <2>2, <2>3, <3>1, TokenCases
    <3>3. b.key = f[h].key \o <<0>> /\ b.digits /\ b.value = g[i + 1]
      <4> HIDE DEF a, b, c, d
      <4> QED
        BY <2>4, <2>6, <3>1, <3>2
    <3> QED
      BY <3>3
  <2>8. CASE i # 0
    <3>1. a.digits /\ a.key = f[h].key \o <<0>> /\ a.value = g[i]
      BY <2>8
    <3>2. b = [key |-> a.key, digits |-> TRUE, value |-> 10 * a.value + d]
      <4> HIDE DEF a, b, c
      <4> QED
        BY <2>2, <2>3, <3>1, TokenCases
    <3>3. b.key = f[h].key \o <<0>> /\ b.digits /\ b.value = g[i + 1]
      <4> HIDE DEF a, b, c, d
      <4> QED
        BY <2>6, <3>1, <3>2
    <3> QED
      BY <3>3
  <2> QED
    BY <2>7, <2>8
<1> HIDE DEF T
<1>6. \A i \in 0 .. n : i \in T
  BY <1>1, <1>4, <1>5, BoundedInduction
<1>7. n \in 0 .. n
  BY <1>1
<1> QED
  BY <1>2, <1>6, <1>7 DEF T

\* Tokens go on in the same way behind others.
LEMMA TokenShift ==
  ASSUME NEW p \in Seq(Int), NEW a \in Accumulators, NEW c \in TextChars,
         NEW b \in Accumulators, b.key = p \o a.key, b.digits = a.digits, b.value = a.value
  PROVE  /\ Token(b, c).key = p \o Token(a, c).key
         /\ Token(b, c).digits = Token(a, c).digits /\ Token(b, c).value = Token(a, c).value
<1>1. a.key \in Seq(Int) /\ a.value \in Int
  BY DEF Accumulators
<1>2. ASSUME NEW k \in Seq(Int), NEW w \in Int
      PROVE  (p \o k) \o <<w>> = p \o (k \o <<w>>) /\ k \o <<w>> \in Seq(Int)
  <2>1. <<w>> \in Seq(Int)
    OBVIOUS
  <2>2. (p \o k) \o <<w>> = p \o (k \o <<w>>)
    BY <2>1, ConcatAssociative
  <2> QED
    BY <2>1, <2>2
<1>3. \A e \in {a, b} :
        /\ c \in Digits /\ e.digits => /\ Token(e, c).key = e.key /\ Token(e, c).digits = TRUE
                                       /\ Token(e, c).value = 10 * e.value + (Code(c) - Code("0"))
        /\ c \in Digits /\ ~ e.digits => /\ Token(e, c).key = e.key \o <<0>> /\ Token(e, c).digits = TRUE
                                         /\ Token(e, c).value = Code(c) - Code("0")
        /\ c \in NonDigits /\ e.digits => /\ Token(e, c).key = Append(e.key, e.value) \o <<Weight(c)>>
                                          /\ Token(e, c).digits = FALSE /\ Token(e, c).value = 0
        /\ c \in NonDigits /\ ~ e.digits => /\ Token(e, c).key = e.key \o <<Weight(c)>>
                                            /\ Token(e, c).digits = FALSE /\ Token(e, c).value = 0
  <2> SUFFICES ASSUME NEW e \in Accumulators
               PROVE  /\ c \in Digits /\ e.digits => /\ Token(e, c).key = e.key /\ Token(e, c).digits = TRUE
                                                       /\ Token(e, c).value = 10 * e.value + (Code(c) - Code("0"))
                      /\ c \in Digits /\ ~ e.digits => /\ Token(e, c).key = e.key \o <<0>> /\ Token(e, c).digits = TRUE
                                                         /\ Token(e, c).value = Code(c) - Code("0")
                      /\ c \in NonDigits /\ e.digits => /\ Token(e, c).key = Append(e.key, e.value) \o <<Weight(c)>>
                                                          /\ Token(e, c).digits = FALSE /\ Token(e, c).value = 0
                      /\ c \in NonDigits /\ ~ e.digits => /\ Token(e, c).key = e.key \o <<Weight(c)>>
                                                            /\ Token(e, c).digits = FALSE /\ Token(e, c).value = 0
    OBVIOUS
  <2> QED
    BY TokenCases
<1> DEFINE x == Token(a, c)
           y == Token(b, c)
           w == Weight(c)
           v == a.value
           k == a.key
           l == b.key
<1>4. c \in NonDigits => w \in Int
  BY CharacterKinds
<1>5. v \in Int /\ k \in Seq(Int) /\ l = p \o k
  BY <1>1
<1>6. CASE c \in Digits /\ a.digits
  <2>1. x.key = k /\ x.digits = TRUE /\ y.key = l /\ y.digits = TRUE /\ x.value = y.value
    BY <1>3, <1>6
  <2> QED
    BY <2>1
<1>7. CASE c \in Digits /\ ~ a.digits
  <2>1. x.key = k \o <<0>> /\ x.digits = TRUE /\ y.key = l \o <<0>> /\ y.digits = TRUE /\ x.value = y.value
    BY <1>3, <1>7
  <2> HIDE DEF x, y, k, l
  <2>2. l \o <<0>> = p \o (k \o <<0>>)
    BY <1>2, <1>5
  <2> QED
    BY <2>1, <2>2 DEF x, y
<1>8. CASE c \in NonDigits /\ ~ a.digits
  <2>1. x.key = k \o <<w>> /\ x.digits = FALSE /\ y.key = l \o <<w>> /\ y.digits = FALSE /\ x.value = y.value
    BY <1>3, <1>8
  <2> HIDE DEF x, y, k, l, w
  <2>2. l \o <<w>> = p \o (k \o <<w>>)
    BY <1>2, <1>4, <1>5, <1>8
  <2> QED
    BY <2>1, <2>2 DEF x, y
<1>9. CASE c \in NonDigits /\ a.digits
  <2>1. /\ x.key = Append(k, v) \o <<w>> /\ x.digits = FALSE /\ y.key = Append(l, v) \o <<w>>
        /\ y.digits = FALSE /\ x.value = y.value
    BY <1>3, <1>9
  <2> HIDE DEF x, y, k, l, w, v
  <2>2. Append(k, v) = k \o <<v>> /\ Append(l, v) = l \o <<v>>
    <3>1. l \in Seq(Int)
      BY <1>5
    <3> QED
      BY <1>5, <3>1, AppendIsConcat
  <2>3. l \o <<v>> = p \o (k \o <<v>>) /\ k \o <<v>> \in Seq(Int)
    BY <1>2, <1>5
  <2>4. (p \o (k \o <<v>>)) \o <<w>> = p \o ((k \o <<v>>) \o <<w>>)
    BY <1>2, <1>4, <1>9, <2>3
  <2> QED
    BY <2>1, <2>2, <2>3, <2>4 DEF x, y
<1> QED
  BY <1>6, <1>7, <1>8, <1>9, TextCharsAre DEF Accumulators

\* Appending to the second of two sequences that are joined.
LEMMA AppendJoined ==
  ASSUME NEW p \in Seq(Int), NEW k \in Seq(Int), NEW v \in Int
  PROVE  Append(p \o k, v) = p \o Append(k, v)
<1>1. p \o k \in Seq(Int) /\ <<v>> \in Seq(Int)
  OBVIOUS
<1>2. Append(k, v) = k \o <<v>> /\ Append(p \o k, v) = (p \o k) \o <<v>>
  BY <1>1, AppendIsConcat
<1>3. (p \o k) \o <<v>> = p \o (k \o <<v>>)
  BY <1>1, ConcatAssociative
<1> QED
  BY <1>2, <1>3

\* Number gives natural numbers, 0 for the empty string.
LEMMA NumberType ==
  ASSUME NEW s \in Seq(Digits)
  PROVE  Number(s) \in Nat /\ (Len(s) = 0 => Number(s) = 0)
<1>1. PICK f \in [0 .. Len(s) -> Nat] : NumberRun(f, s) /\ Number(s) = f[Len(s)]
  BY NumberLoop
<1>2. Len(s) \in 0 .. Len(s)
  OBVIOUS
<1> QED
  BY <1>1, <1>2 DEF NumberRun

\* What comes behind a number has a key of its own.
LEMMA RestTokens ==
  ASSUME NEW s \in Seq(TextChars), NEW f \in [0 .. Len(s) -> Accumulators], TokenRun(f, s),
         NEW b \in Nat, NEW x \in Seq(TextChars), b + Len(x) = Len(s),
         \A i \in 1 .. Len(x) : s[b + i] = x[i], Len(x) # 0 => x[1] \in NonDigits, f[b].digits
  PROVE  Finished(f[Len(s)]) = Append(f[b].key, f[b].value) \o PartKey(x)
<1> DEFINE n == Len(x)
           p == Append(f[b].key, f[b].value)
<1>1. n \in Nat /\ Len(s) \in Nat /\ \A i \in 1 .. Len(s) : f[i] = Token(f[i - 1], s[i])
  BY DEF TokenRun
<1>2. f[b].key \in Seq(Int) /\ f[b].value \in Nat /\ f[b] \in Accumulators
  <2>1. b \in 0 .. Len(s)
    BY <1>1
  <2>2. f[b] \in Accumulators
    BY <2>1
  <2> QED
    BY <2>2 DEF Accumulators
<1>3. p \in Seq(Int)
  BY <1>2
<1>4. PICK r \in [0 .. n -> Accumulators] : TokenRun(r, x) /\ PartKey(x) = Finished(r[n])
  BY TokenLoop
<1>5. r[0] = NoToken /\ \A i \in 1 .. n : r[i] = Token(r[i - 1], x[i])
  BY <1>4 DEF TokenRun
<1> DEFINE Good(i) == i # 0 => f[b + i].key = p \o r[i].key /\ f[b + i].digits = r[i].digits /\ f[b + i].value = r[i].value
           T == {i \in 0 .. n : Good(i)}
<1>6. 0 \in T
  BY <1>1
<1>7. \A i \in 0 .. n : i \in T /\ i < n => i + 1 \in T
  <2>0. \A i \in 0 .. n : i < n => i + 1 \in 0 .. n
    BY <1>1
  <2> HIDE DEF Good, n
  <2> SUFFICES ASSUME NEW i \in 0 .. n, Good(i), i < n PROVE Good(i + 1)
    BY <2>0
  <2> USE DEF Good, n
  <2>1. /\ i + 1 \in 1 .. n /\ (i + 1) - 1 = i /\ i \in Nat
        /\ b + (i + 1) \in 1 .. Len(s) /\ (b + (i + 1)) - 1 = b + i /\ b + i \in 0 .. Len(s)
    BY <1>1
  <2> DEFINE d == f[b + i]
             a == r[i]
             c == x[i + 1]
  <2>2. f[b + (i + 1)] = Token(d, c) /\ r[i + 1] = Token(a, c) /\ d \in Accumulators /\ a \in Accumulators /\ c \in TextChars
    <3>1. r[i + 1] = Token(r[(i + 1) - 1], x[i + 1])
      BY <1>5, <2>1
    <3>2. f[b + (i + 1)] = Token(f[(b + (i + 1)) - 1], s[b + (i + 1)]) /\ s[b + (i + 1)] = c
      BY <1>1, <2>1
    <3>3. d \in Accumulators /\ a \in Accumulators /\ c \in TextChars
      BY <2>1
    <3> QED
      BY <2>1, <3>1, <3>2, <3>3
  <2>3. CASE i = 0
    <3>1. c \in NonDigits /\ a.key = <<>> /\ ~ a.digits /\ d = f[b]
      BY <1>1, <1>5, <2>1, <2>3 DEF NoToken
    <3> DEFINE w == Weight(c)
    <3> HIDE DEF d, c, a
    <3>2. /\ Token(d, c) = [key |-> Append(d.key, d.value) \o <<w>>, digits |-> FALSE, value |-> 0]
          /\ Token(a, c) = [key |-> a.key \o <<w>>, digits |-> FALSE, value |-> 0]
      BY <2>2, <3>1, TokenCases
    <3>3. a.key \o <<w>> = <<w>> /\ Append(d.key, d.value) = p
      <4> HIDE DEF w
      <4>1. <<>> \o <<w>> = <<w>>
        BY ConcatSimplifications
      <4> QED
        BY <3>1, <4>1
    <3> HIDE DEF p, w
    <3>5. /\ Token(d, c).key = Append(d.key, d.value) \o <<w>> /\ Token(d, c).digits = FALSE /\ Token(d, c).value = 0
          /\ Token(a, c).key = a.key \o <<w>> /\ Token(a, c).digits = FALSE /\ Token(a, c).value = 0
      <4> DEFINE u == Append(d.key, d.value) \o <<w>>
                 q == a.key \o <<w>>
      <4>1. /\ Token(d, c) = [key |-> u, digits |-> FALSE, value |-> 0]
            /\ Token(a, c) = [key |-> q, digits |-> FALSE, value |-> 0]
        BY <3>2
      <4> HIDE DEF u, q
      <4>2. /\ Token(d, c).key = u /\ Token(d, c).digits = FALSE /\ Token(d, c).value = 0
            /\ Token(a, c).key = q /\ Token(a, c).digits = FALSE /\ Token(a, c).value = 0
        BY <4>1
      <4> QED
        BY <4>2 DEF u, q
    <3>4. /\ Token(d, c).key = p \o Token(a, c).key /\ Token(d, c).digits = Token(a, c).digits
          /\ Token(d, c).value = Token(a, c).value
      BY <3>3, <3>5
    <3> QED
      BY <2>2, <3>4
  <2>4. CASE i # 0
    <3>1. d.key = p \o a.key /\ d.digits = a.digits /\ d.value = a.value
      BY <2>4
    <3> HIDE DEF p, d, c, a
    <3>2. /\ Token(d, c).key = p \o Token(a, c).key /\ Token(d, c).digits = Token(a, c).digits
          /\ Token(d, c).value = Token(a, c).value
      BY <1>3, <2>2, <3>1, TokenShift
    <3> QED
      BY <2>2, <3>2
  <2> QED
    BY <2>3, <2>4
<1> HIDE DEF T
<1>8. \A i \in 0 .. n : i \in T
  BY <1>1, <1>6, <1>7, BoundedInduction
<1>9. n \in 0 .. n /\ b + n = Len(s)
  BY <1>1
<1>10. Good(n)
  BY <1>8, <1>9 DEF T
<1> HIDE DEF n
<1>11. CASE n = 0
  <2>1. Finished(f[Len(s)]) = p
    BY <1>9, <1>11 DEF Finished
  <2>2. PartKey(x) = <<>>
    BY <1>4, <1>5, <1>11 DEF Finished, NoToken
  <2> HIDE DEF p
  <2>3. p \o <<>> = p
    BY <1>3, ConcatEmptySeq
  <2> QED
    BY <2>1, <2>2, <2>3 DEF p
<1>12. CASE n # 0
  <2> DEFINE a == r[n]
             d == f[Len(s)]
  <2>1. d.key = p \o a.key /\ d.digits = a.digits /\ d.value = a.value /\ a \in Accumulators
    BY <1>9, <1>10, <1>12
  <2>2. a.key \in Seq(Int) /\ a.value \in Int
    BY <2>1 DEF Accumulators
  <2> DEFINE k == a.key
             v == a.value
  <2>3. Append(p \o k, v) = p \o Append(k, v)
    <3> HIDE DEF p, a, k, v
    <3>1. k \in Seq(Int) /\ v \in Int
      BY <2>2 DEF k, v
    <3> QED
      BY <1>3, <3>1, AppendJoined
  <2> HIDE DEF p, a, d
  <2>4. Finished(d) = p \o Finished(a)
    BY <2>1, <2>3 DEF Finished
  <2> QED
    BY <1>4, <2>4 DEF p, a, d
<1> QED
  BY <1>11, <1>12

\* Key k is the weights of the non-digits x, their end, the number v, and key l.
Unfolds(k, x, v, l) ==
  /\ \A i \in 1 .. Len(x) : Pad(k, i) = PadWeight(x, i)
  /\ Pad(k, Len(x) + 1) = 0 /\ Pad(k, Len(x) + 2) = v
  /\ \A j \in Nat \ {0} : Pad(k, Len(x) + 2 + j) = Pad(l, j)

\* The weights of two keys that are joined.
LEMMA PadJoined ==
  ASSUME NEW x \in Seq(Int), NEW y \in Seq(Int)
  PROVE  /\ \A i \in 1 .. Len(x) : Pad(x \o y, i) = x[i]
         /\ \A j \in Nat \ {0} : Pad(x \o y, Len(x) + j) = Pad(y, j)
<1> DEFINE z == x \o y
           m == Len(x)
           n == Len(y)
<1>1. m \in Nat /\ n \in Nat /\ Len(z) = m + n /\ (\A i \in 1 .. m : z[i] = x[i]) /\ \A i \in 1 .. n : z[m + i] = y[i]
  BY Joined
<1> HIDE DEF z, m, n
<1>2. \A i \in 1 .. m : i <= m + n
  BY <1>1
<1>3. \A j \in Nat \ {0} : (m + j <= m + n <=> j <= n) /\ (j <= n => j \in 1 .. n)
  BY <1>1
<1>4. \A i \in 1 .. m : Pad(z, i) = x[i]
  BY <1>1, <1>2 DEF Pad
<1>5. \A j \in Nat \ {0} : Pad(z, m + j) = Pad(y, j)
  <2> SUFFICES ASSUME NEW j \in Nat \ {0} PROVE Pad(z, m + j) = Pad(y, j)
    OBVIOUS
  <2>1. Pad(y, j) = IF j <= n THEN y[j] ELSE 0
    BY DEF Pad, n
  <2>2. Pad(z, m + j) = IF m + j <= m + n THEN z[m + j] ELSE 0
    BY <1>1 DEF Pad
  <2> QED
    BY <1>1, <1>3, <2>1, <2>2
<1> QED
  BY <1>4, <1>5 DEF z, m

\* The key of a part that is cut.
LEMMA KeyOfCut ==
  ASSUME NEW s \in Seq(TextChars), NEW head, NEW numerals, NEW rest, Cut(s, head, numerals, rest)
  PROVE  Unfolds(PartKey(s), head, Number(numerals), PartKey(rest))
<1> DEFINE h == Len(head)
           n == Len(numerals)
           N == Len(s)
<1>1. /\ head \in Seq(NonDigits) /\ numerals \in Seq(Digits) /\ rest \in Seq(TextChars)
      /\ N = h + n + Len(rest) /\ h \in Nat /\ n \in Nat /\ Len(rest) \in Nat
      /\ \A i \in 1 .. h : s[i] = head[i]
      /\ \A i \in 1 .. n : s[h + i] = numerals[i]
      /\ \A i \in 1 .. Len(rest) : s[h + n + i] = rest[i]
      /\ (n = 0 => Len(rest) = 0)
      /\ (Len(rest) # 0 => rest[1] \in NonDigits)
  BY DEF Cut
<1>2. PICK f \in [0 .. Len(s) -> Accumulators] : TokenRun(f, s) /\ PartKey(s) = Finished(f[Len(s)])
  BY TokenLoop
<1>3. h <= N /\ \A i \in 1 .. h : s[i] \in NonDigits
  BY <1>1
<1> DEFINE H == f[h].key
<1>4. ~ f[h].digits /\ Len(H) = h /\ (\A j \in 1 .. h : H[j] = Weight(s[j])) /\ H \in Seq(Int)
  <2>1. /\ ~ f[h].digits /\ Len(f[h].key) = h
        /\ \A j \in 1 .. h : f[h].key[j] = Weight(s[j])
    <3>1. h \in 0 .. h
      BY <1>1
    <3> HIDE DEF h
    <3> QED
      BY <1>1, <1>2, <1>3, <3>1, HeadTokens
  <2>2. f[h] \in Accumulators
    BY <1>1, <1>3
  <2> QED
    BY <2>1, <2>2 DEF Accumulators
<1>5. \A i \in 1 .. h : PadWeight(head, i) = H[i]
  BY <1>1, <1>4 DEF PadWeight
<1>6. CASE n = 0
  <2>1. N = h /\ Len(rest) = 0
    BY <1>1, <1>6
  <2>2. PartKey(s) = H
    BY <1>2, <1>4, <2>1 DEF Finished
  <2>3. Number(numerals) = 0
    BY <1>1, <1>6, NumberType
  <2>4. PartKey(rest) = <<>>
    <3>1. PICK g \in [0 .. Len(rest) -> Accumulators] : TokenRun(g, rest) /\ PartKey(rest) = Finished(g[Len(rest)])
      BY <1>1, TokenLoop
    <3> QED
      BY <2>1, <3>1 DEF Finished, TokenRun, NoToken
  <2> HIDE DEF H, h
  <2>5. \A j \in Nat \ {0} : Pad(<<>>, j) = 0 /\ Pad(H, h + j) = 0
    BY <1>1, <1>4 DEF Pad
  <2>6. Pad(H, h + 1) = 0 /\ Pad(H, h + 2) = 0 /\ \A j \in Nat \ {0} : Pad(H, h + 2 + j) = 0
    <3>1. 1 \in Nat \ {0} /\ 2 \in Nat \ {0} /\ \A j \in Nat \ {0} : 2 + j \in Nat \ {0} /\ h + (2 + j) = h + 2 + j
      BY <1>1
    <3> QED
      BY <2>5, <3>1
  <2>7. \A i \in 1 .. h : Pad(H, i) = H[i]
    BY <1>1, <1>4 DEF Pad
  <2> QED
    BY <1>5, <2>2, <2>3, <2>4, <2>5, <2>6, <2>7 DEF Unfolds, h
<1>7. CASE n # 0
  <2> DEFINE b == h + n
             v == Number(numerals)
             p == Append(f[b].key, f[b].value)
             K == PartKey(rest)
  <2>1. f[b].key = H \o <<0>> /\ f[b].digits /\ f[b].value = v
    <3>1. h + Len(numerals) <= Len(s)
      BY <1>1
    <3> HIDE DEF h, H
    <3> QED
      BY <1>1, <1>2, <1>4, <1>7, <3>1, NumberTokens DEF H
  <2>2. PartKey(s) = p \o K
    <3>1. b \in Nat /\ b + Len(rest) = Len(s) /\ \A i \in 1 .. Len(rest) : s[b + i] = rest[i]
      BY <1>1
    <3> HIDE DEF b, h, n
    <3> QED
      BY <1>1, <1>2, <2>1, <3>1, RestTokens
  <2>3. v \in Int
    <3>1. Number(numerals) \in Nat
      BY <1>1, NumberType
    <3> QED
      BY <3>1
  <2>4. p = (H \o <<0>>) \o <<v>> /\ H \o <<0>> \in Seq(Int) /\ Len(H \o <<0>>) = h + 1
        /\ (\A i \in 1 .. h : (H \o <<0>>)[i] = H[i]) /\ (H \o <<0>>)[h + 1] = 0
    <3> HIDE DEF H, h, b, v
    <3>1. H \o <<0>> \in Seq(Int) /\ Len(H \o <<0>>) = h + 1
          /\ (\A i \in 1 .. h : (H \o <<0>>)[i] = H[i]) /\ (H \o <<0>>)[h + 1] = 0
      <4>1. /\ H \o <<0>> \in Seq(Int) /\ Len(H \o <<0>>) = Len(H) + 1
            /\ (\A i \in 1 .. Len(H) : (H \o <<0>>)[i] = H[i]) /\ (H \o <<0>>)[Len(H) + 1] = 0
        BY <1>4, OneMore
      <4> QED
        BY <1>4, <4>1
    <3>2. p = Append(H \o <<0>>, v)
      BY <2>1
    <3> HIDE DEF p
    <3> QED
      BY <2>3, <3>1, <3>2, AppendIsConcat
  <2>5. p \in Seq(Int) /\ Len(p) = h + 2 /\ (\A i \in 1 .. h : p[i] = H[i]) /\ p[h + 1] = 0 /\ p[h + 2] = v
    <3> DEFINE q == H \o <<0>>
    <3>1. p = q \o <<v>> /\ q \in Seq(Int) /\ Len(q) = h + 1 /\ (\A i \in 1 .. h : q[i] = H[i]) /\ q[h + 1] = 0
      BY <2>4
    <3> HIDE DEF q, p, v, h, H
    <3>2. p \in Seq(Int) /\ Len(p) = Len(q) + 1 /\ (\A j \in 1 .. Len(q) : p[j] = q[j]) /\ p[Len(q) + 1] = v
      BY <2>3, <3>1, OneMore
    <3>3. (h + 1) + 1 = h + 2 /\ (\A i \in 1 .. h : i \in 1 .. h + 1) /\ h + 1 \in 1 .. h + 1
      BY <1>1
    <3> QED
      BY <3>1, <3>2, <3>3
  <2>6. K \in Seq(Int)
    BY <1>1, PartKeyType
  <2>7. (\A i \in 1 .. h + 2 : Pad(p \o K, i) = p[i]) /\ \A j \in Nat \ {0} : Pad(p \o K, h + 2 + j) = Pad(K, j)
    <3> HIDE DEF p, K, h
    <3>1. p \in Seq(Int)
      BY <2>5
    <3>2. /\ \A i \in 1 .. Len(p) : Pad(p \o K, i) = p[i]
          /\ \A j \in Nat \ {0} : Pad(p \o K, Len(p) + j) = Pad(K, j)
      BY <2>6, <3>1, PadJoined
    <3> QED
      BY <2>5, <3>2
  <2>8. (\A i \in 1 .. h : i \in 1 .. h + 2) /\ h + 1 \in 1 .. h + 2 /\ h + 2 \in 1 .. h + 2
    BY <1>1
  <2> HIDE DEF p, K, v, H, h
  <2>9. /\ \A i \in 1 .. h : Pad(p \o K, i) = PadWeight(head, i)
        /\ Pad(p \o K, h + 1) = 0 /\ Pad(p \o K, h + 2) = v
    BY <1>5, <2>5, <2>7, <2>8
  <2> QED
    BY <2>2, <2>7, <2>9 DEF Unfolds, K, v, h
<1> QED
  BY <1>6, <1>7

-----------------------------------------------------------------------------
(* Rounds. *)

\* The first of two differences, or the second.
LEMMA FirstOfTwo ==
  ASSUME NEW x \in Int, NEW y \in Int
  PROVE  FirstOf(<<x, y>>) = IF x # 0 THEN x ELSE y
<1> DEFINE d == <<x, y>>
<1>1. DOMAIN d = 1 .. 2 /\ d[1] = x /\ d[2] = y /\ \A i \in DOMAIN d : i = 1 \/ i = 2
  OBVIOUS
<1> HIDE DEF d
<1>2. CASE x # 0
  <2>1. 2 \in Nat /\ 1 \in 1 .. 2 /\ \A j \in 1 .. 1 - 1 : d[j] = 0
    OBVIOUS
  <2>2. FirstOf(d) = d[1]
    BY <1>1, <1>2, <2>1, FirstOfAt
  <2> QED
    BY <1>1, <1>2, <2>2 DEF d
<1>3. CASE x = 0 /\ y # 0
  <2>1. 2 \in Nat /\ 2 \in 1 .. 2 /\ \A j \in 1 .. 2 - 1 : d[j] = 0
    BY <1>1, <1>3
  <2>2. FirstOf(d) = d[2]
    BY <1>1, <1>3, <2>1, FirstOfAt
  <2> QED
    BY <1>1, <1>3, <2>2 DEF d
<1>4. CASE x = 0 /\ y = 0
  <2>1. FirstOf(d) = 0
    BY <1>1, <1>4, FirstOfZero
  <2> QED
    BY <1>4, <2>1 DEF d
<1> QED
  BY <1>2, <1>3, <1>4

\* A key follows the weights of its non-digits, and one place more.
LEMMA UnfoldsWeights ==
  ASSUME NEW x \in Seq(NonDigits), NEW k, NEW v, NEW l, Unfolds(k, x, v, l),
         NEW i \in Nat \ {0}, i <= Len(x) + 1
  PROVE  Pad(k, i) = PadWeight(x, i)
<1>1. Len(x) \in Nat
  OBVIOUS
<1>2. CASE i <= Len(x)
  <2>1. i \in 1 .. Len(x)
    BY <1>2
  <2> QED
    BY <2>1 DEF Unfolds
<1>3. CASE i = Len(x) + 1
  <2>1. ~ i <= Len(x)
    BY <1>1, <1>3
  <2> QED
    BY <1>3, <2>1 DEF Unfolds, PadWeight
<1> QED
  BY <1>1, <1>2, <1>3

\* Non-digits that differ decide as the keys do.
LEMMA HeadsDiffer ==
  ASSUME NEW x \in Seq(NonDigits), NEW y \in Seq(NonDigits),
         NEW j \in Nat \ {0}, PadWeight(x, j) # PadWeight(y, j),
         NEW k \in Seq(Int), NEW l \in Seq(Int), NEW u, NEW v, NEW m, NEW n,
         Unfolds(k, x, u, m), Unfolds(l, y, v, n)
  PROVE  CompareString(x, y) # 0 /\ CompareString(x, y) \in {-1, 0, 1} /\ CompareKeys(k, l) = CompareString(x, y)
<1> DEFINE S == {i \in Nat \ {0} : PadWeight(x, i) # PadWeight(y, i)}
<1>1. S \in SUBSET Nat /\ S # {}
  OBVIOUS
<1> HIDE DEF S
<1>2. PICK i \in S : \A a \in S : i <= a
  BY <1>1, NumbersHaveMinimum
<1>3. i \in Nat \ {0} /\ PadWeight(x, i) # PadWeight(y, i)
  BY <1>2 DEF S
<1>4. \A a \in Nat \ {0} : a < i => PadWeight(x, a) = PadWeight(y, a)
  <2> SUFFICES ASSUME NEW a \in Nat \ {0}, a < i, PadWeight(x, a) # PadWeight(y, a) PROVE FALSE
    OBVIOUS
  <2>1. a \in S
    BY DEF S
  <2>2. i <= a
    BY <1>2, <2>1
  <2> QED
    BY <1>3, <2>2
<1>5. Len(x) \in Nat /\ Len(y) \in Nat
  OBVIOUS
<1>6. \A a \in Nat \ {0} : /\ PadWeight(x, a) \in Int /\ (PadWeight(x, a) # 0 <=> a <= Len(x))
                           /\ PadWeight(y, a) \in Int /\ (PadWeight(y, a) # 0 <=> a <= Len(y))
  BY PadWeightType
<1>7. i <= Len(x) + 1
  <2> SUFFICES ASSUME ~ i <= Len(x) + 1 PROVE FALSE
    OBVIOUS
  <2>1. Len(x) + 1 \in Nat \ {0} /\ Len(x) + 1 < i /\ ~ Len(x) + 1 <= Len(x) /\ ~ i <= Len(x)
    BY <1>3, <1>5
  <2>2. PadWeight(x, Len(x) + 1) = 0 /\ PadWeight(y, Len(x) + 1) = 0
    BY <1>4, <1>6, <2>1
  <2>3. ~ i <= Len(y)
    BY <1>3, <1>5, <1>6, <2>1, <2>2
  <2> QED
    BY <1>3, <1>6, <2>1, <2>3
<1>8. i <= Len(y) + 1
  <2> SUFFICES ASSUME ~ i <= Len(y) + 1 PROVE FALSE
    OBVIOUS
  <2>1. Len(y) + 1 \in Nat \ {0} /\ Len(y) + 1 < i /\ ~ Len(y) + 1 <= Len(y) /\ ~ i <= Len(y)
    BY <1>3, <1>5
  <2>2. PadWeight(y, Len(y) + 1) = 0 /\ PadWeight(x, Len(y) + 1) = 0
    BY <1>4, <1>6, <2>1
  <2>3. ~ i <= Len(x)
    BY <1>3, <1>5, <1>6, <2>1, <2>2
  <2> QED
    BY <1>3, <1>6, <2>1, <2>3
<1>9. \A a \in 1 .. i : a \in Nat \ {0} /\ a <= Len(x) + 1 /\ a <= Len(y) + 1 /\ (a # i => a < i)
  BY <1>3, <1>5, <1>7, <1>8
<1>10. \A a \in 1 .. i : Pad(k, a) = PadWeight(x, a) /\ Pad(l, a) = PadWeight(y, a)
  BY <1>9, UnfoldsWeights
<1>11. \A a \in 1 .. i - 1 : a \in 1 .. i /\ PadWeight(x, a) = PadWeight(y, a)
  <2>1. \A a \in 1 .. i - 1 : a \in 1 .. i /\ a # i
    BY <1>3
  <2> QED
    BY <1>4, <1>9, <2>1
<1>12. \A a \in 1 .. i - 1 : Pad(k, a) = Pad(l, a)
  BY <1>10, <1>11
<1>13. i \in 1 .. i
  BY <1>3
<1>14. Pad(k, i) = PadWeight(x, i) /\ Pad(l, i) = PadWeight(y, i)
  BY <1>10, <1>13
<1>15. CompareKeys(k, l) = Sign(PadWeight(x, i) - PadWeight(y, i))
  BY <1>3, <1>12, <1>14, KeysDiffer
<1>16. CompareString(x, y) = Sign(PadWeight(x, i) - PadWeight(y, i))
  BY <1>3, <1>11, StringsDiffer
<1>17. PadWeight(x, i) \in Int /\ PadWeight(y, i) \in Int
  BY <1>3, <1>6
<1> QED
  BY <1>3, <1>15, <1>16, <1>17 DEF Sign

\* The padded strings x and y have the same weights.
SameWeights(x, y) == \A j \in Nat \ {0} : PadWeight(x, j) = PadWeight(y, j)

\* Non-digits that agree leave the decision to what follows in the keys.
LEMMA HeadsAgree ==
  ASSUME NEW x \in Seq(NonDigits), NEW y \in Seq(NonDigits), SameWeights(x, y),
         NEW k \in Seq(Int), NEW l \in Seq(Int), NEW u \in Int, NEW v \in Int, NEW m \in Seq(Int), NEW n \in Seq(Int),
         Unfolds(k, x, u, m), Unfolds(l, y, v, n)
  PROVE  /\ CompareString(x, y) = 0
         /\ u # v => CompareKeys(k, l) = Sign(u - v)
         /\ u = v => CompareKeys(k, l) = CompareKeys(m, n)
<1> DEFINE h == Len(x)
<1>0. \A j \in Nat \ {0} : PadWeight(x, j) = PadWeight(y, j)
  BY DEF SameWeights
<1>1. CompareString(x, y) = 0 /\ Len(y) = h /\ h \in Nat
  BY <1>0, StringsAgree
<1>2. \A j \in 1 .. h + 1 : Pad(k, j) = Pad(l, j)
  <2>1. \A j \in 1 .. h + 1 : j \in Nat \ {0} /\ j <= Len(x) + 1 /\ j <= Len(y) + 1
    BY <1>1
  <2>2. \A j \in 1 .. h + 1 : Pad(k, j) = PadWeight(x, j) /\ Pad(l, j) = PadWeight(y, j)
    BY <2>1, UnfoldsWeights
  <2> QED
    BY <1>0, <2>1, <2>2
<1>3. /\ Pad(k, h + 2) = u /\ Pad(l, h + 2) = v
      /\ \A j \in Nat \ {0} : Pad(k, h + 2 + j) = Pad(m, j) /\ Pad(l, h + 2 + j) = Pad(n, j)
  BY <1>1 DEF Unfolds
<1> HIDE DEF h
<1>4. ASSUME u # v
      PROVE  CompareKeys(k, l) = Sign(u - v)
  <2> DEFINE i == h + 2
  <2>1. i \in Nat \ {0} /\ i - 1 = h + 1
    BY <1>1
  <2>2. Pad(k, i) = u /\ Pad(l, i) = v /\ \A j \in 1 .. i - 1 : Pad(k, j) = Pad(l, j)
    BY <1>2, <1>3, <2>1
  <2> HIDE DEF i
  <2>3. CompareKeys(k, l) = Sign(Pad(k, i) - Pad(l, i))
    BY <1>4, <2>1, <2>2, KeysDiffer
  <2> QED
    BY <2>2, <2>3
<1>5. ASSUME u = v
      PROVE  CompareKeys(k, l) = CompareKeys(m, n)
  <2> DEFINE i == h + 2
  <2>1. i \in Nat
    BY <1>1
  <2>2. \A j \in 1 .. i : j \in 1 .. h + 1 \/ j = h + 2
    BY <1>1
  <2>3. Agree(k, l, i)
    BY <1>2, <1>3, <1>5, <2>2 DEF Agree
  <2>4. Follows(k, i, m) /\ Follows(l, i, n)
    BY <1>3 DEF Follows
  <2> HIDE DEF i
  <2> QED
    BY <2>1, <2>3, <2>4, KeysShift
<1> QED
  BY <1>1, <1>4, <1>5

\* What a round starts with and leaves.
Rounds == [result : {-1, 0, 1}, v : Seq(TextChars), w : Seq(TextChars)]

\* One round decides as the keys do, or leaves it to what it has not read; it
\* reads some character where there is one.
LEMMA HeadsCompared ==
  ASSUME NEW r \in Rounds
  PROVE  /\ CompareHeads(r) \in Rounds
         /\ CompareHeads(r).result # 0 => CompareKeys(PartKey(r.v), PartKey(r.w)) = CompareHeads(r).result
         /\ CompareHeads(r).result = 0 => CompareKeys(PartKey(r.v), PartKey(r.w))
                                            = CompareKeys(PartKey(CompareHeads(r).v), PartKey(CompareHeads(r).w))
         /\ Len(CompareHeads(r).v) < Len(r.v) \/ (Len(CompareHeads(r).v) = 0 /\ Len(r.v) = 0)
         /\ Len(CompareHeads(r).w) < Len(r.w) \/ (Len(CompareHeads(r).w) = 0 /\ Len(r.w) = 0)
<1>1. r.v \in Seq(TextChars) /\ r.w \in Seq(TextChars)
  BY DEF Rounds
<1>2. PICK x, a, v : Cut(r.v, x, a, v) /\ SplitSubVersion(r.v) = <<x, Number(a), v>>
  BY <1>1, CutExists
<1>3. PICK y, b, w : Cut(r.w, y, b, w) /\ SplitSubVersion(r.w) = <<y, Number(b), w>>
  BY <1>1, CutExists
<1> DEFINE c == CompareHeads(r)
           s == CompareString(x, y)
           i == Number(a)
           j == Number(b)
<1>4. c = [result |-> FirstOf(<<s, Sign(i - j)>>), v |-> v, w |-> w]
  BY <1>2, <1>3 DEF CompareHeads
<1>5. /\ x \in Seq(NonDigits) /\ a \in Seq(Digits) /\ v \in Seq(TextChars) /\ Len(r.v) = Len(x) + Len(a) + Len(v)
      /\ (Len(a) = 0 => Len(v) = 0)
      /\ y \in Seq(NonDigits) /\ b \in Seq(Digits) /\ w \in Seq(TextChars) /\ Len(r.w) = Len(y) + Len(b) + Len(w)
      /\ (Len(b) = 0 => Len(w) = 0)
  BY <1>2, <1>3 DEF Cut
<1>6. i \in Int /\ j \in Int
  <2>1. i \in Nat /\ j \in Nat
    BY <1>5, NumberType
  <2> QED
    BY <2>1
<1> DEFINE k == PartKey(r.v)
           l == PartKey(r.w)
           m == PartKey(v)
           n == PartKey(w)
<1>7. k \in Seq(Int) /\ l \in Seq(Int) /\ m \in Seq(Int) /\ n \in Seq(Int)
  BY <1>1, <1>5, PartKeyType
<1>8. Unfolds(k, x, i, m) /\ Unfolds(l, y, j, n)
  BY <1>1, <1>2, <1>3, KeyOfCut
<1>9. Len(v) < Len(r.v) \/ (Len(v) = 0 /\ Len(r.v) = 0)
  BY <1>5
<1>10. Len(w) < Len(r.w) \/ (Len(w) = 0 /\ Len(r.w) = 0)
  BY <1>5
<1>11. c.v = v /\ c.w = w /\ c.result = FirstOf(<<s, Sign(i - j)>>)
  BY <1>4
<1> HIDE DEF s, i, j, k, l, m, n
<1>12. Sign(i - j) \in {-1, 0, 1} /\ (Sign(i - j) # 0 <=> i # j)
  BY <1>6 DEF Sign
<1>13. s \in {-1, 0, 1} /\ s \in Int /\ Sign(i - j) \in Int
       /\ (s # 0 => CompareKeys(k, l) = s)
       /\ (s = 0 /\ i # j => CompareKeys(k, l) = Sign(i - j))
       /\ (s = 0 /\ i = j => CompareKeys(k, l) = CompareKeys(m, n))
  <2>1. CASE SameWeights(x, y)
    <3>1. CompareString(x, y) = 0 /\ (i # j => CompareKeys(k, l) = Sign(i - j))
          /\ (i = j => CompareKeys(k, l) = CompareKeys(m, n))
      BY <1>5, <1>6, <1>7, <1>8, <2>1, HeadsAgree
    <3> QED
      BY <1>12, <3>1 DEF s
  <2>2. CASE \E p \in Nat \ {0} : PadWeight(x, p) # PadWeight(y, p)
    <3>1. s # 0 /\ s \in {-1, 0, 1} /\ CompareKeys(k, l) = s
      BY <1>5, <1>7, <1>8, <2>2, HeadsDiffer DEF s
    <3> QED
      BY <1>12, <3>1
  <2> QED
    BY <2>1, <2>2 DEF SameWeights
<1>14. FirstOf(<<s, Sign(i - j)>>) = IF s # 0 THEN s ELSE Sign(i - j)
  BY <1>13, FirstOfTwo
<1>15. c.result \in {-1, 0, 1} /\ (c.result # 0 => CompareKeys(k, l) = c.result)
       /\ (c.result = 0 => CompareKeys(k, l) = CompareKeys(m, n))
  BY <1>11, <1>12, <1>13, <1>14
<1>16. c \in Rounds
  <2> DEFINE f == FirstOf(<<s, Sign(i - j)>>)
  <2>1. c = [result |-> f, v |-> v, w |-> w] /\ f \in {-1, 0, 1}
    BY <1>4, <1>11, <1>15 DEF s, i, j
  <2> HIDE DEF f, c
  <2> QED
    BY <1>5, <2>1 DEF Rounds
<1> HIDE DEF c
<1> QED
  BY <1>9, <1>10, <1>11, <1>15, <1>16 DEF c, k, l, m, n

-----------------------------------------------------------------------------
(* All rounds. *)

\* What a round does with what the one before it left.
Round(r) == IF r.result # 0 THEN r ELSE CompareHeads(r)

\* The loop of CompareSubVersion.
RoundRun(f, v, w, n) ==
  /\ f[0] = [result |-> 0, v |-> v, w |-> w]
  /\ \A i \in 1 .. n : f[i] = Round(f[i - 1])

\* The rounds of CompareSubVersion form a run of the loop.
LEMMA RoundLoop ==
  ASSUME NEW v \in Seq(TextChars), NEW w \in Seq(TextChars)
  PROVE  \E f : RoundRun(f, v, w, Len(v) + Len(w)) /\ CompareSubVersion(v, w) = f[Len(v) + Len(w)].result
<1> DEFINE n == Len(v) + Len(w)
           g == [i \in 1 .. n |-> [r \in Rounds |-> Round(r)]]
           start == [result |-> 0, v |-> v, w |-> w]
           Recurs(f) == f = [i \in 0 .. n |->
                               IF i = 0 THEN [result |-> 0, v |-> v, w |-> w]
                               ELSE LET before == f[i - 1]
                                    IN  IF before.result # 0 THEN before ELSE CompareHeads(before)]
           rounds == CHOOSE f : Recurs(f)
<1>1. n \in Nat
  OBVIOUS
<1>2. CompareSubVersion(v, w) = rounds[n].result
  BY Zenon DEF CompareSubVersion
<1>3. start \in Rounds
  BY DEF Rounds
<1>4. g \in [1 .. n -> [Rounds -> Rounds]]
  <2>1. \A r \in Rounds : Round(r) \in Rounds
    BY HeadsCompared DEF Round
  <2> QED
    BY <2>1
<1>5. \A i \in 1 .. n, r \in Rounds : g[i][r] = Round(r)
  OBVIOUS
<1> HIDE DEF g, start
<1>6. PICK f \in [0 .. n -> Rounds] : Steps(f, n, start, g)
  BY <1>1, <1>3, <1>4, StepsExist
<1>7. f[0] = start /\ \A i \in 1 .. n : f[i] = Round(f[i - 1])
  <2>1. \A i \in 1 .. n : i - 1 \in 0 .. n /\ f[i - 1] \in Rounds
    BY <1>1, <1>6
  <2> QED
    BY <1>5, <1>6, <2>1 DEF Steps
<1>8. Recurs(f)
  <2>1. f = [i \in 0 .. n |-> f[i]]
    BY <1>6
  <2>2. \A i \in 0 .. n : f[i] = IF i = 0 THEN start ELSE Round(f[i - 1])
    <3>1. \A i \in 0 .. n : i = 0 \/ i \in 1 .. n
      BY <1>1
    <3> QED
      BY <1>7, <3>1
  <2> HIDE DEF n
  <2> QED
    BY <2>1, <2>2 DEF Round, start
<1> HIDE DEF Recurs
<1>9. Recurs(rounds)
  BY <1>8
<1> HIDE DEF rounds
<1>10. rounds[0] = start /\ \A i \in 1 .. n : rounds[i] = Round(rounds[i - 1])
  <2>1. 0 \in 0 .. n /\ \A i \in 1 .. n : i \in 0 .. n /\ i # 0
    BY <1>1
  <2> HIDE DEF n
  <2> QED
    BY <1>9, <2>1 DEF Recurs, Round, start
<1> QED
  BY <1>2, <1>10 DEF RoundRun, start

\* What the keys say of v and w is the result of r, or is left to what r has not read.
Decides(r, v, w) ==
  /\ r.result # 0 => CompareKeys(PartKey(v), PartKey(w)) = r.result
  /\ r.result = 0 => CompareKeys(PartKey(v), PartKey(w)) = CompareKeys(PartKey(r.v), PartKey(r.w))

\* At most m characters are left, or none.
Shrinks(r, m) == r.result # 0 \/ Len(r.v) + Len(r.w) <= m \/ (Len(r.v) = 0 /\ Len(r.w) = 0)

\* A round keeps to the keys and has a character less left.
LEMMA RoundKeeps ==
  ASSUME NEW r \in Rounds, NEW v, NEW w, NEW m \in Int, Decides(r, v, w), Shrinks(r, m)
  PROVE  Round(r) \in Rounds /\ Decides(Round(r), v, w) /\ Shrinks(Round(r), m - 1)
<1>1. CASE r.result # 0
  BY <1>1 DEF Round, Decides, Shrinks
<1>2. CASE r.result = 0
  <2> DEFINE c == CompareHeads(r)
  <2>1. Round(r) = c
    BY <1>2 DEF Round
  <2>2. c \in Rounds
    BY HeadsCompared
  <2>3. /\ c.result # 0 => CompareKeys(PartKey(r.v), PartKey(r.w)) = c.result
        /\ c.result = 0 => CompareKeys(PartKey(r.v), PartKey(r.w)) = CompareKeys(PartKey(c.v), PartKey(c.w))
    BY HeadsCompared
  <2>4. /\ Len(c.v) < Len(r.v) \/ (Len(c.v) = 0 /\ Len(r.v) = 0)
        /\ Len(c.w) < Len(r.w) \/ (Len(c.w) = 0 /\ Len(r.w) = 0)
    BY HeadsCompared
  <2> HIDE DEF c
  <2>5. Len(r.v) \in Nat /\ Len(r.w) \in Nat /\ Len(c.v) \in Nat /\ Len(c.w) \in Nat
    <3>1. r.v \in Seq(TextChars) /\ r.w \in Seq(TextChars) /\ c.v \in Seq(TextChars) /\ c.w \in Seq(TextChars)
      BY <2>2 DEF Rounds
    <3> QED
      BY <3>1
  <2>6. Decides(c, v, w)
    BY <1>2, <2>3 DEF Decides
  <2>7. Shrinks(c, m - 1)
    <3> DEFINE a == Len(r.v)
               b == Len(r.w)
               d == Len(c.v)
               e == Len(c.w)
    <3>1. a + b <= m \/ (a = 0 /\ b = 0)
      BY <1>2 DEF Shrinks
    <3>2. d + e <= m - 1 \/ (d = 0 /\ e = 0)
      <4> HIDE DEF a, b, d, e
      <4>1. a \in Nat /\ b \in Nat /\ d \in Nat /\ e \in Nat
        BY <2>5 DEF a, b, d, e
      <4>2. (d < a \/ (d = 0 /\ a = 0)) /\ (e < b \/ (e = 0 /\ b = 0))
        BY <2>4 DEF a, b, d, e
      <4> QED
        BY <3>1, <4>1, <4>2
    <3> QED
      BY <3>2 DEF Shrinks
  <2> QED
    BY <2>1, <2>2, <2>6, <2>7
<1> QED
  BY <1>1, <1>2

\* CompareSubVersion compares two parts as their keys compare.
LEMMA PartsCompareByKeys ==
  ASSUME NEW v \in Seq(TextChars), NEW w \in Seq(TextChars)
  PROVE  /\ CompareSubVersion(v, w) = CompareKeys(PartKey(v), PartKey(w))
         /\ CompareSubVersion(v, w) \in {-1, 0, 1}
<1> DEFINE n == Len(v) + Len(w)
<1>1. n \in Nat /\ Len(v) \in Nat /\ Len(w) \in Nat
  OBVIOUS
<1>2. PICK f : RoundRun(f, v, w, n) /\ CompareSubVersion(v, w) = f[n].result
  BY RoundLoop
<1> DEFINE T == {i \in 0 .. n : f[i] \in Rounds /\ Decides(f[i], v, w) /\ Shrinks(f[i], n - i)}
<1>3. 0 \in T
  <2> DEFINE start == [result |-> 0, v |-> v, w |-> w]
  <2>1. f[0] = start
    BY <1>2 DEF RoundRun
  <2>2. start \in Rounds /\ start.result = 0 /\ start.v = v /\ start.w = w
    BY DEF Rounds
  <2> HIDE DEF start
  <2>3. Decides(start, v, w)
    BY <2>2 DEF Decides
  <2>4. Shrinks(start, n - 0)
    BY <1>1, <2>2 DEF Shrinks
  <2>5. 0 \in 0 .. n
    BY <1>1
  <2> QED
    BY <2>1, <2>2, <2>3, <2>4, <2>5
<1>4. ASSUME NEW i \in 0 .. n, i \in T, i < n
      PROVE  i + 1 \in T
  <2> HIDE DEF n
  <2>1. i + 1 \in 1 .. n /\ i + 1 \in 0 .. n /\ (i + 1) - 1 = i /\ n - i \in Int /\ (n - i) - 1 = n - (i + 1)
    BY <1>1, <1>4
  <2>2. f[i + 1] = Round(f[i])
    BY <1>2, <2>1 DEF RoundRun
  <2>3. f[i] \in Rounds /\ Decides(f[i], v, w) /\ Shrinks(f[i], n - i)
    BY <1>4
  <2>4. Round(f[i]) \in Rounds /\ Decides(Round(f[i]), v, w) /\ Shrinks(Round(f[i]), (n - i) - 1)
    BY <2>1, <2>3, RoundKeeps
  <2> QED
    BY <2>1, <2>2, <2>4
<1>5. n \in T
  <2> HIDE DEF T, n
  <2>1. \A i \in 0 .. n : i \in T /\ i < n => i + 1 \in T
    BY <1>4
  <2>2. \A i \in 0 .. n : i \in T
    BY <1>1, <1>3, <2>1, BoundedInduction
  <2>3. n \in 0 .. n
    BY <1>1
  <2> QED
    BY <2>2, <2>3
<1>6. f[n] \in Rounds /\ Decides(f[n], v, w) /\ Shrinks(f[n], n - n)
  BY <1>5
<1> DEFINE r == f[n]
<1> HIDE DEF n
<1>7. r \in Rounds /\ Decides(r, v, w) /\ Shrinks(r, 0) /\ CompareSubVersion(v, w) = r.result
  <2>1. n - n = 0
    BY <1>1
  <2> QED
    BY <1>2, <1>6, <2>1
<1> HIDE DEF r
<1>8. r.result \in {-1, 0, 1} /\ r.v \in Seq(TextChars) /\ r.w \in Seq(TextChars)
  BY <1>7 DEF Rounds
<1>9. CASE r.result # 0
  BY <1>7, <1>8, <1>9 DEF Decides
<1>10. CASE r.result = 0
  <2>1. Len(r.v) = 0 /\ Len(r.w) = 0
    <3>1. Len(r.v) \in Nat /\ Len(r.w) \in Nat
      BY <1>8
    <3> QED
      <4>1. Len(r.v) + Len(r.w) <= 0 \/ (Len(r.v) = 0 /\ Len(r.w) = 0)
        BY <1>7, <1>10 DEF Shrinks
      <4>2. \A a, b \in Nat : a + b <= 0 => a = 0 /\ b = 0
        OBVIOUS
      <4> QED
        BY <3>1, <4>1, <4>2
  <2>2. r.v = <<>> /\ r.w = <<>>
    BY <1>8, <2>1, EmptySeq
  <2>3. PartKey(r.v) = PartKey(r.w) /\ PartKey(r.v) \in Seq(Int)
    BY <1>8, <2>2, PartKeyType
  <2> DEFINE k == PartKey(r.v)
  <2>4. CompareKeys(PartKey(v), PartKey(w)) = CompareKeys(k, k)
    BY <1>7, <1>10, <2>3 DEF Decides
  <2>5. k \in Seq(Int)
    BY <2>3
  <2> HIDE DEF k
  <2>6. CompareKeys(k, k) = 0
    BY <2>5, KeysAgree
  <2> QED
    BY <1>7, <1>10, <2>4, <2>6
<1> QED
  BY <1>9, <1>10

-----------------------------------------------------------------------------
(* Whole versions. *)

\* A non-empty set of positions up to n has a last one.
LEMMA LastIs ==
  ASSUME NEW n \in Nat, NEW S \in SUBSET (1 .. n), S # {}
  PROVE  Last(S) \in S
<1> DEFINE back == {n - i : i \in S}
<1>1. back \in SUBSET Nat /\ back # {}
  <2>1. PICK i \in S : TRUE
    OBVIOUS
  <2>2. n - i \in back /\ \A j \in S : n - j \in Nat
    OBVIOUS
  <2> QED
    BY <2>2
<1>2. PICK d \in back : \A e \in back : d <= e
  <2> HIDE DEF back
  <2> QED
    BY <1>1, NumbersHaveMinimum
<1>3. PICK i \in S : d = n - i
  BY <1>2
<1>4. \A j \in S : i >= j
  <2> SUFFICES ASSUME NEW j \in S PROVE i >= j
    OBVIOUS
  <2>1. n - i <= n - j
    BY <1>2, <1>3
  <2> QED
    BY <2>1
<1> QED
  BY <1>4 DEF Last

\* A stretch of a text is a text.
LEMMA StretchType ==
  ASSUME NEW s \in Seq(TextChars), NEW a \in Int, NEW b \in Int, 1 <= a, b <= Len(s)
  PROVE  SubSeq(s, a, b) \in Seq(TextChars)
<1>1. \A i \in a .. b : s[i] \in TextChars
  <2>1. Len(s) \in Nat /\ \A i \in 1 .. Len(s) : s[i] \in TextChars
    OBVIOUS
  <2>2. \A i \in a .. b : i \in 1 .. Len(s)
    BY <2>1
  <2> QED
    BY <2>1, <2>2
<1> QED
  BY <1>1, SubSeqProperties

\* The three parts of a version, and the keys that Policy gives them.
LEMMA PartsOfVersion ==
  ASSUME NEW s \in Seq(TextChars), NEW i \in 1 .. 3
  PROVE  SplitVersion(s)[i] \in Seq(TextChars) /\ PartKeys(s)[i] = PartKey(SplitVersion(s)[i])
<1> DEFINE n == Len(s)
           C == Colons(s)
           H == Hyphens(s)
           e == EpochEnd(s)
           u == UpstreamEnd(s)
           hyphen == IF H = {} THEN 0 ELSE Last(H)
           upto == IF hyphen = 0 THEN n ELSE hyphen - 1
           third == IF hyphen = 0 THEN <<>> ELSE SubSeq(s, hyphen + 1, n)
<1>1. n \in Nat /\ C \in SUBSET (1 .. n) /\ H \in SUBSET (1 .. n)
  BY DEF Colons, Hyphens
<1>2. SplitVersion(s) = <<SubSeq(s, 1, e - 1), SubSeq(s, e + 1, upto), third>>
  BY Zenon DEF SplitVersion, Colons, Hyphens, EpochEnd, First, Last
<1>3. /\ PartKeys(s)[1] = PartKey(SubSeq(s, 1, e - 1))
      /\ PartKeys(s)[2] = PartKey(SubSeq(s, e + 1, u - 1))
      /\ PartKeys(s)[3] = PartKey(SubSeq(s, u + 1, n))
  BY DEF PartKeys
<1>4. e \in 0 .. n
  <2>1. CASE C = {}
    BY <1>1, <2>1 DEF EpochEnd
  <2>2. CASE C # {}
    <3>1. First(C) \in 1 .. n
      <4> HIDE DEF C, n
      <4>1. C \in SUBSET Nat
        BY <1>1
      <4> QED
        BY <1>1, <2>2, <4>1, FirstIs
    <3>2. e = First(C)
      BY <2>2 DEF EpochEnd
    <3>3. \A j \in 1 .. n : j \in 0 .. n
      BY <1>1
    <3> QED
      BY <3>1, <3>2, <3>3
  <2> QED
    BY <2>1, <2>2
<1>5. (hyphen = 0 /\ upto = n /\ u = n + 1) \/ (hyphen \in 1 .. n /\ upto = hyphen - 1 /\ u = hyphen)
  <2>1. CASE H = {}
    BY <2>1 DEF UpstreamEnd
  <2>2. CASE H # {}
    <3>1. Last(H) \in 1 .. n
      BY <1>1, <2>2, LastIs
    <3> QED
      BY <2>2, <3>1 DEF UpstreamEnd
  <2> QED
    BY <2>1, <2>2
<1> HIDE DEF C, H, e, u, hyphen, upto
<1>6. upto = u - 1 /\ upto \in Int /\ upto <= n
  BY <1>1, <1>5
<1>7. third = SubSeq(s, u + 1, n) /\ third \in Seq(TextChars)
  <2>1. CASE hyphen = 0
    <3>1. u + 1 > n /\ u + 1 \in Int /\ n \in Int
      BY <1>1, <1>5, <2>1
    <3>2. SubSeq(s, u + 1, n) = <<>>
      BY <3>1, SubSeqEmpty
    <3>3. third = <<>> /\ <<>> \in Seq(TextChars)
      BY <2>1
    <3> HIDE DEF third
    <3> QED
      BY <3>2, <3>3
  <2>2. CASE hyphen # 0
    <3>1. third = SubSeq(s, u + 1, n) /\ u + 1 \in Int /\ 1 <= u + 1
      BY <1>1, <1>5, <2>2
    <3>2. SubSeq(s, u + 1, n) \in Seq(TextChars)
      BY <1>1, <3>1, StretchType
    <3> QED
      BY <3>1, <3>2
  <2> QED
    BY <2>1, <2>2
<1>8. SubSeq(s, 1, e - 1) \in Seq(TextChars)
  <2>1. e - 1 \in Int /\ e - 1 <= n
    BY <1>1, <1>4
  <2> QED
    BY <2>1, StretchType
<1>9. SubSeq(s, e + 1, upto) \in Seq(TextChars)
  <2>1. e + 1 \in Int /\ 1 <= e + 1
    BY <1>1, <1>4
  <2> QED
    BY <1>6, <2>1, StretchType
<1> HIDE DEF n, third
<1>10. i = 1 \/ i = 2 \/ i = 3
  OBVIOUS
<1>11. SplitVersion(s)[1] = SubSeq(s, 1, e - 1) /\ SplitVersion(s)[2] = SubSeq(s, e + 1, upto) /\ SplitVersion(s)[3] = third
  <2>1. \A x, y, z : <<x, y, z>>[1] = x /\ <<x, y, z>>[2] = y /\ <<x, y, z>>[3] = z
    OBVIOUS
  <2> DEFINE x == SubSeq(s, 1, e - 1)
             y == SubSeq(s, e + 1, upto)
  <2>2. SplitVersion(s) = <<x, y, third>>
    BY <1>2
  <2> HIDE DEF x, y
  <2>3. SplitVersion(s)[1] = x /\ SplitVersion(s)[2] = y /\ SplitVersion(s)[3] = third
    BY <2>1, <2>2
  <2> QED
    BY <2>3 DEF x, y
<1> QED
  BY <1>3, <1>6, <1>7, <1>8, <1>9, <1>10, <1>11

\* CompareVersion orders any two texts as Policy does.
THEOREM VersionsCompareByPolicy ==
  ASSUME NEW v \in Seq(TextChars), NEW w \in Seq(TextChars)
  PROVE  CompareVersion(v, w) = PolicyCompare(v, w)
<1> DEFINE a == SplitVersion(v)
           b == SplitVersion(w)
           k == PartKeys(v)
           l == PartKeys(w)
           d == [i \in 1 .. 3 |-> CompareSubVersion(a[i], b[i])]
           found == {i \in DOMAIN d : d[i] # 0}
           differ == {i \in 1 .. 3 : CompareKeys(k[i], l[i]) # 0}
<1>1. \A i \in 1 .. 3 : d[i] = CompareKeys(k[i], l[i])
  <2> SUFFICES ASSUME NEW i \in 1 .. 3 PROVE d[i] = CompareKeys(k[i], l[i])
    OBVIOUS
  <2>1. d[i] = CompareSubVersion(a[i], b[i])
    OBVIOUS
  <2>2. /\ a[i] \in Seq(TextChars) /\ k[i] = PartKey(a[i])
        /\ b[i] \in Seq(TextChars) /\ l[i] = PartKey(b[i])
    BY PartsOfVersion
  <2> HIDE DEF d, a, b, k, l
  <2> QED
    BY <2>1, <2>2, PartsCompareByKeys
<1>2. CompareVersion(v, w) = IF found = {} THEN 0 ELSE d[First(found)]
  <2>1. CompareVersion(v, w) = FirstOf(d)
    BY Zenon DEF CompareVersion
  <2> HIDE DEF d
  <2> QED
    BY <2>1, Zenon DEF FirstOf, First
<1>3. PolicyCompare(v, w) = IF differ = {} THEN 0 ELSE CompareKeys(k[First(differ)], l[First(differ)])
  BY Zenon DEF PolicyCompare, CompareAll
<1>4. DOMAIN d = 1 .. 3
  OBVIOUS
<1> HIDE DEF d, k, l
<1>5. found = differ
  BY <1>1, <1>4
<1>6. differ # {} => First(differ) \in 1 .. 3
  <2>1. differ \in SUBSET (1 .. 3) /\ differ \in SUBSET Nat
    OBVIOUS
  <2> HIDE DEF differ
  <2>2. differ # {} => First(differ) \in differ
    BY <2>1, FirstIs
  <2> QED
    BY <2>1, <2>2
<1> HIDE DEF found, differ
<1> QED
  BY <1>1, <1>2, <1>3, <1>5, <1>6

-----------------------------------------------------------------------------
(* The order is total, whatever the texts. *)

\* Compared the other way round, keys have the opposite order.
LEMMA KeysOpposite ==
  ASSUME NEW k \in Seq(Int), NEW l \in Seq(Int)
  PROVE  CompareKeys(k, l) \in {-1, 0, 1} /\ CompareKeys(k, l) = - CompareKeys(l, k)
<1>1. CASE \A j \in Nat \ {0} : Pad(k, j) = Pad(l, j)
  <2>1. CompareKeys(k, l) = 0
    BY <1>1, KeysAgree
  <2>2. \A j \in Nat \ {0} : Pad(l, j) = Pad(k, j)
    BY <1>1
  <2>3. CompareKeys(l, k) = 0
    BY <2>2, KeysAgree
  <2>4. 0 \in Int /\ 0 \in {-1, 0, 1} /\ \A a, b \in Int : a = 0 /\ b = 0 => a = - b
    OBVIOUS
  <2> QED
    BY <2>1, <2>3, <2>4
<1>2. ASSUME NEW j \in Nat \ {0}, Pad(k, j) # Pad(l, j)
      PROVE  CompareKeys(k, l) \in {-1, 0, 1} /\ CompareKeys(k, l) = - CompareKeys(l, k)
  <2>1. PICK i \in Nat \ {0} : Pad(k, i) # Pad(l, i) /\ \A n \in 1 .. i - 1 : Pad(k, n) = Pad(l, n)
    BY <1>2, FirstDifference
  <2>2. CompareKeys(k, l) = Sign(Pad(k, i) - Pad(l, i))
    BY <2>1, KeysDiffer
  <2>3. Pad(l, i) # Pad(k, i) /\ \A n \in 1 .. i - 1 : Pad(l, n) = Pad(k, n)
    BY <2>1
  <2>4. CompareKeys(l, k) = Sign(Pad(l, i) - Pad(k, i))
    BY <2>3, KeysDiffer
  <2>5. Pad(k, i) \in Int /\ Pad(l, i) \in Int
    BY PadType
  <2> QED
    BY <2>2, <2>4, <2>5 DEF Sign
<1> QED
  BY <1>1, <1>2

\* Keys are ordered transitively: the earlier of the two first differences decides.
LEMMA KeysTransitive ==
  ASSUME NEW k \in Seq(Int), NEW l \in Seq(Int), NEW m \in Seq(Int),
         CompareKeys(k, l) <= 0, CompareKeys(l, m) <= 0
  PROVE  CompareKeys(k, m) <= 0
<1>1. \A i \in Nat \ {0} : Pad(k, i) \in Int /\ Pad(l, i) \in Int /\ Pad(m, i) \in Int
  BY PadType
<1>2. CASE \A j \in Nat \ {0} : Pad(k, j) = Pad(l, j)
  <2>1. CASE \A j \in Nat \ {0} : Pad(l, j) = Pad(m, j)
    <3>1. \A j \in Nat \ {0} : Pad(k, j) = Pad(m, j)
      BY <1>2, <2>1
    <3>2. CompareKeys(k, m) = 0
      BY <3>1, KeysAgree
    <3> QED
      BY <3>2
  <2>2. ASSUME NEW i \in Nat \ {0}, Pad(l, i) # Pad(m, i), \A j \in 1 .. i - 1 : Pad(l, j) = Pad(m, j)
        PROVE  CompareKeys(k, m) <= 0
    <3>1. Pad(k, i) # Pad(m, i) /\ \A j \in 1 .. i - 1 : Pad(k, j) = Pad(m, j)
      BY <1>2, <2>2
    <3>2. CompareKeys(k, m) = Sign(Pad(k, i) - Pad(m, i)) /\ CompareKeys(l, m) = Sign(Pad(l, i) - Pad(m, i))
      BY <2>2, <3>1, KeysDiffer
    <3> QED
      BY <1>2, <3>2
  <2> QED
    BY <2>1, <2>2, FirstDifference
<1>3. ASSUME NEW i \in Nat \ {0}, Pad(k, i) # Pad(l, i), \A j \in 1 .. i - 1 : Pad(k, j) = Pad(l, j)
      PROVE  CompareKeys(k, m) <= 0
  <2>1. CompareKeys(k, l) = Sign(Pad(k, i) - Pad(l, i))
    BY <1>3, KeysDiffer
  <2>2. Pad(k, i) < Pad(l, i)
    BY <1>1, <1>3, <2>1 DEF Sign
  <2>3. ASSUME NEW p \in Nat \ {0}, Pad(k, p) < Pad(m, p), \A j \in 1 .. p - 1 : Pad(k, j) = Pad(m, j)
        PROVE  CompareKeys(k, m) <= 0
    <3>1. Pad(k, p) # Pad(m, p) /\ Pad(k, p) \in Int /\ Pad(m, p) \in Int
      BY <1>1, <2>3
    <3>2. CompareKeys(k, m) = Sign(Pad(k, p) - Pad(m, p))
      BY <2>3, <3>1, KeysDiffer
    <3> QED
      BY <2>3, <3>1, <3>2 DEF Sign
  <2>4. CASE \A j \in Nat \ {0} : Pad(l, j) = Pad(m, j)
    <3>1. \A j \in 1 .. i - 1 : j \in Nat \ {0}
      OBVIOUS
    <3>2. Pad(k, i) < Pad(m, i) /\ \A j \in 1 .. i - 1 : Pad(k, j) = Pad(m, j)
      BY <1>3, <2>2, <2>4, <3>1
    <3> QED
      BY <2>3, <3>2
  <2>5. ASSUME NEW r \in Nat \ {0}, Pad(l, r) # Pad(m, r), \A j \in 1 .. r - 1 : Pad(l, j) = Pad(m, j)
        PROVE  CompareKeys(k, m) <= 0
    <3>1. CompareKeys(l, m) = Sign(Pad(l, r) - Pad(m, r))
      BY <2>5, KeysDiffer
    <3>2. Pad(l, r) < Pad(m, r)
      BY <1>1, <2>5, <3>1 DEF Sign
    <3>3. CASE i < r
      <4>1. i \in 1 .. r - 1 /\ \A j \in 1 .. i - 1 : j \in 1 .. r - 1
        BY <3>3
      <4>2. Pad(k, i) < Pad(m, i) /\ \A j \in 1 .. i - 1 : Pad(k, j) = Pad(m, j)
        BY <1>3, <2>2, <2>5, <4>1
      <4> QED
        BY <2>3, <4>2
    <3>4. CASE i = r
      <4>1. \A j \in 1 .. i - 1 : Pad(k, j) = Pad(m, j)
        BY <1>3, <2>5, <3>4
      <4>2. Pad(k, i) < Pad(m, i)
        BY <1>1, <2>2, <3>2, <3>4
      <4> QED
        BY <2>3, <4>1, <4>2
    <3>5. CASE r < i
      <4>1. r \in 1 .. i - 1 /\ \A j \in 1 .. r - 1 : j \in 1 .. i - 1
        BY <3>5
      <4>2. Pad(k, r) < Pad(m, r) /\ \A j \in 1 .. r - 1 : Pad(k, j) = Pad(m, j)
        BY <1>3, <2>5, <3>2, <4>1
      <4> QED
        BY <2>3, <4>2
    <3> QED
      BY <3>3, <3>4, <3>5
  <2> QED
    BY <2>4, <2>5, FirstDifference
<1> QED
  BY <1>2, <1>3, FirstDifference

\* Policy compares the parts of two versions one after the other.
LEMMA PolicyByParts ==
  ASSUME NEW k, NEW l
  PROVE  CompareAll(k, l) = IF CompareKeys(k[1], l[1]) # 0 THEN CompareKeys(k[1], l[1])
                            ELSE IF CompareKeys(k[2], l[2]) # 0 THEN CompareKeys(k[2], l[2])
                            ELSE CompareKeys(k[3], l[3])
<1> DEFINE c(i) == CompareKeys(k[i], l[i])
           differ == {i \in 1 .. 3 : c(i) # 0}
<1>1. CompareAll(k, l) = IF differ = {} THEN 0 ELSE c(First(differ))
  BY Zenon DEF CompareAll
<1>2. 1 \in 1 .. 3 /\ 2 \in 1 .. 3 /\ 3 \in 1 .. 3 /\ \A i \in 1 .. 3 : i = 1 \/ i = 2 \/ i = 3
  OBVIOUS
<1>3. \A i \in 1 .. 3 : i \in differ <=> c(i) # 0
  OBVIOUS
<1>4. differ \in SUBSET (1 .. 3) /\ differ \in SUBSET Nat
  OBVIOUS
<1> HIDE DEF differ
<1>5. ASSUME NEW i \in differ, \A j \in differ : i <= j
      PROVE  CompareAll(k, l) = c(i)
  <2>1. First(differ) \in differ /\ \A j \in differ : First(differ) <= j
    BY <1>4, <1>5, FirstIs
  <2>2. First(differ) <= i /\ i <= First(differ) /\ i \in Nat /\ First(differ) \in Nat
    BY <1>4, <1>5, <2>1
  <2>3. First(differ) = i
    BY <2>2
  <2> QED
    BY <1>1, <1>5, <2>3, Zenon
<1>6. CASE c(1) # 0
  <2>1. 1 \in differ /\ \A j \in differ : 1 <= j
    BY <1>2, <1>3, <1>4, <1>6
  <2>2. CompareAll(k, l) = c(1)
    BY <1>5, <2>1
  <2> QED
    BY <1>6, <2>2
<1>7. CASE c(1) = 0 /\ c(2) # 0
  <2>1. 2 \in differ /\ \A j \in differ : 2 <= j
    BY <1>2, <1>3, <1>4, <1>7
  <2>2. CompareAll(k, l) = c(2)
    BY <1>5, <2>1
  <2> QED
    BY <1>7, <2>2
<1>8. CASE c(1) = 0 /\ c(2) = 0 /\ c(3) # 0
  <2>1. 3 \in differ /\ \A j \in differ : 3 <= j
    BY <1>2, <1>3, <1>4, <1>8
  <2>2. CompareAll(k, l) = c(3)
    BY <1>5, <2>1
  <2> QED
    BY <1>8, <2>2
<1>9. CASE c(1) = 0 /\ c(2) = 0 /\ c(3) = 0
  <2>1. differ = {}
    BY <1>2, <1>3, <1>4, <1>9
  <2> QED
    BY <1>1, <1>9, <2>1
<1> QED
  BY <1>6, <1>7, <1>8, <1>9

\* Keys that are ordered have a strict order too.
LEMMA KeysChain ==
  ASSUME NEW k \in Seq(Int), NEW l \in Seq(Int), NEW m \in Seq(Int),
         CompareKeys(k, l) <= 0, CompareKeys(l, m) <= 0
  PROVE  /\ CompareKeys(k, m) <= 0
         /\ CompareKeys(k, m) = 0 => CompareKeys(k, l) = 0 /\ CompareKeys(l, m) = 0
         /\ CompareKeys(k, l) = 0 /\ CompareKeys(l, m) = 0 => CompareKeys(k, m) = 0
<1>1. CompareKeys(k, m) <= 0
  BY KeysTransitive
<1>2. /\ CompareKeys(k, l) \in {-1, 0, 1} /\ CompareKeys(l, k) = - CompareKeys(k, l)
      /\ CompareKeys(l, m) \in {-1, 0, 1} /\ CompareKeys(m, l) = - CompareKeys(l, m)
      /\ CompareKeys(k, m) \in {-1, 0, 1} /\ CompareKeys(m, k) = - CompareKeys(k, m)
  <2>1. CompareKeys(k, l) \in {-1, 0, 1} /\ CompareKeys(l, k) = - CompareKeys(k, l)
    BY KeysOpposite
  <2>2. CompareKeys(l, m) \in {-1, 0, 1} /\ CompareKeys(m, l) = - CompareKeys(l, m)
    BY KeysOpposite
  <2>3. CompareKeys(k, m) \in {-1, 0, 1} /\ CompareKeys(m, k) = - CompareKeys(k, m)
    BY KeysOpposite
  <2> QED
    BY <2>1, <2>2, <2>3
<1>3. ASSUME CompareKeys(k, m) = 0
      PROVE  CompareKeys(k, l) = 0 /\ CompareKeys(l, m) = 0
  <2>1. CompareKeys(m, k) <= 0
    BY <1>2, <1>3
  <2>2. CompareKeys(l, k) <= 0
    BY <2>1, KeysTransitive
  <2>3. CompareKeys(m, l) <= 0
    BY <2>1, KeysTransitive
  <2> QED
    BY <1>2, <2>2, <2>3
<1>4. ASSUME CompareKeys(k, l) = 0, CompareKeys(l, m) = 0
      PROVE  CompareKeys(k, m) = 0
  <2>1. CompareKeys(m, l) <= 0 /\ CompareKeys(l, k) <= 0
    BY <1>2, <1>4
  <2>2. CompareKeys(m, k) <= 0
    BY <2>1, KeysTransitive
  <2> QED
    BY <1>1, <1>2, <2>2
<1> QED
  BY <1>1, <1>3, <1>4

\* The keys of a version are sequences of numbers.
LEMMA PartKeysType ==
  ASSUME NEW s \in Seq(TextChars)
  PROVE  PartKeys(s)[1] \in Seq(Int) /\ PartKeys(s)[2] \in Seq(Int) /\ PartKeys(s)[3] \in Seq(Int)
<1>1. \A i \in 1 .. 3 : PartKeys(s)[i] \in Seq(Int)
  <2> SUFFICES ASSUME NEW i \in 1 .. 3 PROVE PartKeys(s)[i] \in Seq(Int)
    OBVIOUS
  <2>1. SplitVersion(s)[i] \in Seq(TextChars) /\ PartKeys(s)[i] = PartKey(SplitVersion(s)[i])
    BY PartsOfVersion
  <2> QED
    BY <2>1, PartKeyType
<1>2. 1 \in 1 .. 3 /\ 2 \in 1 .. 3 /\ 3 \in 1 .. 3
  OBVIOUS
<1> QED
  BY <1>1, <1>2

\* Compared the other way round, versions have the opposite order.
LEMMA VersionsOpposite ==
  ASSUME NEW v \in Seq(TextChars), NEW w \in Seq(TextChars)
  PROVE  CompareVersion(v, w) \in {-1, 0, 1} /\ CompareVersion(v, w) = - CompareVersion(w, v)
<1> DEFINE k == PartKeys(v)
           l == PartKeys(w)
<1>1. k[1] \in Seq(Int) /\ k[2] \in Seq(Int) /\ k[3] \in Seq(Int) /\ l[1] \in Seq(Int) /\ l[2] \in Seq(Int) /\ l[3] \in Seq(Int)
  BY PartKeysType
<1>2. CompareVersion(v, w) = CompareAll(k, l) /\ CompareVersion(w, v) = CompareAll(l, k)
  BY VersionsCompareByPolicy DEF PolicyCompare
<1> HIDE DEF k, l
<1>3. CompareKeys(k[1], l[1]) \in {-1, 0, 1} /\ CompareKeys(k[1], l[1]) = - CompareKeys(l[1], k[1])
  BY <1>1, KeysOpposite
<1>4. CompareKeys(k[2], l[2]) \in {-1, 0, 1} /\ CompareKeys(k[2], l[2]) = - CompareKeys(l[2], k[2])
  BY <1>1, KeysOpposite
<1>5. CompareKeys(k[3], l[3]) \in {-1, 0, 1} /\ CompareKeys(k[3], l[3]) = - CompareKeys(l[3], k[3])
  BY <1>1, KeysOpposite
<1>6. CompareKeys(l[1], k[1]) \in Int /\ CompareKeys(l[2], k[2]) \in Int /\ CompareKeys(l[3], k[3]) \in Int
  <2>1. CompareKeys(l[1], k[1]) \in {-1, 0, 1}
    BY <1>1, KeysOpposite
  <2>2. CompareKeys(l[2], k[2]) \in {-1, 0, 1}
    BY <1>1, KeysOpposite
  <2>3. CompareKeys(l[3], k[3]) \in {-1, 0, 1}
    BY <1>1, KeysOpposite
  <2> QED
    BY <2>1, <2>2, <2>3
<1>7. CompareAll(k, l) = IF CompareKeys(k[1], l[1]) # 0 THEN CompareKeys(k[1], l[1])
                         ELSE IF CompareKeys(k[2], l[2]) # 0 THEN CompareKeys(k[2], l[2])
                         ELSE CompareKeys(k[3], l[3])
  BY PolicyByParts
<1>8. CompareAll(l, k) = IF CompareKeys(l[1], k[1]) # 0 THEN CompareKeys(l[1], k[1])
                         ELSE IF CompareKeys(l[2], k[2]) # 0 THEN CompareKeys(l[2], k[2])
                         ELSE CompareKeys(l[3], k[3])
  BY PolicyByParts
<1> QED
  BY <1>2, <1>3, <1>4, <1>5, <1>6, <1>7, <1>8

\* Versions are ordered transitively.
LEMMA VersionsTransitive ==
  ASSUME NEW u \in Seq(TextChars), NEW v \in Seq(TextChars), NEW w \in Seq(TextChars),
         CompareVersion(u, v) <= 0, CompareVersion(v, w) <= 0
  PROVE  CompareVersion(u, w) <= 0
<1> DEFINE k == PartKeys(u)
           l == PartKeys(v)
           m == PartKeys(w)
<1>1. /\ k[1] \in Seq(Int) /\ k[2] \in Seq(Int) /\ k[3] \in Seq(Int)
      /\ l[1] \in Seq(Int) /\ l[2] \in Seq(Int) /\ l[3] \in Seq(Int)
      /\ m[1] \in Seq(Int) /\ m[2] \in Seq(Int) /\ m[3] \in Seq(Int)
  BY PartKeysType
<1>2. /\ CompareVersion(u, v) = CompareAll(k, l) /\ CompareVersion(v, w) = CompareAll(l, m)
      /\ CompareVersion(u, w) = CompareAll(k, m)
  BY VersionsCompareByPolicy DEF PolicyCompare
<1> HIDE DEF k, l, m
<1> DEFINE a(i) == CompareKeys(k[i], l[i])
           b(i) == CompareKeys(l[i], m[i])
           c(i) == CompareKeys(k[i], m[i])
<1>3. /\ CompareAll(k, l) = IF a(1) # 0 THEN a(1) ELSE IF a(2) # 0 THEN a(2) ELSE a(3)
      /\ CompareAll(l, m) = IF b(1) # 0 THEN b(1) ELSE IF b(2) # 0 THEN b(2) ELSE b(3)
      /\ CompareAll(k, m) = IF c(1) # 0 THEN c(1) ELSE IF c(2) # 0 THEN c(2) ELSE c(3)
  BY PolicyByParts
<1>4. ASSUME NEW i \in {1, 2, 3}
      PROVE  /\ a(i) \in {-1, 0, 1} /\ b(i) \in {-1, 0, 1} /\ c(i) \in {-1, 0, 1}
             /\ a(i) <= 0 /\ b(i) <= 0 =>
                  c(i) <= 0 /\ (c(i) = 0 => a(i) = 0 /\ b(i) = 0) /\ (a(i) = 0 /\ b(i) = 0 => c(i) = 0)
  <2>1. k[i] \in Seq(Int) /\ l[i] \in Seq(Int) /\ m[i] \in Seq(Int)
    BY <1>1
  <2>2. a(i) \in {-1, 0, 1} /\ b(i) \in {-1, 0, 1} /\ c(i) \in {-1, 0, 1}
    BY <2>1, KeysOpposite
  <2> QED
    BY <2>1, <2>2, KeysChain
<1> HIDE DEF a, b, c
<1>5. /\ a(1) \in {-1, 0, 1} /\ b(1) \in {-1, 0, 1} /\ c(1) \in {-1, 0, 1}
      /\ a(1) <= 0 /\ b(1) <= 0 =>
           c(1) <= 0 /\ (c(1) = 0 => a(1) = 0 /\ b(1) = 0) /\ (a(1) = 0 /\ b(1) = 0 => c(1) = 0)
  BY <1>4
<1>6. /\ a(2) \in {-1, 0, 1} /\ b(2) \in {-1, 0, 1} /\ c(2) \in {-1, 0, 1}
      /\ a(2) <= 0 /\ b(2) <= 0 =>
           c(2) <= 0 /\ (c(2) = 0 => a(2) = 0 /\ b(2) = 0) /\ (a(2) = 0 /\ b(2) = 0 => c(2) = 0)
  BY <1>4
<1>7. /\ a(3) \in {-1, 0, 1} /\ b(3) \in {-1, 0, 1} /\ c(3) \in {-1, 0, 1}
      /\ a(3) <= 0 /\ b(3) <= 0 =>
           c(3) <= 0 /\ (c(3) = 0 => a(3) = 0 /\ b(3) = 0) /\ (a(3) = 0 /\ b(3) = 0 => c(3) = 0)
  BY <1>4
<1> QED
  BY <1>2, <1>3, <1>5, <1>6, <1>7

\* The comparison is an order of any set of versions, whatever their strings:
\* what the model assumes of Compare follows for CompareVersion.
THEOREM VersionsAreOrdered ==
  ASSUME NEW text \in [Versions -> Seq(TextChars)]
  PROVE  IsOrder([v \in Versions |-> [w \in Versions |-> CompareVersion(text[v], text[w])]])
<1> DEFINE compare == [v \in Versions |-> [w \in Versions |-> CompareVersion(text[v], text[w])]]
<1>1. \A v, w \in Versions : /\ compare[v][w] = CompareVersion(text[v], text[w])
                             /\ text[v] \in Seq(TextChars) /\ text[w] \in Seq(TextChars)
  OBVIOUS
<1>2. compare \in [Versions -> [Versions -> {-1, 0, 1}]]
  <2>1. \A v, w \in Versions : CompareVersion(text[v], text[w]) \in {-1, 0, 1}
    BY VersionsOpposite
  <2> QED
    BY <2>1
<1> HIDE DEF compare
<1>3. \A v, w \in Versions : compare[v][w] = - compare[w][v]
  <2> SUFFICES ASSUME NEW v \in Versions, NEW w \in Versions PROVE compare[v][w] = - compare[w][v]
    OBVIOUS
  <2>1. CompareVersion(text[v], text[w]) = - CompareVersion(text[w], text[v])
    BY VersionsOpposite
  <2> QED
    BY <1>1, <2>1
<1>4. \A u, v, w \in Versions : compare[u][v] <= 0 /\ compare[v][w] <= 0 => compare[u][w] <= 0
  <2> SUFFICES ASSUME NEW u \in Versions, NEW v \in Versions, NEW w \in Versions,
                      compare[u][v] <= 0, compare[v][w] <= 0
               PROVE  compare[u][w] <= 0
    OBVIOUS
  <2>1. CompareVersion(text[u], text[v]) <= 0 /\ CompareVersion(text[v], text[w]) <= 0
    BY <1>1
  <2>2. CompareVersion(text[u], text[w]) <= 0
    BY <2>1, VersionsTransitive
  <2> QED
    BY <1>1, <2>2
<1>5. IsOrder(compare)
  BY <1>2, <1>3, <1>4 DEF IsOrder
<1> QED
  BY <1>5 DEF compare

-----------------------------------------------------------------------------
(* Selection by the order of Policy. *)

\* Both orders of the versions are the same.
LEMMA OrdersAgree == \A v, w \in Versions : ByPolicy[v][w] = Compare[v][w]
<1> SUFFICES ASSUME NEW v \in Versions, NEW w \in Versions PROVE ByPolicy[v][w] = Compare[v][w]
  OBVIOUS
<1>1. ByPolicy[v][w] = PolicyCompare(Text[v], Text[w])
  BY DEF ByPolicy
<1>2. Text[v] \in Seq(TextChars) /\ Text[w] \in Seq(TextChars)
  BY TextAssumption
<1>3. CompareVersion(Text[v], Text[w]) = PolicyCompare(Text[v], Text[w])
  BY <1>2, VersionsCompareByPolicy
<1> QED
  BY <1>1, <1>3, CompareAssumption

\* A line takes a package in.
Includes(r, x) == r.kind = "+" \/ (r.kind = "name" /\ r.name = x[1])

\* What a line says of a package, by either order.
LEMMA LinesAgree ==
  ASSUME NEW x \in NVA, NEW r \in Relation
  PROVE  /\ CheckPackageRelation(x, r) = "include" <=> Includes(r, x)
         /\ CheckPackageRelation(x, r) = "none" <=> ~ Includes(r, x) /\ ~ Rejects(r, x)
         /\ ~ (Includes(r, x) /\ Rejects(r, x))
<1> DEFINE c == Compare[x[2]][r.version]
           holds == \/ r.op = "<<" /\ c < 0
                    \/ r.op = ">>" /\ c > 0
                    \/ r.op \in {"<", "<="} /\ c <= 0
                    \/ r.op \in {">", ">="} /\ c >= 0
                    \/ r.op = "!=" /\ c # 0
                    \/ r.op = "=" /\ c = 0
           fails == \/ r.op = "<<" /\ c # -1
                    \/ r.op \in {"<", "<="} /\ c = 1
                    \/ r.op = "=" /\ c # 0
                    \/ r.op \in {">", ">="} /\ c = -1
                    \/ r.op = ">>" /\ c # 1
                    \/ r.op = "!=" /\ c = 0
<1>1. x[2] \in Versions /\ r.version \in Versions
  BY NVAParts DEF Relation
<1>2. c \in {-1, 0, 1} /\ ByPolicy[x[2]][r.version] = c
  BY <1>1, CompareType, OrdersAgree
<1>3. r.kind \in {"+", "name", "!", "condition", "malformed"}
      /\ r.op \in {"<<", "<=", "<", "=", ">", ">=", ">>", "!=", "<>"}
  BY DEF Relation
<1>4. CheckPackageRelation(x, r) =
        IF r.kind = "+" THEN "include"
        ELSE IF r.kind = "malformed" \/ r.name # x[1] THEN "none"
        ELSE IF r.kind = "name" THEN "include"
        ELSE IF r.kind # "!" /\ (holds \/ r.op = "<>") THEN "none" ELSE "exclude"
  BY DEF CheckPackageRelation
<1>5. Rejects(r, x) <=> r.name = x[1] /\ (r.kind = "!" \/ (r.kind = "condition" /\ fails))
  BY <1>2 DEF Rejects
<1>6. holds \/ r.op = "<>" <=> ~ fails
  <2> HIDE DEF c
  <2> QED
    BY <1>2, <1>3
<1> HIDE DEF holds, fails
<1>7. CASE r.kind = "+"
  <2>1. CheckPackageRelation(x, r) = "include"
    BY <1>4, <1>7
  <2> QED
    BY <1>5, <1>7, <2>1 DEF Includes
<1>8. CASE r.kind = "malformed"
  <2>1. CheckPackageRelation(x, r) = "none"
    BY <1>4, <1>8
  <2> QED
    BY <1>5, <1>8, <2>1 DEF Includes
<1>9. CASE r.kind \in {"name", "!", "condition"} /\ r.name # x[1]
  <2>1. CheckPackageRelation(x, r) = "none"
    BY <1>4, <1>9
  <2> QED
    BY <1>5, <1>9, <2>1 DEF Includes
<1>10. CASE r.kind = "name" /\ r.name = x[1]
  <2>1. CheckPackageRelation(x, r) = "include"
    BY <1>4, <1>10
  <2> QED
    BY <1>5, <1>10, <2>1 DEF Includes
<1>11. CASE r.kind = "!" /\ r.name = x[1]
  <2>1. CheckPackageRelation(x, r) = "exclude"
    BY <1>4, <1>11
  <2> QED
    BY <1>5, <1>11, <2>1 DEF Includes
<1>12. CASE r.kind = "condition" /\ r.name = x[1]
  <2>1. CheckPackageRelation(x, r) = IF fails THEN "exclude" ELSE "none"
    BY <1>4, <1>6, <1>12
  <2> QED
    BY <1>5, <1>12, <2>1 DEF Includes
<1> QED
  BY <1>3, <1>7, <1>8, <1>9, <1>10, <1>11, <1>12

\* A specification file lets the same packages through.
LEMMA FiltersAgree ==
  ASSUME NEW x \in NVA, options \in Options
  PROVE  AllowedByPolicy(x) <=> Allowed(x)
<1> DEFINE spec == options.spec
<1>1. spec \in Seq(Relation)
  BY DEF Options
<1>2. /\ AllowedByPolicy(x) <=>
           (options.filtered => \E i \in DOMAIN spec : Includes(spec[i], x) /\ \A j \in 1 .. i : ~ Rejects(spec[j], x))
      /\ Allowed(x) <=>
           (options.filtered => \E i \in DOMAIN spec :
              CheckPackageRelation(x, spec[i]) = "include" /\ \A j \in 1 .. (i - 1) : CheckPackageRelation(x, spec[j]) = "none")
  BY Zenon DEF AllowedByPolicy, Allowed, MatchInclusionList, Includes
<1> HIDE DEF spec
<1>3. DOMAIN spec = 1 .. Len(spec) /\ Len(spec) \in Nat
  BY <1>1
<1>4. \A i \in DOMAIN spec :
        /\ CheckPackageRelation(x, spec[i]) = "include" <=> Includes(spec[i], x)
        /\ CheckPackageRelation(x, spec[i]) = "none" <=> ~ Includes(spec[i], x) /\ ~ Rejects(spec[i], x)
        /\ ~ (Includes(spec[i], x) /\ Rejects(spec[i], x))
  <2> SUFFICES ASSUME NEW i \in DOMAIN spec
               PROVE  /\ CheckPackageRelation(x, spec[i]) = "include" <=> Includes(spec[i], x)
                      /\ CheckPackageRelation(x, spec[i]) = "none" <=> ~ Includes(spec[i], x) /\ ~ Rejects(spec[i], x)
                      /\ ~ (Includes(spec[i], x) /\ Rejects(spec[i], x))
    OBVIOUS
  <2>1. spec[i] \in Relation
    BY <1>1
  <2> QED
    BY <2>1, LinesAgree
<1>5. ASSUME NEW i \in DOMAIN spec, Includes(spec[i], x), \A j \in 1 .. i : ~ Rejects(spec[j], x)
      PROVE  \E n \in DOMAIN spec : /\ CheckPackageRelation(x, spec[n]) = "include"
                                    /\ \A j \in 1 .. (n - 1) : CheckPackageRelation(x, spec[j]) = "none"
  <2> DEFINE I == {n \in DOMAIN spec : Includes(spec[n], x)}
  <2>1. I \in SUBSET Nat /\ i \in I
    BY <1>3, <1>5
  <2>2. PICK n \in I : \A m \in I : n <= m
    <3> HIDE DEF I
    <3> QED
      BY <2>1, NumbersHaveMinimum
  <2>3. n \in DOMAIN spec /\ n <= i /\ i \in Nat /\ n \in Nat
    BY <1>3, <2>1, <2>2
  <2>4. \A j \in 1 .. (n - 1) : j \in DOMAIN spec /\ j \in 1 .. i /\ ~ n <= j
    BY <1>3, <2>3
  <2>5. \A j \in 1 .. (n - 1) : ~ Includes(spec[j], x) /\ ~ Rejects(spec[j], x)
    BY <1>5, <2>2, <2>4
  <2> QED
    BY <1>4, <2>2, <2>3, <2>4, <2>5
<1>6. ASSUME NEW i \in DOMAIN spec, CheckPackageRelation(x, spec[i]) = "include",
             \A j \in 1 .. (i - 1) : CheckPackageRelation(x, spec[j]) = "none"
      PROVE  Includes(spec[i], x) /\ \A j \in 1 .. i : ~ Rejects(spec[j], x)
  <2>1. \A j \in 1 .. i : j = i \/ j \in 1 .. (i - 1)
    BY <1>3
  <2>2. \A j \in 1 .. i : j \in DOMAIN spec
    BY <1>3
  <2> QED
    BY <1>4, <1>6, <2>1, <2>2
<1> QED
  BY <1>2, <1>5, <1>6

\* The same packages are asked for.
LEMMA RequestsAgree ==
  ASSUME NEW x \in NVA, packages \subseteq NVA
  PROVE  AskedByPolicy(x) <=> Requested(x)
<1>1. \A y \in packages : AtMostByPolicy(x[2], y[2]) <=> AtMost(x[2], y[2])
  <2>1. \A y \in packages : x[2] \in Versions /\ y[2] \in Versions
    BY NVAParts
  <2> QED
    BY <2>1, OrdersAgree DEF AtMostByPolicy, AtMost
<1> QED
  BY <1>1 DEF AskedByPolicy, Requested

\* What is selected is, by Debian Policy, the latest version of all that were
\* asked for and allowed.
THEOREM LatestByPolicyHolds == Spec => []LatestByPolicy
<1>1. IInv /\ NeverUpgrades /\ NewestAllowed => LatestByPolicy
  <2> SUFFICES ASSUME TypeOK, NeverUpgrades, NewestAllowed, Settled, NEW x \in selected
               PROVE  /\ AskedByPolicy(x) /\ AllowedByPolicy(x)
                      /\ \A y \in known : Key(y) = Key(x) /\ AskedByPolicy(y) /\ AllowedByPolicy(y)
                                            => AtMostByPolicy(y[2], x[2])
    BY DEF IInv, LatestByPolicy
  <2>1. selected \subseteq NVA /\ known \subseteq NVA /\ packages \subseteq NVA /\ options \in Options
    BY DEF TypeOK
  <2>2. Requested(x) /\ Allowed(x)
    BY DEF NeverUpgrades
  <2>3. AskedByPolicy(x) /\ AllowedByPolicy(x)
    BY <2>1, <2>2, RequestsAgree, FiltersAgree
  <2>4. ASSUME NEW y \in known, Key(y) = Key(x), AskedByPolicy(y), AllowedByPolicy(y)
        PROVE  AtMostByPolicy(y[2], x[2])
    <3>1. Requested(y) /\ Allowed(y)
      BY <2>1, <2>4, RequestsAgree, FiltersAgree
    <3>2. AtMost(y[2], x[2])
      BY <2>4, <3>1 DEF NewestAllowed
    <3>3. x[2] \in Versions /\ y[2] \in Versions
      BY <2>1, NVAParts
    <3> QED
      BY <3>2, <3>3, OrdersAgree DEF AtMostByPolicy, AtMost
  <2> QED
    BY <2>3, <2>4
<1> QED
  BY <1>1, InvHolds, NeverUpgradesHolds, NewestAllowedHolds, PTL
=============================================================================
