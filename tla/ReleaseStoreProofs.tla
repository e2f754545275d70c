-------------------------- MODULE ReleaseStoreProofs --------------------------
(***************************************************************************)
(* Proofs about the commands of ReleaseStore, for every set of packages,   *)
(* components, architectures, tracks, aliases and processes and every      *)
(* bound MaxRelease.                                                       *)
(***************************************************************************)
EXTENDS ReleaseStoreProps, WellFoundedInduction, FiniteSetTheorems, TLAPS

\* The steps that write the tree of a release.
WriteTree(p) ==
  \/ \E l \in Leaves : OpenInfoFile(p, l)
  \/ WriteInfoFile(p)
  \/ OpenReleaseFile(p) \/ WriteReleaseFile(p)
  \/ SignReleaseFile(p) \/ SigningFails(p)

(***************************************************************************)
(* The helpers the actions are built from.                                 *)
(***************************************************************************)

\* A non-empty set of numbers up to N has a largest element: the one above
\* which the fewest numbers remain.
LEMMA BoundedSetHasMaximum ==
  ASSUME NEW N \in Nat, NEW T \in SUBSET (0 .. N), T # {}
  PROVE  \E x \in T : \A y \in T : y <= x
<1> DEFINE above(x) == (x + 1) .. N
           U == {above(x) : x \in T}
           R == StrictSubsetOrdering(0 .. N)
<1>1. U \subseteq FiniteSubsetsOf(0 .. N)
  <2>1. IsFiniteSet(0 .. N)
    BY FS_Interval
  <2>2. FiniteSubsetsOf(0 .. N) = SUBSET (0 .. N)
    BY <2>1, FS_FiniteSubsetsOfFinite
  <2>3. QED BY <2>2
<1>2. PICK A \in U : \A B \in U : <<B, A>> \notin R
  <2>1. IsWellFoundedOn(R, FiniteSubsetsOf(0 .. N))
    BY FS_StrictSubsetOrderingWellFounded
  <2>2. U # {}
    OBVIOUS
  <2> HIDE DEF U, R
  <2>3. QED BY <1>1, <2>1, <2>2, WFMin
<1>3. PICK x \in T : A = above(x)
  OBVIOUS
<1>4. ASSUME NEW y \in T, ~ y <= x
      PROVE  FALSE
  <2>1. above(y) \subseteq above(x) /\ above(y) # above(x)
    <3>1. x + 1 \in above(x) /\ x + 1 \notin above(y)
      BY <1>4
    <3>2. above(y) \subseteq above(x)
      BY <1>4
    <3>3. QED BY <3>1, <3>2
  <2>2. <<above(y), above(x)>> \in R
    BY <2>1 DEF StrictSubsetOrdering
  <2>3. QED BY <1>2, <1>3, <2>2
<1>5. QED BY <1>4

\* The next release number is not recorded; if the recorded numbers are an
\* initial segment, it is the first one after it.
LEMMA NextNumberIsFree ==
  ASSUME NEW t \in Tracks,
         NEW rel \in [Releases -> SUBSET Packages],
         Segment(rel),
         NextReleaseNumber(t, rel) \in Versions
  PROVE  /\ rel[<<t, NextReleaseNumber(t, rel)>>] = {}
         /\ \A u \in 0 .. (NextReleaseNumber(t, rel) - 1) : rel[<<t, u>>] # {}
<1> DEFINE used == {v \in Versions : rel[<<t, v>>] # {}}
           n == NextReleaseNumber(t, rel)
<1>1. CASE used = {}
  <2>1. n = 0
    BY <1>1 DEF NextReleaseNumber
  <2>2. QED BY <1>1, <2>1
<1>2. CASE used # {}
  <2>1. PICK m \in Versions : /\ n = 1 + m
                              /\ rel[<<t, m>>] # {}
                              /\ \A u \in Versions : rel[<<t, u>>] # {} => u <= m
    <3> DEFINE last == CHOOSE v \in used : \A u \in used : u <= v
    <3>1. \E x \in used : \A y \in used : y <= x
      BY <1>2, BoundedSetHasMaximum, ConstantsAssumption DEF Versions
    <3>2. last \in used /\ \A u \in used : u <= last
      BY <3>1
    <3>3. n = 1 + last
      BY <1>2 DEF NextReleaseNumber
    <3> HIDE DEF last
    <3>4. QED BY <3>2, <3>3
  <2> HIDE DEF n
  <2>2. m \in Nat /\ n \in Versions /\ n > m
    BY <2>1, ConstantsAssumption DEF Versions, n
  <2>3. rel[<<t, n>>] = {}
    BY <2>1, <2>2
  <2>4. \A u \in 0 .. (m - 1) : rel[<<t, u>>] # {}
    BY <2>1 DEF Segment
  <2>5. \A u \in 0 .. (n - 1) : u = m \/ u \in 0 .. (m - 1)
    BY <2>1, <2>2
  <2>6. QED BY <2>1, <2>3, <2>4, <2>5 DEF n
<1>3. QED BY <1>1, <1>2

\* An alias or number is resolved to a release number or to NoVersion.
LEMMA LookupAliasType ==
  ASSUME NEW c \in Cache, NEW t \in Tracks, NEW arg \in Versions \cup Names
  PROVE  LookupAlias(c, t, arg) \in Versions \cup {NoVersion}
BY DEF LookupAlias, Cache, Aliases

\* The empty repository and the idle commands have their types.
LEMMA InitialTypes == Init => TypeOK
BY ConstantsAssumption DEF Init, TypeOK, Disk, EmptyDisk, Cache, Jobs, NoJob, NoListing,
   Stages, Versions, Contents

\* The cached tables and the tables on disk have the same types.
LEMMA DiskType ==
  Disk \in Cache <=>
    /\ pool_pkg \in SUBSET Packages
    /\ pkg_info \in SUBSET Packages
    /\ pkg_deps \in SUBSET Packages
    /\ releases \in [Releases -> SUBSET Packages]
    /\ aliases \in [Aliases -> Versions \cup {NoVersion}]
BY DEF Disk, Cache

\* Starting a command stores a job and a package list.
LEMMA StartKeepsTypes ==
  ASSUME TypeOK, NEW p \in Procs, Start(p)
  PROVE  TypeOK'
<1>1. ASSUME NEW kind, NEW t \in Tracks, NEW n \in Names, NEW arg \in Versions \cup Names,
             NEW S \in SUBSET Packages, Begin(p, kind, t, n, arg, S)
      PROVE  TypeOK'
  <2>1. Disk' = Disk
    BY <1>1 DEF Begin, Disk, tables
  <2>2. [kind |-> kind, track |-> t, name |-> n, arg |-> arg] \in Jobs
    BY <1>1, ConstantsAssumption DEF Begin, Jobs
  <2>3. QED
    BY <1>1, <2>1, <2>2 DEF TypeOK, Begin, tables, dists, Stages
<1>2. Snapshot \in Tracks /\ latest \in Names
  BY ConstantsAssumption
<1>3. pkg_info \in SUBSET Packages /\ pool \in SUBSET Packages
  BY DiskType DEF TypeOK
<1>4. CASE StartCommit(p)
  BY <1>1, <1>2, <1>3, <1>4 DEF StartCommit
<1>5. CASE StartRebuild(p)
  BY <1>1, <1>2, <1>5 DEF StartRebuild
<1>6. CASE StartAlias(p)
  BY <1>1, <1>2, <1>6 DEF StartAlias
<1>7. CASE StartRefresh(p)
  BY <1>1, <1>2, <1>7 DEF StartRefresh
<1>8. CASE StartIndex(p)
  BY <1>1, <1>2, <1>3, <1>8 DEF StartIndex
<1>9. QED BY <1>4, <1>5, <1>6, <1>7, <1>8 DEF Start

\* Opening the tables copies them into the cache of the command.
LEMMA OpenKeepsTypes ==
  ASSUME TypeOK, NEW p \in Procs, Open(p)
  PROVE  TypeOK'
<1>1. ASSUME NEW next \in Stages, NEW S \in SUBSET Packages, NEW v \in Versions \cup {NoVersion},
             NEW work \in SUBSET (Packages \cup Entries \cup Aliases),
             NEW cached \in Cache, NEW changed \in SUBSET Tables,
             next \in {"rmtree", "write"} => v \in Versions, next # "release",
             next # "sign", next # "record",
             Opened(p, next, S, v, work, cached, changed)
      PROVE  TypeOK'
  <2>1. Disk' = Disk
    BY <1>1 DEF Opened, Disk, tables
  <2>2. QED
    BY <1>1, <2>1 DEF TypeOK, Opened, tables, dists
<1>2. /\ Disk \in Cache
      /\ "open" \in Stages /\ "close" \in Stages /\ "write" \in Stages
      /\ "rmtree" \in Stages /\ "refresh" \in Stages /\ "index" \in Stages
      /\ {"aliases"} \in SUBSET Tables
  BY DEF TypeOK, Stages, Tables
<1>3. CASE OpenCommit(p)
  <2>1. LeavesOf(pkgs[p]) \in SUBSET Entries
    BY DEF LeavesOf, Entries
  <2>2. pkgs[p] \in SUBSET Packages
    BY DEF TypeOK
  <2>3. NoVersion \in Versions \cup {NoVersion}
    OBVIOUS
  <2>4. CASE Opened(p, "close", {}, NoVersion, {}, Disk, {})
    BY <1>1, <1>2, <2>3, <2>4
  <2>5. CASE /\ Opened(p, "write", pkgs[p], NextReleaseNumber(job[p].track, releases),
                       LeavesOf(pkgs[p]), Disk, {})
             /\ NextReleaseNumber(job[p].track, releases) \in Versions
    BY <1>1, <1>2, <2>1, <2>2, <2>5
  <2>6. QED BY <1>3, <2>4, <2>5 DEF OpenCommit
<1>4. CASE OpenRebuild(p)
  <2> DEFINE v == LookupAlias(Disk, job[p].track, job[p].arg)
  <2>1. v \in Versions \cup {NoVersion}
    BY <1>2, LookupAliasType DEF TypeOK, Jobs
  <2>2. TreeEntries(<<job[p].track, v>>) \in SUBSET Entries
    BY DEF TreeEntries, Entries
  <2>3. v # NoVersion => releases[<<job[p].track, v>>] \in SUBSET Packages
    BY <2>1, DiskType DEF TypeOK, Jobs, Releases
  <2> HIDE DEF v
  <2>4. QED BY <1>1, <1>2, <1>4, <2>1, <2>2, <2>3 DEF OpenRebuild, v
<1>5. CASE OpenUpdate(p)
  <2> DEFINE a == <<job[p].track, job[p].name>>
             v == LookupAlias(Disk, job[p].track, job[p].arg)
             cached == [Disk EXCEPT !.aliases = [aliases EXCEPT ![a] = v]]
  <2>1. v \in Versions \cup {NoVersion}
    BY <1>2, LookupAliasType DEF TypeOK, Jobs
  <2> HIDE DEF v
  <2>2. cached \in Cache
    BY <2>1, <1>2 DEF Disk, Cache
  <2>3. RecordedAliases(cached) \in SUBSET Aliases
    BY DEF RecordedAliases
  <2> HIDE DEF cached
  <2>4. QED BY <1>1, <1>2, <1>5, <2>1, <2>2, <2>3 DEF OpenUpdate, v, cached
<1>6. CASE OpenRemove(p)
  <2> DEFINE a == <<job[p].track, job[p].name>>
             cached == [Disk EXCEPT !.aliases = [aliases EXCEPT ![a] = NoVersion]]
  <2>1. cached \in Cache
    BY <1>2 DEF Disk, Cache
  <2> HIDE DEF cached
  <2>2. NoVersion \in Versions \cup {NoVersion}
    OBVIOUS
  <2>3. CASE Opened(p, "close", {}, NoVersion, {}, cached, {"aliases"})
    BY <1>1, <1>2, <2>1, <2>2, <2>3
  <2>4. CASE Opened(p, "close", {}, NoVersion, {}, Disk, {})
    BY <1>1, <1>2, <2>2, <2>4
  <2>5. QED BY <1>6, <2>3, <2>4 DEF OpenRemove, cached
<1>7. CASE OpenRefresh(p)
  BY <1>1, <1>2, <1>7 DEF OpenRefresh, RecordedAliases
<1>8. CASE OpenIndex(p)
  <2>1. PICK retry \in SUBSET pkgs[p] :
          Opened(p, "index", {}, NoVersion, (pkgs[p] \ pool_pkg) \cup retry, Disk, {})
    BY <1>8 DEF OpenIndex
  <2>2. (pkgs[p] \ pool_pkg) \cup retry \in SUBSET (Packages \cup Entries \cup Aliases)
    <3>1. pkgs[p] \in SUBSET Packages
      BY DEF TypeOK
    <3>2. QED BY <3>1
  <2>3. NoVersion \in Versions \cup {NoVersion} /\ {} \in SUBSET Packages /\ {} \in SUBSET Tables
    OBVIOUS
  <2>4. QED BY <1>1, <1>2, <2>1, <2>2, <2>3
<1>9. QED BY <1>3, <1>4, <1>5, <1>6, <1>7, <1>8 DEF Open

\* Indexing and generating a release.
LEMMA BuildKeepsTypes ==
  ASSUME TypeOK, NEW p \in Procs,
         \/ \E x \in Packages, readable \in BOOLEAN : IndexBinary(p, x, readable)
         \/ IndexDone(p)
         \/ \E e \in Entries : RemoveEntry(p, e) \/ KeepEntry(p, e)
         \/ RebuildTree(p)
         \/ WriteTree(p)
         \/ RecordRelease(p)
  PROVE  TypeOK'
<1>1. Disk' = Disk
  BY DEF Disk, tables, IndexBinary, IndexDone, RemoveEntry, RebuildTree, WriteInfoFile,
         KeepEntry, RecordRelease, WriteTree, OpenInfoFile, WriteInfoFile, OpenReleaseFile,
         WriteReleaseFile, SignReleaseFile, SigningFails, TreeDone
<1>2. CASE \E x \in Packages, readable \in BOOLEAN : IndexBinary(p, x, readable)
  <2>1. PICK x \in Packages, readable \in BOOLEAN : IndexBinary(p, x, readable)
    BY <1>2
  <2>2. view[p] \in Cache /\ dirty[p] \in SUBSET Tables /\ pkgs[p] \in SUBSET Packages
    BY DEF TypeOK
  <2>3. CASE readable
    <3>1. [view[p] EXCEPT !.pool_pkg = @ \cup {x}, !.pkg_info = @ \cup {x},
                          !.pkg_deps = @ \cup {x}] \in Cache
      BY <2>1, <2>2 DEF Cache
    <3>2. view' \in [Procs -> Cache]
      BY <2>1, <2>3, <3>1 DEF TypeOK, IndexBinary
    <3>3. dirty[p] \cup {"pool_pkg", "pkg_info", "pkg_deps"} \in SUBSET Tables
      BY <2>2 DEF Tables
    <3>4. dirty' \in [Procs -> SUBSET Tables]
      BY <2>1, <2>3, <3>3 DEF TypeOK, IndexBinary
    <3>5. pkgs[p] \cup {x} \in SUBSET Packages
      BY <2>2
    <3>6. pkgs' \in [Procs -> SUBSET Packages]
      <4>1. pkgs' = [pkgs EXCEPT ![p] = pkgs[p] \cup {x}]
        BY <2>1, <2>3 DEF TypeOK, IndexBinary
      <4>2. QED BY <3>5, <4>1 DEF TypeOK
    <3>7. QED BY <1>1, <2>1, <3>2, <3>4, <3>6 DEF TypeOK, IndexBinary, dists
  <2>4. CASE ~ readable
    <3>1. [view[p] EXCEPT !.pool_pkg = @ \cup {x}] \in Cache
      BY <2>1, <2>2 DEF Cache
    <3>2. view' \in [Procs -> Cache]
      BY <2>1, <2>4, <3>1 DEF TypeOK, IndexBinary
    <3>3. dirty[p] \cup {"pool_pkg"} \in SUBSET Tables
      BY <2>2 DEF Tables
    <3>4. dirty' \in [Procs -> SUBSET Tables]
      BY <2>1, <2>4, <3>3 DEF TypeOK, IndexBinary
    <3>5. QED BY <1>1, <2>1, <2>4, <3>2, <3>4 DEF TypeOK, IndexBinary, dists
  <2>5. QED BY <2>3, <2>4
<1>3. CASE IndexDone(p)
  <2>1. SelectLatestPackages(view[p].pkg_info) \in SUBSET Packages
    BY DEF TypeOK, SelectLatestPackages, Cache
  <2>2. QED BY <1>1, <1>3, <2>1 DEF TypeOK, IndexDone, dists, Stages
<1>4. CASE \E e \in Entries : RemoveEntry(p, e) \/ KeepEntry(p, e)
  <2>1. PICK e \in Entries : RemoveEntry(p, e) \/ KeepEntry(p, e)
    BY <1>4
  <2>2. CASE RemoveEntry(p, e)
    <3>1. leaf' \in [Releases -> [Leaves -> Contents]]
      BY <2>2 DEF TypeOK, RemoveEntry, Contents
    <3>2. /\ top' \in [Releases -> [Leaves -> Contents] \cup {Missing, Partial}]
          /\ signed' \in [Releases -> BOOLEAN]
      BY <2>2 DEF TypeOK, RemoveEntry
    <3>3. todo' \in [Procs -> SUBSET (Packages \cup Entries \cup Aliases)]
      BY <2>2 DEF TypeOK, RemoveEntry
    <3>4. QED BY <1>1, <2>2, <3>1, <3>2, <3>3 DEF TypeOK, RemoveEntry
  <2>3. CASE KeepEntry(p, e)
    BY <1>1, <2>3 DEF TypeOK, KeepEntry, dists
  <2>4. QED BY <2>1, <2>2, <2>3
<1>5. LeavesOf(pkgs[p]) \in SUBSET Entries
  BY DEF LeavesOf, Entries
<1>6. CASE RebuildTree(p)
  BY <1>1, <1>5, <1>6 DEF TypeOK, RebuildTree, dists, Stages
<1>7. CASE (\E l \in Leaves : OpenInfoFile(p, l)) \/ WriteInfoFile(p)
  <2>1. leaf' \in [Releases -> [Leaves -> Contents]]
    <3>1. ASSUME NEW l, NEW c \in Contents, leaf' = [leaf EXCEPT ![Target(p)][l] = c]
          PROVE  leaf' \in [Releases -> [Leaves -> Contents]]
      BY <3>1 DEF TypeOK
    <3>2. Partial \in Contents
      BY DEF Contents
    <3>3. CASE WriteInfoFile(p)
      BY <3>1, <3>3 DEF WriteInfoFile
    <3>4. CASE \E l \in Leaves : OpenInfoFile(p, l)
      BY <3>1, <3>2, <3>4 DEF OpenInfoFile
    <3>5. QED BY <1>7, <3>3, <3>4
  <2>2. cur' \in [Procs -> Aliases \cup Leaves \cup {NoEntry}]
    BY <1>7 DEF TypeOK, OpenInfoFile, WriteInfoFile
  <2>3. todo' \in [Procs -> SUBSET (Packages \cup Entries \cup Aliases)]
    <3>1. todo[p] \in SUBSET (Packages \cup Entries \cup Aliases)
      BY DEF TypeOK
    <3>2. todo' = todo \/ \E l : todo' = [todo EXCEPT ![p] = todo[p] \ {l}]
      BY <1>7 DEF TypeOK, OpenInfoFile, WriteInfoFile
    <3>3. QED BY <3>1, <3>2 DEF TypeOK
  <2>4. QED BY <1>1, <1>7, <2>1, <2>2, <2>3 DEF TypeOK, OpenInfoFile, WriteInfoFile
<1>8. CASE OpenReleaseFile(p) \/ WriteReleaseFile(p) \/ SignReleaseFile(p) \/ SigningFails(p)
  <2>1. leaf' = leaf
    BY <1>8 DEF OpenReleaseFile, WriteReleaseFile, SignReleaseFile, SigningFails, TreeDone
  <2>2. NoListing \in [Leaves -> Contents]
    BY DEF NoListing, Contents
  <2>3. leaf[Target(p)] \in [Leaves -> Contents] \/ Target(p) \notin Releases
    BY DEF TypeOK
  <2>4. CASE OpenReleaseFile(p)
    <3>1. job[p].track \in Tracks
      BY DEF TypeOK, Jobs
    <3>2. Target(p) \in Releases
      BY <2>4, <3>1 DEF TypeOK, OpenReleaseFile, Target, Releases
    <3>3. prints' \in [Procs -> [Leaves -> Contents]]
      BY <2>3, <2>4, <3>2 DEF TypeOK, OpenReleaseFile
    <3>4. /\ top' \in [Releases -> [Leaves -> Contents] \cup {Missing, Partial}]
          /\ signed' \in [Releases -> BOOLEAN]
      BY <2>4 DEF TypeOK, OpenReleaseFile
    <3>5. QED BY <1>1, <2>1, <2>4, <3>3, <3>4 DEF TypeOK, OpenReleaseFile, Stages
  <2>5. CASE WriteReleaseFile(p)
    <3>1. prints[p] \in [Leaves -> Contents]
      BY DEF TypeOK
    <3>2. /\ top' \in [Releases -> [Leaves -> Contents] \cup {Missing, Partial}]
          /\ signed' \in [Releases -> BOOLEAN]
      BY <2>5, <3>1 DEF TypeOK, WriteReleaseFile
    <3>3. prints' \in [Procs -> [Leaves -> Contents]]
      BY <2>2, <2>5 DEF TypeOK, WriteReleaseFile
    <3>4. QED BY <1>1, <2>1, <2>5, <3>2, <3>3 DEF TypeOK, WriteReleaseFile, Stages
  <2>6. CASE SignReleaseFile(p) \/ SigningFails(p)
    <3>1. signed' \in [Releases -> BOOLEAN]
      BY <2>6 DEF TypeOK, SignReleaseFile, SigningFails
    <3>2. QED
      BY <1>1, <2>1, <2>6, <3>1 DEF TypeOK, SignReleaseFile, SigningFails, TreeDone, Stages
  <2>7. QED BY <1>8, <2>4, <2>5, <2>6
<1>9. CASE RecordRelease(p)
  <2>1. view' \in [Procs -> Cache]
    BY <1>9 DEF TypeOK, RecordRelease, Cache
  <2>2. dirty' \in [Procs -> SUBSET Tables]
    BY <1>9 DEF TypeOK, RecordRelease, Tables
  <2>3. QED BY <1>1, <1>9, <2>1, <2>2 DEF TypeOK, RecordRelease, dists, Stages
<1>10. QED BY <1>2, <1>3, <1>4, <1>6, <1>7, <1>8, <1>9 DEF WriteTree

\* Refreshing aliases and closing the tables.
LEMMA EndKeepsTypes ==
  ASSUME TypeOK, NEW p \in Procs,
         \/ \E a \in Aliases : RemoveLink(p, a)
         \/ CreateLink(p)
         \/ LinkExists(p)
         \/ RefreshDone(p)
         \/ \E tb \in Tables : CloseTable(p, tb)
         \/ Finish(p)
         \/ CommitSnapshot(p)
         \/ Fail(p)
         \/ Crash(p)
  PROVE  TypeOK'
<1>1. CASE \E a \in Aliases : RemoveLink(p, a)
  <2>1. PICK a \in Aliases : RemoveLink(p, a)
    BY <1>1
  <2>2. Disk' = Disk
    BY <2>1 DEF Disk, tables, RemoveLink
  <2>3. QED BY <2>1, <2>2 DEF TypeOK, RemoveLink, Stages
<1>2. CASE CreateLink(p)
  <2>1. Disk' = Disk
    BY <1>2 DEF Disk, tables, CreateLink
  <2>2. view[p].aliases \in [Aliases -> Versions \cup {NoVersion}]
    BY DEF TypeOK, Cache
  <2>3. \A a \in Aliases : view[p].aliases[a] \in Versions \cup {NoVersion}
    BY <2>2
  <2>4. link' \in [Aliases -> Versions \cup {NoVersion}]
    BY <1>2, <2>3 DEF TypeOK, CreateLink
  <2>5. QED BY <1>2, <2>1, <2>4 DEF TypeOK, CreateLink, Stages
<1>3. CASE LinkExists(p) \/ RefreshDone(p)
  <2>1. Disk' = Disk
    BY <1>3 DEF Disk, tables, LinkExists, RefreshDone, LeaveLinks
  <2>2. QED BY <1>3, <2>1 DEF TypeOK, LinkExists, RefreshDone, LeaveLinks, dists, Stages
<1>4. CASE \E tb \in Tables : CloseTable(p, tb)
  <2>1. PICK tb \in Tables : CloseTable(p, tb)
    BY <1>4
  <2>2. Disk' \in Cache
    BY <2>1 DEF TypeOK, CloseTable, Disk, Cache
  <2>3. QED BY <2>1, <2>2 DEF TypeOK, CloseTable, dists
<1>5. EmptyDisk \in Cache /\ NoJob \in Jobs /\ NoListing \in [Leaves -> Contents]
  BY ConstantsAssumption DEF EmptyDisk, Cache, NoJob, Jobs, NoListing, Contents
<1>6. CASE Finish(p) \/ Crash(p)
  <2>1. Exit(p)
    BY <1>6 DEF Finish, Crash
  <2>2. Disk' = Disk
    BY <2>1 DEF Disk, tables, Exit
  <2>3. QED BY <1>5, <2>1, <2>2 DEF TypeOK, Exit, dists, Stages
<1>7. CASE CommitSnapshot(p)
  <2>1. Disk' = Disk
    BY <1>7 DEF Disk, tables, CommitSnapshot
  <2>2. ASSUME NEW j \in Jobs
        PROVE  [j EXCEPT !.kind = "commit", !.track = Snapshot] \in Jobs
    BY ConstantsAssumption DEF Jobs
  <2>3. job' \in [Procs -> Jobs]
    BY <1>7, <2>2 DEF TypeOK, CommitSnapshot
  <2>4. QED BY <1>7, <2>1, <2>3 DEF TypeOK, CommitSnapshot, dists, Stages
<1>8. CASE Fail(p)
  <2>1. Disk' = Disk
    BY <1>8 DEF Disk, tables, Fail
  <2>2. QED BY <1>5, <1>8, <2>1 DEF TypeOK, Fail, dists, Stages
<1>9. QED BY <1>1, <1>2, <1>3, <1>4, <1>6, <1>7, <1>8

\* Every step, a stuttering step included, preserves the types.
LEMMA TypesPreserved == TypeOK /\ [Next]_vars => TypeOK'
<1> SUFFICES ASSUME TypeOK, [Next]_vars
             PROVE  TypeOK'
  OBVIOUS
<1>1. CASE UNCHANGED vars
  BY <1>1 DEF TypeOK, Disk, vars, tables, dists, local
<1>2. ASSUME NEW x \in Packages, AddToPool(x)
      PROVE  TypeOK'
  BY <1>2 DEF TypeOK, AddToPool, Disk, tables, dists, local
<1>3. ASSUME NEW p \in Procs, Start(p) \/ Step(p) \/ Fault(p)
      PROVE  TypeOK'
  BY <1>3, StartKeepsTypes, OpenKeepsTypes, BuildKeepsTypes, EndKeepsTypes DEF Step, Fault, WriteTree
<1>4. QED BY <1>1, <1>2, <1>3 DEF Next, ReliableNext

\* The tables, the trees and the caches of the commands keep their types, for
\* any number of commands that overlap, fail or are killed.
THEOREM TypeCorrect == Spec => []TypeOK
BY InitialTypes, TypesPreserved, PTL DEF Spec
-----------------------------------------------------------------------------
(***************************************************************************)
(* Release numbers have no gaps.                                           *)
(***************************************************************************)

\* A command touches the local state of no other command.
LEMMA OthersUntouched ==
  ASSUME TypeOK, NEW p \in Procs, Start(p) \/ Step(p) \/ Fault(p),
         NEW q \in Procs, q # p
  PROVE  /\ pc'[q] = pc[q] /\ job'[q] = job[q] /\ pkgs'[q] = pkgs[q] /\ ver'[q] = ver[q]
         /\ view'[q] = view[q] /\ dirty'[q] = dirty[q] /\ todo'[q] = todo[q] /\ cur'[q] = cur[q]
         /\ prints'[q] = prints[q] /\ kept'[q] = kept[q]
<1>1. CASE Start(p)
  BY <1>1 DEF TypeOK, Start, StartCommit, StartRebuild, StartAlias, StartRefresh,
              StartIndex, Begin
<1>2. CASE Open(p)
  BY <1>2 DEF TypeOK, Open, OpenCommit, OpenRebuild, OpenUpdate, OpenRemove, OpenRefresh,
              OpenIndex, Opened
<1>3. CASE \E x \in Packages, readable \in BOOLEAN : IndexBinary(p, x, readable)
  BY <1>3 DEF TypeOK, IndexBinary
<1>4. CASE IndexDone(p) \/ RebuildTree(p) \/ WriteTree(p) \/ RecordRelease(p)
  BY <1>4 DEF TypeOK, IndexDone, RebuildTree, RecordRelease, WriteTree, OpenInfoFile, WriteInfoFile,
              OpenReleaseFile, WriteReleaseFile, SignReleaseFile, SigningFails, TreeDone
<1>5. CASE \/ \E e \in Entries : RemoveEntry(p, e) \/ KeepEntry(p, e)
           \/ \E a \in Aliases : RemoveLink(p, a)
  BY <1>5 DEF TypeOK, RemoveEntry, KeepEntry, RemoveLink
<1>6. CASE CreateLink(p) \/ LinkExists(p) \/ RefreshDone(p)
  BY <1>6 DEF TypeOK, CreateLink, LinkExists, RefreshDone, LeaveLinks
<1>7. CASE \E tb \in Tables : CloseTable(p, tb)
  BY <1>7 DEF TypeOK, CloseTable
<1>8. CASE Finish(p) \/ Crash(p)
  BY <1>8 DEF TypeOK, Finish, Crash, Exit
<1>9. CASE CommitSnapshot(p) \/ Fail(p)
  BY <1>9 DEF TypeOK, CommitSnapshot, Fail
<1>10. QED BY <1>1, <1>2, <1>3, <1>4, <1>5, <1>6, <1>7, <1>8, <1>9 DEF Step, Fault, WriteTree

\* Only closing a table writes dbs/.
LEMMA OnlyCloseWrites ==
  ASSUME NEW p \in Procs, Start(p) \/ Step(p) \/ Fault(p),
         ~ \E tb \in Tables : CloseTable(p, tb)
  PROVE  UNCHANGED tables
<1>1. CASE Start(p)
  BY <1>1 DEF Start, StartCommit, StartRebuild, StartAlias, StartRefresh, StartIndex, Begin
<1>2. CASE Open(p)
  BY <1>2 DEF Open, OpenCommit, OpenRebuild, OpenUpdate, OpenRemove, OpenRefresh, OpenIndex,
              Opened
<1>3. CASE \E x \in Packages, readable \in BOOLEAN : IndexBinary(p, x, readable)
  BY <1>3 DEF IndexBinary
<1>4. CASE IndexDone(p) \/ RebuildTree(p) \/ WriteTree(p) \/ RecordRelease(p)
  BY <1>4 DEF IndexDone, RebuildTree, RecordRelease, WriteTree, OpenInfoFile, WriteInfoFile,
              OpenReleaseFile, WriteReleaseFile, SignReleaseFile, SigningFails, TreeDone
<1>5. CASE \/ \E e \in Entries : RemoveEntry(p, e) \/ KeepEntry(p, e)
           \/ \E a \in Aliases : RemoveLink(p, a)
  BY <1>5 DEF RemoveEntry, KeepEntry, RemoveLink
<1>6. CASE CreateLink(p) \/ LinkExists(p) \/ RefreshDone(p)
  BY <1>6 DEF CreateLink, LinkExists, RefreshDone, LeaveLinks
<1>7. CASE Finish(p) \/ Crash(p)
  BY <1>7 DEF Finish, Crash, Exit
<1>8. CASE CommitSnapshot(p) \/ Fail(p)
  BY <1>8 DEF CommitSnapshot, Fail
<1>9. QED BY <1>1, <1>2, <1>3, <1>4, <1>5, <1>6, <1>7, <1>8 DEF Step, Fault, WriteTree

\* The numbers below a recorded one are recorded: a segment stays one when the
\* next release is added to it.
LEMMA SegmentGrows ==
  ASSUME NEW rel \in [Releases -> SUBSET Packages], Segment(rel),
         NEW t \in Tracks, NEW v \in Versions, NEW S \in SUBSET Packages, S # {},
         \A u \in 0 .. (v - 1) : rel[<<t, u>>] # {}
  PROVE  Segment([rel EXCEPT ![<<t, v>>] = S])
BY ConstantsAssumption DEF Segment, Releases, Versions

\* Opening the tables takes a copy of the releases table on disk, and a commit
\* gets the number that follows it.
LEMMA OpenKeepsNumbered ==
  ASSUME TypeOK, NumberingInv, NEW p \in Procs, Open(p)
  PROVE  Numbered(p)'
<1>1. /\ Segment(releases)
      /\ releases \in [Releases -> SUBSET Packages]
      /\ job[p].track \in Tracks
  BY DiskType DEF TypeOK, NumberingInv, Jobs
<1>2. /\ view'[p].releases = releases
      /\ job'[p] = job[p]
  BY DEF TypeOK, Open, OpenCommit, OpenRebuild, OpenUpdate, OpenRemove, OpenRefresh,
         OpenIndex, Opened, Disk
<1>3. Segment(view[p].releases)'
  BY <1>1, <1>2 DEF Segment
<1>4. CASE OpenCommit(p)
  <2> DEFINE number == NextReleaseNumber(job[p].track, releases)
  <2>1. CASE pkgs[p] # {} /\ number \in Versions /\ Opened(p, "write", pkgs[p], number, LeavesOf(pkgs[p]), Disk, {})
    <3>1. \A u \in 0 .. (number - 1) : releases[<<job[p].track, u>>] # {}
      BY <1>1, <2>1, NextNumberIsFree
    <3>2. pc'[p] = "write" /\ pkgs'[p] # {} /\ ver'[p] = number
      BY <2>1 DEF TypeOK, Opened
    <3> HIDE DEF number
    <3>3. QED BY <1>2, <1>3, <2>1, <3>1, <3>2 DEF Numbered, Building
  <2>2. CASE Opened(p, "close", {}, NoVersion, {}, Disk, {})
    <3>1. pc'[p] = "close"
      BY <2>2 DEF TypeOK, Opened
    <3>2. QED BY <1>3, <3>1 DEF Numbered, Building
  <2>3. QED BY <1>4, <2>1, <2>2 DEF OpenCommit
<1>5. CASE OpenRebuild(p)
  <2>1. pc'[p] \in {"rmtree", "close"} /\ job[p].kind = "rebuild"
    BY <1>5 DEF TypeOK, OpenRebuild, Opened
  <2>2. QED BY <1>2, <1>3, <2>1 DEF Numbered, Building
<1>6. CASE OpenUpdate(p) \/ OpenRemove(p) \/ OpenRefresh(p) \/ OpenIndex(p)
  <2>1. pc'[p] \in {"close", "refresh", "index"}
    BY <1>6 DEF TypeOK, OpenUpdate, OpenRemove, OpenRefresh, OpenIndex, Opened
  <2>2. QED BY <1>3, <2>1 DEF Numbered, Building
<1>7. QED BY <1>4, <1>5, <1>6 DEF Open

\* The stages of a command before and after the tables are open.
LEMMA StepKeepsNumbered ==
  ASSUME TypeOK, NumberingInv, NEW p \in Procs, Start(p) \/ Step(p) \/ Fault(p)
  PROVE  Numbered(p)'
<1>1. Numbered(p)
  BY DEF NumberingInv
<1>2. CASE Start(p)
  <2>1. pc'[p] = "open" /\ view' = view
    BY <1>2 DEF TypeOK, Start, StartCommit, StartRebuild, StartAlias, StartRefresh,
                StartIndex, Begin
  <2>2. QED BY <1>1, <2>1 DEF Numbered, Building, Segment
<1>3. CASE Open(p)
  BY <1>3, OpenKeepsNumbered
<1>4. CASE \E x \in Packages, readable \in BOOLEAN : IndexBinary(p, x, readable)
  <2>1. pc'[p] = "index" /\ view'[p].releases = view[p].releases
    BY <1>4 DEF TypeOK, IndexBinary, Cache
  <2>2. QED BY <1>1, <2>1 DEF Numbered, Building, Segment
<1>5. CASE \/ IndexDone(p)
           \/ \E a \in Aliases : RemoveLink(p, a)
           \/ CreateLink(p)
           \/ LinkExists(p)
           \/ RefreshDone(p)
           \/ CommitSnapshot(p)
           \/ Fail(p)
  <2>1. pc'[p] \in {"close", "symlink", "refresh", "open"} /\ view' = view
    BY <1>5 DEF TypeOK, IndexDone, RemoveLink, CreateLink, LinkExists, RefreshDone,
                LeaveLinks, CommitSnapshot, Fail
  <2>2. QED BY <1>1, <2>1 DEF Numbered, Building, Segment
<1>6. CASE \/ \E e \in Entries : RemoveEntry(p, e) \/ KeepEntry(p, e)
           \/ \E tb \in Tables : CloseTable(p, tb)
  <2>1. UNCHANGED <<pc, job, pkgs, ver, view>>
    BY <1>6 DEF RemoveEntry, KeepEntry, CloseTable
  <2>2. QED BY <1>1, <2>1 DEF Numbered, Building, Segment
<1>7. CASE RebuildTree(p)
  <2>1. pc'[p] \in {"write", "close"} /\ job[p].kind = "rebuild" /\ UNCHANGED <<job, view>>
    BY <1>1, <1>7 DEF TypeOK, RebuildTree, Numbered
  <2>2. QED BY <1>1, <2>1 DEF Numbered, Building, Segment
<1>8. CASE WriteTree(p)
  <2>1. /\ pc'[p] \in {"write", "release", "sign", "record", "close"}
        /\ Building(p)' => Building(p)
        /\ UNCHANGED <<job, pkgs, ver, view>>
    BY <1>8 DEF TypeOK, Building, WriteTree, OpenInfoFile, WriteInfoFile, OpenReleaseFile,
                WriteReleaseFile, SignReleaseFile, SigningFails, TreeDone
  <2>2. QED BY <1>1, <2>1 DEF Numbered, Building, Segment
<1>9. CASE RecordRelease(p)
  <2> DEFINE rel == view[p].releases
             t == job[p].track
  <2>1. rel \in [Releases -> SUBSET Packages] /\ t \in Tracks /\ pkgs[p] \in SUBSET Packages
    BY DEF TypeOK, Cache, Jobs
  <2>2. Building(p)
    BY <1>9 DEF RecordRelease, Building
  <2>3. Segment([rel EXCEPT ![<<t, ver[p]>>] = pkgs[p]])
    BY <1>1, <2>1, <2>2, SegmentGrows DEF Numbered
  <2>4. pc'[p] = "refresh" /\ view'[p].releases = [rel EXCEPT ![<<t, ver[p]>>] = pkgs[p]]
    BY <1>9 DEF TypeOK, Cache, RecordRelease, Target
  <2>5. QED BY <2>3, <2>4 DEF Numbered, Building, Segment
<1>10. CASE Finish(p) \/ Crash(p)
  <2>1. pc'[p] = "idle" /\ view'[p] = EmptyDisk
    BY <1>10 DEF TypeOK, Finish, Crash, Exit
  <2>2. Segment(EmptyDisk.releases)
    BY DEF Segment, EmptyDisk, Releases
  <2>3. QED BY <2>1, <2>2 DEF Numbered, Building, Segment
<1>11. QED BY <1>2, <1>3, <1>4, <1>5, <1>6, <1>7, <1>8, <1>9, <1>10 DEF Step, Fault, WriteTree

\* No command breaks what another one holds, and a table that is written back
\* is a segment like the one it replaces.
LEMMA NumberingPreserved == TypeOK /\ NumberingInv /\ [Next]_vars => NumberingInv'
<1> SUFFICES ASSUME TypeOK, NumberingInv, [Next]_vars
             PROVE  NumberingInv'
  OBVIOUS
<1>1. CASE UNCHANGED vars
  BY <1>1 DEF NumberingInv, Numbered, Building, Segment, vars, tables, dists, local
<1>2. ASSUME NEW x \in Packages, AddToPool(x)
      PROVE  NumberingInv'
  BY <1>2 DEF AddToPool, NumberingInv, Numbered, Building, Segment, tables, dists, local
<1>3. ASSUME NEW p \in Procs, Start(p) \/ Step(p) \/ Fault(p)
      PROVE  NumberingInv'
  <2>1. Numbered(p)'
    BY <1>3, StepKeepsNumbered
  <2>2. ASSUME NEW q \in Procs, q # p
        PROVE  Numbered(q)'
    <3>1. Numbered(q)
      BY DEF NumberingInv
    <3>2. /\ pc'[q] = pc[q] /\ job'[q] = job[q] /\ pkgs'[q] = pkgs[q] /\ ver'[q] = ver[q]
          /\ view'[q] = view[q]
      BY <1>3, <2>2, OthersUntouched
    <3>3. QED BY <3>1, <3>2 DEF Numbered, Building, Segment
  <2>3. Segment(releases)'
    <3>1. CASE \E tb \in Tables : CloseTable(p, tb)
      <4>1. releases' = releases \/ releases' = view[p].releases
        BY <3>1 DEF CloseTable
      <4>2. QED BY <4>1 DEF NumberingInv, Numbered, Segment
    <3>2. CASE ~ \E tb \in Tables : CloseTable(p, tb)
      <4>1. releases' = releases
        BY <1>3, <3>2, OnlyCloseWrites DEF tables
      <4>2. QED BY <4>1 DEF NumberingInv, Segment
    <3>3. QED BY <3>1, <3>2
  <2>4. QED BY <2>1, <2>2, <2>3 DEF NumberingInv
<1>4. QED BY <1>1, <1>2, <1>3 DEF Next, ReliableNext

\* The empty tables are segments.
LEMMA InitialNumbering == Init => NumberingInv
<1> SUFFICES ASSUME Init
             PROVE  NumberingInv
  OBVIOUS
<1>1. Segment(EmptyDisk.releases)
  BY DEF Segment, EmptyDisk, Releases
<1>2. QED BY <1>1 DEF Init, NumberingInv, Numbered, Building

\* In a segment every recorded number but 0 has a recorded predecessor.
LEMMA SegmentHasNoGaps == Segment(releases) => NumbersContiguous
BY ConstantsAssumption DEF Segment, NumbersContiguous, Recorded, Versions

\* The numbering invariant holds however the commands overlap, fail or are
\* killed, and whichever of two writers of a table wins.
THEOREM NumberingCorrect == Spec => []NumberingInv
<1>1. Init => TypeOK /\ NumberingInv
  BY InitialTypes, InitialNumbering
<1>2. TypeOK /\ NumberingInv /\ [Next]_vars => (TypeOK /\ NumberingInv)'
  BY TypesPreserved, NumberingPreserved
<1>3. QED BY <1>1, <1>2, PTL DEF Spec

\* Release numbers of a track have no gaps: NextReleaseNumber never skips one,
\* and no lost update of the releases table takes one out of the middle.
THEOREM NoGaps == Spec => []NumbersContiguous
<1>1. NumberingInv => NumbersContiguous
  BY SegmentHasNoGaps DEF NumberingInv
<1>2. QED BY <1>1, NumberingCorrect, PTL
-----------------------------------------------------------------------------
(***************************************************************************)
(* An alias link leads to a release, as long as nobody rebuilds one.       *)
(***************************************************************************)

\* The kind of a command decides which stages it goes through.
LEMMA StepKeepsStaged ==
  ASSUME TypeOK, StagesInv, NEW p \in Procs, Start(p) \/ Step(p) \/ Fault(p)
  PROVE  Staged(p)'
<1>1. Staged(p)
  BY DEF StagesInv
<1>2. CASE Start(p)
  BY <1>1, <1>2 DEF TypeOK, MayStart, Start, StartCommit, StartRebuild, StartAlias, StartRefresh, StartIndex,
              Begin, Staged
<1>3. CASE Open(p)
  <2>1. job'[p] = job[p] /\ cur'[p] = cur[p] /\ pc[p] = "open"
    BY <1>3 DEF Open, OpenCommit, OpenRebuild, OpenUpdate, OpenRemove, OpenRefresh, OpenIndex,
                Opened
  <2>2. \/ pc'[p] = "close"
        \/ pc'[p] = "write" /\ job[p].kind = "commit"
        \/ pc'[p] = "rmtree" /\ job[p].kind = "rebuild"
        \/ pc'[p] = "refresh" /\ job[p].kind \in {"update", "refresh"}
        \/ pc'[p] = "index" /\ job[p].kind = "index"
    BY <1>3 DEF TypeOK, Open, OpenCommit, OpenRebuild, OpenUpdate, OpenRemove, OpenRefresh,
                OpenIndex, Opened
  <2>3. QED BY <1>1, <2>1, <2>2 DEF Staged
<1>4. CASE \E x \in Packages, readable \in BOOLEAN : IndexBinary(p, x, readable)
  BY <1>1, <1>4 DEF IndexBinary, Staged
<1>5. CASE IndexDone(p) \/ RebuildTree(p) \/ WriteTree(p) \/ RecordRelease(p)
  <2>1. job'[p] = job[p]
    BY <1>5 DEF IndexDone, RebuildTree, RecordRelease, WriteTree, OpenInfoFile, WriteInfoFile,
              OpenReleaseFile, WriteReleaseFile, SignReleaseFile, SigningFails, TreeDone
  <2>2. \/ pc'[p] = "close"
        \/ pc'[p] = "write" /\ job[p].kind = "rebuild"
        \/ pc'[p] \in {"write", "release", "sign"} /\ job[p].kind \in {"commit", "rebuild"}
        \/ pc'[p] \in {"record", "refresh"} /\ job[p].kind = "commit"
    BY <1>1, <1>5 DEF TypeOK, IndexDone, RebuildTree, RecordRelease, WriteTree, OpenInfoFile, WriteInfoFile,
              OpenReleaseFile, WriteReleaseFile, SignReleaseFile, SigningFails, TreeDone, Staged
  <2>3. CASE (\E l \in Leaves : OpenInfoFile(p, l)) \/ WriteInfoFile(p)
    <3>1. pc'[p] = "write" /\ cur'[p] \in (todo'[p] \cap Leaves) \cup {NoEntry}
      BY <2>3 DEF TypeOK, OpenInfoFile, WriteInfoFile
    <3>2. QED BY <1>1, <2>1, <2>2, <3>1 DEF Staged
  <2>4. CASE IndexDone(p) \/ RebuildTree(p) \/ RecordRelease(p)
    <3>1. cur'[p] = cur[p] /\ pc[p] \notin {"write", "symlink"}
      BY <2>4 DEF IndexDone, RebuildTree, RecordRelease
    <3>2. QED BY <1>1, <2>1, <2>2, <3>1 DEF Staged
  <2>5. CASE OpenReleaseFile(p) \/ WriteReleaseFile(p) \/ SignReleaseFile(p) \/ SigningFails(p)
    <3>1. cur'[p] = cur[p] /\ (pc[p] = "write" => todo[p] = {}) /\ pc'[p] # "write"
          /\ pc[p] # "symlink"
      BY <2>5 DEF TypeOK, OpenReleaseFile, WriteReleaseFile, SignReleaseFile, SigningFails, TreeDone
    <3>2. cur[p] = NoEntry
      BY <1>1, <3>1 DEF Staged
    <3>3. QED BY <1>1, <2>1, <2>2, <3>1, <3>2 DEF Staged
  <2>6. QED BY <1>5, <2>3, <2>4, <2>5 DEF WriteTree
<1>6. CASE \/ \E e \in Entries : RemoveEntry(p, e) \/ KeepEntry(p, e)
           \/ \E tb \in Tables : CloseTable(p, tb)
  BY <1>1, <1>6 DEF RemoveEntry, KeepEntry, CloseTable, Staged
<1>7. CASE \/ \E a \in Aliases : RemoveLink(p, a)
           \/ CreateLink(p)
           \/ LinkExists(p)
           \/ RefreshDone(p)
  BY <1>1, <1>7 DEF TypeOK, RemoveLink, CreateLink, LinkExists, RefreshDone, LeaveLinks, Staged
<1>8. CASE Finish(p) \/ Crash(p)
  BY <1>8 DEF TypeOK, Finish, Crash, Exit, NoJob, Staged
<1>9. CASE CommitSnapshot(p) \/ Fail(p)
  BY <1>1, <1>9 DEF TypeOK, Jobs, CommitSnapshot, Fail, AllClosed, Staged
<1>10. QED BY <1>2, <1>3, <1>4, <1>5, <1>6, <1>7, <1>8, <1>9 DEF Step, Fault, WriteTree

\* Every step keeps every command in the stages of its kind.
LEMMA StagesPreserved == TypeOK /\ StagesInv /\ [Next]_vars => StagesInv'
<1> SUFFICES ASSUME TypeOK, StagesInv, [Next]_vars
             PROVE  StagesInv'
  OBVIOUS
<1>1. CASE UNCHANGED local
  BY <1>1 DEF StagesInv, Staged, local
<1>2. ASSUME NEW p \in Procs, Start(p) \/ Step(p) \/ Fault(p)
      PROVE  StagesInv'
  <2>1. Staged(p)'
    BY <1>2, StepKeepsStaged
  <2>2. ASSUME NEW q \in Procs, q # p
        PROVE  Staged(q)'
    BY <1>2, <2>2, OthersUntouched DEF StagesInv, Staged
  <2>3. QED BY <2>1, <2>2 DEF StagesInv
<1>3. QED BY <1>1, <1>2 DEF Next, ReliableNext, AddToPool, vars

\* The stages of the commands, for any number of commands that overlap.
LEMMA StagesCorrect == Spec => []StagesInv
<1>1. Init => StagesInv
  BY DEF Init, NoJob, StagesInv, Staged
<1>2. QED BY <1>1, TypesPreserved, StagesPreserved, TypeCorrect, PTL DEF Spec

\* A command that builds a tree for a new release has packages to list.
LEMMA BuildsSomething ==
  ASSUME NumberingInv, StagesInv, "rebuild" \notin Commands, NEW p \in Procs
  PROVE  /\ pc[p] # "rmtree"
         /\ pc[p] \in {"write", "release", "sign", "record"} => pkgs[p] # {} /\ ver[p] \in Versions
BY DEF NumberingInv, Numbered, Building, StagesInv, Staged

\* Without rebuilds no Release file that is there goes away.
LEMMA TreesStay ==
  ASSUME TypeOK, NumberingInv, StagesInv, "rebuild" \notin Commands,
         NEW p \in Procs, Start(p) \/ Step(p) \/ Fault(p)
  PROVE  \A r \in Releases : top[r] # Missing => top'[r] # Missing
<1>1. CASE WriteTree(p)
  <2>1. prints[p] # Missing /\ Partial # Missing
    BY ConstantsAssumption DEF TypeOK
  <2>2. CASE OpenReleaseFile(p)
    BY <2>1, <2>2 DEF TypeOK, OpenReleaseFile
  <2>3. CASE WriteReleaseFile(p)
    BY <2>1, <2>3 DEF TypeOK, WriteReleaseFile
  <2>4. CASE ~ OpenReleaseFile(p) /\ ~ WriteReleaseFile(p)
    BY <1>1, <2>4 DEF WriteTree, OpenInfoFile, WriteInfoFile, SignReleaseFile, SigningFails,
                      TreeDone
  <2>5. QED BY <2>2, <2>3, <2>4
<1>3. CASE Open(p)
  BY <1>3 DEF Open, OpenCommit, OpenRebuild, OpenUpdate, OpenRemove, OpenRefresh, OpenIndex,
              Opened, dists
<1>4. CASE Start(p)
  BY <1>4 DEF Start, StartCommit, StartRebuild, StartAlias, StartRefresh, StartIndex, Begin,
              dists
<1>5. CASE \/ \E x \in Packages, readable \in BOOLEAN : IndexBinary(p, x, readable)
           \/ IndexDone(p)
           \/ RecordRelease(p)
           \/ \E tb \in Tables : CloseTable(p, tb)
  BY <1>5 DEF IndexBinary, IndexDone, RecordRelease, CloseTable, dists
<1>6. CASE \/ \E a \in Aliases : RemoveLink(p, a)
           \/ CreateLink(p)
           \/ LinkExists(p)
           \/ RefreshDone(p)
  BY <1>6 DEF RemoveLink, CreateLink, LinkExists, RefreshDone, LeaveLinks, dists
<1>7. CASE Finish(p) \/ Crash(p) \/ CommitSnapshot(p) \/ Fail(p)
  BY <1>7 DEF Finish, Crash, Exit, CommitSnapshot, Fail, dists
<1>8. CASE (\E e \in Entries : RemoveEntry(p, e) \/ KeepEntry(p, e)) \/ RebuildTree(p)
  BY <1>8, BuildsSomething DEF RemoveEntry, KeepEntry, RebuildTree
<1>9. QED BY <1>1, <1>3, <1>4, <1>5, <1>6, <1>7, <1>8 DEF Step, Fault, WriteTree

\* What an alias or a release argument is resolved to is recorded.
LEMMA LookupAliasRecorded ==
  ASSUME NEW c \in Cache, NEW t \in Tracks, NEW arg \in Versions \cup Names,
         LookupAlias(c, t, arg) # NoVersion
  PROVE  /\ LookupAlias(c, t, arg) \in Versions
         /\ c.releases[<<t, LookupAlias(c, t, arg)>>] # {}
<1>1. LookupAlias(c, t, arg) \in Versions
  BY LookupAliasType
<1>2. QED BY <1>1 DEF LookupAlias

\* Opening the tables takes a copy of the complete tables on disk.
LEMMA OpenKeepsPublished ==
  ASSUME TypeOK, StagesInv, PublishedInv, "rebuild" \notin Commands, NEW p \in Procs, Open(p)
  PROVE  Published(p)'
<1>1. Complete(Disk) /\ Disk \in Cache /\ job[p].track \in Tracks /\ job[p].name \in Names
      /\ job[p].arg \in Versions \cup Names
  BY DEF PublishedInv, TypeOK, Jobs
<1>2. top' = top
  BY DEF Open, OpenCommit, OpenRebuild, OpenUpdate, OpenRemove, OpenRefresh, OpenIndex,
         Opened, dists
<1>3. Disk.releases = releases /\ Disk.aliases = aliases
  BY DEF Disk
<1>4. CASE /\ view'[p] = Disk
           /\ pc'[p] \in {"close", "refresh", "index", "write"}
  <2>1. Complete(view[p])'
    BY <1>1, <1>2, <1>4 DEF Complete
  <2>2. QED BY <1>4, <2>1 DEF Published
<1>5. CASE OpenCommit(p) \/ OpenRefresh(p) \/ OpenIndex(p)
  BY <1>4, <1>5 DEF TypeOK, OpenCommit, OpenRefresh, OpenIndex, Opened
<1>6. CASE OpenRebuild(p)
  BY <1>6 DEF OpenRebuild, Opened, StagesInv, Staged
<1>7. ASSUME NEW v \in Versions \cup {NoVersion},
             v # NoVersion => releases[<<job[p].track, v>>] # {},
             view'[p] = [Disk EXCEPT !.aliases =
                           [aliases EXCEPT ![<<job[p].track, job[p].name>>] = v]],
             pc'[p] \in {"close", "refresh"}
      PROVE  Published(p)'
  <2>1. /\ view'[p].releases = releases
        /\ view'[p].aliases = [aliases EXCEPT ![<<job[p].track, job[p].name>>] = v]
    BY <1>7 DEF Disk
  <2>2. \A r \in Releases : view'[p].releases[r] # {} => top'[r] # Missing
    BY <1>1, <1>2, <1>3, <2>1 DEF Complete
  <2>3. ASSUME NEW a \in Aliases, view'[p].aliases[a] # NoVersion
        PROVE  top'[<<a[1], view'[p].aliases[a]>>] # Missing
    <3>1. CASE a = <<job[p].track, job[p].name>>
      <4>1. view'[p].aliases[a] = v /\ a[1] = job[p].track
        BY <1>1, <2>1, <3>1, DiskType DEF TypeOK
      <4>2. v \in Versions /\ releases[<<job[p].track, v>>] # {}
        BY <1>7, <2>3, <4>1
      <4>3. top[<<job[p].track, v>>] # Missing
        BY <1>1, <1>3, <4>2 DEF Complete, Releases
      <4>4. QED BY <1>2, <4>1, <4>3
    <3>2. CASE a # <<job[p].track, job[p].name>>
      <4>1. view'[p].aliases[a] = aliases[a]
        BY <1>1, <2>1, <3>2, DiskType DEF TypeOK
      <4>2. QED BY <1>1, <1>2, <1>3, <2>3, <4>1 DEF Complete
    <3>3. QED BY <3>1, <3>2
  <2>4. Complete(view[p])'
    BY <2>2, <2>3 DEF Complete
  <2>5. QED BY <1>7, <2>4 DEF Published
<1>8. CASE OpenUpdate(p)
  <2> DEFINE v == LookupAlias(Disk, job[p].track, job[p].arg)
  <2>1. v # NoVersion => v \in Versions /\ releases[<<job[p].track, v>>] # {}
    BY <1>1, <1>3, LookupAliasRecorded
  <2>2. v \in Versions \cup {NoVersion}
    BY <2>1
  <2>3. CASE v = NoVersion
    BY <1>4, <1>8, <2>3 DEF TypeOK, OpenUpdate, Opened
  <2>4. CASE v # NoVersion
    <3>1. /\ view'[p] = [Disk EXCEPT !.aliases =
                           [aliases EXCEPT ![<<job[p].track, job[p].name>>] = v]]
          /\ pc'[p] = "refresh"
      BY <1>8, <2>4 DEF TypeOK, OpenUpdate, Opened
    <3> HIDE DEF v
    <3>2. QED BY <1>7, <2>1, <2>2, <3>1
  <2>5. QED BY <2>3, <2>4
<1>9. CASE OpenRemove(p)
  <2>1. pc'[p] = "close"
    BY <1>9 DEF TypeOK, OpenRemove, Opened
  <2>2. \/ view'[p] = Disk
        \/ view'[p] = [Disk EXCEPT !.aliases =
                         [aliases EXCEPT ![<<job[p].track, job[p].name>>] = NoVersion]]
    BY <1>9 DEF TypeOK, OpenRemove, Opened
  <2>3. QED BY <1>4, <1>7, <2>1, <2>2
<1>10. QED BY <1>5, <1>6, <1>8, <1>9 DEF Open

\* What a command knows to be published stays published in every step that
\* changes neither its tables nor the release it builds.
LEMMA PublishedKept ==
  ASSUME TypeOK, NEW q \in Procs, Published(q),
         \A r \in Releases : top[r] # Missing => top'[r] # Missing,
         view'[q] = view[q],
         pc'[q] \in {"release", "sign", "record"} =>
           pc'[q] = pc[q] /\ Target(q)' = Target(q) /\ Target(q) \in Releases
  PROVE  Published(q)'
<1>1. view[q].releases \in [Releases -> SUBSET Packages]
      /\ view[q].aliases \in [Aliases -> Versions \cup {NoVersion}]
  BY DEF TypeOK, Cache
<1>2. Complete(view[q])
  BY DEF Published
<1>3. \A a \in Aliases : view[q].aliases[a] # NoVersion => <<a[1], view[q].aliases[a]>> \in Releases
  BY <1>1 DEF Aliases, Releases
<1>4. Complete(view[q])'
  BY <1>2, <1>3 DEF Complete
<1>5. CASE pc'[q] \notin {"release", "sign", "record"}
  BY <1>4, <1>5 DEF Published
<1>6. CASE pc'[q] \in {"release", "sign", "record"}
  BY <1>4, <1>6 DEF Published
<1>7. QED BY <1>5, <1>6

\* The stages of a commit up to its record: it opens the Release file before
\* it records the release.
LEMMA BuildKeepsPublished ==
  ASSUME TypeOK, NumberingInv, StagesInv, PublishedInv, "rebuild" \notin Commands,
         NEW p \in Procs, WriteTree(p) \/ RecordRelease(p)
  PROVE  Published(p)'
<1>1. Published(p) /\ pc[p] \in {"write", "release", "sign", "record"}
  BY DEF PublishedInv, WriteTree, OpenInfoFile, WriteInfoFile, OpenReleaseFile, WriteReleaseFile,
         SignReleaseFile, SigningFails, TreeDone, RecordRelease
<1>2. ver[p] \in Versions /\ job[p].track \in Tracks /\ Target(p) \in Releases
  BY <1>1, BuildsSomething DEF TypeOK, Jobs, Target, Releases
<1>3. \A r \in Releases : top[r] # Missing => top'[r] # Missing
  BY TreesStay DEF Step, Fault, WriteTree
<1>4. view[p].releases \in [Releases -> SUBSET Packages]
      /\ view[p].aliases \in [Aliases -> Versions \cup {NoVersion}]
  BY DEF TypeOK, Cache
<1>5. \A a \in Aliases : view[p].aliases[a] # NoVersion => <<a[1], view[p].aliases[a]>> \in Releases
  BY <1>4 DEF Aliases, Releases
<1>6. view'[p] = view[p] => Complete(view[p])'
  BY <1>1, <1>3, <1>4, <1>5 DEF Published, Complete
<1>7. CASE (\E l \in Leaves : OpenInfoFile(p, l)) \/ WriteInfoFile(p)
  <2>1. view' = view /\ pc'[p] = "write"
    BY <1>7 DEF OpenInfoFile, WriteInfoFile
  <2>2. QED BY <1>6, <2>1 DEF Published
<1>8. CASE OpenReleaseFile(p) \/ WriteReleaseFile(p) \/ SignReleaseFile(p) \/ SigningFails(p)
  <2>1. view' = view /\ UNCHANGED <<job, ver>>
    BY <1>8 DEF OpenReleaseFile, WriteReleaseFile, SignReleaseFile, SigningFails, TreeDone
  <2>2. Target(p)' = Target(p)
    BY <2>1 DEF Target
  <2>3. CASE OpenReleaseFile(p)
    <3>1. top'[Target(p)] = Partial /\ Partial # Missing
      BY <1>2, <2>3, ConstantsAssumption DEF TypeOK, OpenReleaseFile
    <3>2. QED BY <1>6, <2>1, <2>2, <3>1 DEF Published
  <2>4. CASE WriteReleaseFile(p) \/ SignReleaseFile(p) \/ SigningFails(p)
    <3>1. top[Target(p)] # Missing
      BY <1>1, <2>4 DEF Published, WriteReleaseFile, SignReleaseFile, SigningFails, TreeDone
    <3>2. top'[Target(p)] # Missing
      BY <1>2, <1>3, <3>1
    <3>3. QED BY <1>6, <2>1, <2>2, <3>2 DEF Published
  <2>5. QED BY <1>8, <2>3, <2>4
<1>9. CASE RecordRelease(p)
  <2>1. top' = top /\ pc'[p] = "refresh" /\ top[Target(p)] # Missing
    BY <1>1, <1>9 DEF TypeOK, RecordRelease, Published, dists
  <2>2. /\ view'[p].releases = [view[p].releases EXCEPT ![Target(p)] = pkgs[p]]
        /\ view'[p].aliases = [view[p].aliases EXCEPT ![<<job[p].track, latest>>] = ver[p]]
    BY <1>9 DEF TypeOK, Cache, RecordRelease
  <2>3. \A r \in Releases : view'[p].releases[r] # {} => top'[r] # Missing
    BY <1>1, <1>4, <2>1, <2>2 DEF Published, Complete
  <2>4. ASSUME NEW a \in Aliases, view'[p].aliases[a] # NoVersion
        PROVE  top'[<<a[1], view'[p].aliases[a]>>] # Missing
    <3>1. CASE a = <<job[p].track, latest>>
      <4>1. view'[p].aliases[a] = ver[p] /\ a[1] = job[p].track
        BY <1>4, <2>2, <3>1
      <4>2. QED BY <2>1, <4>1 DEF Target
    <3>2. CASE a # <<job[p].track, latest>>
      <4>1. view'[p].aliases[a] = view[p].aliases[a]
        BY <1>4, <2>2, <3>2
      <4>2. QED BY <1>1, <2>1, <2>4, <4>1 DEF Published, Complete
    <3>3. QED BY <3>1, <3>2
  <2>5. Complete(view[p])'
    BY <2>3, <2>4 DEF Complete
  <2>6. QED BY <2>1, <2>5 DEF Published
<1>10. QED BY <1>7, <1>8, <1>9 DEF WriteTree

\* Every step of a command leaves what it knows published.
LEMMA StepKeepsPublished ==
  ASSUME TypeOK, NumberingInv, StagesInv, PublishedInv, "rebuild" \notin Commands,
         NEW p \in Procs, Start(p) \/ Step(p) \/ Fault(p)
  PROVE  Published(p)'
<1>1. Published(p)
  BY DEF PublishedInv
<1>2. \A r \in Releases : top[r] # Missing => top'[r] # Missing
  BY TreesStay
<1>3. CASE Open(p)
  BY <1>3, OpenKeepsPublished
<1>4. CASE WriteTree(p) \/ RecordRelease(p)
  BY <1>4, BuildKeepsPublished
<1>5. CASE Start(p) \/ CommitSnapshot(p) \/ Fail(p) \/ IndexDone(p)
  <2>1. view' = view /\ pc'[p] \in {"open", "close"}
    BY <1>5 DEF TypeOK, Start, StartCommit, StartRebuild, StartAlias, StartRefresh, StartIndex,
                Begin, CommitSnapshot, Fail, IndexDone
  <2>2. QED BY <1>1, <1>2, <2>1, PublishedKept
<1>6. CASE \E x \in Packages, readable \in BOOLEAN : IndexBinary(p, x, readable)
  <2>1. /\ view'[p].releases = view[p].releases /\ view'[p].aliases = view[p].aliases
        /\ pc'[p] = "index" /\ top' = top
    BY <1>6 DEF TypeOK, Cache, IndexBinary, dists
  <2>2. Complete(view[p])'
    BY <1>1, <2>1 DEF Published, Complete
  <2>3. QED BY <2>1, <2>2 DEF Published
<1>7. CASE \/ \E a \in Aliases : RemoveLink(p, a)
           \/ CreateLink(p)
           \/ LinkExists(p)
           \/ RefreshDone(p)
           \/ \E tb \in Tables : CloseTable(p, tb)
  <2>1. view' = view /\ pc'[p] \in {"symlink", "refresh", "close"}
    BY <1>7 DEF TypeOK, RemoveLink, CreateLink, LinkExists, RefreshDone, LeaveLinks, CloseTable
  <2>2. QED BY <1>1, <1>2, <2>1, PublishedKept
<1>8. CASE Finish(p) \/ Crash(p)
  <2>1. view'[p] = EmptyDisk /\ pc'[p] = "idle"
    BY <1>8 DEF TypeOK, Finish, Crash, Exit
  <2>2. Complete(view[p])'
    BY <2>1 DEF Complete, EmptyDisk
  <2>3. QED BY <2>1, <2>2 DEF Published
<1>9. CASE (\E e \in Entries : RemoveEntry(p, e) \/ KeepEntry(p, e)) \/ RebuildTree(p)
  BY <1>9, BuildsSomething DEF RemoveEntry, KeepEntry, RebuildTree
<1>10. QED BY <1>3, <1>4, <1>5, <1>6, <1>7, <1>8, <1>9 DEF Step, Fault, WriteTree

\* A link is made to a release that the command knows; tables that reach the
\* disk name published releases only.
LEMMA PublishedPreserved ==
  ASSUME "rebuild" \notin Commands
  PROVE  TypeOK /\ NumberingInv /\ StagesInv /\ PublishedInv /\ [Next]_vars => PublishedInv'
<1> SUFFICES ASSUME TypeOK, NumberingInv, StagesInv, PublishedInv, [Next]_vars
             PROVE  PublishedInv'
  OBVIOUS
<1>1. CASE UNCHANGED <<tables, dists, local>>
  BY <1>1 DEF PublishedInv, Published, Complete, LinkLeadsToRelease, Target, Disk,
              tables, dists, local
<1>2. ASSUME NEW p \in Procs, Start(p) \/ Step(p) \/ Fault(p)
      PROVE  PublishedInv'
  <2>1. \A r \in Releases : top[r] # Missing => top'[r] # Missing
    BY <1>2, TreesStay
  <2>2. Published(p)'
    BY <1>2, StepKeepsPublished
  <2>3. ASSUME NEW q \in Procs, q # p
        PROVE  Published(q)'
    <3>1. Published(q)
      BY DEF PublishedInv
    <3>2. /\ pc'[q] = pc[q] /\ job'[q] = job[q] /\ pkgs'[q] = pkgs[q] /\ ver'[q] = ver[q]
          /\ view'[q] = view[q] /\ todo'[q] = todo[q]
      BY <1>2, <2>3, OthersUntouched
    <3>3. pc[q] \in {"release", "sign", "record"} => Target(q) \in Releases
      BY BuildsSomething DEF TypeOK, Jobs, Target, Releases
    <3>4. QED BY <2>1, <3>1, <3>2, <3>3, PublishedKept DEF Target
  <2>4. Complete(Disk)'
    <3>1. /\ releases' = releases \/ releases' = view[p].releases
          /\ aliases' = aliases \/ aliases' = view[p].aliases
      <4>1. CASE \E tb \in Tables : CloseTable(p, tb)
        BY <4>1 DEF CloseTable
      <4>2. CASE ~ \E tb \in Tables : CloseTable(p, tb)
        BY <1>2, <4>2, OnlyCloseWrites DEF tables
      <4>3. QED BY <4>1, <4>2
    <3>2. Complete(Disk) /\ Complete(view[p])
      BY DEF PublishedInv, Published
    <3>3. \A r \in Releases : releases'[r] # {} => top[r] # Missing
      BY <3>1, <3>2 DEF Complete, Disk
    <3>4. ASSUME NEW a \in Aliases, aliases'[a] # NoVersion
          PROVE  top[<<a[1], aliases'[a]>>] # Missing /\ <<a[1], aliases'[a]>> \in Releases
      <4>1. /\ aliases[a] \in Versions \cup {NoVersion}
            /\ view[p].aliases[a] \in Versions \cup {NoVersion}
        BY DiskType DEF TypeOK, Cache
      <4>2. QED BY <3>1, <3>2, <3>4, <4>1 DEF Complete, Disk, Aliases, Releases
    <3>5. QED BY <2>1, <3>3, <3>4 DEF Complete, Disk
  <2>5. LinkLeadsToRelease'
    <3>1. ASSUME NEW a \in Aliases
          PROVE  link'[a] \in {link[a], NoVersion} \/ link'[a] = view[p].aliases[a]
      <4>1. CASE \E b \in Aliases : RemoveLink(p, b)
        BY <4>1 DEF TypeOK, RemoveLink
      <4>2. CASE CreateLink(p)
        BY <4>2 DEF TypeOK, CreateLink
      <4>3. CASE Open(p)
        BY <4>3 DEF Open, OpenCommit, OpenRebuild, OpenUpdate, OpenRemove, OpenRefresh,
                    OpenIndex, Opened, dists
      <4>4. CASE Start(p)
        BY <4>4 DEF Start, StartCommit, StartRebuild, StartAlias, StartRefresh, StartIndex,
                    Begin, dists
      <4>5. CASE \/ \E x \in Packages, readable \in BOOLEAN : IndexBinary(p, x, readable)
                 \/ IndexDone(p)
                 \/ WriteTree(p)
                 \/ RecordRelease(p)
        BY <4>5 DEF IndexBinary, IndexDone, RecordRelease, WriteTree, OpenInfoFile,
                    WriteInfoFile, OpenReleaseFile, WriteReleaseFile, SignReleaseFile,
                    SigningFails, TreeDone, dists
      <4>6. CASE \/ LinkExists(p)
                 \/ RefreshDone(p)
                 \/ \E tb \in Tables : CloseTable(p, tb)
                 \/ Finish(p)
                 \/ Crash(p)
                 \/ CommitSnapshot(p)
                 \/ Fail(p)
        BY <4>6 DEF LinkExists, RefreshDone, LeaveLinks, CloseTable, Finish, Crash, Exit,
                    CommitSnapshot, Fail, dists
      <4>7. CASE (\E e \in Entries : RemoveEntry(p, e) \/ KeepEntry(p, e)) \/ RebuildTree(p)
        BY <4>7, BuildsSomething DEF RemoveEntry, KeepEntry, RebuildTree
      <4>8. QED BY <1>2, <4>1, <4>2, <4>3, <4>4, <4>5, <4>6, <4>7 DEF Step, Fault, WriteTree
    <3>2. ASSUME NEW t \in Tracks, NEW n \in Names, link'[<<t, n>>] # NoVersion
          PROVE  top'[<<t, link'[<<t, n>>]>>] # Missing
      <4> DEFINE a == <<t, n>>
      <4>1. a \in Aliases /\ a[1] = t
        BY DEF Aliases
      <4>2. /\ link[a] \in Versions \cup {NoVersion}
            /\ view[p].aliases[a] \in Versions \cup {NoVersion}
        BY <4>1 DEF TypeOK, Cache
      <4>3. CASE link'[a] = link[a]
        BY <2>1, <3>2, <4>2, <4>3 DEF PublishedInv, LinkLeadsToRelease, Releases
      <4>4. CASE link'[a] = view[p].aliases[a]
        BY <2>1, <3>2, <4>1, <4>2, <4>4 DEF PublishedInv, Published, Complete, Releases
      <4>5. QED BY <3>1, <3>2, <4>1, <4>3, <4>4
    <3>3. QED BY <3>2 DEF LinkLeadsToRelease
  <2>6. QED BY <2>2, <2>3, <2>4, <2>5 DEF PublishedInv
<1>3. QED BY <1>1, <1>2 DEF Next, ReliableNext, AddToPool, vars

\* As long as no release is rebuilt, an alias link never dangles, however the
\* commands overlap, fail or are killed: a commit moves the alias only when it
\* has written the Release file of its number, and no table that somebody holds
\* names a release that has none.  Whether the file is finished is not said.
THEOREM LinksLead == ASSUME "rebuild" \notin Commands PROVE Spec => []LinkLeadsToRelease
<1>1. Init => PublishedInv
  BY DEF Init, PublishedInv, Published, Complete, LinkLeadsToRelease, Disk, EmptyDisk, Aliases
<1>2. TypeOK /\ NumberingInv /\ StagesInv /\ PublishedInv /\ [Next]_vars => PublishedInv'
  BY PublishedPreserved
<1>3. PublishedInv => LinkLeadsToRelease
  BY DEF PublishedInv
<1>4. QED
  BY <1>1, <1>2, <1>3, TypeCorrect, NumberingCorrect, StagesCorrect, PTL DEF Spec
=============================================================================
