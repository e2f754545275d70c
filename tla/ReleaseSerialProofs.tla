-------------------------- MODULE ReleaseSerialProofs --------------------------
(***************************************************************************)
(* What holds while the administrators run one command at a time: a        *)
(* recorded release never changes, and the commands implement the          *)
(* append-only log of ReleaseLog.  Commands may still fail or be killed at *)
(* any step.                                                               *)
(***************************************************************************)
EXTENDS ReleaseStoreProofs

\* The part of a command's session that only concerns its own state and the
\* three tables that a release depends on.
LEMMA SessionKept ==
  ASSUME NEW p, Session(p),
         UNCHANGED <<pkg_info, pkg_deps, releases>>,
         view'[p] = view[p], dirty'[p] = dirty[p],
         pc'[p] = "index" => pc[p] = "index",
         Building(p)' => Building(p) /\ pkgs'[p] = pkgs[p] /\ Target(p)' = Target(p)
  PROVE  Session(p)'
<1>1. Extends(view[p].releases, releases)' <=> Extends(view[p].releases, releases)
  BY DEF Extends
<1>2. Building(p)' => dirty'[p] = {} /\ releases'[Target(p)'] = {} /\ Buildable(Disk', pkgs'[p])
  BY DEF Session, Buildable, Disk
<1>3. QED BY <1>1, <1>2 DEF Session

\* Opening the tables begins a session.
LEMMA OpenBeginsSession ==
  ASSUME TypeOK, NumberingInv, NEW p \in Procs, Open(p)
  PROVE  Session(p)'
<1>1. UNCHANGED <<pkg_info, pkg_deps, releases>> /\ job'[p] = job[p]
  BY DEF Open, OpenCommit, OpenRebuild, OpenUpdate, OpenRemove, OpenRefresh, OpenIndex,
         Opened, tables
<1>2. /\ view'[p].pkg_info = pkg_info
      /\ view'[p].pkg_deps = pkg_deps
      /\ view'[p].releases = releases
      /\ dirty'[p] \in {{}, {"aliases"}}
  BY DEF TypeOK, Open, OpenCommit, OpenRebuild, OpenUpdate, OpenRemove, OpenRefresh,
         OpenIndex, Opened, Disk
<1>3. Building(p)' => dirty'[p] = {} /\ releases[Target(p)'] = {} /\ Buildable(Disk, pkgs'[p])
  <2>1. CASE OpenCommit(p)
    <3> DEFINE number == NextReleaseNumber(job[p].track, releases)
    <3>1. CASE /\ Buildable(Disk, pkgs[p]) /\ number \in Versions
               /\ Opened(p, "write", pkgs[p], number, LeavesOf(pkgs[p]), Disk, {})
      <4>1. job[p].track \in Tracks /\ releases \in [Releases -> SUBSET Packages]
        BY DiskType DEF TypeOK, Jobs
      <4>2. releases[<<job[p].track, number>>] = {}
        BY <3>1, <4>1, NextNumberIsFree DEF NumberingInv
      <4>3. dirty'[p] = {} /\ ver'[p] = number /\ pkgs'[p] = pkgs[p]
        BY <3>1 DEF TypeOK, Opened
      <4> HIDE DEF number
      <4>4. QED BY <1>1, <3>1, <4>2, <4>3 DEF Target
    <3>2. CASE Opened(p, "close", {}, NoVersion, {}, Disk, {})
      <4>1. pc'[p] = "close"
        BY <3>2 DEF TypeOK, Opened
      <4>2. QED BY <4>1 DEF Building
    <3>3. QED BY <2>1, <3>1, <3>2 DEF OpenCommit
  <2>2. CASE OpenRebuild(p) \/ OpenUpdate(p) \/ OpenRemove(p) \/ OpenRefresh(p) \/ OpenIndex(p)
    <3>1. pc'[p] \in {"rmtree", "close", "refresh", "index"}
      BY <2>2 DEF TypeOK, OpenRebuild, OpenUpdate, OpenRemove, OpenRefresh, OpenIndex, Opened
    <3>2. QED BY <3>1 DEF Building
  <2>3. QED BY <2>1, <2>2 DEF Open
<1>4. QED BY <1>1, <1>2, <1>3 DEF Session, Buildable, Disk

\* Recording a release extends the cached releases table, which is still the
\* one on disk, by the next release of the track.
LEMMA RecordExtends ==
  ASSUME TypeOK, NumberingInv, NEW p \in Procs, Session(p), RecordRelease(p)
  PROVE  Session(p)'
<1> DEFINE t == job[p].track
           v == ver[p]
           S == pkgs[p]
<1>1. Building(p)
  BY DEF RecordRelease, Building
<1>2. /\ view[p].releases = releases
      /\ releases[<<t, v>>] = {}
      /\ S \subseteq pkg_info /\ S \subseteq pkg_deps
  BY <1>1 DEF Session, Buildable, Target, Disk
<1>3. /\ t \in Tracks /\ v \in Versions /\ S \in SUBSET Packages /\ S # {}
      /\ \A u \in 0 .. (v - 1) : releases[<<t, u>>] # {}
  BY <1>1, <1>2 DEF TypeOK, Jobs, NumberingInv, Numbered
<1>4. /\ view'[p].releases = [releases EXCEPT ![<<t, v>>] = S]
      /\ view'[p].pkg_info = view[p].pkg_info
      /\ view'[p].pkg_deps = view[p].pkg_deps
      /\ dirty'[p] = {"releases", "aliases"}
      /\ pc'[p] = "refresh"
  BY <1>2 DEF TypeOK, Cache, RecordRelease, Target
<1>5. UNCHANGED <<pkg_info, pkg_deps, releases>>
  BY DEF RecordRelease, tables
<1> HIDE DEF t, v, S
<1>6. Extends(view'[p].releases, releases)
  BY <1>2, <1>3, <1>4 DEF Extends
<1>7. Extends(view[p].releases, releases)'
  BY <1>5, <1>6 DEF Extends
<1>8. ~ Building(p)'
  BY <1>4 DEF Building
<1>9. QED BY <1>4, <1>5, <1>7, <1>8 DEF Session

\* Indexing a package touches the caches of three other tables.
LEMMA IndexKeepsSession ==
  ASSUME TypeOK, NEW p \in Procs, Session(p),
         NEW x \in Packages, NEW readable \in BOOLEAN, IndexBinary(p, x, readable)
  PROVE  Session(p)'
<1>1. /\ view[p].pkg_info \subseteq view'[p].pkg_info
      /\ view[p].pkg_deps \subseteq view'[p].pkg_deps
      /\ view'[p].releases = view[p].releases
  <2>1. view[p] \in Cache
    BY DEF TypeOK
  <2>2. CASE readable
    <3>1. view'[p] = [view[p] EXCEPT !.pool_pkg = @ \cup {x}, !.pkg_info = @ \cup {x},
                                     !.pkg_deps = @ \cup {x}]
      BY <2>2 DEF TypeOK, IndexBinary
    <3>2. QED BY <2>1, <3>1 DEF Cache
  <2>3. CASE ~ readable
    <3>1. view'[p] = [view[p] EXCEPT !.pool_pkg = @ \cup {x}]
      BY <2>3 DEF TypeOK, IndexBinary
    <3>2. QED BY <2>1, <3>1 DEF Cache
  <2>4. QED BY <2>2, <2>3
<1>2. dirty'[p] \subseteq dirty[p] \cup {"pool_pkg", "pkg_info", "pkg_deps"}
  BY DEF TypeOK, IndexBinary
<1>3. pc[p] = "index" /\ pc' = pc /\ UNCHANGED <<pkg_info, pkg_deps, releases>>
  BY DEF IndexBinary, tables
<1>4. "releases" \notin dirty[p] /\ "releases" \notin dirty'[p]
  BY <1>2, <1>3 DEF Session
<1>5. ~ Building(p)'
  BY <1>3 DEF Building
<1>6. QED BY <1>1, <1>3, <1>4, <1>5 DEF Session

\* A table that is written back contains what the table on disk did; when it is
\* the releases table, the tables of the packages are already on disk.
LEMMA CloseKeepsSession ==
  ASSUME TypeOK, NEW p \in Procs, Session(p), RecordedIsIndexed,
         NEW tb \in Tables, CloseTable(p, tb)
  PROVE  Session(p)' /\ RecordedIsIndexed'
<1>1. /\ pkg_info' = IF tb = "pkg_info" THEN view[p].pkg_info ELSE pkg_info
      /\ pkg_deps' = IF tb = "pkg_deps" THEN view[p].pkg_deps ELSE pkg_deps
      /\ releases' = IF tb = "releases" THEN view[p].releases ELSE releases
      /\ UNCHANGED <<pc, job, pkgs, ver, view>>
      /\ pc[p] = "close" /\ tb \in dirty[p]
      /\ dirty'[p] = dirty[p] \ {tb}
  BY DEF TypeOK, CloseTable
<1>2. ~ Building(p)'
  BY <1>1 DEF Building
<1>3. pkg_info \subseteq pkg_info' /\ pkg_deps \subseteq pkg_deps'
  BY <1>1 DEF Session
<1>4. pkg_info' \subseteq view[p].pkg_info /\ pkg_deps' \subseteq view[p].pkg_deps
  BY <1>1 DEF Session
<1>5. CASE tb = "releases"
  <2>1. UNCHANGED <<pkg_info, pkg_deps>> /\ releases' = view[p].releases
    BY <1>1, <1>5
  <2>2. PICK t \in Tracks, v \in Versions, S \in SUBSET Packages :
          S \subseteq pkg_info /\ S \subseteq pkg_deps /\ releases' = [releases EXCEPT ![<<t, v>>] = S]
    <3>1. Extends(releases', releases)
      BY <1>1, <1>5, <2>1 DEF Session
    <3>2. QED BY <3>1 DEF Extends
  <2>3. \A r \in Releases : releases'[r] = releases[r] \/ releases'[r] = S
    BY <2>2, DiskType DEF TypeOK, Releases
  <2>4. RecordedIsIndexed'
    BY <2>1, <2>2, <2>3 DEF RecordedIsIndexed
  <2>5. QED BY <1>1, <1>2, <1>4, <1>5, <2>1, <2>4 DEF Session
<1>6. CASE tb # "releases"
  <2>1. releases' = releases
    BY <1>1, <1>6
  <2>2. RecordedIsIndexed'
    BY <1>3, <2>1 DEF RecordedIsIndexed
  <2>3. "releases" \in dirty[p] => UNCHANGED <<pkg_info, pkg_deps>>
    BY <1>1, <1>6 DEF Session
  <2>4. "releases" \in dirty[p] =>
          Extends(view[p].releases, releases)' /\ dirty'[p] \subseteq {"releases", "aliases"}
    <3>1. "releases" \in dirty[p] =>
            Extends(view[p].releases, releases) /\ dirty[p] \subseteq {"releases", "aliases"}
      BY DEF Session
    <3>2. view' = view
      BY <1>1
    <3>3. ASSUME pkg_info' = pkg_info, pkg_deps' = pkg_deps
          PROVE  Extends(view[p].releases, releases)' <=> Extends(view[p].releases, releases)
      BY <2>1, <3>2, <3>3 DEF Extends
    <3>4. QED BY <1>1, <2>3, <3>1, <3>3
  <2>5. "releases" \in dirty'[p] <=> "releases" \in dirty[p]
    BY <1>1, <1>6
  <2>6. QED BY <1>1, <1>2, <1>4, <2>1, <2>2, <2>4, <2>5 DEF Session
<1>7. QED BY <1>5, <1>6

\* Every step of a command that runs alone, up to its end, keeps its session.
LEMMA StepKeepsSession ==
  ASSUME TypeOK, NumberingInv, RecordedIsIndexed, NEW p \in Procs,
         Start(p) \/ Step(p) \/ Fault(p),
         InSession(p) => Session(p)
  PROVE  InSession(p)' => Session(p)'
<1>1. CASE Start(p) \/ CommitSnapshot(p) \/ Finish(p) \/ Crash(p)
  <2>1. pc'[p] \in {"open", "idle"}
    BY <1>1 DEF TypeOK, Start, StartCommit, StartRebuild, StartAlias, StartRefresh,
                StartIndex, Begin, CommitSnapshot, Finish, Crash, Exit
  <2>2. QED BY <2>1 DEF InSession
<1>2. CASE Open(p)
  BY <1>2, OpenBeginsSession
<1>3. CASE \E x \in Packages, readable \in BOOLEAN : IndexBinary(p, x, readable)
  <2>1. Session(p)
    BY <1>3 DEF IndexBinary, InSession
  <2>2. QED BY <1>3, <2>1, IndexKeepsSession
<1>4. CASE \/ IndexDone(p)
           \/ \E a \in Aliases : RemoveLink(p, a)
           \/ CreateLink(p)
           \/ LinkExists(p)
           \/ RefreshDone(p)
           \/ Fail(p)
  <2>1. /\ pc'[p] \in {"close", "symlink", "refresh"}
        /\ UNCHANGED <<pkg_info, pkg_deps, releases, view, dirty>>
        /\ InSession(p)
    BY <1>4 DEF TypeOK, IndexDone, RemoveLink, CreateLink, LinkExists, RefreshDone,
                LeaveLinks, Fail, tables, InSession
  <2>2. ~ Building(p)'
    BY <2>1 DEF Building
  <2>3. QED BY <2>1, <2>2, SessionKept
<1>5. CASE \E e \in Entries : RemoveEntry(p, e) \/ KeepEntry(p, e)
  <2>1. /\ UNCHANGED <<pkg_info, pkg_deps, releases, view, dirty, pc, job, pkgs, ver>>
        /\ InSession(p)
    BY <1>5 DEF RemoveEntry, KeepEntry, tables, InSession
  <2>2. QED BY <2>1, SessionKept DEF Building, Target
<1>6. CASE RebuildTree(p)
  <2>1. /\ pc'[p] \in {"write", "close"} /\ job[p].kind = "rebuild"
        /\ UNCHANGED <<pkg_info, pkg_deps, releases, view, dirty, job>>
        /\ InSession(p)
    BY <1>6 DEF TypeOK, RebuildTree, NumberingInv, Numbered, tables, InSession
  <2>2. ~ Building(p)'
    BY <2>1 DEF Building
  <2>3. QED BY <2>1, <2>2, SessionKept
<1>7. CASE WriteTree(p)
  <2>1. /\ UNCHANGED <<pkg_info, pkg_deps, releases, view, dirty, job, pkgs, ver>>
        /\ InSession(p) /\ pc'[p] # "index"
        /\ Building(p)' => Building(p)
    <3>1. /\ UNCHANGED <<pkg_info, pkg_deps, releases, view, dirty, job, pkgs, ver>>
          /\ pc[p] \in {"write", "release", "sign"}
      BY <1>7 DEF WriteTree, OpenInfoFile, WriteInfoFile, OpenReleaseFile,
                  WriteReleaseFile, SignReleaseFile, SigningFails, TreeDone, tables
    <3>2. \/ pc'[p] \in {"write", "release", "sign", "close"}
          \/ pc'[p] = "record" /\ job[p].kind = "commit"
      BY <1>7 DEF TypeOK, WriteTree, OpenInfoFile, WriteInfoFile, OpenReleaseFile,
                  WriteReleaseFile, SignReleaseFile, SigningFails, TreeDone
    <3>3. QED BY <3>1, <3>2 DEF Building, InSession
  <2>2. QED BY <2>1, SessionKept DEF Target
<1>8. CASE RecordRelease(p)
  <2>1. Session(p)
    BY <1>8 DEF RecordRelease, InSession
  <2>2. QED BY <1>8, <2>1, RecordExtends
<1>9. CASE \E tb \in Tables : CloseTable(p, tb)
  <2>1. Session(p)
    BY <1>9 DEF CloseTable, InSession
  <2>2. QED BY <1>9, <2>1, CloseKeepsSession
<1>10. QED BY <1>1, <1>2, <1>3, <1>4, <1>5, <1>6, <1>7, <1>8, <1>9
         DEF Step, Fault, WriteTree

\* A command that takes a step other than its first is running.
LEMMA OnlyRunningStep ==
  ASSUME NEW p \in Procs, Step(p) \/ Fault(p)
  PROVE  pc[p] # "idle"
BY DEF Step, Fault, Open, OpenCommit, OpenRebuild, OpenUpdate, OpenRemove, OpenRefresh,
       OpenIndex, Opened, IndexBinary, IndexDone, RemoveEntry, KeepEntry, RebuildTree,
       OpenInfoFile, WriteInfoFile, OpenReleaseFile, WriteReleaseFile, SignReleaseFile,
       SigningFails, TreeDone, RecordRelease, RemoveLink, CreateLink, LinkExists, RefreshDone,
       CloseTable, Finish, CommitSnapshot, AllClosed, Fail, Crash

\* Without overlap the command that takes a step is the only one that runs.
LEMMA RunsAlone ==
  ASSUME Overlap = FALSE, OneAtATime, NEW p \in Procs,
         Start(p) \/ Step(p) \/ Fault(p),
         NEW q \in Procs, q # p
  PROVE  pc[q] = "idle"
<1>1. CASE Start(p)
  BY <1>1 DEF Start, StartCommit, StartRebuild, StartAlias, StartRefresh, StartIndex, Begin,
              MayStart
<1>2. CASE Step(p) \/ Fault(p)
  BY <1>2, OnlyRunningStep DEF OneAtATime
<1>3. QED BY <1>1, <1>2

\* A step of the only running command keeps the serial invariant.
LEMMA SerialPreserved ==
  ASSUME Overlap = FALSE
  PROVE  TypeOK /\ NumberingInv /\ SerialInv /\ [Next]_vars => SerialInv'
<1> SUFFICES ASSUME TypeOK, NumberingInv, SerialInv, [Next]_vars
             PROVE  SerialInv'
  OBVIOUS
<1>1. OneAtATime /\ RecordedIsIndexed
  BY DEF SerialInv
<1>2. CASE UNCHANGED <<tables, local>>
  <2>1. \A p \in Procs : InSession(p)' => Session(p)'
    BY <1>2, SessionKept DEF SerialInv, InSession, Building, Target, tables, local
  <2>2. QED BY <1>1, <1>2, <2>1 DEF SerialInv, OneAtATime, RecordedIsIndexed, tables, local
<1>3. ASSUME NEW p \in Procs, Start(p) \/ Step(p) \/ Fault(p)
      PROVE  SerialInv'
  <2>1. ASSUME NEW q \in Procs, q # p
        PROVE  pc'[q] = "idle"
    BY <1>1, <1>3, <2>1, RunsAlone, OthersUntouched
  <2>2. InSession(p)' => Session(p)'
    BY <1>1, <1>3, StepKeepsSession DEF SerialInv
  <2>3. \A q \in Procs : InSession(q)' => Session(q)'
    BY <2>1, <2>2 DEF InSession
  <2>4. OneAtATime'
    BY <2>1 DEF OneAtATime
  <2>5. RecordedIsIndexed'
    <3>1. CASE \E tb \in Tables : CloseTable(p, tb)
      <4>1. Session(p)
        BY <3>1 DEF SerialInv, CloseTable, InSession
      <4>2. QED BY <1>1, <3>1, <4>1, CloseKeepsSession
    <3>2. CASE ~ \E tb \in Tables : CloseTable(p, tb)
      BY <1>1, <1>3, <3>2, OnlyCloseWrites DEF RecordedIsIndexed, tables
    <3>3. QED BY <3>1, <3>2
  <2>6. QED BY <2>3, <2>4, <2>5 DEF SerialInv
<1>4. ASSUME NEW x \in Packages, AddToPool(x)
      PROVE  SerialInv'
  BY <1>2, <1>4 DEF AddToPool
<1>5. CASE UNCHANGED vars
  BY <1>2, <1>5 DEF vars
<1>6. QED BY <1>3, <1>4, <1>5 DEF Next, ReliableNext

\* In an empty repository nothing is recorded and nothing runs.
LEMMA InitialSerial == Init => SerialInv
BY DEF Init, EmptyDisk, SerialInv, OneAtATime, RecordedIsIndexed, InSession

\* The serial invariant is inductive together with the types and the numbering.
THEOREM SerialCorrect == ASSUME Overlap = FALSE PROVE Spec => []SerialInv
<1>1. Init => TypeOK /\ NumberingInv /\ SerialInv
  BY InitialTypes, InitialNumbering, InitialSerial
<1>2. TypeOK /\ NumberingInv /\ SerialInv /\ [Next]_vars
        => (TypeOK /\ NumberingInv /\ SerialInv)'
  BY TypesPreserved, NumberingPreserved, SerialPreserved
<1>3. QED BY <1>1, <1>2, PTL DEF Spec

\* Whatever fails in between, a rebuild finds every package of the release it
\* was asked for in the tables, so that deleting the old tree loses nothing.
THEOREM RecordsStayBuildable == ASSUME Overlap = FALSE PROVE Spec => []RecordedIsIndexed
<1>1. SerialInv => RecordedIsIndexed
  BY DEF SerialInv
<1>2. QED BY <1>1, SerialCorrect, PTL
-----------------------------------------------------------------------------
(***************************************************************************)
(* Refinement: closing a table is the only step that ReleaseLog sees.      *)
(***************************************************************************)

\* Closing pkg_info or pkg_deps adds to the index, closing releases publishes
\* the next release of a track; closing another table changes neither.
LEMMA CloseImplementsLog ==
  ASSUME TypeOK, NEW p \in Procs, Session(p), NEW tb \in Tables, CloseTable(p, tb)
  PROVE  Log!Next \/ UNCHANGED Log!lvars
<1>1. /\ pkg_info' = IF tb = "pkg_info" THEN view[p].pkg_info ELSE pkg_info
      /\ pkg_deps' = IF tb = "pkg_deps" THEN view[p].pkg_deps ELSE pkg_deps
      /\ releases' = IF tb = "releases" THEN view[p].releases ELSE releases
      /\ tb \in dirty[p]
  BY DEF CloseTable
<1>2. CASE tb = "releases"
  <2>1. Extends(releases', releases)
    BY <1>1, <1>2 DEF Session
  <2>2. PICK t \in Tracks, v \in Versions, S \in SUBSET Packages :
          /\ releases[<<t, v>>] = {}
          /\ \A u \in 0 .. (v - 1) : releases[<<t, u>>] # {}
          /\ S # {} /\ S \subseteq pkg_info /\ S \subseteq pkg_deps
          /\ releases' = [releases EXCEPT ![<<t, v>>] = S]
    BY <2>1 DEF Extends
  <2>3. Log!Publish(t, v, S)
    BY <1>1, <1>2, <2>2 DEF Log!Publish
  <2>4. QED BY <2>2, <2>3 DEF Log!Next, Versions
<1>3. CASE tb # "releases"
  <2>1. releases' = releases
    BY <1>1, <1>3
  <2>2. pkg_info \subseteq pkg_info' /\ pkg_deps \subseteq pkg_deps'
    BY <1>1 DEF Session
  <2>3. pkg_info' \subseteq Packages
    BY <1>1, DiskType DEF TypeOK, Cache
  <2>4. Log!IndexPackages
    BY <2>1, <2>2, <2>3 DEF Log!IndexPackages
  <2>5. QED BY <2>4 DEF Log!Next
<1>4. QED BY <1>2, <1>3

\* Every step of the commands is a step of the log or leaves it alone.
LEMMA StepImplementsLog ==
  ASSUME TypeOK, SerialInv, [Next]_vars
  PROVE  Log!Next \/ UNCHANGED Log!lvars
<1>1. CASE UNCHANGED tables
  BY <1>1 DEF tables, Log!lvars
<1>2. ASSUME NEW p \in Procs, Start(p) \/ Step(p) \/ Fault(p)
      PROVE  Log!Next \/ UNCHANGED Log!lvars
  <2>1. CASE \E tb \in Tables : CloseTable(p, tb)
    <3>1. Session(p)
      BY <2>1 DEF SerialInv, CloseTable, InSession
    <3>2. QED BY <2>1, <3>1, CloseImplementsLog
  <2>2. CASE ~ \E tb \in Tables : CloseTable(p, tb)
    BY <1>1, <1>2, <2>2, OnlyCloseWrites
  <2>3. QED BY <2>1, <2>2
<1>3. ASSUME NEW x \in Packages, AddToPool(x)
      PROVE  Log!Next \/ UNCHANGED Log!lvars
  BY <1>1, <1>3 DEF AddToPool
<1>4. CASE UNCHANGED vars
  BY <1>1, <1>4 DEF vars
<1>5. QED BY <1>2, <1>3, <1>4 DEF Next, ReliableNext

\* The empty repository is an empty log.
LEMMA InitialLog == Init => Log!Init
BY DEF Init, Log!Init, EmptyDisk, Releases, Versions

\* A step of the log changes no entry that is already there.
LEMMA LogAppends ==
  ASSUME TypeOK, Log!Next \/ UNCHANGED Log!lvars, NEW r \in Releases, Recorded(r)
  PROVE  releases'[r] = releases[r]
<1>1. CASE Log!IndexPackages \/ UNCHANGED Log!lvars
  BY <1>1 DEF Log!IndexPackages, Log!lvars
<1>2. ASSUME NEW t, NEW v, NEW S, Log!Publish(t, v, S)
      PROVE  releases'[r] = releases[r]
  <2>1. r # <<t, v>>
    BY <1>2 DEF Log!Publish, Recorded
  <2>2. QED BY <1>2, <2>1, DiskType DEF TypeOK, Log!Publish
<1>3. QED BY <1>1, <1>2 DEF Log!Next

\* While the administrators run one command at a time, the commands implement
\* the append-only log, however often they fail or are killed.
THEOREM SerialImplementsLog == ASSUME Overlap = FALSE PROVE Spec => ImplementsLog
<1>1. TypeOK /\ SerialInv /\ [Next]_vars => [Log!Next]_(Log!lvars)
  BY StepImplementsLog
<1>2. QED BY <1>1, InitialLog, TypeCorrect, SerialCorrect, PTL DEF Spec, ImplementsLog, Log!Spec

\* A release is immutable while one command runs at a time: no step changes or
\* drops its record.
THEOREM ReleasesImmutable == ASSUME Overlap = FALSE PROVE Spec => RecordImmutable
<1>1. ASSUME TypeOK, SerialInv, [Next]_vars
      PROVE  [\A r \in Releases : Recorded(r) => releases'[r] = releases[r]]_vars
  BY <1>1, StepImplementsLog, LogAppends
<1>2. QED BY <1>1, TypeCorrect, SerialCorrect, PTL DEF Spec, RecordImmutable
-----------------------------------------------------------------------------
(***************************************************************************)
(* The published trees of recorded releases.                               *)
(***************************************************************************)

\* Only a command that builds or removes a tree writes into one, and only into
\* the tree of its own release.
LEMMA OnlyTargetWritten ==
  ASSUME TypeOK, NEW p \in Procs, Start(p) \/ Step(p) \/ Fault(p),
         NEW r \in Releases, <<leaf[r], top[r], signed[r]>>' # <<leaf[r], top[r], signed[r]>>
  PROVE  pc[p] \in {"rmtree", "write", "release", "sign"} /\ Target(p) = r
<1>1. CASE Start(p)
  BY <1>1 DEF Start, StartCommit, StartRebuild, StartAlias, StartRefresh, StartIndex, Begin,
              dists
<1>2. CASE Open(p)
  BY <1>2 DEF Open, OpenCommit, OpenRebuild, OpenUpdate, OpenRemove, OpenRefresh, OpenIndex,
              Opened, dists
<1>3. CASE \/ \E x \in Packages, readable \in BOOLEAN : IndexBinary(p, x, readable)
           \/ IndexDone(p)
           \/ RebuildTree(p)
           \/ RecordRelease(p)
           \/ \E tb \in Tables : CloseTable(p, tb)
  BY <1>3 DEF IndexBinary, IndexDone, RebuildTree, RecordRelease, CloseTable, dists
<1>4. CASE \/ \E a \in Aliases : RemoveLink(p, a)
           \/ CreateLink(p)
           \/ LinkExists(p)
           \/ RefreshDone(p)
  BY <1>4 DEF RemoveLink, CreateLink, LinkExists, RefreshDone, LeaveLinks, dists
<1>5. CASE Finish(p) \/ Crash(p) \/ CommitSnapshot(p) \/ Fail(p)
  BY <1>5 DEF Finish, Crash, Exit, CommitSnapshot, Fail, dists
<1>6. CASE \E e \in Entries : RemoveEntry(p, e) \/ KeepEntry(p, e)
  BY <1>6 DEF TypeOK, RemoveEntry, KeepEntry, dists
<1>7. CASE WriteTree(p)
  BY <1>7 DEF TypeOK, WriteTree, OpenInfoFile, WriteInfoFile, OpenReleaseFile,
              WriteReleaseFile, SignReleaseFile, SigningFails, TreeDone
<1>8. QED BY <1>1, <1>2, <1>3, <1>4, <1>5, <1>6, <1>7 DEF Step, Fault, WriteTree

\* A commit that runs alone builds the tree of a number that has no record, so
\* the tree of a recorded release changes in a rebuild of it only.
LEMMA StepKeepsTrees ==
  ASSUME TypeOK, StagesInv, SerialInv, NEW p \in Procs,
         Start(p) \/ Step(p) \/ Fault(p),
         NEW r \in Releases, Recorded(r),
         <<leaf[r], top[r], signed[r]>>' # <<leaf[r], top[r], signed[r]>>
  PROVE  job[p].kind = "rebuild" /\ Target(p) = r
<1>1. pc[p] \in {"rmtree", "write", "release", "sign"} /\ Target(p) = r
  BY OnlyTargetWritten
<1>2. Session(p)
  BY <1>1 DEF SerialInv, InSession
<1>3. ~ Building(p)
  BY <1>1, <1>2 DEF Session, Recorded
<1>4. QED BY <1>1, <1>3 DEF Building, StagesInv, Staged

\* While the administrators run one command at a time, the published tree of a
\* recorded release changes only in a rebuild of that very release, whatever
\* fails or is killed.
THEOREM TreesImmutable == ASSUME Overlap = FALSE PROVE Spec => TreeImmutable
<1>1. ASSUME TypeOK, StagesInv, SerialInv, [Next]_vars,
             NEW r \in Releases, Recorded(r),
         <<leaf[r], top[r], signed[r]>>' # <<leaf[r], top[r], signed[r]>>
      PROVE  \E p \in Procs : job[p].kind = "rebuild" /\ Target(p) = r
  <2>1. PICK p \in Procs : Start(p) \/ Step(p) \/ Fault(p)
    BY <1>1 DEF Next, ReliableNext, AddToPool, vars, dists
  <2>2. QED BY <1>1, <2>1, StepKeepsTrees
<1>2. ASSUME TypeOK, StagesInv, SerialInv, [Next]_vars
      PROVE  [\A r \in Releases :
                Recorded(r) /\ <<leaf[r], top[r], signed[r]>>' # <<leaf[r], top[r], signed[r]>>
                  => \E p \in Procs : job[p].kind = "rebuild" /\ Target(p) = r]_vars
  BY <1>1, <1>2
<1>3. QED
  BY <1>2, TypeCorrect, StagesCorrect, SerialCorrect, PTL DEF Spec, TreeImmutable

\* What rmtree did not find in the tree was not there.
LEMMA NothingLeftOut ==
  ASSUME NEW r, NEW l \in Leaves \ TreeEntries(r)
  PROVE  leaf[r][l] = {}
BY DEF TreeEntries

\* The leaves that a package list does not have stay empty.
LEMMA NoLeafNoPackages ==
  ASSUME NEW S \in SUBSET Packages, NEW l \in Leaves \ LeavesOf(S)
  PROVE  Listing(S)[l] = {}
BY DEF LeavesOf, Listing

\* A step of a command that runs alone carries on the writing of a tree: the
\* file that it opens is empty until it writes it, nobody else truncates it.
LEMMA StepKeepsWriting ==
  ASSUME TypeOK, NEW p \in Procs, Staged(p), Writing(p), WriteTree(p)
  PROVE  Writing(p)'
<1>1. /\ UNCHANGED <<job, pkgs, ver, kept>> /\ pc[p] \in {"write", "release", "sign"}
      /\ Written(p)
  BY DEF WriteTree, OpenInfoFile, WriteInfoFile, OpenReleaseFile, WriteReleaseFile,
         SignReleaseFile, SigningFails, TreeDone, Writing
<1>2. Target(p) \in Releases
  BY <1>1 DEF TypeOK, Jobs, Target, Releases
<1>3. /\ Target(p)' = Target(p) /\ Listing(pkgs[p])' = Listing(pkgs[p])
      /\ LeavesOf(pkgs[p])' = LeavesOf(pkgs[p])
  BY <1>1 DEF Target, Listing, LeavesOf
<1>4. leaf[Target(p)] \in [Leaves -> Contents]
  BY <1>2 DEF TypeOK
<1>5. CASE \E l \in Leaves : OpenInfoFile(p, l)
  <2>1. PICK l \in Leaves : OpenInfoFile(p, l)
    BY <1>5
  <2>2. /\ pc[p] = "write" /\ pc'[p] = "write" /\ l \in todo[p] /\ todo' = todo
        /\ cur'[p] = l /\ leaf'[Target(p)][l] = Partial
        /\ \A m \in Leaves : m # l => leaf'[Target(p)][m] = leaf[Target(p)][m]
    BY <1>2, <1>4, <2>1 DEF TypeOK, OpenInfoFile
  <2>3. Written(p)'
    BY <1>1, <1>3, <2>2 DEF Written
  <2>4. QED BY <1>3, <2>2, <2>3 DEF Writing
<1>6. CASE WriteInfoFile(p)
  <2> DEFINE l == cur[p]
  <2>1. /\ pc[p] = "write" /\ l \in todo[p] \cap Leaves /\ leaf[Target(p)][l] = Partial
        /\ todo[p] \subseteq LeavesOf(pkgs[p])
    BY <1>6 DEF WriteInfoFile, Staged, Writing
  <2>2. /\ pc'[p] = "write" /\ todo'[p] = todo[p] \ {l} /\ cur'[p] = NoEntry
        /\ leaf'[Target(p)][l] = Listing(pkgs[p])[l]
        /\ \A m \in Leaves : m # l => leaf'[Target(p)][m] = leaf[Target(p)][m]
    BY <1>2, <1>4, <1>6, <2>1 DEF TypeOK, WriteInfoFile
  <2>3. Written(p)'
    BY <1>1, <1>3, <2>2 DEF Written
  <2> HIDE DEF l
  <2>4. QED BY <1>3, <2>1, <2>2, <2>3 DEF Writing
<1>7. CASE OpenReleaseFile(p)
  <2>1. /\ pc'[p] = "release" /\ todo[p] = {} /\ UNCHANGED <<todo, leaf>>
        /\ top'[Target(p)] = Partial /\ prints'[p] = leaf[Target(p)]
    BY <1>2, <1>7 DEF TypeOK, OpenReleaseFile
  <2>2. Written(p)'
    BY <1>1, <1>3, <2>1 DEF Written
  <2>3. QED BY <1>3, <2>1, <2>2 DEF Writing
<1>8. CASE WriteReleaseFile(p)
  <2>1. /\ todo[p] = {} /\ top[Target(p)] = Partial /\ prints[p] = leaf[Target(p)]
    BY <1>8 DEF WriteReleaseFile, Writing
  <2>2. /\ pc'[p] = "sign" /\ UNCHANGED <<todo, leaf>> /\ top'[Target(p)] = leaf[Target(p)]
    BY <1>2, <1>8, <2>1 DEF TypeOK, WriteReleaseFile
  <2>3. Written(p)'
    BY <1>1, <1>3, <2>2 DEF Written
  <2>4. QED BY <1>3, <2>1, <2>2, <2>3 DEF Writing
<1>9. CASE SignReleaseFile(p) \/ SigningFails(p)
  <2>1. pc'[p] \in {"record", "close"}
    BY <1>9 DEF TypeOK, SignReleaseFile, SigningFails, TreeDone
  <2>2. QED BY <2>1 DEF Writing
<1>10. QED BY <1>5, <1>6, <1>7, <1>8, <1>9 DEF WriteTree

\* A rebuild opens the tables, removes the old tree entry by entry and writes
\* the leaves of the list it read.
LEMMA StepKeepsRestoring ==
  ASSUME TypeOK, StagesInv, SerialInv, RestoringInv, NEW p \in Procs,
         Start(p) \/ Step(p) \/ Fault(p)
  PROVE  Restoring(p)'
<1>1. CASE pc'[p] \notin {"rmtree", "write", "release", "sign"}
  BY <1>1 DEF Restoring
<1>2. CASE Open(p)
  <2>1. CASE OpenRebuild(p)
    <3> DEFINE v == LookupAlias(Disk, job[p].track, job[p].arg)
    <3>1. Disk \in Cache /\ job[p].track \in Tracks /\ job[p].arg \in Versions \cup Names
      BY DEF TypeOK, Jobs
    <3>2. v # NoVersion => releases[<<job[p].track, v>>] # {}
      BY <3>1, LookupAliasRecorded DEF Disk
    <3>3. v = NoVersion => pc'[p] = "close"
      BY <2>1 DEF TypeOK, OpenRebuild, Opened
    <3>4. v # NoVersion =>
            /\ pc'[p] = "rmtree" /\ ver'[p] = v /\ job'[p] = job[p] /\ releases' = releases
            /\ pkgs'[p] = releases[<<job[p].track, v>>] /\ leaf' = leaf
            /\ todo'[p] = TreeEntries(<<job[p].track, v>>)
      BY <2>1 DEF TypeOK, OpenRebuild, Opened, tables, dists
    <3> HIDE DEF v
    <3>5. CASE v # NoVersion
      <4>1. \A l \in Leaves \ todo'[p] : leaf'[<<job[p].track, v>>][l] = {}
        BY <3>4, <3>5, NothingLeftOut
      <4>2. Target(p)' = <<job[p].track, v>>
        BY <3>4, <3>5 DEF Target
      <4>3. Removed(p)'
        BY <4>1, <4>2 DEF Removed
      <4>4. QED BY <3>2, <3>4, <3>5, <4>2, <4>3 DEF Restoring
    <3>6. QED BY <1>1, <3>3, <3>5
  <2>2. CASE OpenCommit(p)
    BY <2>2 DEF TypeOK, OpenCommit, Opened, Restoring
  <2>3. CASE OpenUpdate(p) \/ OpenRemove(p) \/ OpenRefresh(p) \/ OpenIndex(p)
    BY <1>1, <2>3 DEF TypeOK, OpenUpdate, OpenRemove, OpenRefresh, OpenIndex, Opened
  <2>4. QED BY <1>2, <2>1, <2>2, <2>3 DEF Open
<1>3. CASE \E e \in Entries : RemoveEntry(p, e) \/ KeepEntry(p, e)
  <2>1. PICK e \in Entries : RemoveEntry(p, e) \/ KeepEntry(p, e)
    BY <1>3
  <2>2. /\ pc[p] = "rmtree" /\ job[p].kind = "rebuild"
        /\ releases[Target(p)] # {} /\ pkgs[p] = releases[Target(p)] /\ Removed(p)
    BY <2>1 DEF RemoveEntry, KeepEntry, StagesInv, Staged, RestoringInv, Restoring
  <2>3. Target(p) \in Releases
    BY <2>2 DEF TypeOK, Jobs, Target, Releases
  <2>4. /\ UNCHANGED <<pc, job, pkgs, ver, releases>>
        /\ todo'[p] = todo[p] \ {e}
        /\ \/ kept' = kept /\ \A l \in Leaves : leaf'[Target(p)][l] =
                                                  IF l = e THEN {} ELSE leaf[Target(p)][l]
           \/ kept'[p] = kept[p] \cup {e} /\ leaf' = leaf
    <3>1. CASE RemoveEntry(p, e)
      <4>1. /\ UNCHANGED <<pc, job, pkgs, ver, releases, kept>>
            /\ todo'[p] = todo[p] \ {e}
        BY <3>1 DEF TypeOK, RemoveEntry, tables
      <4>2. leaf' = [leaf EXCEPT ![Target(p)] =
                       [l \in Leaves |-> IF l = e THEN {} ELSE @[l]]]
        BY <3>1 DEF RemoveEntry
      <4>3. leaf'[Target(p)] =
              [l \in Leaves |-> IF l = e THEN {} ELSE leaf[Target(p)][l]]
        BY <2>3, <4>2 DEF TypeOK
      <4>4. QED BY <4>1, <4>3
    <3>2. CASE KeepEntry(p, e)
      BY <3>2 DEF TypeOK, KeepEntry, tables, dists
    <3>3. QED BY <2>1, <3>1, <3>2
  <2>5. Target(p)' = Target(p)
    BY <2>4 DEF Target
  <2>6. Removed(p)'
    BY <2>2, <2>4, <2>5 DEF Removed
  <2>7. QED BY <2>2, <2>4, <2>5, <2>6 DEF Restoring
<1>4. CASE RebuildTree(p)
  <2>1. /\ pc[p] = "rmtree" /\ job[p].kind = "rebuild" /\ todo[p] = {} /\ cur[p] = NoEntry
        /\ releases[Target(p)] # {} /\ pkgs[p] = releases[Target(p)] /\ Removed(p)
    BY <1>4 DEF RebuildTree, StagesInv, Staged, RestoringInv, Restoring
  <2>2. /\ UNCHANGED <<job, pkgs, ver, releases, leaf, cur, kept>>
        /\ pc'[p] = "write" => todo'[p] = LeavesOf(pkgs[p])
        /\ pc'[p] \in {"write", "close"}
    BY <1>4 DEF TypeOK, RebuildTree, tables, dists
  <2>3. /\ Target(p)' = Target(p) /\ Listing(pkgs[p])' = Listing(pkgs[p])
        /\ LeavesOf(pkgs[p])' = LeavesOf(pkgs[p])
    BY <2>2 DEF Target, Listing, LeavesOf
  <2>4. \A l \in Leaves \ LeavesOf(pkgs[p]) : Listing(pkgs[p])[l] = {}
    BY NoLeafNoPackages DEF TypeOK
  <2>5. pc'[p] = "write" => Written(p)'
    BY <2>1, <2>2, <2>3, <2>4 DEF Removed, Written
  <2>6. pc'[p] = "write" => Writing(p)'
    BY <2>1, <2>2, <2>3, <2>5 DEF Writing
  <2>7. QED BY <2>1, <2>2, <2>3, <2>6 DEF Restoring
<1>5. CASE WriteTree(p)
  <2>1. /\ UNCHANGED <<job, pkgs, ver, releases>> /\ pc[p] \in {"write", "release", "sign"}
        /\ pc'[p] # "rmtree"
    BY <1>5 DEF TypeOK, WriteTree, OpenInfoFile, WriteInfoFile, OpenReleaseFile,
                WriteReleaseFile, SignReleaseFile, SigningFails, TreeDone, tables
  <2>2. Target(p)' = Target(p)
    BY <2>1 DEF Target
  <2>3. CASE job[p].kind = "rebuild"
    <3>1. Restoring(p) /\ Staged(p)
      BY DEF RestoringInv, StagesInv
    <3>2. Writing(p) /\ releases[Target(p)] # {} /\ pkgs[p] = releases[Target(p)]
      BY <2>1, <2>3, <3>1 DEF Restoring
    <3>3. Writing(p)'
      BY <1>5, <3>1, <3>2, StepKeepsWriting
    <3>4. QED BY <2>1, <2>2, <3>2, <3>3 DEF Restoring
  <2>4. CASE job[p].kind # "rebuild"
    BY <2>1, <2>4 DEF Restoring
  <2>5. QED BY <2>3, <2>4
<1>6. CASE \/ Start(p)
           \/ \E x \in Packages, readable \in BOOLEAN : IndexBinary(p, x, readable)
           \/ IndexDone(p)
           \/ RecordRelease(p)
  <2>1. pc'[p] \in {"open", "index", "close", "refresh"}
    BY <1>6 DEF TypeOK, Start, StartCommit, StartRebuild, StartAlias, StartRefresh, StartIndex,
                Begin, IndexBinary, IndexDone, RecordRelease
  <2>2. QED BY <1>1, <2>1
<1>7. CASE \/ \E a \in Aliases : RemoveLink(p, a)
           \/ CreateLink(p)
           \/ LinkExists(p)
           \/ RefreshDone(p)
           \/ \E tb \in Tables : CloseTable(p, tb)
           \/ Finish(p)
           \/ CommitSnapshot(p)
           \/ Fail(p)
           \/ Crash(p)
  <2>1. pc'[p] \in {"symlink", "refresh", "close", "idle", "open"}
    BY <1>7 DEF TypeOK, RemoveLink, CreateLink, LinkExists, RefreshDone, LeaveLinks,
                CloseTable, Finish, CommitSnapshot, Fail, Crash, Exit
  <2>2. QED BY <1>1, <2>1
<1>8. QED BY <1>2, <1>3, <1>4, <1>5, <1>6, <1>7 DEF Step, Fault, WriteTree

\* Nobody else runs, so nobody else disturbs a rebuild.
LEMMA RestoringPreserved ==
  ASSUME Overlap = FALSE
  PROVE  TypeOK /\ StagesInv /\ SerialInv /\ RestoringInv /\ [Next]_vars => RestoringInv'
<1> SUFFICES ASSUME TypeOK, StagesInv, SerialInv, RestoringInv, [Next]_vars
             PROVE  RestoringInv'
  OBVIOUS
<1>1. CASE UNCHANGED <<tables, dists, local>>
  BY <1>1 DEF RestoringInv, Restoring, Removed, Writing, Written, Listing, LeavesOf, Target,
              tables, dists, local
<1>2. ASSUME NEW p \in Procs, Start(p) \/ Step(p) \/ Fault(p)
      PROVE  RestoringInv'
  <2>1. ASSUME NEW q \in Procs, q # p
        PROVE  pc'[q] = "idle"
    BY <1>2, <2>1, RunsAlone, OthersUntouched DEF SerialInv
  <2>2. QED BY <1>2, <2>1, StepKeepsRestoring DEF RestoringInv, Restoring
<1>3. QED BY <1>1, <1>2 DEF Next, ReliableNext, AddToPool, vars

\* The inductive invariant of a rebuild while one command runs at a time: it
\* works from the record on disk, and a leaf that is dealt with is first gone
\* and then as recorded, but for leaves that the record does not have and that
\* rmtree failed to delete.
THEOREM RestoringCorrect == ASSUME Overlap = FALSE PROVE Spec => []RestoringInv
<1>1. Init => RestoringInv
  BY DEF Init, RestoringInv, Restoring
<1>2. QED
  BY <1>1, RestoringPreserved, TypeCorrect, StagesCorrect, SerialCorrect, PTL DEF Spec

\* What GroupByArch puts in the Packages files is what belongs there.
LEMMA ListingIsLayout ==
  ASSUME NEW S \in SUBSET Packages
  PROVE  Listing(S) = Layout(S)
<1>1. ASSUME NEW l \in Leaves, NEW x \in S
      PROVE  (l[1] = ComponentOf[x] /\ l[2] \in ArchsOf(x)) <=> Belongs(x, l)
  <2>1. l[2] \in Architectures
    BY DEF Leaves
  <2>2. QED BY <2>1 DEF ArchsOf, Belongs
<1>2. \A l \in Leaves : Listing(S)[l] = Layout(S)[l]
  BY <1>1 DEF Listing, Layout
<1>3. QED BY <1>2 DEF Listing, Layout

\* The step that ends a rebuild finds every leaf of the tree as recorded, or
\* kept by an rmtree that could not delete it.
LEMMA RebuildEnds ==
  ASSUME TypeOK, SerialInv, RestoringInv, Overlap = FALSE, [Next]_vars, NEW p \in Procs,
         pc[p] = "sign" /\ pc'[p] = "close" /\ job[p].kind = "rebuild",
         pkgs'[p] # {}
  PROVE  /\ Restored(leaf'[Target(p)], releases[Target(p)], kept[p])
         /\ top'[Target(p)] = leaf'[Target(p)]
<1>1. PICK q \in Procs : Start(q) \/ Step(q) \/ Fault(q)
  BY DEF Next, ReliableNext, AddToPool, vars, local
<1>2. q = p
  BY <1>1, OthersUntouched
<1>3. SignReleaseFile(p) \/ SigningFails(p)
  <2>1. ~ Start(p) /\ ~ Open(p)
    BY DEF Start, StartCommit, StartRebuild, StartAlias, StartRefresh, StartIndex, Begin,
           MayStart, Open, OpenCommit, OpenRebuild, OpenUpdate, OpenRemove, OpenRefresh,
           OpenIndex, Opened
  <2>2. ~ Fail(p) /\ ~ Crash(p)
    BY DEF TypeOK, Fail, Crash, Exit
  <2>3. QED
    BY <1>1, <1>2, <2>1, <2>2 DEF Step, Fault, IndexBinary, IndexDone, RemoveEntry, KeepEntry,
       RebuildTree, OpenInfoFile, WriteInfoFile, OpenReleaseFile, WriteReleaseFile,
       RecordRelease, RemoveLink, CreateLink, LinkExists, RefreshDone, CloseTable, Finish,
       CommitSnapshot, AllClosed
<1>4. /\ pkgs[p] = releases[Target(p)] /\ Written(p) /\ todo[p] = {}
      /\ top[Target(p)] = leaf[Target(p)]
  BY DEF RestoringInv, Restoring, Writing
<1>5. leaf' = leaf /\ top' = top
  BY <1>3 DEF SignReleaseFile, SigningFails, TreeDone
<1>6. Listing(pkgs[p]) = Layout(pkgs[p])
  BY ListingIsLayout DEF TypeOK
<1>7. Restored(leaf[Target(p)], releases[Target(p)], kept[p])
  BY <1>4, <1>6 DEF Written, Restored
<1>8. QED BY <1>4, <1>5, <1>7

\* A rebuild that reaches its end has put the recorded packages in the Packages
\* files they belong in, whatever was in the tree before and however earlier
\* commands ended, and has left no other file but those that rmtree failed to
\* delete, while the administrators run one command at a time.
THEOREM RebuildsRestore == ASSUME Overlap = FALSE PROVE Spec => RebuildRestores
<1>1. ASSUME TypeOK, SerialInv, RestoringInv, [Next]_vars
      PROVE  [\A p \in Procs :
                pc[p] = "sign" /\ pc'[p] = "close" /\ job[p].kind = "rebuild" /\ pkgs'[p] # {}
                  => LET r == Target(p)
                     IN  Restored(leaf'[r], releases[r], kept[p]) /\ top'[r] = leaf'[r]]_vars
  BY <1>1, RebuildEnds
<1>2. QED
  BY <1>1, TypeCorrect, SerialCorrect, RestoringCorrect, PTL DEF Spec, RebuildRestores
-----------------------------------------------------------------------------
(***************************************************************************)
(* What is in force between undisturbed commands: nobody overlaps, fails   *)
(* or is killed.                                                           *)
(***************************************************************************)

\* Commands that run to their end are commands.
LEMMA ReliableIsSpec == ReliableSpec => Spec
<1>1. [ReliableNext]_vars => [Next]_vars
  BY DEF Next
<1>2. QED BY <1>1, PTL DEF ReliableSpec, Spec

\* A command that ends has closed its tables: what it saw is on disk.
LEMMA ClosedIsDisk ==
  ASSUME NEW p \in Procs, Session(p), Fresh(p), dirty[p] = {}
  PROVE  /\ view[p].pkg_info = pkg_info /\ view[p].pkg_deps = pkg_deps
         /\ view[p].releases = releases /\ view[p].aliases = aliases
BY DEF Session, Fresh

\* The tables on disk as a command finds them.
LEMMA DiskFields ==
  /\ Disk.pkg_info = pkg_info /\ Disk.pkg_deps = pkg_deps
  /\ Disk.releases = releases /\ Disk.aliases = aliases
BY DEF Disk

\* What is recorded on disk is recorded in the cache of a command that runs
\* alone, and the same.
LEMMA SeenRecorded ==
  ASSUME TypeOK, NEW p \in Procs, InSession(p) => Session(p), NEW r \in Releases, Recorded(r)
  PROVE  Seen(p).releases[r] = releases[r]
<1>1. CASE ~ InSession(p)
  BY <1>1, DiskFields DEF Seen
<1>2. CASE InSession(p) /\ "releases" \notin dirty[p]
  BY <1>2 DEF Seen, Session
<1>3. CASE InSession(p) /\ "releases" \in dirty[p]
  <2>1. PICK t \in Tracks, v \in Versions, S \in SUBSET Packages :
          releases[<<t, v>>] = {} /\ view[p].releases = [releases EXCEPT ![<<t, v>>] = S]
    BY <1>3 DEF Session, Extends
  <2>2. r # <<t, v>>
    BY <2>1 DEF Recorded
  <2>3. QED BY <1>3, <2>1, <2>2, DiskType DEF TypeOK, Seen
<1>4. QED BY <1>1, <1>2, <1>3

\* Whoever opens the tables sees them as they are on disk, but for the alias
\* that it moves or removes.
LEMMA OpenSees ==
  ASSUME TypeOK, NEW p \in Procs, Open(p)
  PROVE  /\ InSession(p)' /\ ~ InSession(p)
         /\ UNCHANGED <<tables, leaf, top, signed, link>> /\ job'[p] = job[p]
         /\ view'[p].pkg_info = pkg_info /\ view'[p].pkg_deps = pkg_deps
         /\ view'[p].releases = releases
         /\ view'[p].aliases # aliases => dirty'[p] = {"aliases"}
<1>1. /\ pc'[p] \in {"write", "rmtree", "refresh", "index", "close"} /\ pc[p] = "open"
      /\ UNCHANGED <<tables, leaf, top, signed, link>> /\ job' = job
  BY DEF TypeOK, Open, OpenCommit, OpenRebuild, OpenUpdate, OpenRemove, OpenRefresh, OpenIndex,
         Opened, dists
<1>2. /\ view'[p].pkg_info = pkg_info /\ view'[p].pkg_deps = pkg_deps
      /\ view'[p].releases = releases
      /\ view'[p].aliases # aliases => dirty'[p] = {"aliases"}
  BY DEF TypeOK, Open, OpenCommit, OpenRebuild, OpenUpdate, OpenRemove, OpenRefresh, OpenIndex,
         Opened, Disk
<1>3. QED BY <1>1, <1>2 DEF InSession

\* A step that ends a session leaves what the command saw on disk.
LEMMA EndSees ==
  ASSUME TypeOK, NEW p \in Procs, Session(p), Fresh(p), Finish(p) \/ CommitSnapshot(p)
  PROVE  /\ pc[p] = "close" /\ InSession(p) /\ ~ InSession(p)'
         /\ UNCHANGED <<tables, leaf, top, signed, link>> /\ Disk' = Disk
         /\ view[p].pkg_info = pkg_info /\ view[p].pkg_deps = pkg_deps
         /\ view[p].releases = releases /\ view[p].aliases = aliases
<1>1. /\ pc[p] = "close" /\ dirty[p] = {} /\ pc'[p] \in {"idle", "open"}
      /\ UNCHANGED <<tables, leaf, top, signed, link>>
  BY DEF TypeOK, Finish, CommitSnapshot, AllClosed, Exit, dists
<1>2. QED BY <1>1, ClosedIsDisk DEF InSession, Disk, tables

\* The start of a command changes nothing that anybody sees.
LEMMA StartSees ==
  ASSUME TypeOK, NEW p \in Procs, Start(p)
  PROVE  /\ ~ InSession(p) /\ ~ InSession(p)' /\ pc'[p] = "open"
         /\ UNCHANGED <<tables, leaf, top, signed, link>> /\ Disk' = Disk
<1>1. pc[p] = "idle" /\ pc'[p] = "open" /\ UNCHANGED <<tables, leaf, top, signed, link>>
  BY DEF TypeOK, Start, StartCommit, StartRebuild, StartAlias, StartRefresh, StartIndex, Begin,
         MayStart, dists
<1>2. QED BY <1>1 DEF InSession, Disk, tables

\* Indexing a package leaves the caches of releases and aliases alone.
LEMMA IndexSees ==
  ASSUME TypeOK, NEW p \in Procs, NEW x \in Packages, NEW readable \in BOOLEAN,
         IndexBinary(p, x, readable)
  PROVE  /\ pc[p] = "index" /\ UNCHANGED <<tables, leaf, top, signed, link, pc, job, ver>>
         /\ view'[p].releases = view[p].releases /\ view'[p].aliases = view[p].aliases
         /\ IF readable
            THEN /\ view'[p].pkg_info = view[p].pkg_info \cup {x}
                 /\ view'[p].pkg_deps = view[p].pkg_deps \cup {x}
                 /\ pkgs'[p] = pkgs[p] \cup {x}
                 /\ dirty'[p] = dirty[p] \cup {"pool_pkg", "pkg_info", "pkg_deps"}
            ELSE /\ view'[p].pkg_info = view[p].pkg_info
                 /\ view'[p].pkg_deps = view[p].pkg_deps
                 /\ pkgs'[p] = pkgs[p]
                 /\ dirty'[p] = dirty[p] \cup {"pool_pkg"}
<1>1. view[p] \in Cache
  BY DEF TypeOK
<1>2. pc[p] = "index" /\ UNCHANGED <<tables, leaf, top, signed, link, pc, job, ver>>
  BY DEF IndexBinary, dists
<1>3. CASE readable
  <2>1. view'[p] = [view[p] EXCEPT !.pool_pkg = @ \cup {x}, !.pkg_info = @ \cup {x},
                                   !.pkg_deps = @ \cup {x}]
    BY <1>3 DEF TypeOK, IndexBinary
  <2>2. /\ dirty'[p] = dirty[p] \cup {"pool_pkg", "pkg_info", "pkg_deps"}
        /\ pkgs'[p] = pkgs[p] \cup {x}
    BY <1>3 DEF TypeOK, IndexBinary
  <2>3. QED BY <1>1, <1>2, <1>3, <2>1, <2>2 DEF Cache
<1>4. CASE ~ readable
  <2>1. view'[p] = [view[p] EXCEPT !.pool_pkg = @ \cup {x}]
    BY <1>4 DEF TypeOK, IndexBinary
  <2>2. dirty'[p] = dirty[p] \cup {"pool_pkg"} /\ pkgs'[p] = pkgs[p]
    BY <1>4 DEF TypeOK, IndexBinary
  <2>3. QED BY <1>1, <1>2, <1>4, <2>1, <2>2 DEF Cache
<1>5. QED BY <1>3, <1>4

\* Recording a release changes two caches and nothing on disk.
LEMMA RecordSees ==
  ASSUME TypeOK, NEW p \in Procs, RecordRelease(p)
  PROVE  /\ pc[p] = "record" /\ pc'[p] = "refresh"
         /\ UNCHANGED <<tables, leaf, top, signed, link, job, pkgs, ver, cur>>
         /\ view'[p].releases = [view[p].releases EXCEPT ![Target(p)] = pkgs[p]]
         /\ view'[p].aliases = [view[p].aliases EXCEPT ![<<job[p].track, latest>>] = ver[p]]
         /\ view'[p].pkg_info = view[p].pkg_info /\ view'[p].pkg_deps = view[p].pkg_deps
         /\ dirty'[p] = {"releases", "aliases"}
         /\ todo'[p] = {a \in Aliases : view'[p].aliases[a] # NoVersion}
<1>1. /\ pc[p] = "record" /\ pc'[p] = "refresh"
      /\ UNCHANGED <<tables, leaf, top, signed, link, job, pkgs, ver, cur>>
  BY DEF TypeOK, RecordRelease, dists
<1>2. /\ view'[p].releases = [view[p].releases EXCEPT ![Target(p)] = pkgs[p]]
      /\ view'[p].aliases = [view[p].aliases EXCEPT ![<<job[p].track, latest>>] = ver[p]]
      /\ view'[p].pkg_info = view[p].pkg_info /\ view'[p].pkg_deps = view[p].pkg_deps
  BY DEF TypeOK, Cache, RecordRelease
<1>3. /\ dirty'[p] = {"releases", "aliases"}
      /\ todo'[p] = {a \in Aliases :
           [view[p].aliases EXCEPT ![<<job[p].track, latest>>] = ver[p]][a] # NoVersion}
  BY DEF TypeOK, RecordRelease
<1>4. QED BY <1>1, <1>2, <1>3

\* The steps that leave the tables, on disk and cached, alone.
Inner(p) ==
  \/ IndexDone(p)
  \/ \E e \in Entries : RemoveEntry(p, e)
  \/ RebuildTree(p)
  \/ WriteTree(p)
  \/ \E a \in Aliases : RemoveLink(p, a)
  \/ CreateLink(p)
  \/ LinkExists(p)
  \/ RefreshDone(p)

\* They are taken within a session, which goes on.
LEMMA InnerSees ==
  ASSUME TypeOK, NEW p \in Procs, Inner(p)
  PROVE  /\ InSession(p) /\ InSession(p)'
         /\ UNCHANGED <<tables, job, ver, view, dirty>> /\ Disk' = Disk
<1>1. CASE IndexDone(p) \/ RebuildTree(p) \/ \E e \in Entries : RemoveEntry(p, e)
  BY <1>1 DEF TypeOK, IndexDone, RebuildTree, RemoveEntry, InSession, Disk, tables
<1>2. CASE WriteTree(p)
  BY <1>2 DEF TypeOK, WriteTree, OpenInfoFile, WriteInfoFile, OpenReleaseFile, WriteReleaseFile,
              SignReleaseFile, SigningFails, TreeDone, InSession, Disk, tables
<1>3. CASE \/ \E a \in Aliases : RemoveLink(p, a)
           \/ CreateLink(p)
           \/ LinkExists(p)
           \/ RefreshDone(p)
  BY <1>3 DEF TypeOK, RemoveLink, CreateLink, LinkExists, RefreshDone, LeaveLinks, InSession,
              Disk, tables
<1>4. QED BY <1>1, <1>2, <1>3 DEF Inner

\* Closing a table: it agrees with its cache from then on.
LEMMA CloseSees ==
  ASSUME TypeOK, NEW p \in Procs, NEW tb \in Tables, CloseTable(p, tb)
  PROVE  /\ InSession(p) /\ InSession(p)' /\ tb \in dirty[p] /\ dirty'[p] = dirty[p] \ {tb}
         /\ UNCHANGED <<leaf, top, signed, link, pc, job, pkgs, ver, todo, cur, view>>
         /\ pkg_info' = IF tb = "pkg_info" THEN view[p].pkg_info ELSE pkg_info
         /\ pkg_deps' = IF tb = "pkg_deps" THEN view[p].pkg_deps ELSE pkg_deps
         /\ aliases' = IF tb = "aliases" THEN view[p].aliases ELSE aliases
<1>1. pc[p] = "close" /\ UNCHANGED pc
  BY DEF CloseTable
<1>2. QED BY <1>1 DEF TypeOK, CloseTable, dists, InSession

\* What a step of a command that is not killed can be.
LEMMA StepCases ==
  ASSUME NEW p \in Procs, Start(p) \/ Step(p)
  PROVE  \/ Start(p)
         \/ Open(p)
         \/ \E x \in Packages, readable \in BOOLEAN : IndexBinary(p, x, readable)
         \/ Inner(p)
         \/ RecordRelease(p)
         \/ \E tb \in Tables : CloseTable(p, tb)
         \/ Finish(p) \/ CommitSnapshot(p)
BY DEF Step, Inner, WriteTree

\* The caches stay the tables on disk but for what is still to be written.
LEMMA FreshKept ==
  ASSUME TypeOK, NEW p \in Procs, Start(p) \/ Step(p),
         InSession(p) => Session(p) /\ Fresh(p)
  PROVE  InSession(p)' => Fresh(p)'
<1>1. CASE Start(p)
  BY <1>1, StartSees
<1>2. CASE Open(p)
  BY <1>2, OpenSees DEF Fresh, tables
<1>3. ASSUME NEW x \in Packages, NEW readable \in BOOLEAN, IndexBinary(p, x, readable)
      PROVE  Fresh(p)'
  <2>1. Fresh(p)
    BY <1>3 DEF IndexBinary, InSession
  <2>2. QED BY <1>3, <2>1, IndexSees DEF Fresh, tables
<1>4. CASE Inner(p)
  BY <1>4, InnerSees DEF Fresh, tables
<1>5. CASE RecordRelease(p)
  <2>1. Fresh(p) /\ dirty[p] = {}
    BY <1>5 DEF RecordRelease, InSession, Session, Building
  <2>2. QED BY <1>5, <2>1, RecordSees DEF Fresh, tables
<1>6. ASSUME NEW tb \in Tables, CloseTable(p, tb)
      PROVE  Fresh(p)'
  BY <1>6, CloseSees DEF Fresh
<1>7. CASE Finish(p) \/ CommitSnapshot(p)
  <2>1. pc'[p] \in {"idle", "open"}
    BY <1>7 DEF TypeOK, Finish, CommitSnapshot, Exit
  <2>2. QED BY <2>1 DEF InSession
<1>8. QED BY <1>1, <1>2, <1>3, <1>4, <1>5, <1>6, <1>7, StepCases

AliasSide(p) ==
  /\ AliasesHold(Seen(p), Undone(p))
  /\ pc[p] = "symlink" => cur[p] \in todo[p] \cap Aliases /\ link[cur[p]] = NoVersion

\* Aliases stay in force when neither they nor the links change.
LEMMA AliasesFrame ==
  ASSUME NEW p, AliasSide(p),
         Seen(p)'.releases = Seen(p).releases, Seen(p)'.aliases = Seen(p).aliases,
         link' = link, Undone(p) \subseteq Undone(p)', pc'[p] # "symlink"
  PROVE  AliasSide(p)'
BY DEF AliasSide, AliasesHold

\* A command that moves or removes an alias refreshes those that are left.
LEMMA OpenKeepsAliases ==
  ASSUME TypeOK, NEW p \in Procs, AliasSide(p), Open(p)
  PROVE  AliasSide(p)'
<1>1. /\ Seen(p).releases = releases /\ Seen(p).aliases = aliases /\ Undone(p) = {}
      /\ Seen(p)' = view'[p] /\ view'[p].releases = releases
      /\ UNCHANGED <<link, releases, aliases>>
  BY OpenSees, DiskFields DEF Seen, Undone, tables, InSession
<1>2. pc'[p] # "symlink"
  BY DEF TypeOK, Open, OpenCommit, OpenRebuild, OpenUpdate, OpenRemove, OpenRefresh, OpenIndex,
         Opened
<1>3. CASE view'[p].aliases = aliases
  BY <1>1, <1>2, <1>3, AliasesFrame
<1>4. CASE OpenUpdate(p) /\ view'[p].aliases # aliases
  <2> DEFINE a == <<job[p].track, job[p].name>>
             v == LookupAlias(Disk, job[p].track, job[p].arg)
             cached == [Disk EXCEPT !.aliases = [aliases EXCEPT ![a] = v]]
  <2>1. /\ v # NoVersion /\ view'[p] = cached
        /\ todo'[p] = RecordedAliases(cached) /\ pc'[p] = "refresh"
    BY <1>4, DiskFields DEF TypeOK, OpenUpdate, Opened
  <2>2. v \in Versions /\ releases[<<job[p].track, v>>] # {}
    <3>1. Disk \in Cache /\ job[p].track \in Tracks /\ job[p].arg \in Versions \cup Names
      BY DEF TypeOK, Jobs
    <3>2. QED BY <2>1, <3>1, LookupAliasRecorded, DiskFields
  <2>3. view'[p].aliases = [aliases EXCEPT ![a] = v]
    BY <2>1 DEF Disk
  <2>4. \A b \in Aliases : view'[p].aliases[b] # NoVersion => b \in Undone(p)'
    BY <2>1 DEF RecordedAliases, Undone
  <2> HIDE DEF v, cached
  <2>5. ASSUME NEW b \in Aliases, view'[p].aliases[b] # NoVersion
        PROVE  releases[<<b[1], view'[p].aliases[b]>>] # {}
    <3>1. CASE b = a
      <4>1. view'[p].aliases[b] = v
        BY <2>3, <3>1, DiskType DEF TypeOK
      <4>2. b[1] = job[p].track
        BY <3>1
      <4>3. QED BY <2>2, <4>1, <4>2
    <3>2. CASE b # a
      <4>1. view'[p].aliases[b] = aliases[b]
        BY <2>3, <3>2, DiskType DEF TypeOK
      <4>2. QED BY <1>1, <2>5, <4>1 DEF AliasSide, AliasesHold
    <3>3. QED BY <3>1, <3>2
  <2>6. QED BY <1>1, <1>2, <2>4, <2>5 DEF AliasSide, AliasesHold
<1>5. CASE OpenRemove(p) /\ view'[p].aliases # aliases
  <2> DEFINE a == <<job[p].track, job[p].name>>
  <2>1. view'[p].aliases = [aliases EXCEPT ![a] = NoVersion] /\ pc'[p] = "close"
    <3>1. CASE Opened(p, "close", {}, NoVersion, {}, Disk, {})
      BY <1>5, <3>1, DiskFields DEF TypeOK, Opened
    <3>2. CASE Opened(p, "close", {}, NoVersion, {},
                      [Disk EXCEPT !.aliases = [aliases EXCEPT ![a] = NoVersion]], {"aliases"})
      BY <3>2 DEF TypeOK, Opened, Disk
    <3>3. QED BY <1>5, <3>1, <3>2 DEF OpenRemove
  <2>2. \A b \in Aliases : view'[p].aliases[b] # NoVersion => view'[p].aliases[b] = aliases[b]
    BY <2>1, DiskType DEF TypeOK
  <2>3. Undone(p)' = {}
    BY <2>1 DEF Undone
  <2>4. QED BY <1>1, <1>2, <2>2, <2>3 DEF AliasSide, AliasesHold
<1>6. CASE OpenCommit(p) \/ OpenRebuild(p) \/ OpenRefresh(p) \/ OpenIndex(p)
  <2>1. view'[p].aliases = aliases
    BY <1>6 DEF TypeOK, OpenCommit, OpenRebuild, OpenRefresh, OpenIndex, Opened, Disk
  <2>2. QED BY <1>3, <2>1
<1>7. QED BY <1>3, <1>4, <1>5, <1>6 DEF Open

\* Recording a release moves latest to it and puts all aliases on the list of
\* those to be refreshed.
LEMMA RecordKeepsAliases ==
  ASSUME TypeOK, NumberingInv, NEW p \in Procs, AliasSide(p), RecordRelease(p)
  PROVE  AliasSide(p)'
<1>1. pkgs[p] # {} /\ ver[p] \in Versions /\ job[p].track \in Tracks
  BY DEF NumberingInv, Numbered, Building, RecordRelease, TypeOK, Jobs
<1>2. view[p].releases \in [Releases -> SUBSET Packages]
      /\ view[p].aliases \in [Aliases -> Versions \cup {NoVersion}]
  BY DEF TypeOK, Cache
<1>3. /\ pc'[p] = "refresh"
      /\ view'[p].releases = [view[p].releases EXCEPT ![Target(p)] = pkgs[p]]
      /\ view'[p].aliases = [view[p].aliases EXCEPT ![<<job[p].track, latest>>] = ver[p]]
      /\ todo'[p] = {a \in Aliases : view'[p].aliases[a] # NoVersion}
      /\ Seen(p) = view[p] /\ Seen(p)' = view'[p]
  BY RecordSees DEF Seen, InSession
<1>4. \A b \in Aliases : view'[p].aliases[b] # NoVersion => b \in Undone(p)'
  BY <1>3 DEF Undone
<1>5. \A r \in Releases : view[p].releases[r] # {} => view'[p].releases[r] # {}
  BY <1>1, <1>2, <1>3
<1>6. ASSUME NEW b \in Aliases, view'[p].aliases[b] # NoVersion
      PROVE  view'[p].releases[<<b[1], view'[p].aliases[b]>>] # {}
  <2>1. CASE b = <<job[p].track, latest>>
    <3>1. <<b[1], view'[p].aliases[b]>> = Target(p) /\ Target(p) \in Releases
      BY <1>1, <1>2, <1>3, <2>1 DEF Target, Releases
    <3>2. QED BY <1>1, <1>2, <1>3, <3>1
  <2>2. CASE b # <<job[p].track, latest>>
    <3>1. view'[p].aliases[b] = view[p].aliases[b] /\ view[p].aliases[b] \in Versions
      BY <1>2, <1>3, <1>6, <2>2
    <3>2. <<b[1], view[p].aliases[b]>> \in Releases
      BY <3>1 DEF Aliases, Releases
    <3>3. QED BY <1>3, <1>5, <1>6, <3>1, <3>2 DEF AliasSide, AliasesHold
  <2>3. QED BY <2>1, <2>2
<1>7. QED BY <1>3, <1>4, <1>6 DEF AliasSide, AliasesHold

\* Refreshing goes through the list; nobody puts a link back that is removed.
LEMMA RefreshKeepsAliases ==
  ASSUME TypeOK, NEW p \in Procs, AliasSide(p),
         (\E a \in Aliases : RemoveLink(p, a)) \/ CreateLink(p) \/ LinkExists(p) \/ RefreshDone(p)
  PROVE  AliasSide(p)'
<1>1. Seen(p) = view[p] /\ Seen(p)' = view[p]
  BY InnerSees DEF Seen, Inner
<1>2. CASE \E a \in Aliases : RemoveLink(p, a)
  <2>1. PICK a \in Aliases : RemoveLink(p, a)
    BY <1>2
  <2>2. /\ pc[p] = "refresh" /\ pc'[p] = "symlink" /\ cur'[p] = a /\ a \in todo[p]
        /\ todo' = todo /\ link' = [link EXCEPT ![a] = NoVersion]
    BY <2>1 DEF TypeOK, RemoveLink
  <2>3. /\ Undone(p) = todo[p] /\ Undone(p)' = todo[p] /\ link'[a] = NoVersion
        /\ \A b \in Aliases : b # a => link'[b] = link[b]
    BY <2>2 DEF Undone, TypeOK
  <2>4. QED BY <1>1, <2>2, <2>3 DEF AliasSide, AliasesHold
<1>3. CASE CreateLink(p)
  <2>1. /\ pc[p] = "symlink" /\ pc'[p] = "refresh" /\ todo'[p] = todo[p] \ {cur[p]}
        /\ link' = [link EXCEPT ![cur[p]] = view[p].aliases[cur[p]]]
    BY <1>3 DEF TypeOK, CreateLink
  <2>2. /\ Undone(p) = todo[p] /\ Undone(p)' = todo[p] \ {cur[p]}
        /\ cur[p] \in Aliases /\ link'[cur[p]] = view[p].aliases[cur[p]]
        /\ \A b \in Aliases : b # cur[p] => link'[b] = link[b]
    BY <2>1 DEF Undone, TypeOK, AliasSide
  <2>3. QED BY <1>1, <2>1, <2>2 DEF AliasSide, AliasesHold
<1>4. CASE LinkExists(p)
  BY <1>4 DEF LinkExists, AliasSide
<1>5. CASE RefreshDone(p)
  <2>1. pc[p] = "refresh" /\ pc'[p] = "close" /\ todo[p] = {} /\ link' = link
    BY <1>5 DEF TypeOK, RefreshDone, LeaveLinks, dists
  <2>2. Undone(p) = {} /\ Undone(p)' = {}
    BY <2>1 DEF Undone
  <2>3. QED BY <1>1, <2>1, <2>2, AliasesFrame
<1>6. QED BY <1>2, <1>3, <1>4, <1>5

\* A command that is not disturbed leaves the aliases in force.
LEMMA AliasesKept ==
  ASSUME TypeOK, NumberingInv, NEW p \in Procs, Start(p) \/ Step(p),
         InSession(p) => Session(p) /\ Fresh(p),
         AliasSide(p)
  PROVE  AliasSide(p)'
<1>1. CASE Start(p)
  <2>1. Undone(p) = {} /\ Seen(p) = Disk /\ Seen(p)' = Disk /\ link' = link /\ pc'[p] = "open"
    BY <1>1, StartSees DEF Undone, Seen, InSession
  <2>2. QED BY <2>1, AliasesFrame
<1>2. CASE Open(p)
  BY <1>2, OpenKeepsAliases
<1>3. ASSUME NEW x \in Packages, NEW readable \in BOOLEAN, IndexBinary(p, x, readable)
      PROVE  AliasSide(p)'
  <2>1. /\ pc[p] = "index" /\ pc'[p] = "index" /\ link' = link
        /\ view'[p].releases = view[p].releases /\ view'[p].aliases = view[p].aliases
    BY <1>3, IndexSees
  <2>2. QED BY <2>1, AliasesFrame DEF Undone, Seen, InSession
<1>4. CASE /\ ~ \E a \in Aliases : RemoveLink(p, a)
           /\ ~ CreateLink(p) /\ ~ LinkExists(p) /\ ~ RefreshDone(p)
           /\ Inner(p)
  <2>1. /\ pc[p] \in {"index", "rmtree", "write", "release", "sign"}
        /\ pc'[p] # "symlink" /\ link' = link
    BY <1>4 DEF TypeOK, Inner, IndexDone, RemoveEntry, RebuildTree, WriteTree, OpenInfoFile,
                WriteInfoFile, OpenReleaseFile, WriteReleaseFile, SignReleaseFile, SigningFails,
                TreeDone, dists
  <2>2. Seen(p) = view[p] /\ Seen(p)' = view[p]
    BY <1>4, InnerSees DEF Seen
  <2>3. QED BY <2>1, <2>2, AliasesFrame DEF Undone
<1>5. CASE (\E a \in Aliases : RemoveLink(p, a)) \/ CreateLink(p) \/ LinkExists(p) \/ RefreshDone(p)
  BY <1>5, RefreshKeepsAliases
<1>6. CASE RecordRelease(p)
  BY <1>6, RecordKeepsAliases
<1>7. ASSUME NEW tb \in Tables, CloseTable(p, tb)
      PROVE  AliasSide(p)'
  <2>1. /\ Seen(p) = view[p] /\ Seen(p)' = view[p] /\ link' = link
        /\ pc[p] = "close" /\ pc' = pc
    BY <1>7, CloseSees DEF Seen, CloseTable
  <2>2. QED BY <2>1, AliasesFrame DEF Undone
<1>8. CASE Finish(p) \/ CommitSnapshot(p)
  <2>1. /\ Seen(p).releases = Seen(p)'.releases /\ Seen(p).aliases = Seen(p)'.aliases
        /\ Undone(p) = {} /\ link' = link /\ pc'[p] # "symlink"
    <3>1. InSession(p)
      BY <1>8 DEF Finish, CommitSnapshot, AllClosed, InSession
    <3>2. /\ pc[p] = "close" /\ ~ InSession(p)' /\ link' = link /\ Disk' = Disk
          /\ view[p].releases = releases /\ view[p].aliases = aliases
      BY <1>8, <3>1, EndSees
    <3>3. Seen(p) = view[p] /\ Seen(p)' = Disk
      BY <3>1, <3>2 DEF Seen
    <3>4. QED BY <3>2, <3>3, DiskFields DEF Undone, InSession
  <2>2. QED BY <2>1, AliasesFrame
<1>9. QED BY <1>1, <1>2, <1>3, <1>4, <1>5, <1>6, <1>7, <1>8, StepCases

TreeSide(p) ==
  /\ TreesHold(Seen(p), Busy(p))
  /\ kept[p] = {}
  /\ Writing(p)
  /\ pc[p] = "record" =>
       /\ leaf[Target(p)] = Listing(pkgs[p])
       /\ top[Target(p)] = leaf[Target(p)] /\ signed[Target(p)]

\* The stages in which a command is at work in a tree.
AtWork == {"write", "release", "sign", "record"}

\* No entry is kept by a command whose rmtree does not fail.
LEMMA NothingKept ==
  ASSUME TypeOK, NEW p \in Procs, Start(p) \/ Step(p), kept[p] = {}
  PROVE  kept'[p] = {}
<1>1. CASE Start(p) \/ Open(p)
  BY <1>1 DEF Start, StartCommit, StartRebuild, StartAlias, StartRefresh, StartIndex, Begin,
              Open, OpenCommit, OpenRebuild, OpenUpdate, OpenRemove, OpenRefresh, OpenIndex, Opened
<1>2. CASE Finish(p)
  BY <1>2 DEF TypeOK, Finish, Exit
<1>3. CASE \/ WriteTree(p)
           \/ RebuildTree(p)
           \/ \E e \in Entries : RemoveEntry(p, e)
           \/ RecordRelease(p)
  BY <1>3 DEF WriteTree, OpenInfoFile, WriteInfoFile, OpenReleaseFile, WriteReleaseFile,
              SignReleaseFile, SigningFails, TreeDone, RebuildTree, RemoveEntry, RecordRelease
<1>4. CASE \/ \E x \in Packages, readable \in BOOLEAN : IndexBinary(p, x, readable)
           \/ IndexDone(p)
           \/ \E a \in Aliases : RemoveLink(p, a)
           \/ CreateLink(p)
           \/ LinkExists(p)
           \/ RefreshDone(p)
           \/ \E tb \in Tables : CloseTable(p, tb)
           \/ CommitSnapshot(p)
  BY <1>4 DEF IndexBinary, IndexDone, RemoveLink, CreateLink, LinkExists, RefreshDone, LeaveLinks,
              CloseTable, CommitSnapshot
<1>5. QED BY <1>1, <1>2, <1>3, <1>4 DEF Step, WriteTree

\* Trees stay as they are when neither they nor the records change.
LEMMA TreesFrame ==
  ASSUME NEW p, TreeSide(p), Seen(p)'.releases = Seen(p).releases,
         UNCHANGED <<leaf, top, signed>>, kept'[p] = {},
         Busy(p) \subseteq Busy(p)', pc'[p] \notin AtWork
  PROVE  TreeSide(p)'
BY DEF TreeSide, TreesHold, Listing, Writing, AtWork

\* With no leaf left to write the tree lists the packages of the command.
LEMMA AllWritten ==
  ASSUME TypeOK, NEW p \in Procs, Target(p) \in Releases, Written(p), todo[p] = {},
         kept[p] = {}
  PROVE  leaf[Target(p)] = Listing(pkgs[p])
<1>1. leaf[Target(p)] \in [Leaves -> Contents]
  BY DEF TypeOK
<1>2. Listing(pkgs[p]) = [l \in Leaves |-> Listing(pkgs[p])[l]]
  BY DEF Listing
<1>3. QED BY <1>1, <1>2 DEF Written

\* A command at work in a tree knows the number of its release.
LEMMA TargetIsRelease ==
  ASSUME TypeOK, NEW p \in Procs, pc[p] = "rmtree" \/ pc[p] \in AtWork
  PROVE  Target(p) \in Releases
BY DEF TypeOK, Jobs, AtWork, Target, Releases

\* The tree of the number that a commit gets is empty; a rebuild takes its
\* release out of those that hold.
LEMMA OpenKeepsTrees ==
  ASSUME TypeOK, NumberingInv, StagesInv, NEW p \in Procs, Open(p), TreeSide(p)
  PROVE  TreeSide(p)'
<1>1. /\ Seen(p).releases = releases /\ Seen(p)'.releases = releases /\ Busy(p) = {}
      /\ UNCHANGED <<leaf, top, signed, releases>>
  BY OpenSees, DiskFields DEF Seen, Busy, tables, InSession
<1>2. kept'[p] = {}
  BY NothingKept DEF TreeSide, Step
<1>3. CASE pc'[p] \notin AtWork
  BY <1>1, <1>2, <1>3, TreesFrame
<1>4. CASE OpenCommit(p)
  <2> DEFINE number == NextReleaseNumber(job[p].track, releases)
             r == <<job[p].track, number>>
  <2>1. CASE /\ number \in Versions
             /\ Opened(p, "write", pkgs[p], number, LeavesOf(pkgs[p]), Disk, {})
    <3>1. job[p].track \in Tracks /\ releases \in [Releases -> SUBSET Packages]
      BY DiskType DEF TypeOK, Jobs
    <3>2. releases[r] = {} /\ r \in Releases
      BY <2>1, <3>1, NextNumberIsFree DEF NumberingInv, Releases
    <3>3. leaf[r] = Listing({})
      BY <1>1, <3>2 DEF TreeSide, TreesHold
    <3>4. /\ pc'[p] = "write" /\ pkgs'[p] = pkgs[p] /\ ver'[p] = number /\ job' = job
          /\ todo'[p] = LeavesOf(pkgs[p]) /\ cur' = cur /\ pc[p] = "open"
      BY <2>1 DEF TypeOK, Opened
    <3>5. Target(p)' = r
      BY <3>4 DEF Target
    <3> HIDE DEF number, r
    <3>6. ASSUME NEW l \in Leaves \ LeavesOf(pkgs[p])
          PROVE  leaf[r][l] = Listing(pkgs[p])[l]
      <4>1. Listing(pkgs[p])[l] = {}
        BY NoLeafNoPackages DEF TypeOK
      <4>2. Listing({})[l] = {}
        BY DEF Listing
      <4>3. QED BY <3>3, <4>1, <4>2
    <3>7. Written(p)'
      BY <1>1, <3>4, <3>5, <3>6 DEF Written, Listing
    <3>8. TreesHold(Seen(p), Busy(p))'
      BY <1>1 DEF TreeSide, TreesHold, Listing
    <3>9. cur'[p] = NoEntry /\ LeavesOf(pkgs[p])' = LeavesOf(pkgs[p])
      BY <3>4 DEF StagesInv, Staged, LeavesOf, Listing
    <3>10. Writing(p)'
      BY <3>4, <3>7, <3>9 DEF Writing
    <3>11. QED BY <1>2, <3>4, <3>8, <3>10 DEF TreeSide
  <2>2. CASE Opened(p, "close", {}, NoVersion, {}, Disk, {})
    BY <1>3, <2>2 DEF TypeOK, Opened, AtWork
  <2>3. QED BY <1>4, <2>1, <2>2 DEF OpenCommit
<1>5. CASE OpenRebuild(p) \/ OpenUpdate(p) \/ OpenRemove(p) \/ OpenRefresh(p) \/ OpenIndex(p)
  <2>1. pc'[p] \in {"rmtree", "refresh", "index", "close"}
    BY <1>5 DEF TypeOK, OpenRebuild, OpenUpdate, OpenRemove, OpenRefresh, OpenIndex, Opened
  <2>2. QED BY <1>3, <2>1 DEF AtWork
<1>6. QED BY <1>4, <1>5 DEF Open

\* Building a tree: it is incomplete only while the command is busy in it.
LEMMA BuildKeepsTrees ==
  ASSUME TypeOK, NumberingInv, StagesInv, SerialInv, RestoringInv, NEW p \in Procs,
         (\E e \in Entries : RemoveEntry(p, e)) \/ RebuildTree(p) \/ WriteTree(p),
         pc[p] = "sign" => SignReleaseFile(p),
         TreeSide(p)
  PROVE  TreeSide(p)'
<1>1. /\ Seen(p) = view[p] /\ Seen(p)' = view[p] /\ UNCHANGED <<job, ver, view, releases>>
      /\ InSession(p)
  BY InnerSees DEF Seen, Inner, tables
<1>2. Target(p)' = Target(p)
  BY <1>1 DEF Target
<1>3. /\ pc[p] \in {"rmtree", "write", "release", "sign"} /\ Busy(p) = {Target(p)}
      /\ pkgs' = pkgs /\ kept' = kept
  BY DEF RemoveEntry, RebuildTree, WriteTree, OpenInfoFile, WriteInfoFile, OpenReleaseFile,
         WriteReleaseFile, SignReleaseFile, SigningFails, TreeDone, Busy
<1>4. Target(p) \in Releases
  BY <1>3, TargetIsRelease DEF AtWork
<1>5. \A r \in Releases \ {Target(p)} :
        leaf'[r] = leaf[r] /\ top'[r] = top[r] /\ signed'[r] = signed[r]
  <2>1. Start(p) \/ Step(p) \/ Fault(p)
    BY DEF Step, WriteTree, Fault
  <2>2. \A r \in Releases \ {Target(p)} :
          <<leaf[r], top[r], signed[r]>>' = <<leaf[r], top[r], signed[r]>>
    BY <2>1, OnlyTargetWritten
  <2>3. QED BY <2>2
<1>6. pc'[p] = "rmtree" \/ pc'[p] \in AtWork => TreesHold(Seen(p), Busy(p))'
  <2>1. TreesHold(view[p], {Target(p)})
    BY <1>1, <1>3 DEF TreeSide
  <2>2. pc'[p] = "rmtree" \/ pc'[p] \in AtWork => Busy(p)' = {Target(p)}
    BY <1>2 DEF Busy, AtWork
  <2>3. QED BY <1>1, <1>5, <2>1, <2>2 DEF TreesHold, Listing
<1>7. Restoring(p)'
  BY StepKeepsRestoring DEF Step, WriteTree, Fault
<1>8. kept'[p] = {}
  BY <1>3 DEF TreeSide
<1>9. CASE \E e \in Entries : RemoveEntry(p, e)
  <2>1. pc[p] = "rmtree" /\ pc' = pc
    BY <1>9 DEF RemoveEntry
  <2>2. Writing(p)'
    BY <2>1 DEF Writing
  <2>3. QED BY <1>6, <1>8, <2>1, <2>2 DEF TreeSide
<1>10. CASE RebuildTree(p)
  <2>1. /\ job[p].kind = "rebuild" /\ pkgs[p] = releases[Target(p)]
        /\ Session(p) /\ RecordedIsIndexed
    BY <1>1, <1>10 DEF RebuildTree, StagesInv, Staged, RestoringInv, Restoring, SerialInv
  <2>2. Buildable(view[p], pkgs[p])
    BY <1>4, <2>1 DEF Buildable, RecordedIsIndexed, Session
  <2>3. pc'[p] = "write"
    BY <1>10, <2>2 DEF TypeOK, RebuildTree
  <2>4. Writing(p)'
    BY <1>1, <1>7, <2>1, <2>3 DEF Restoring
  <2>5. QED BY <1>6, <1>8, <2>3, <2>4 DEF TreeSide, AtWork
<1>11. CASE WriteTree(p) /\ ~ SignReleaseFile(p)
  <2>1. pc'[p] \in {"write", "release", "sign"}
    BY <1>11 DEF TypeOK, WriteTree, OpenInfoFile, WriteInfoFile, OpenReleaseFile,
                 WriteReleaseFile, SigningFails, TreeDone
  <2>2. Writing(p)'
    BY <1>11, StepKeepsWriting DEF TreeSide, StagesInv
  <2>3. QED BY <1>6, <1>8, <2>1, <2>2 DEF TreeSide, AtWork
<1>12. CASE SignReleaseFile(p)
  <2>1. /\ pc[p] = "sign" /\ UNCHANGED <<leaf, top>> /\ signed'[Target(p)]
        /\ pc'[p] = IF job[p].kind = "commit" THEN "record" ELSE "close"
    BY <1>4, <1>12 DEF TypeOK, SignReleaseFile, TreeDone
  <2>2. leaf[Target(p)] = Listing(pkgs[p]) /\ top[Target(p)] = leaf[Target(p)]
    BY <1>4, <2>1, AllWritten DEF TreeSide, Writing
  <2>3. Listing(pkgs[p])' = Listing(pkgs[p])
    BY <1>3 DEF Listing
  <2>4. Writing(p)'
    BY <2>1 DEF Writing
  <2>5. CASE job[p].kind = "commit"
    <3>1. pc'[p] = "record"
      BY <2>1, <2>5
    <3>2. QED BY <1>2, <1>6, <1>8, <2>1, <2>2, <2>3, <2>4, <3>1 DEF TreeSide, AtWork
  <2>6. CASE job[p].kind # "commit"
    <3>1. pc'[p] = "close" /\ job[p].kind = "rebuild"
      BY <2>1, <2>6 DEF StagesInv, Staged
    <3>2. pkgs[p] = releases[Target(p)] /\ Recorded(Target(p))
      BY <2>1, <3>1 DEF RestoringInv, Restoring, Recorded
    <3>3. view[p].releases[Target(p)] = pkgs[p]
      BY <1>1, <1>4, <3>2, SeenRecorded DEF SerialInv
    <3>4. TreesHold(view[p], {})'
      <4>1. leaf'[Target(p)] = Listing(view[p].releases[Target(p)])
            /\ top'[Target(p)] = leaf'[Target(p)] /\ signed'[Target(p)]
        BY <2>1, <2>2, <3>3
      <4>2. \A r \in Releases \ {Target(p)} :
              /\ leaf[r] = Listing(view[p].releases[r])
              /\ view[p].releases[r] # {} => top[r] = leaf[r] /\ signed[r]
        BY <1>1, <1>3 DEF TreeSide, TreesHold
      <4>3. \A r \in Releases :
              /\ leaf'[r] = Listing(view[p].releases[r])
              /\ view[p].releases[r] # {} => top'[r] = leaf'[r] /\ signed'[r]
        <5>1. ASSUME NEW r \in Releases, r # Target(p)
              PROVE  /\ leaf'[r] = Listing(view[p].releases[r])
                     /\ view[p].releases[r] # {} => top'[r] = leaf'[r] /\ signed'[r]
          BY <1>5, <4>2, <5>1
        <5>2. QED BY <4>1, <5>1
      <4>4. QED BY <1>1, <4>3 DEF TreesHold, Listing
    <3>5. Busy(p)' = {}
      BY <3>1 DEF Busy
    <3>6. QED BY <1>1, <1>8, <2>4, <3>1, <3>4, <3>5 DEF TreeSide
  <2>7. QED BY <2>5, <2>6
<1>13. QED BY <1>9, <1>10, <1>11, <1>12

\* The record of a commit says what its tree lists.
LEMMA RecordKeepsTrees ==
  ASSUME TypeOK, NEW p \in Procs, TreeSide(p), RecordRelease(p)
  PROVE  TreeSide(p)'
<1>1. /\ pc[p] = "record" /\ pc'[p] = "refresh" /\ UNCHANGED <<leaf, top, signed>>
      /\ view'[p].releases = [view[p].releases EXCEPT ![Target(p)] = pkgs[p]]
      /\ Seen(p) = view[p] /\ Seen(p)' = view'[p]
  BY RecordSees DEF Seen, InSession
<1>2. Busy(p) = {Target(p)} /\ Busy(p)' = {} /\ Target(p) \in Releases
  BY <1>1, TargetIsRelease DEF Busy, AtWork
<1>3. view[p].releases \in [Releases -> SUBSET Packages]
  BY DEF TypeOK, Cache
<1>4. /\ view'[p].releases[Target(p)] = pkgs[p]
      /\ \A r \in Releases \ {Target(p)} : view'[p].releases[r] = view[p].releases[r]
  BY <1>1, <1>2, <1>3
<1>5. ASSUME NEW r \in Releases
      PROVE  /\ leaf[r] = Listing(view'[p].releases[r])
             /\ view'[p].releases[r] # {} => top[r] = leaf[r] /\ signed[r]
  <2>1. CASE r = Target(p)
    BY <1>1, <1>4, <2>1 DEF TreeSide
  <2>2. CASE r # Target(p)
    BY <1>1, <1>2, <1>4, <2>2 DEF TreeSide, TreesHold
  <2>3. QED BY <2>1, <2>2
<1>6. TreesHold(Seen(p), Busy(p))'
  <2>1. \A r \in Releases :
          /\ leaf'[r] = Listing(view'[p].releases[r])
          /\ view'[p].releases[r] # {} => top'[r] = leaf'[r] /\ signed'[r]
    BY <1>1, <1>5
  <2>2. TreesHold(view[p], {})'
    BY <1>1, <2>1 DEF TreesHold, Listing
  <2>3. QED BY <1>1, <1>2, <2>2
<1>7. kept'[p] = {}
  BY NothingKept DEF TreeSide, Step
<1>8. QED BY <1>1, <1>6, <1>7 DEF TreeSide, Writing

\* A command that has written the Release file signs it, when gpg does not fail.
LEMMA SignsTree ==
  ASSUME NEW p \in Procs, Start(p) \/ Step(p), pc[p] = "sign"
  PROVE  SignReleaseFile(p)
BY DEF Start, StartCommit, StartRebuild, StartAlias, StartRefresh, StartIndex, Begin, MayStart,
       Step, Open, OpenCommit, OpenRebuild, OpenUpdate, OpenRemove, OpenRefresh, OpenIndex,
       Opened, IndexBinary, IndexDone, RemoveEntry, RebuildTree, OpenInfoFile, WriteInfoFile,
       OpenReleaseFile, WriteReleaseFile, RecordRelease, RemoveLink, CreateLink, LinkExists,
       RefreshDone, CloseTable, Finish, CommitSnapshot, AllClosed

\* A command that is not disturbed leaves trees that list what is recorded.
LEMMA TreesKept ==
  ASSUME TypeOK, NumberingInv, StagesInv, SerialInv, RestoringInv,
         NEW p \in Procs, Start(p) \/ Step(p),
         InSession(p) => Session(p) /\ Fresh(p),
         TreeSide(p)
  PROVE  TreeSide(p)'
<1>1. kept'[p] = {}
  BY NothingKept DEF TreeSide
<1>2. pc[p] = "sign" => SignReleaseFile(p)
  BY SignsTree
<1>3. CASE Start(p)
  <2>1. /\ Busy(p) = {} /\ Seen(p) = Disk /\ Seen(p)' = Disk /\ UNCHANGED <<leaf, top, signed>>
        /\ pc'[p] = "open"
    BY <1>3, StartSees DEF Busy, Seen, InSession
  <2>2. QED BY <2>1, <1>1, TreesFrame DEF AtWork
<1>4. CASE Open(p)
  BY <1>4, OpenKeepsTrees
<1>5. ASSUME NEW x \in Packages, NEW readable \in BOOLEAN, IndexBinary(p, x, readable)
      PROVE  TreeSide(p)'
  <2>1. /\ pc[p] = "index" /\ pc'[p] = "index" /\ UNCHANGED <<leaf, top, signed>>
        /\ view'[p].releases = view[p].releases
    BY <1>5, IndexSees
  <2>2. QED BY <2>1, <1>1, TreesFrame DEF AtWork, Busy, Seen, InSession
<1>6. CASE (\E e \in Entries : RemoveEntry(p, e)) \/ RebuildTree(p) \/ WriteTree(p)
  BY <1>6, <1>2, BuildKeepsTrees
<1>7. CASE \/ IndexDone(p)
           \/ \E a \in Aliases : RemoveLink(p, a)
           \/ CreateLink(p)
           \/ LinkExists(p)
           \/ RefreshDone(p)
  <2>1. /\ pc[p] \in {"index", "refresh", "symlink"} /\ UNCHANGED <<leaf, top, signed>>
        /\ pc'[p] \in {"close", "refresh", "symlink"}
    BY <1>7 DEF TypeOK, IndexDone, RemoveLink, CreateLink, LinkExists, RefreshDone, LeaveLinks,
                dists
  <2>2. Seen(p) = view[p] /\ Seen(p)' = view[p]
    BY <1>7, InnerSees DEF Seen, Inner
  <2>3. QED BY <2>1, <2>2, <1>1, TreesFrame DEF AtWork, Busy
<1>8. CASE RecordRelease(p)
  BY <1>8, RecordKeepsTrees
<1>9. ASSUME NEW tb \in Tables, CloseTable(p, tb)
      PROVE  TreeSide(p)'
  <2>1. /\ Seen(p) = view[p] /\ Seen(p)' = view[p] /\ UNCHANGED <<leaf, top, signed>>
        /\ pc[p] = "close" /\ pc' = pc
    BY <1>9, CloseSees DEF Seen, CloseTable
  <2>2. QED BY <2>1, <1>1, TreesFrame DEF AtWork, Busy
<1>10. CASE Finish(p) \/ CommitSnapshot(p)
  <2>1. InSession(p)
    BY <1>10 DEF Finish, CommitSnapshot, AllClosed, InSession
  <2>2. /\ pc[p] = "close" /\ ~ InSession(p)' /\ UNCHANGED <<leaf, top, signed>> /\ Disk' = Disk
        /\ view[p].releases = releases
    BY <1>10, <2>1, EndSees
  <2>3. Seen(p) = view[p] /\ Seen(p)' = Disk
    BY <2>1, <2>2 DEF Seen
  <2>4. QED BY <2>2, <2>3, DiskFields, <1>1, TreesFrame DEF AtWork, Busy, InSession
<1>11. QED BY <1>3, <1>4, <1>5, <1>6, <1>7, <1>8, <1>9, <1>10, StepCases DEF Inner

\* The parts of the invariant.
LEMMA UndisturbedParts ==
  ASSUME NEW p
  PROVE  Undisturbed(p) <=> (InSession(p) => Fresh(p)) /\ AliasSide(p) /\ TreeSide(p)
BY DEF Undisturbed, AliasSide, TreeSide

\* Who is idle sees the tables on disk.
LEMMA IdleSeesDisk ==
  ASSUME NEW p \in Procs, pc[p] = "idle", kept[p] = {}
  PROVE  Undisturbed(p) <=> AliasesHold(Disk, {}) /\ TreesHold(Disk, {})
BY DEF Undisturbed, Seen, Undone, Busy, Writing, InSession

\* Steps of commands that run to their end keep the invariant.
LEMMA UndisturbedPreserved ==
  ASSUME Overlap = FALSE
  PROVE  TypeOK /\ NumberingInv /\ StagesInv /\ SerialInv /\ RestoringInv /\ UndisturbedInv
           /\ [ReliableNext]_vars => UndisturbedInv'
<1> SUFFICES ASSUME TypeOK, NumberingInv, StagesInv, SerialInv, RestoringInv, UndisturbedInv,
                    [ReliableNext]_vars
             PROVE  UndisturbedInv'
  OBVIOUS
<1>1. CASE UNCHANGED <<tables, dists, local>>
  <2>1. (Quiet' <=> Quiet) /\ \A p \in Procs : Alone(p)' <=> Alone(p)
    BY <1>1 DEF Quiet, Alone, local
  <2>2. QED
    BY <1>1, <2>1 DEF UndisturbedInv, Undisturbed, Fresh, AliasesHold, TreesHold, Seen,
              Disk, Undone, Busy, Writing, Written, Listing, LeavesOf, Target, InSession, tables, dists, local
<1>2. ASSUME NEW p \in Procs, Start(p) \/ Step(p)
      PROVE  UndisturbedInv'
  <2>1. \A q \in Procs : q # p => pc[q] = "idle" /\ pc'[q] = "idle"
    BY <1>2, RunsAlone, OthersUntouched DEF SerialInv
  <2>2. Undisturbed(p)
    BY <2>1 DEF UndisturbedInv, Alone
  <2>3. Undisturbed(p)'
    <3>1. InSession(p) => Session(p)
      BY DEF SerialInv
    <3>2. (InSession(p) => Fresh(p)) /\ AliasSide(p) /\ TreeSide(p)
      BY <2>2, UndisturbedParts
    <3>3. InSession(p)' => Fresh(p)'
      BY <1>2, <3>1, <3>2, FreshKept
    <3>4. AliasSide(p)'
      BY <1>2, <3>1, <3>2, AliasesKept
    <3>5. TreeSide(p)'
      BY <1>2, <3>1, <3>2, TreesKept
    <3>6. QED BY <3>3, <3>4, <3>5 DEF Undisturbed, AliasSide, TreeSide
  <2>4. pc'[p] = "idle" => AliasesHold(Disk, {})' /\ TreesHold(Disk, {})'
    BY <2>3 DEF Undisturbed, Seen, Undone, Busy, InSession
  <2>5. StagesInv'
    BY StagesPreserved DEF Next
  <2>6. ASSUME NEW q \in Procs, Alone(q)'
        PROVE  Undisturbed(q)'
    <3>1. CASE q = p
      BY <2>3, <3>1
    <3>2. CASE q # p
      <4>1. pc'[q] = "idle" /\ pc'[p] = "idle"
        BY <2>1, <2>6, <3>2 DEF Alone
      <4>2. kept'[q] = {}
        BY <2>5, <4>1 DEF StagesInv, Staged
      <4>3. QED BY <2>4, <4>1, <4>2 DEF Undisturbed, Seen, Undone, Busy, Writing, InSession
    <3>3. QED BY <3>1, <3>2
  <2>7. QED BY <2>4, <2>6 DEF UndisturbedInv, Quiet
<1>3. QED BY <1>1, <1>2 DEF ReliableNext, AddToPool, vars

\* The inductive invariant of commands that neither overlap nor fail: the
\* tables that the running command is going to leave behind, or those on disk
\* when none runs, name recorded releases only, all links but those still to be
\* refreshed follow them, and in all trees but the one at work the Packages file
\* of each component and published architecture lists the recorded packages that
\* GroupByArch sends there.
THEOREM UndisturbedCorrect == ASSUME Overlap = FALSE PROVE ReliableSpec => []UndisturbedInv
<1>1. Init => UndisturbedInv
  <2> SUFFICES ASSUME Init
               PROVE  UndisturbedInv
    OBVIOUS
  <2>1. AliasesHold(Disk, {}) /\ TreesHold(Disk, {})
    BY DEF Init, AliasesHold, TreesHold, Disk, EmptyDisk, NoListing, Listing
  <2>2. \A p \in Procs : pc[p] = "idle" /\ kept[p] = {}
    BY DEF Init
  <2>3. QED BY <2>1, <2>2, IdleSeesDisk DEF UndisturbedInv
<1>2. TypeOK /\ NumberingInv /\ StagesInv /\ SerialInv /\ RestoringInv /\ UndisturbedInv
        /\ [ReliableNext]_vars => UndisturbedInv'
  BY UndisturbedPreserved
<1>3. QED
  BY <1>1, <1>2, ReliableIsSpec, TypeCorrect, NumberingCorrect, StagesCorrect, SerialCorrect,
     RestoringCorrect, PTL DEF ReliableSpec

\* Between commands that neither overlap nor fail, every alias names a recorded
\* release, and its symlink names the same one.
THEOREM AliasesStayInForce == ASSUME Overlap = FALSE PROVE ReliableSpec => []AliasesInForce
<1>1. UndisturbedInv => AliasesInForce
  BY DEF UndisturbedInv, AliasesInForce, AliasesHold, Disk, Recorded, Aliases
<1>2. QED BY <1>1, UndisturbedCorrect, PTL

\* While commands neither overlap nor fail, the tree of a recorded release that
\* nobody rebuilds has each recorded package in the Packages files it belongs in
\* and nothing else, a package of an architecture that is not published is in
\* none, and the signed Release file names what is in the tree.
THEOREM TreesMatchRecords == ASSUME Overlap = FALSE PROVE ReliableSpec => []TreeMatchesRecord
<1>1. ASSUME TypeOK, StagesInv, SerialInv, UndisturbedInv, NEW r \in Releases, Recorded(r),
             ~ Rebuilding(r)
      PROVE  leaf[r] = Layout(releases[r]) /\ top[r] = leaf[r] /\ signed[r]
  <2>1. Listing(releases[r]) = Layout(releases[r])
    BY <1>1, ListingIsLayout, DiskType DEF TypeOK
  <2>2. CASE Quiet
    BY <1>1, <2>1, <2>2 DEF UndisturbedInv, TreesHold, Disk, Recorded
  <2>3. CASE ~ Quiet
    <3>1. PICK p \in Procs : pc[p] # "idle"
      BY <2>3 DEF Quiet
    <3>2. Undisturbed(p)
      BY <1>1, <3>1 DEF SerialInv, OneAtATime, Alone, UndisturbedInv
    <3>3. Seen(p).releases[r] = releases[r]
      BY <1>1, SeenRecorded DEF SerialInv
    <3>4. r \notin Busy(p)
      <4>1. ASSUME Building(p)
            PROVE  r # Target(p)
        BY <1>1, <4>1 DEF SerialInv, Session, Building, InSession, Recorded
      <4>2. ASSUME pc[p] \in {"rmtree", "write", "release", "sign"}, job[p].kind = "rebuild"
            PROVE  r # Target(p)
        BY <1>1, <4>2 DEF Rebuilding
      <4>3. pc[p] \in {"rmtree", "write", "release", "sign", "record"} =>
              \/ Building(p)
              \/ pc[p] \in {"rmtree", "write", "release", "sign"} /\ job[p].kind = "rebuild"
        BY <1>1 DEF Building, StagesInv, Staged
      <4>4. QED BY <4>1, <4>2, <4>3 DEF Busy
    <3>5. QED BY <1>1, <2>1, <3>2, <3>3, <3>4 DEF Undisturbed, TreesHold, Recorded
  <2>4. QED BY <2>2, <2>3
<1>2. TypeOK /\ StagesInv /\ SerialInv /\ UndisturbedInv => TreeMatchesRecord
  BY <1>1 DEF TreeMatchesRecord
<1>3. QED
  BY <1>2, ReliableIsSpec, TypeCorrect, StagesCorrect, SerialCorrect, UndisturbedCorrect, PTL
-----------------------------------------------------------------------------
(***************************************************************************)
(* The snapshot track.                                                     *)
(***************************************************************************)

\* A package of which no later version is in the set: the one with the fewest
\* later versions.
LEMMA LatestExist ==
  ASSUME NEW S \in SUBSET Packages, S # {}
  PROVE  SelectLatestPackages(S) # {}
<1> DEFINE later(x) == {y \in S : <<y, x>> \in Newer}
           U == {later(x) : x \in S}
           R == StrictSubsetOrdering(Packages)
<1>1. U \subseteq FiniteSubsetsOf(Packages)
  <2>1. FiniteSubsetsOf(Packages) = SUBSET Packages
    BY NewerAssumption, FS_FiniteSubsetsOfFinite
  <2>2. QED BY <2>1
<1>2. PICK A \in U : \A B \in U : <<B, A>> \notin R
  <2>1. IsWellFoundedOn(R, FiniteSubsetsOf(Packages))
    BY NewerAssumption, FS_StrictSubsetOrderingWellFounded
  <2>2. U # {}
    OBVIOUS
  <2> HIDE DEF U, R
  <2>3. QED BY <1>1, <2>1, <2>2, WFMin
<1>3. PICK x \in S : A = later(x)
  OBVIOUS
<1>4. ASSUME NEW y \in S, <<y, x>> \in Newer
      PROVE  FALSE
  <2>1. y \in later(x) /\ y \notin later(y)
    BY <1>4, NewerAssumption
  <2>2. later(y) \subseteq later(x)
    BY <1>4, NewerAssumption
  <2>3. <<later(y), later(x)>> \in R
    BY <2>1, <2>2 DEF StrictSubsetOrdering
  <2>4. later(y) \in U
    OBVIOUS
  <2>5. QED BY <1>2, <1>3, <2>3, <2>4
<1>5. x \in SelectLatestPackages(S)
  BY <1>4 DEF SelectLatestPackages
<1>6. QED BY <1>5

\* A number that is out of range comes after the last one that the model has.
LEMMA NoNumberLeft ==
  ASSUME NEW t \in Tracks,
         NEW rel \in [Releases -> SUBSET Packages],
         NextReleaseNumber(t, rel) \notin Versions
  PROVE  rel[<<t, MaxRelease>>] # {}
<1> DEFINE used == {v \in Versions : rel[<<t, v>>] # {}}
<1>1. used # {}
  BY ConstantsAssumption DEF NextReleaseNumber, Versions
<1>2. PICK m \in used : NextReleaseNumber(t, rel) = 1 + m
  <2> DEFINE last == CHOOSE v \in used : \A u \in used : u <= v
  <2>1. \E x \in used : \A y \in used : y <= x
    BY <1>1, BoundedSetHasMaximum, ConstantsAssumption DEF Versions
  <2>2. last \in used
    BY <2>1
  <2>3. QED BY <1>1, <2>2 DEF NextReleaseNumber
<1>3. m = MaxRelease
  BY <1>2, ConstantsAssumption DEF Versions
<1>4. QED BY <1>3

\* Without make_release commit only index_pool commits, to the snapshot track.
LEMMA OpenKeepsSnapped ==
  ASSUME TypeOK, StagesInv, "commit" \notin Commands, NEW p \in Procs, Snapped(p), Open(p)
  PROVE  Snapped(p)'
<1>1. /\ Seen(p).pkg_info = pkg_info /\ Seen(p).pkg_deps = pkg_deps
      /\ Seen(p).releases = releases /\ pc[p] = "open"
      /\ Seen(p)'.pkg_info = pkg_info /\ Seen(p)'.pkg_deps = pkg_deps
      /\ Seen(p)'.releases = releases /\ pkg_info' = pkg_info /\ job'[p] = job[p]
  <2>1. pc[p] = "open"
    BY DEF Open, OpenCommit, OpenRebuild, OpenUpdate, OpenRemove, OpenRefresh, OpenIndex,
           Opened
  <2>2. QED BY <2>1, OpenSees, DiskFields DEF Seen, tables
<1>2. pkg_info = pkg_deps /\ pkg_info \in SUBSET Packages
  BY <1>1, DiskType DEF Snapped, TypeOK
<1>3. CASE OpenCommit(p)
  <2> DEFINE number == NextReleaseNumber(job[p].track, releases)
  <2>1. /\ job[p].kind = "commit" /\ Pending(p) /\ job[p].track = Snapshot
        /\ pkgs[p] = SelectLatestPackages(pkg_info) /\ pkgs[p] # {}
    BY <1>1, <1>3 DEF OpenCommit, Pending, Snapped
  <2>2. Buildable(Disk, pkgs[p])
    BY <1>2, <2>1, DiskFields DEF Buildable, SelectLatestPackages
  <2>3. CASE number \in Versions
    <3>1. pc'[p] = "write" /\ pkgs'[p] = pkgs[p]
      BY <1>3, <2>1, <2>2, <2>3 DEF TypeOK, OpenCommit, Opened
    <3>2. QED BY <1>1, <1>2, <2>1, <3>1 DEF Snapped, Pending
  <2>4. CASE number \notin Versions
    <3>1. pc'[p] = "close"
      BY <1>3, <2>4 DEF TypeOK, OpenCommit, Opened
    <3>2. releases[<<Snapshot, MaxRelease>>] # {}
      BY <2>1, <2>4, NoNumberLeft, DiskType, ConstantsAssumption DEF TypeOK
    <3>3. Current(releases, pkg_info)
      BY <3>2 DEF Current
    <3>4. QED BY <1>1, <1>2, <2>1, <3>1, <3>3 DEF Snapped, Pending
  <2>5. QED BY <2>3, <2>4
<1>4. CASE OpenRebuild(p) \/ OpenUpdate(p) \/ OpenRemove(p) \/ OpenRefresh(p)
  <2>1. job[p].kind \notin {"commit", "index"} /\ pc'[p] # "index"
    BY <1>4 DEF TypeOK, OpenRebuild, OpenUpdate, OpenRemove, OpenRefresh, Opened
  <2>2. Current(releases, pkg_info)
    BY <1>1, <2>1 DEF Snapped, Pending
  <2>3. QED BY <1>1, <1>2, <2>1, <2>2 DEF Snapped, Pending
<1>5. CASE OpenIndex(p)
  <2>1. job[p].kind = "index" /\ pc'[p] = "index" /\ pkgs'[p] = {}
    BY <1>5 DEF TypeOK, OpenIndex, Opened
  <2>2. Current(releases, pkg_info)
    BY <1>1, <2>1 DEF Snapped, Pending
  <2>3. QED BY <1>1, <1>2, <2>1, <2>2 DEF Snapped, Pending
<1>6. QED BY <1>3, <1>4, <1>5 DEF Open

\* Building a release leaves what is pending pending.
LEMMA InnerKeepsSnapped ==
  ASSUME TypeOK, StagesInv, NEW p \in Procs, Snapped(p), Inner(p)
  PROVE  Snapped(p)'
<1>1. /\ Seen(p) = view[p] /\ Seen(p)' = view[p]
      /\ UNCHANGED <<pkg_info, job>> /\ Staged(p)
  BY InnerSees DEF Seen, tables, StagesInv
<1>2. CASE IndexDone(p)
  <2>1. /\ pc[p] = "index" /\ pc'[p] = "close" /\ job[p].kind = "index"
        /\ pkgs'[p] = IF pkgs[p] = {} THEN {} ELSE SelectLatestPackages(view[p].pkg_info)
    BY <1>1, <1>2 DEF TypeOK, IndexDone, Staged
  <2>2. /\ Current(view[p].releases, pkg_info)
        /\ view[p].pkg_info = pkg_info \cup pkgs[p]
        /\ view[p].pkg_info = view[p].pkg_deps
    BY <1>1, <2>1 DEF Snapped
  <2>3. CASE pkgs[p] = {}
    <3>1. view[p].pkg_info = pkg_info /\ pkgs'[p] = {}
      BY <2>1, <2>2, <2>3
    <3>2. QED BY <1>1, <2>1, <2>2, <3>1 DEF Snapped, Pending
  <2>4. CASE pkgs[p] # {}
    <3>1. view[p].pkg_info # {} /\ view[p].pkg_info \in SUBSET Packages
      BY <2>2, <2>4 DEF TypeOK, Cache
    <3>2. pkgs'[p] = SelectLatestPackages(view[p].pkg_info) /\ pkgs'[p] # {}
      BY <2>1, <2>4, <3>1, LatestExist
    <3>3. QED BY <1>1, <2>1, <2>2, <3>2 DEF Snapped, Pending
  <2>5. QED BY <2>3, <2>4
<1>3. CASE (\E e \in Entries : RemoveEntry(p, e)) \/ RebuildTree(p)
  <2>1. pkgs' = pkgs /\ pc[p] # "index" /\ pc'[p] # "index" /\ job[p].kind = "rebuild"
    BY <1>1, <1>3 DEF TypeOK, RemoveEntry, RebuildTree, Staged
  <2>2. QED BY <1>1, <2>1 DEF Snapped, Pending
<1>4. CASE WriteTree(p)
  <2>1. /\ pkgs' = pkgs /\ pc[p] \in {"write", "release", "sign"}
        /\ \/ job[p].kind = "rebuild" /\ pc'[p] # "index"
           \/ job[p].kind = "commit" /\ pc'[p] \in {"write", "release", "sign", "record"}
    BY <1>1, <1>4 DEF TypeOK, WriteTree, OpenInfoFile, WriteInfoFile, OpenReleaseFile,
                      WriteReleaseFile, SignReleaseFile, SigningFails, TreeDone, Staged
  <2>2. QED BY <1>1, <2>1 DEF Snapped, Pending
<1>5. CASE (\E a \in Aliases : RemoveLink(p, a)) \/ CreateLink(p) \/ LinkExists(p) \/ RefreshDone(p)
  <2>1. /\ pkgs' = pkgs /\ pc[p] \in {"refresh", "symlink"}
        /\ pc'[p] \in {"refresh", "symlink", "close"} /\ job[p].kind # "index"
    BY <1>1, <1>5 DEF TypeOK, RemoveLink, CreateLink, LinkExists, RefreshDone, LeaveLinks, Staged
  <2>2. QED BY <1>1, <2>1 DEF Snapped, Pending
<1>6. QED BY <1>2, <1>3, <1>4, <1>5 DEF Inner

\* The new record is the newest of the snapshot track: the numbers above it
\* are not recorded because it was not.
LEMMA RecordKeepsSnapped ==
  ASSUME TypeOK, NumberingInv, NEW p \in Procs, Session(p), Staged(p), Snapped(p),
         RecordRelease(p)
  PROVE  Snapped(p)'
<1>1. /\ pc[p] = "record" /\ pc'[p] = "refresh" /\ UNCHANGED <<job, pkgs, pkg_info>>
      /\ view'[p].releases = [view[p].releases EXCEPT ![Target(p)] = pkgs[p]]
      /\ view'[p].pkg_info = view[p].pkg_info /\ view'[p].pkg_deps = view[p].pkg_deps
      /\ Seen(p) = view[p] /\ Seen(p)' = view'[p]
  BY RecordSees DEF Seen, InSession, tables
<1>2. job[p].kind = "commit" /\ Pending(p) /\ Building(p)
  BY <1>1 DEF Staged, Pending, Building
<1>3. /\ job[p].track = Snapshot /\ Target(p) = <<Snapshot, ver[p]>>
      /\ pkgs[p] = SelectLatestPackages(view[p].pkg_info) /\ pkgs[p] # {}
  BY <1>1, <1>2 DEF Snapped, Target
<1>4. /\ ver[p] \in Versions /\ Segment(view[p].releases)
      /\ view[p].releases[<<Snapshot, ver[p]>>] = {}
      /\ view[p].releases \in [Releases -> SUBSET Packages]
  BY <1>2, <1>3 DEF NumberingInv, Numbered, Session, TypeOK, Cache
<1>5. Current(view'[p].releases, view'[p].pkg_info)
  <2> SUFFICES ASSUME view'[p].releases[<<Snapshot, MaxRelease>>] = {}
               PROVE  /\ view'[p].releases[<<Snapshot, ver[p]>>] = SelectLatestPackages(view[p].pkg_info)
                      /\ view'[p].releases[<<Snapshot, ver[p] + 1>>] = {}
    BY <1>1, <1>4 DEF Current
  <2>1. /\ view'[p].releases[<<Snapshot, ver[p]>>] = pkgs[p]
        /\ \A u \in Versions : u # ver[p] =>
             view'[p].releases[<<Snapshot, u>>] = view[p].releases[<<Snapshot, u>>]
    BY <1>1, <1>3, <1>4, ConstantsAssumption DEF Releases
  <2>2. ver[p] # MaxRelease
    BY <1>3, <2>1
  <2>3. ver[p] + 1 \in Versions /\ ver[p] \in 0 .. ver[p] /\ ver[p] + 1 # ver[p]
        /\ (ver[p] + 1) - 1 = ver[p]
    BY <1>4, <2>2, ConstantsAssumption DEF Versions
  <2>4. view[p].releases[<<Snapshot, ver[p] + 1>>] = {}
    BY <1>4, <2>3, ConstantsAssumption DEF Segment
  <2>5. QED BY <1>3, <2>1, <2>3, <2>4
<1>6. QED BY <1>1, <1>2, <1>3, <1>5 DEF Snapped, Pending

\* Every step keeps the snapshot track up with what is indexed.
LEMMA SnappedKept ==
  ASSUME TypeOK, NumberingInv, StagesInv, SerialInv, "commit" \notin Commands,
         NEW p \in Procs, Start(p) \/ Step(p), InSession(p) => Session(p) /\ Fresh(p),
         Snapped(p)
  PROVE  Snapped(p)'
<1>1. Staged(p)
  BY DEF StagesInv
<1>2. CASE Start(p)
  <2>1. /\ pc[p] = "idle" /\ pc'[p] = "open" /\ job'[p].kind \in Commands
    BY <1>2 DEF TypeOK, Start, StartCommit, StartRebuild, StartAlias, StartRefresh, StartIndex,
                Begin, MayStart
  <2>2. /\ Seen(p) = Disk /\ Seen(p)' = Disk /\ pkg_info' = pkg_info
    BY <1>2, StartSees DEF Seen, tables
  <2>3. job[p].kind = "none" /\ job'[p].kind # "commit"
    BY <1>1, <2>1 DEF Staged
  <2>4. QED BY <2>1, <2>2, <2>3 DEF Snapped, Pending
<1>3. CASE Open(p)
  BY <1>3, OpenKeepsSnapped
<1>4. ASSUME NEW x \in Packages, NEW readable \in BOOLEAN, IndexBinary(p, x, readable)
      PROVE  Snapped(p)'
  <2>1. /\ pc[p] = "index" /\ pc' = pc /\ job' = job /\ pkg_info' = pkg_info
        /\ view'[p].releases = view[p].releases
        /\ Seen(p) = view[p] /\ Seen(p)' = view'[p]
    BY <1>4, IndexSees DEF Seen, InSession, tables
  <2>2. \/ /\ view'[p].pkg_info = view[p].pkg_info \cup {x}
           /\ view'[p].pkg_deps = view[p].pkg_deps \cup {x}
           /\ pkgs'[p] = pkgs[p] \cup {x}
        \/ /\ view'[p].pkg_info = view[p].pkg_info
           /\ view'[p].pkg_deps = view[p].pkg_deps
           /\ pkgs'[p] = pkgs[p]
    BY <1>4, IndexSees
  <2>3. /\ view[p].pkg_info = view[p].pkg_deps /\ Current(view[p].releases, pkg_info)
        /\ view[p].pkg_info = pkg_info \cup pkgs[p]
        /\ job[p].kind = "index"
    BY <1>1, <2>1 DEF Snapped, Staged
  <2>4. view'[p].pkg_info = view'[p].pkg_deps /\ view'[p].pkg_info = pkg_info \cup pkgs'[p]
    BY <2>2, <2>3
  <2>5. QED BY <2>1, <2>3, <2>4 DEF Snapped, Pending
<1>5. CASE Inner(p)
  BY <1>5, InnerKeepsSnapped
<1>6. CASE RecordRelease(p)
  <2>1. Session(p)
    BY <1>6 DEF RecordRelease, SerialInv, InSession
  <2>2. QED BY <1>1, <1>6, <2>1, RecordKeepsSnapped
<1>7. ASSUME NEW tb \in Tables, CloseTable(p, tb)
      PROVE  Snapped(p)'
  <2>1. /\ Seen(p) = view[p] /\ Seen(p)' = view[p] /\ pc[p] = "close"
        /\ UNCHANGED <<pc, job, pkgs>>
    BY <1>7, CloseSees DEF Seen, CloseTable
  <2>2. QED BY <2>1 DEF Snapped, Pending
<1>8. CASE Finish(p) \/ CommitSnapshot(p)
  <2>1. InSession(p)
    BY <1>8 DEF Finish, CommitSnapshot, AllClosed, InSession
  <2>2. /\ pc[p] = "close" /\ ~ InSession(p)' /\ Disk' = Disk /\ pkg_info' = pkg_info
        /\ view[p].pkg_info = pkg_info /\ view[p].pkg_deps = pkg_deps
        /\ view[p].releases = releases
    BY <1>8, <2>1, EndSees DEF tables
  <2>3. /\ Seen(p) = view[p] /\ Seen(p)'.pkg_info = pkg_info /\ Seen(p)'.pkg_deps = pkg_deps
        /\ Seen(p)'.releases = releases
    BY <2>1, <2>2, DiskFields DEF Seen
  <2>4. CASE Finish(p)
    <3>1. pc'[p] = "idle" /\ job'[p].kind = "none" /\ ~ Pending(p)
      BY <2>2, <2>4 DEF TypeOK, Finish, Exit, NoJob, Pending
    <3>2. QED BY <2>2, <2>3, <3>1 DEF Snapped, Pending
  <2>5. CASE CommitSnapshot(p)
    <3>1. /\ pc'[p] = "open" /\ job'[p].kind = "commit" /\ job'[p].track = Snapshot
          /\ pkgs' = pkgs /\ Pending(p)
      BY <2>2, <2>5 DEF TypeOK, Jobs, CommitSnapshot, Pending
    <3>2. QED BY <2>2, <2>3, <3>1 DEF Snapped, Pending
  <2>6. QED BY <1>8, <2>4, <2>5
<1>9. QED BY <1>2, <1>3, <1>4, <1>5, <1>6, <1>7, <1>8, StepCases

\* Nobody but index_pool commits, and one command runs at a time.
LEMMA SnapshotPreserved ==
  ASSUME Overlap = FALSE, "commit" \notin Commands
  PROVE  TypeOK /\ NumberingInv /\ StagesInv /\ SerialInv /\ UndisturbedInv /\ SnapshotInv
           /\ [ReliableNext]_vars => SnapshotInv'
<1> SUFFICES ASSUME TypeOK, NumberingInv, StagesInv, SerialInv, UndisturbedInv, SnapshotInv,
                    [ReliableNext]_vars
             PROVE  SnapshotInv'
  OBVIOUS
<1>1. CASE UNCHANGED <<tables, dists, local>>
  BY <1>1 DEF SnapshotInv, Quiet, Alone, Snapped, Pending, Current, Seen, Disk, InSession,
              tables, dists, local
<1>2. ASSUME NEW p \in Procs, Start(p) \/ Step(p)
      PROVE  SnapshotInv'
  <2>1. \A q \in Procs : q # p => pc[q] = "idle" /\ pc'[q] = "idle"
    BY <1>2, RunsAlone, OthersUntouched DEF SerialInv
  <2>2. Snapped(p) /\ (InSession(p) => Session(p) /\ Fresh(p))
    BY <2>1 DEF SnapshotInv, UndisturbedInv, Alone, Undisturbed, SerialInv
  <2>3. Snapped(p)'
    BY <1>2, <2>2, SnappedKept
  <2>4. \A q \in Procs : Staged(q)'
    BY StagesPreserved DEF StagesInv, Next
  <2>5. pc'[p] = "idle" => pkg_info' = pkg_deps' /\ Current(releases', pkg_info')
    BY <2>3, <2>4 DEF Snapped, Pending, Staged, Seen, Disk, InSession
  <2>6. ASSUME NEW q \in Procs, Alone(q)'
        PROVE  Snapped(q)'
    <3>1. CASE q = p
      BY <2>3, <3>1
    <3>2. CASE q # p
      <4>1. pc'[q] = "idle" /\ pc'[p] = "idle"
        BY <2>1, <2>6, <3>2 DEF Alone
      <4>2. job'[q].kind = "none"
        BY <2>4, <4>1 DEF Staged
      <4>3. QED BY <2>5, <4>1, <4>2 DEF Snapped, Pending, Seen, Disk, InSession
    <3>3. QED BY <3>1, <3>2
  <2>7. QED BY <2>5, <2>6 DEF SnapshotInv, Quiet, Current
<1>3. QED BY <1>1, <1>2 DEF ReliableNext, AddToPool, vars

\* While index_pool is the only one to commit and commands neither overlap nor
\* fail, the newest snapshot release holds the latest version of every package
\* that was ever indexed, for every order of versions.
THEOREM SnapshotStaysCurrent ==
  ASSUME Overlap = FALSE, "commit" \notin Commands
  PROVE  ReliableSpec => []SnapshotCurrent
<1>1. Init => SnapshotInv
  BY DEF Init, NoJob, SnapshotInv, Quiet, Snapped, Pending, Current, Seen, Disk, EmptyDisk,
         InSession
<1>2. TypeOK /\ NumberingInv /\ StagesInv /\ SerialInv /\ UndisturbedInv /\ SnapshotInv
        /\ [ReliableNext]_vars => SnapshotInv'
  BY SnapshotPreserved
<1>3. SnapshotInv => SnapshotCurrent
  BY DEF SnapshotInv, SnapshotCurrent, Current, Recorded
<1>4. QED
  BY <1>1, <1>2, <1>3, ReliableIsSpec, TypeCorrect, NumberingCorrect, StagesCorrect,
     SerialCorrect, UndisturbedCorrect, PTL DEF ReliableSpec
=============================================================================
