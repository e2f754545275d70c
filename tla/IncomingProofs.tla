---------------------------- MODULE IncomingProofs ----------------------------
(***************************************************************************)
(* Whatever the uploads, and however many runs of enter_incoming overlap,  *)
(* fail or are killed, the sources of everything indexed are in the pool.  *)
(* Where each run comes to its end by itself, and one after the other, the *)
(* files that an upload brought into the pool are also in the index: every *)
(* file that is not is one that a run still has in its list (TrackedInv).  *)
(***************************************************************************)
EXTENDS IncomingProps, TLAPS

(***************************************************************************)
(* Types.                                                                  *)
(***************************************************************************)

\* The empty repository and the idle runs have their types.
LEMMA InitialTypes == Init => TypeOK
BY UploadAssumption DEF Init, TypeOK, Disk, EmptyDisk, NoFiles, Database, Directory, Stages, Moving

\* The types of the tables, taken apart.
LEMMA DiskType ==
  Disk \in Database <=>
    /\ src_info \in SUBSET Sources
    /\ pool_pkg \in Directory
    /\ pkg_info \in SUBSET Files
    /\ pkg_deps \in SUBSET Files
BY DEF Disk, Database

\* A binary package is read, or it cannot be.
LEMMA ReadsBinary ==
  ASSUME NEW p, NEW f, IndexBinary(p, f, pool[f] \in Readable) \/ ReadError(p, f)
  PROVE  \E readable \in BOOLEAN : IndexBinary(p, f, readable)
<1>1. CASE IndexBinary(p, f, pool[f] \in Readable)
  <2>1. (pool[f] \in Readable) \in BOOLEAN
    OBVIOUS
  <2>2. QED BY <1>1, <2>1, Zenon
<1>2. CASE ReadError(p, f)
  BY <1>2, Zenon DEF ReadError
<1>3. QED BY <1>1, <1>2

\* The end of a run, and of an upload, resets its state.
LEMMA EndKeepsTypes ==
  ASSUME TypeOK, NEW p \in Procs, UNCHANGED <<tables, incoming, drops>>, pool' \in Directory,
         changes' \in [Uploads -> {"absent", "fresh", "ready"}],
         End(p) \/ Rejected(p)
  PROVE  TypeOK'
<1>1. Disk' = Disk
  BY DEF Disk, tables
<1>2. EmptyDisk \in Database /\ NoFiles \in Directory
  BY DEF EmptyDisk, NoFiles, Database, Directory
<1>3. CASE End(p)
  BY <1>1, <1>2, <1>3 DEF TypeOK, End, Stages, Moving
<1>4. CASE Rejected(p)
  BY <1>1, <1>2, <1>4 DEF TypeOK, Rejected, Stages, Moving, dbs
<1>5. QED BY <1>3, <1>4

\* The steps that move an upload from incoming/ to the pool.
LEMMA MoveKeepsTypes ==
  ASSUME TypeOK, NEW p \in Procs,
         \/ StartRun(p) \/ ListIncoming(p)
         \/ \E u \in Uploads : Skip(p, u) \/ Take(p, u) \/ Vanished(p, u)
         \/ CopyChanges(p) \/ ChangesMissing(p) \/ CheckUpload(p)
         \/ \E f \in Files : CopyFile(p, f) \/ FileMissing(p, f)
         \/ RemoveFile(p) \/ VerifyMD5Hash(p)
         \/ \E f \in Files : StoreFile(p, f)
         \/ Stored(p) \/ EndBatch(p) \/ MoveError(p)
         \/ \E f \in Files : TornStore(p, f)
  PROVE  TypeOK'
<1>1. Disk' = Disk
  BY DEF Disk, tables, StartRun, ListIncoming, Skip, Take, Vanished, CopyChanges,
         ChangesMissing, CheckUpload, CopyFile, FileMissing, RemoveFile, VerifyMD5Hash,
         StoreFile, Stored, EndBatch, MoveError, TornStore
<1>2. CASE StartRun(p)
  BY <1>1, <1>2 DEF TypeOK, StartRun, spool, move, dbs, Stages, Moving
<1>3. CASE ListIncoming(p) \/ CopyChanges(p)
  BY <1>1, <1>3 DEF TypeOK, ListIncoming, CopyChanges, spool, move, dbs, Stages, Moving
<1>4. ASSUME NEW u \in Uploads, Skip(p, u) \/ Take(p, u)
      PROVE  TypeOK'
  <2>1. CASE Skip(p, u)
    BY <1>1, <2>1 DEF TypeOK, Skip, spool, dbs, Stages, Moving
  <2>2. CASE Take(p, u)
    <3>1. u # Absent
      BY UploadAssumption
    <3>2. QED BY <1>1, <2>2, <3>1 DEF TypeOK, Take, spool, dbs, Stages, Moving
  <2>3. QED BY <1>4, <2>1, <2>2
<1>5. CASE ChangesMissing(p) \/ MoveError(p) \/ \E u \in Uploads : Vanished(p, u)
  BY <1>5, EndKeepsTypes DEF ChangesMissing, MoveError, Vanished, spool, TypeOK
<1>6. CASE \E f \in Files : FileMissing(p, f)
  BY <1>6, EndKeepsTypes DEF FileMissing, spool, TypeOK
<1>7. CASE CheckUpload(p)
  <2>1. /\ UNCHANGED <<tables, incoming, drops, pool>>
        /\ pool' \in Directory
        /\ changes' \in [Uploads -> {"absent", "fresh", "ready"}]
    BY <1>7 DEF TypeOK, CheckUpload
  <2>2. CASE End(p) \/ Rejected(p)
    BY <2>1, <2>2, EndKeepsTypes
  <2>3. CASE ~ (End(p) \/ Rejected(p))
    <3>1. up[p] \in Uploads /\ Listed[up[p]] \in SUBSET Files
      BY <1>7, <2>3, UploadAssumption DEF CheckUpload
    <3>2. /\ pc' = [pc EXCEPT ![p] = "fetch"]
          /\ todo' = [todo EXCEPT ![p] = Listed[up[p]]]
          /\ UNCHANGED <<seen, batch, up, held, temp, new, dbs>>
      BY <1>7, <2>3 DEF CheckUpload
    <3>3. \A q \in Procs : pc'[q] \in Moving => up'[q] # Absent
      BY <3>1, <3>2, UploadAssumption DEF TypeOK
    <3>4. QED BY <1>1, <2>1, <3>1, <3>2, <3>3 DEF TypeOK, dbs, Stages
  <2>4. QED BY <2>2, <2>3
<1>8. ASSUME NEW f \in Files, CopyFile(p, f)
      PROVE  TypeOK'
  <2>1. temp' \in [Procs -> Directory]
    BY <1>8 DEF TypeOK, CopyFile, Directory
  <2>2. QED BY <1>1, <1>8, <2>1 DEF TypeOK, CopyFile, spool, dbs, Moving
<1>9. CASE RemoveFile(p)
  <2>1. incoming' \in Directory
    BY <1>9 DEF TypeOK, RemoveFile, Directory
  <2>2. QED BY <1>1, <1>9, <2>1 DEF TypeOK, RemoveFile, dbs, Moving
<1>10. CASE VerifyMD5Hash(p)
  <2>1. CASE Rejected(p)
    BY <1>10, <2>1, EndKeepsTypes DEF VerifyMD5Hash, spool, TypeOK
  <2>2. CASE ~ Rejected(p)
    <3>1. /\ pc' = [pc EXCEPT ![p] = "store"]
          /\ todo' = [todo EXCEPT ![p] = Listed[up[p]]]
          /\ UNCHANGED <<seen, batch, up, held, temp, new, dbs, spool, pool>>
      BY <1>10, <2>2 DEF VerifyMD5Hash
    <3>2. Listed[up[p]] \in SUBSET Files
      BY <1>10, UploadAssumption DEF TypeOK, VerifyMD5Hash, Moving
    <3>3. \A q \in Procs : pc'[q] \in Moving => up'[q] # Absent
      BY <1>10, <3>1 DEF TypeOK, VerifyMD5Hash, Moving
    <3>4. QED BY <1>1, <3>1, <3>2, <3>3 DEF TypeOK, dbs, spool, Stages
  <2>3. QED BY <2>1, <2>2
<1>11. ASSUME NEW f \in Files, StoreFile(p, f)
       PROVE  TypeOK'
  <2>1. temp' \in [Procs -> Directory] /\ pool' \in Directory
    BY <1>11 DEF TypeOK, StoreFile, Directory
  <2>2. QED BY <1>1, <1>11, <2>1 DEF TypeOK, StoreFile, spool, dbs, Moving
<1>12. CASE EndBatch(p)
  <2>1. CASE End(p)
    BY <1>12, <2>1, EndKeepsTypes DEF EndBatch, spool, TypeOK
  <2>2. CASE ~ End(p)
    <3>1. EmptyDisk \in Database
      BY DEF EmptyDisk, NoFiles, Database, Directory
    <3>2. QED BY <1>1, <1>12, <2>2, <3>1 DEF TypeOK, EndBatch, spool, move, dbs, Stages, Moving
  <2>3. QED BY <2>1, <2>2
<1>13. CASE Stored(p)
  <2>1. ToIndex(up[p]) \in SUBSET Files
    BY <1>13, UploadAssumption DEF TypeOK, Stored, ToIndex, Moving
  <2>2. QED BY <1>1, <1>13, <2>1 DEF TypeOK, Stored, spool, dbs, Stages, Moving
<1>14. ASSUME NEW f \in Files, TornStore(p, f)
       PROVE  TypeOK'
  <2>1. pool' \in Directory
    BY <1>14, UploadAssumption DEF TypeOK, TornStore, Directory
  <2>2. QED BY <1>14, <2>1, EndKeepsTypes DEF TornStore, spool, TypeOK
<1>15. QED
  BY <1>2, <1>3, <1>4, <1>5, <1>6, <1>7, <1>8, <1>9, <1>10, <1>11, <1>12, <1>13, <1>14

\* The steps that index what was moved.
LEMMA IndexKeepsTypes ==
  ASSUME TypeOK, NEW p \in Procs,
         \/ OpenTables(p)
         \/ \E f \in Files : IndexSource(p, f)
         \/ \E f \in Files, readable \in BOOLEAN : IndexBinary(p, f, readable)
         \/ IndexDone(p) \/ IndexError(p) \/ \E f \in Files, described \in BOOLEAN : ParseError(p, f, described)
         \/ \E tb \in Tables : CloseTable(p, tb)
         \/ Finish(p) \/ Crash(p)
  PROVE  TypeOK'
<1>1. CASE OpenTables(p) \/ IndexDone(p) \/ IndexError(p)
  <2>1. Disk' = Disk
    BY <1>1 DEF Disk, tables, OpenTables, IndexDone, IndexError
  <2>2. QED
    BY <1>1, <2>1 DEF TypeOK, OpenTables, IndexDone, IndexError, spool, move, dbs, Stages, Moving
<1>2. ASSUME NEW f \in Files, IndexSource(p, f)
      PROVE  TypeOK'
  <2>1. Disk' = Disk
    BY <1>2 DEF Disk, tables, IndexSource
  <2>2. ASSUME NEW c \in Database
        PROVE  [c EXCEPT !.pool_pkg = [@ EXCEPT ![f] = pool[f]],
                         !.src_info = @ \cup {Belongs[f]}] \in Database
    <3>1. Belongs[f] \in Sources /\ pool[f] \in Contents \cup {Absent}
      BY UploadAssumption DEF TypeOK, Directory
    <3>2. QED BY <3>1 DEF Database, Directory
  <2>3. ASSUME NEW D \in SUBSET Tables
        PROVE  D \cup {"pool_pkg", "src_info"} \in SUBSET Tables
    BY DEF Tables
  <2>4. cache' \in [Procs -> Database] /\ dirty' \in [Procs -> SUBSET Tables]
    <3>1. CASE UNCHANGED dbs
      BY <3>1 DEF TypeOK, dbs
    <3>2. CASE ~ UNCHANGED dbs
      <4>1. /\ cache' = [cache EXCEPT ![p] =
                 [cache[p] EXCEPT !.pool_pkg = [@ EXCEPT ![f] = pool[f]],
                                  !.src_info = @ \cup {Belongs[f]}]]
            /\ dirty' = [dirty EXCEPT ![p] = @ \cup {"pool_pkg", "src_info"}]
        BY <1>2, <3>2 DEF IndexSource
      <4>2. QED BY <2>2, <2>3, <4>1 DEF TypeOK
    <3>3. QED BY <3>1, <3>2
  <2>5. QED BY <1>2, <2>1, <2>4 DEF TypeOK, IndexSource, spool, Moving
<1>3. ASSUME NEW f \in Files, NEW readable \in BOOLEAN, IndexBinary(p, f, readable)
      PROVE  TypeOK'
  <2>1. Disk' = Disk
    BY <1>3 DEF Disk, tables, IndexBinary
  <2>2. ASSUME NEW c \in Database
        PROVE  [c EXCEPT !.pool_pkg = [@ EXCEPT ![f] = pool[f]],
                         !.pkg_info = @ \cup {g \in {f} : readable},
                         !.pkg_deps = @ \cup {g \in {f} : readable}] \in Database
    BY DEF TypeOK, Database, Directory
  <2>3. ASSUME NEW D \in SUBSET Tables
        PROVE  D \cup {"pool_pkg"} \cup {t \in {"pkg_info", "pkg_deps"} : readable} \in SUBSET Tables
    BY DEF Tables
  <2>4. cache' \in [Procs -> Database] /\ dirty' \in [Procs -> SUBSET Tables]
    <3>1. CASE UNCHANGED dbs
      BY <3>1 DEF TypeOK, dbs
    <3>2. CASE ~ UNCHANGED dbs
      <4>1. /\ cache' = [cache EXCEPT ![p] =
                 [cache[p] EXCEPT !.pool_pkg = [@ EXCEPT ![f] = pool[f]],
                                  !.pkg_info = @ \cup {g \in {f} : readable},
                                  !.pkg_deps = @ \cup {g \in {f} : readable}]]
            /\ dirty' = [dirty EXCEPT ![p] =
                 @ \cup {"pool_pkg"} \cup {t \in {"pkg_info", "pkg_deps"} : readable}]
        BY <1>3, <3>2 DEF IndexBinary
      <4>2. QED BY <2>2, <2>3, <4>1 DEF TypeOK
    <3>3. QED BY <3>1, <3>2
  <2>5. QED BY <1>3, <2>1, <2>4 DEF TypeOK, IndexBinary, spool, Moving
<1>4. ASSUME NEW tb \in Tables, CloseTable(p, tb)
      PROVE  TypeOK'
  <2>1. Disk' \in Database
    BY <1>4 DEF TypeOK, CloseTable, Disk, Database
  <2>2. QED BY <1>4, <2>1 DEF TypeOK, CloseTable, spool, move, Moving
<1>5. CASE Finish(p) \/ Crash(p)
  BY <1>5, EndKeepsTypes DEF Finish, Crash, spool, TypeOK
<1>6. ASSUME NEW f \in Files, NEW described \in BOOLEAN, ParseError(p, f, described)
      PROVE  TypeOK'
  <2>1. Disk' = Disk
    BY <1>6 DEF Disk, tables, ParseError
  <2>2. ASSUME NEW c \in Database
        PROVE  [c EXCEPT !.pool_pkg = [@ EXCEPT ![f] = pool[f]],
                         !.pkg_info = @ \cup {g \in {f} : described}] \in Database
    BY DEF TypeOK, Database, Directory
  <2>3. ASSUME NEW D \in SUBSET Tables
        PROVE  D \cup {"pool_pkg"} \cup {t \in {"pkg_info"} : described} \in SUBSET Tables
    BY DEF Tables
  <2>4. cache' \in [Procs -> Database] /\ dirty' \in [Procs -> SUBSET Tables]
    BY <1>6, <2>2, <2>3 DEF TypeOK, ParseError
  <2>5. QED BY <1>6, <2>1, <2>4 DEF TypeOK, ParseError, spool, Stages, Moving
<1>7. QED BY <1>1, <1>2, <1>3, <1>4, <1>5, <1>6

\* Every step preserves the types.
LEMMA TypesPreserved == TypeOK /\ [Next]_vars => TypeOK'
<1> SUFFICES ASSUME TypeOK, [Next]_vars
             PROVE  TypeOK'
  OBVIOUS
<1>1. CASE UNCHANGED vars
  BY <1>1 DEF TypeOK, Disk, vars, tables, spool, move, dbs
<1>2. ASSUME NEW u \in Uploads, NEW S \in SUBSET Listed[u], Drop(u, S)
      PROVE  TypeOK'
  <2>1. Disk' = Disk
    BY <1>2 DEF Disk, tables, Drop
  <2>2. incoming' \in Directory
    <3>1. \A f \in Files : Hash[u][f] \in Contents
      BY UploadAssumption
    <3>2. QED BY <1>2, <3>1 DEF TypeOK, Drop, Directory
  <2>3. drops' \in 0 .. MaxDrops
    BY <1>2, UploadAssumption DEF TypeOK, Drop
  <2>4. QED BY <1>2, <2>1, <2>2, <2>3 DEF TypeOK, Drop, move, dbs
<1>3. ASSUME NEW u \in Uploads, Age(u)
      PROVE  TypeOK'
  BY <1>3 DEF TypeOK, Age, Disk, tables, move, dbs
<1>4. ASSUME NEW p \in Procs,
             StartRun(p) \/ Step(p) \/ Fault(p)
      PROVE  TypeOK'
  BY <1>4, MoveKeepsTypes, IndexKeepsTypes, ReadsBinary DEF Step, Fault
<1>5. QED BY <1>1, <1>2, <1>3, <1>4 DEF Next, ReliableNext, Environment

\* The tables, the directories and the state of the runs keep their types, for
\* any number of runs that overlap, fail or are killed.
THEOREM TypeCorrect == Spec => []TypeOK
BY InitialTypes, TypesPreserved, PTL DEF Spec
-----------------------------------------------------------------------------
(***************************************************************************)
(* Sources.                                                                *)
(***************************************************************************)

\* More files in the pool never make a source or a table incomplete.
LEMMA CompleteGrows ==
  ASSUME NEW S, NEW T, S \subseteq T, NEW s, Complete(s, S)
  PROVE  Complete(s, T)
BY DEF Complete

\* Nor does it take the source of anything indexed away.
LEMMA BackedGrows ==
  ASSUME NEW S, NEW T, S \subseteq T, NEW db, Backed(db, S)
  PROVE  Backed(db, T)
BY CompleteGrows DEF Backed

\* An upload that is acceptable to tables that are backed completes its source:
\* either it has the parts itself, or an earlier version came with them.
LEMMA AcceptableCompletes ==
  ASSUME HeadersAreUpstreams, NEW S, NEW db \in Database, Backed(db, S),
         NEW u \in Uploads, Acceptable(u, db)
  PROVE  Complete(Source[u], S \cup Listed[u])
<1> DEFINE s == Source[u]
<1>1. s \in Sources
  BY UploadAssumption
<1>2. CASE ~ NewSource(u, db)
  BY <1>2, CompleteGrows DEF NewSource, Backed
<1>3. CASE NewSource(u, db)
  <2>1. \A f \in Listed[u] : Kind[f] # "orig" => Belongs[f] = s
    BY GenchangesAssumption
  <2>2. \E f \in S \cup Listed[u] : Kind[f] = "dsc" /\ Belongs[f] = s
    BY <1>3, <2>1 DEF Acceptable, Has
  <2>3. s \in Native => \E f \in S \cup Listed[u] : Kind[f] = "tar" /\ Belongs[f] = s
    BY <1>3, <2>1 DEF Acceptable, Has
  <2>4. s \notin Native => \E f \in S \cup Listed[u] : Kind[f] = "diff" /\ Belongs[f] = s
    BY <1>3, <2>1 DEF Acceptable, Has
  <2>5. ASSUME s \notin Native
        PROVE  \E f \in S \cup Listed[u] : Kind[f] = "orig" /\ Upstream[Belongs[f]] = Upstream[s]
    <3>1. CASE NewUpstream(u, db)
      BY <1>3, <2>5, <3>1, GenchangesAssumption DEF Acceptable, Has
    <3>2. CASE ~ NewUpstream(u, db)
      <4>1. PICK k \in db.src_info : <<s, k>> \in KeyPrefix
        BY <3>2 DEF NewUpstream
      <4>2. Upstream[k] = Upstream[s] /\ k \notin Native
        BY <1>1, <4>1 DEF HeadersAreUpstreams, Database
      <4>3. QED BY <4>1, <4>2 DEF Backed, Complete
    <3>3. QED BY <3>1, <3>2
  <2>6. QED BY <2>2, <2>3, <2>4, <2>5 DEF Complete
<1>4. QED BY <1>2, <1>3

\* A run touches the state of no other run.
LEMMA OthersUntouched ==
  ASSUME TypeOK, NEW p \in Procs,
         StartRun(p) \/ Step(p) \/ Fault(p),
         NEW q \in Procs, q # p
  PROVE  /\ pc'[q] = pc[q] /\ seen'[q] = seen[q] /\ up'[q] = up[q] /\ todo'[q] = todo[q]
         /\ temp'[q] = temp[q] /\ new'[q] = new[q] /\ cache'[q] = cache[q]
<1>1. CASE End(p) \/ Rejected(p)
  BY <1>1 DEF TypeOK, End, Rejected, dbs
<1>2. CASE StartRun(p) \/ ListIncoming(p) \/ \E u \in Uploads : Skip(p, u) \/ Take(p, u)
  BY <1>2 DEF TypeOK, StartRun, ListIncoming, Skip, Take, move, dbs
<1>3. CASE (CheckUpload(p) \/ VerifyMD5Hash(p) \/ EndBatch(p)) /\ ~ (End(p) \/ Rejected(p))
  BY <1>3 DEF TypeOK, CheckUpload, VerifyMD5Hash, EndBatch, move, dbs
<1>4. CASE CopyChanges(p) \/ RemoveFile(p) \/ Stored(p)
  BY <1>4 DEF TypeOK, CopyChanges, RemoveFile, Stored, move, dbs
<1>5. CASE \E f \in Files : CopyFile(p, f) \/ StoreFile(p, f)
  BY <1>5 DEF TypeOK, CopyFile, StoreFile, dbs
<1>6. CASE OpenTables(p) \/ IndexDone(p) \/ IndexError(p)
  BY <1>6 DEF TypeOK, OpenTables, IndexDone, IndexError, move, dbs
<1>7. CASE \E f \in Files : IndexSource(p, f) \/ \E readable \in BOOLEAN : IndexBinary(p, f, readable)
  BY <1>7 DEF TypeOK, IndexSource, IndexBinary, dbs
<1>8. CASE \E tb \in Tables : CloseTable(p, tb)
  BY <1>8 DEF TypeOK, CloseTable, move
<1>9. CASE \E f \in Files, described \in BOOLEAN : ParseError(p, f, described)
  BY <1>9 DEF TypeOK, ParseError
<1>10. QED
  BY <1>1, <1>2, <1>3, <1>4, <1>5, <1>6, <1>7, <1>8, <1>9, ReadsBinary
     DEF Step, Fault, Vanished, ChangesMissing, FileMissing, Finish, MoveError, TornStore, Crash

\* Nothing is ever removed from the pool.
LEMMA PoolGrows ==
  ASSUME TypeOK, NEW p \in Procs, Careful(p),
         StartRun(p) \/ Step(p) \/ Fault(p)
  PROVE  InPool \subseteq InPool'
<1>1. CASE pool' = pool
  BY <1>1 DEF InPool
<1>2. ASSUME NEW f \in Files, StoreFile(p, f)
      PROVE  InPool \subseteq InPool'
  <2>1. temp[p][f] # Absent
    BY <1>2 DEF StoreFile, Careful
  <2>2. pool' = [pool EXCEPT ![f] = temp[p][f]] /\ pool \in Directory
    BY <1>2 DEF StoreFile, TypeOK
  <2>3. QED BY <2>1, <2>2 DEF InPool, Directory
<1>3. ASSUME NEW f \in Files, TornStore(p, f)
      PROVE  InPool \subseteq InPool'
  <2>1. pool' = [pool EXCEPT ![f] = Torn] /\ pool \in Directory /\ Torn # Absent
    BY <1>3, UploadAssumption DEF TornStore, TypeOK
  <2>2. QED BY <2>1 DEF InPool, Directory
<1>4. CASE ~ \E f \in Files : StoreFile(p, f) \/ TornStore(p, f)
  <2>1. pool' = pool
    BY <1>4 DEF Step, Fault, StartRun, ListIncoming, Skip, Take, Vanished, CopyChanges,
         ChangesMissing, CheckUpload, CopyFile, FileMissing, RemoveFile, VerifyMD5Hash,
         Stored, EndBatch, OpenTables, IndexSource, IndexBinary, IndexDone, CloseTable,
         Finish, MoveError, IndexError, ReadError, ParseError, Crash
  <2>2. QED BY <1>1, <2>1
<1>5. QED BY <1>2, <1>3, <1>4

\* Tables without entries describe nothing.
LEMMA EmptyBacked == ASSUME NEW S PROVE Backed(EmptyDisk, S)
BY DEF Backed, EmptyDisk

\* Moving an upload.
LEMMA MoveKeepsCareful ==
  ASSUME HeadersAreUpstreams, TypeOK, SourceInv, NEW p \in Procs, InPool \subseteq InPool',
         \/ StartRun(p) \/ ListIncoming(p) \/ \E u \in Uploads : Skip(p, u) \/ Take(p, u)
         \/ End(p) \/ Rejected(p)
         \/ CopyChanges(p) \/ CheckUpload(p)
         \/ \E f \in Files : CopyFile(p, f)
         \/ RemoveFile(p) \/ VerifyMD5Hash(p)
         \/ \E f \in Files : StoreFile(p, f)
         \/ Stored(p) \/ EndBatch(p)
  PROVE  Careful(p)'
<1>1. Careful(p) /\ Backed(Disk, InPool)
  BY DEF SourceInv
<1>2. /\ Backed(seen[p], InPool') /\ Backed(cache[p], InPool') /\ Backed(Disk, InPool')
      /\ Backed(EmptyDisk, InPool')
      /\ \A f \in new[p] : f \in InPool' /\ Complete(Belongs[f], InPool')
  BY <1>1, BackedGrows, CompleteGrows, EmptyBacked DEF Careful
<1>3. CASE StartRun(p)
  <2>1. pc'[p] = "list" /\ seen'[p] = Disk /\ UNCHANGED <<cache, new>>
    BY <1>3 DEF TypeOK, StartRun, move, dbs
  <2>2. QED BY <1>2, <2>1 DEF Careful
<1>4. CASE ListIncoming(p) \/ CopyChanges(p) \/ \E u \in Uploads : Skip(p, u) \/ Take(p, u)
  <2>1. pc'[p] \in {"scan", "take", "check"} /\ UNCHANGED <<seen, cache, new>>
    BY <1>4 DEF TypeOK, ListIncoming, CopyChanges, Skip, Take, move, dbs
  <2>2. QED BY <1>2, <2>1 DEF Careful
<1>5. CASE End(p)
  <2>1. pc'[p] = "idle" /\ seen'[p] = EmptyDisk /\ cache'[p] = EmptyDisk /\ new'[p] = {}
    BY <1>5 DEF TypeOK, End
  <2>2. QED BY <1>2, <2>1 DEF Careful
<1>6. CASE Rejected(p)
  <2>1. pc'[p] = "scan" /\ UNCHANGED <<seen, cache, new>>
    BY <1>6 DEF TypeOK, Rejected, dbs
  <2>2. QED BY <1>2, <2>1 DEF Careful
<1>7. CASE CheckUpload(p) /\ ~ (End(p) \/ Rejected(p))
  <2>1. /\ up[p] \in Uploads /\ Acceptable(up[p], seen[p])
        /\ pc'[p] = "fetch" /\ UNCHANGED <<seen, up, new, cache>>
    BY <1>7, UploadAssumption DEF TypeOK, CheckUpload, dbs
  <2>2. seen[p] \in Database
    BY DEF TypeOK
  <2>3. Complete(Source[up[p]], InPool' \cup Listed[up[p]])
    BY <1>2, <2>1, <2>2, AcceptableCompletes
  <2>4. QED BY <1>2, <2>1, <2>3 DEF Careful
<1>8. CASE RemoveFile(p) \/ \E f \in Files : CopyFile(p, f)
  <2>1. pc[p] = "fetch" /\ UNCHANGED <<pc, pool, seen, up, new, cache>>
    BY <1>8 DEF RemoveFile, CopyFile, dbs
  <2>2. InPool' = InPool
    BY <2>1 DEF InPool
  <2>3. QED BY <1>1, <1>2, <2>1, <2>2 DEF Careful
<1>9. CASE VerifyMD5Hash(p) /\ ~ Rejected(p)
  <2>1. /\ pc[p] = "fetch" /\ pc'[p] = "store" /\ todo'[p] = Listed[up[p]]
        /\ UNCHANGED <<pool, seen, up, new, cache, temp>>
        /\ \A f \in Listed[up[p]] : temp[p][f] = Hash[up[p]][f]
    BY <1>9 DEF TypeOK, VerifyMD5Hash, dbs
  <2>2. up[p] \in Uploads
    BY <1>1, <2>1 DEF Careful
  <2>3. \A f \in Listed[up[p]] : temp[p][f] # Absent
    BY <2>1, <2>2, UploadAssumption
  <2>4. InPool' = InPool
    BY <2>1 DEF InPool
  <2>5. QED BY <1>1, <1>2, <2>1, <2>2, <2>3, <2>4 DEF Careful
<1>10. ASSUME NEW f \in Files, StoreFile(p, f)
       PROVE  Careful(p)'
  <2>1. /\ pc[p] = "store" /\ f \in todo[p]
        /\ todo'[p] = todo[p] \ {f}
        /\ pool' = [pool EXCEPT ![f] = temp[p][f]]
        /\ \A g \in todo'[p] : temp'[p][g] = temp[p][g]
        /\ UNCHANGED <<pc, seen, up, new, cache>>
    BY <1>10 DEF TypeOK, Directory, StoreFile, dbs
  <2>2. /\ up[p] \in Uploads /\ temp[p][f] # Absent
        /\ \A g \in todo[p] : temp[p][g] # Absent
        /\ Listed[up[p]] \subseteq InPool \cup todo[p]
        /\ Complete(Source[up[p]], InPool \cup Listed[up[p]])
    BY <1>1, <2>1 DEF Careful
  <2>3. f \in InPool'
    BY <2>1, <2>2 DEF TypeOK, Directory, InPool
  <2>4. InPool \cup Listed[up[p]] \subseteq InPool' \cup Listed[up[p]]
    OBVIOUS
  <2>5. Complete(Source[up[p]], InPool' \cup Listed[up[p]])
    BY <2>2, <2>4, CompleteGrows
  <2>6. QED BY <1>2, <2>1, <2>2, <2>3, <2>5 DEF Careful
<1>11. CASE Stored(p)
  <2>1. /\ pc[p] = "store" /\ todo[p] = {} /\ pc'[p] = "scan"
        /\ new'[p] = new[p] \cup ToIndex(up[p])
        /\ UNCHANGED <<pool, seen, cache>>
    BY <1>11 DEF TypeOK, Stored, dbs
  <2>2. InPool' = InPool
    BY <2>1 DEF InPool
  <2>3. Listed[up[p]] \subseteq InPool
    BY <1>1, <2>1 DEF Careful
  <2>4. InPool \cup Listed[up[p]] = InPool
    BY <2>3
  <2>5. up[p] \in Uploads /\ Complete(Source[up[p]], InPool)
    BY <1>1, <2>1, <2>4 DEF Careful
  <2>6. \A f \in ToIndex(up[p]) : f \in InPool /\ Belongs[f] = Source[up[p]]
    BY <2>3, <2>5, GenchangesAssumption DEF ToIndex
  <2>7. QED BY <1>2, <2>1, <2>2, <2>5, <2>6 DEF Careful
<1>12. CASE EndBatch(p) /\ ~ End(p)
  <2>1. pc'[p] = "open" /\ seen'[p] = EmptyDisk /\ UNCHANGED <<cache, new>>
    BY <1>12 DEF TypeOK, EndBatch, move, dbs
  <2>2. QED BY <1>2, <2>1 DEF Careful
<1>13. QED BY <1>3, <1>4, <1>5, <1>6, <1>7, <1>8, <1>9, <1>10, <1>11, <1>12

\* Indexing what was moved.
LEMMA IndexKeepsCareful ==
  ASSUME TypeOK, SourceInv, NEW p \in Procs,
         \/ OpenTables(p)
         \/ \E f \in Files : IndexSource(p, f)
         \/ \E f \in Files, readable \in BOOLEAN : IndexBinary(p, f, readable)
         \/ IndexDone(p) \/ IndexError(p) \/ \E f \in Files, described \in BOOLEAN : ParseError(p, f, described)
         \/ \E tb \in Tables : CloseTable(p, tb)
  PROVE  Careful(p)'
<1>1. /\ Backed(seen[p], InPool) /\ Backed(cache[p], InPool) /\ Backed(Disk, InPool)
      /\ \A f \in new[p] : f \in InPool /\ Complete(Belongs[f], InPool)
  BY DEF SourceInv, Careful
<1>2. InPool' = InPool
  BY DEF InPool, OpenTables, IndexSource, IndexBinary, IndexDone, IndexError, ParseError,
         CloseTable
<1>3. CASE OpenTables(p)
  <2>1. pc'[p] = "index" /\ cache'[p] = Disk /\ UNCHANGED <<seen, new>>
    BY <1>3 DEF TypeOK, OpenTables, move
  <2>2. QED BY <1>1, <1>2, <2>1 DEF Careful
<1>4. ASSUME NEW f \in Files, IndexSource(p, f)
      PROVE  Careful(p)'
  <2>1. /\ pc'[p] = "index" /\ seen' = seen /\ new'[p] \subseteq new[p]
        /\ f \in new[p]
    BY <1>4 DEF TypeOK, IndexSource, SourcesLeft
  <2>2. /\ cache'[p].src_info \subseteq cache[p].src_info \cup {Belongs[f]}
        /\ cache'[p].pkg_info = cache[p].pkg_info
    <3>1. CASE UNCHANGED dbs
      BY <3>1 DEF dbs
    <3>2. CASE ~ UNCHANGED dbs
      <4>1. cache'[p] = [cache[p] EXCEPT !.pool_pkg = [@ EXCEPT ![f] = pool[f]],
                                         !.src_info = @ \cup {Belongs[f]}]
        BY <1>4, <3>2 DEF TypeOK, IndexSource
      <4>2. cache[p] \in Database
        BY DEF TypeOK
      <4>3. QED BY <4>1, <4>2 DEF Database
    <3>3. QED BY <3>1, <3>2
  <2>3. Backed(cache'[p], InPool)
    BY <1>1, <2>1, <2>2 DEF Backed
  <2>4. QED BY <1>1, <1>2, <2>1, <2>3 DEF Careful
<1>5. ASSUME NEW f \in Files, NEW readable \in BOOLEAN, IndexBinary(p, f, readable)
      PROVE  Careful(p)'
  <2>1. /\ pc'[p] = "index" /\ seen' = seen /\ new'[p] \subseteq new[p]
        /\ f \in new[p]
    BY <1>5 DEF TypeOK, IndexBinary
  <2>2. /\ cache'[p].pkg_info \subseteq cache[p].pkg_info \cup {f}
        /\ cache'[p].src_info = cache[p].src_info
    <3>1. CASE UNCHANGED dbs
      BY <3>1 DEF dbs
    <3>2. CASE ~ UNCHANGED dbs
      <4>1. cache'[p] = [cache[p] EXCEPT !.pool_pkg = [@ EXCEPT ![f] = pool[f]],
                                         !.pkg_info = @ \cup {g \in {f} : readable},
                                         !.pkg_deps = @ \cup {g \in {f} : readable}]
        BY <1>5, <3>2 DEF TypeOK, IndexBinary
      <4>2. cache[p] \in Database
        BY DEF TypeOK
      <4>3. QED BY <4>1, <4>2 DEF Database
    <3>3. QED BY <3>1, <3>2
  <2>3. Backed(cache'[p], InPool)
    BY <1>1, <2>1, <2>2 DEF Backed
  <2>4. QED BY <1>1, <1>2, <2>1, <2>3 DEF Careful
<1>6. CASE IndexDone(p) \/ IndexError(p) \/ \E tb \in Tables : CloseTable(p, tb)
  <2>1. pc'[p] = "close" /\ UNCHANGED <<seen, cache>> /\ new'[p] \subseteq new[p]
    BY <1>6 DEF TypeOK, IndexDone, IndexError, CloseTable, move, dbs
  <2>2. QED BY <1>1, <1>2, <2>1 DEF Careful
<1>7. ASSUME NEW f \in Files, NEW described \in BOOLEAN, ParseError(p, f, described)
      PROVE  Careful(p)'
  <2>1. /\ pc'[p] = "close" /\ seen' = seen /\ new'[p] = {} /\ f \in new[p]
        /\ cache'[p] = [cache[p] EXCEPT !.pool_pkg = [@ EXCEPT ![f] = pool[f]],
                                       !.pkg_info = @ \cup {g \in {f} : described}]
        /\ cache[p] \in Database
    BY <1>7 DEF TypeOK, ParseError
  <2>2. /\ cache'[p].src_info = cache[p].src_info
        /\ cache'[p].pkg_info \subseteq cache[p].pkg_info \cup {f}
    BY <2>1 DEF Database
  <2>3. Backed(cache'[p], InPool)
    BY <1>1, <2>1, <2>2 DEF Backed
  <2>4. QED BY <1>1, <1>2, <2>1, <2>3 DEF Careful
<1>8. QED BY <1>3, <1>4, <1>5, <1>6, <1>7

\* Every step keeps the tables and the runs careful.
LEMMA SourcePreserved ==
  ASSUME HeadersAreUpstreams
  PROVE  TypeOK /\ SourceInv /\ [Next]_vars => SourceInv'
<1> SUFFICES ASSUME TypeOK, SourceInv, [Next]_vars
             PROVE  SourceInv'
  OBVIOUS
<1>1. CASE UNCHANGED <<tables, pool, pc, seen, up, todo, temp, new, cache>>
  BY <1>1 DEF SourceInv, Careful, InPool, Disk, tables
<1>2. CASE UNCHANGED vars \/ Environment
  BY <1>1, <1>2 DEF vars, move, dbs, Environment, Drop, Age
<1>3. ASSUME NEW p \in Procs,
             StartRun(p) \/ Step(p) \/ Fault(p)
      PROVE  SourceInv'
  <2>1. Careful(p) /\ Backed(Disk, InPool)
    BY DEF SourceInv
  <2>2. InPool \subseteq InPool'
    BY <1>3, <2>1, PoolGrows
  <2>3. Careful(p)'
    BY <1>3, <2>2, MoveKeepsCareful, IndexKeepsCareful, ReadsBinary
       DEF Step, Fault, Vanished, ChangesMissing, FileMissing, Finish, MoveError, TornStore, Crash
  <2>4. ASSUME NEW q \in Procs, q # p
        PROVE  Careful(q)'
    <3>1. Careful(q)
      BY DEF SourceInv
    <3>2. /\ pc'[q] = pc[q] /\ seen'[q] = seen[q] /\ up'[q] = up[q] /\ todo'[q] = todo[q]
          /\ temp'[q] = temp[q] /\ new'[q] = new[q] /\ cache'[q] = cache[q]
      BY <1>3, <2>4, OthersUntouched
    <3>3. InPool \cup Listed[up[q]] \subseteq InPool' \cup Listed[up[q]]
      BY <2>2
    <3>4. QED BY <2>2, <3>1, <3>2, <3>3, BackedGrows, CompleteGrows DEF Careful
  <2>5. Backed(Disk', InPool')
    <3>1. Backed(Disk, InPool') /\ Backed(cache[p], InPool')
      BY <2>1, <2>2, BackedGrows DEF Careful
    <3>2. CASE \E tb \in Tables : CloseTable(p, tb)
      <4>1. /\ src_info' \in {src_info, cache[p].src_info}
            /\ pkg_info' \in {pkg_info, cache[p].pkg_info}
        BY <3>2 DEF CloseTable
      <4>2. QED BY <3>1, <4>1 DEF Backed, Disk
    <3>3. CASE ~ \E tb \in Tables : CloseTable(p, tb)
      <4>1. Disk' = Disk
        BY <1>3, <3>3 DEF Disk, tables, Step, Fault, StartRun, ListIncoming, Skip, Take, Vanished,
           CopyChanges, ChangesMissing, CheckUpload, CopyFile, FileMissing, RemoveFile,
           VerifyMD5Hash, StoreFile, Stored, EndBatch, OpenTables, IndexSource, IndexBinary,
           IndexDone, Finish, MoveError, TornStore, IndexError, ReadError, ParseError, Crash
      <4>2. QED BY <3>1, <4>1
    <3>4. QED BY <3>2, <3>3
  <2>6. QED BY <2>3, <2>4, <2>5 DEF SourceInv
<1>4. QED BY <1>2, <1>3 DEF Next, ReliableNext

\* Initially nothing is described and nothing is moved.
LEMMA InitialSources == Init => SourceInv
<1> SUFFICES ASSUME Init
             PROVE  SourceInv
  OBVIOUS
<1>1. Disk = EmptyDisk
  BY DEF Init, Disk, EmptyDisk
<1>2. QED BY <1>1, EmptyBacked DEF Init, SourceInv, Careful

\* The invariant about sources holds for overlapping, failing and killed runs.
THEOREM SourceInvariant == ASSUME HeadersAreUpstreams PROVE Spec => []SourceInv
<1>1. Init => TypeOK /\ SourceInv
  BY InitialTypes, InitialSources
<1>2. TypeOK /\ SourceInv /\ [Next]_vars => (TypeOK /\ SourceInv)'
  BY TypesPreserved, SourcePreserved
<1>3. QED BY <1>1, <1>2, PTL DEF Spec

\* Every indexed source package can be unpacked from the pool, although a run
\* decides about uploads with tables that may be out of date.
THEOREM SourcesStayComplete == ASSUME HeadersAreUpstreams PROVE Spec => []SourcesComplete
<1>1. SourceInv => SourcesComplete
  BY DEF SourceInv, Backed, Disk, SourcesComplete
<1>2. QED BY <1>1, SourceInvariant, PTL

\* Every indexed binary package has its source in the pool.
THEOREM BinariesHaveSource == ASSUME HeadersAreUpstreams PROVE Spec => []BinariesComeWithSource
<1>1. SourceInv => BinariesComeWithSource
  BY DEF SourceInv, Backed, Disk, BinariesComeWithSource
<1>2. QED BY <1>1, SourceInvariant, PTL
-----------------------------------------------------------------------------
(***************************************************************************)
(* Known files, when no two runs overlap.                                  *)
(***************************************************************************)

\* What IndexBinary does besides noting the description of a package.
LEMMA IndexBinaryEffect ==
  ASSUME TypeOK, NEW p \in Procs, NEW f \in Files, NEW readable \in BOOLEAN, IndexBinary(p, f, readable)
  PROVE  /\ pc[p] = "index" /\ UNCHANGED <<pc, pool, pool_pkg>>
         /\ cache' = cache \/ cache'[p].pool_pkg = [cache[p].pool_pkg EXCEPT ![f] = pool[f]]
<1>1. pc[p] = "index" /\ UNCHANGED <<pc, pool, tables>>
  BY Zenon DEF IndexBinary
<1>2. cache[p] \in Database
  BY DEF TypeOK
<1>3. CASE UNCHANGED dbs
  BY <1>1, <1>3 DEF dbs, tables
<1>4. CASE ~ UNCHANGED dbs
  <2>1. cache' = [cache EXCEPT ![p] =
             [cache[p] EXCEPT !.pool_pkg = [@ EXCEPT ![f] = pool[f]],
                              !.pkg_info = @ \cup {g \in {f} : readable},
                              !.pkg_deps = @ \cup {g \in {f} : readable}]]
    BY <1>4 DEF IndexBinary
  <2>2. QED BY <1>1, <1>2, <2>1 DEF TypeOK, Database, tables
<1>5. QED BY <1>3, <1>4

\* What IndexSource does besides noting the description of a source.
LEMMA IndexSourceEffect ==
  ASSUME TypeOK, NEW p \in Procs, NEW f \in Files, IndexSource(p, f)
  PROVE  /\ pc[p] = "index" /\ UNCHANGED <<pc, pool, pool_pkg>>
         /\ cache' = cache \/ cache'[p].pool_pkg = [cache[p].pool_pkg EXCEPT ![f] = pool[f]]
<1>1. pc[p] = "index" /\ UNCHANGED <<pc, pool, tables>>
  BY Zenon DEF IndexSource
<1>2. cache[p] \in Database
  BY DEF TypeOK
<1>3. CASE UNCHANGED dbs
  BY <1>1, <1>3 DEF dbs, tables
<1>4. CASE ~ UNCHANGED dbs
  <2>1. cache' = [cache EXCEPT ![p] =
             [cache[p] EXCEPT !.pool_pkg = [@ EXCEPT ![f] = pool[f]],
                              !.src_info = @ \cup {Belongs[f]}]]
    BY <1>4 DEF IndexSource
  <2>2. QED BY <1>1, <1>2, <2>1 DEF TypeOK, Database, tables
<1>5. QED BY <1>3, <1>4

\* While a run is going on no other run is, and none is started: because runs
\* exclude each other, or because no two have overlapped so far.
LEMMA RunsAreApart ==
  ASSUME ~ Overlap \/ OneAtATime', TypeOK, OneAtATime, NEW p \in Procs,
         StartRun(p) \/ Step(p) \/ Fault(p)
  PROVE  \A q \in Procs \ {p} : pc[q] = "idle" /\ pc'[q] = "idle"
<1>1. CASE StartRun(p)
  <2>1. pc'[p] = "list" /\ \A q \in Procs \ {p} : pc'[q] = pc[q]
    BY <1>1, OthersUntouched DEF StartRun, TypeOK
  <2>2. CASE ~ Overlap
    BY <1>1, <2>1, <2>2 DEF StartRun, MayStart
  <2>3. CASE OneAtATime'
    BY <2>1, <2>3 DEF OneAtATime
  <2>4. QED BY <2>2, <2>3
<1>2. CASE Step(p) \/ Fault(p)
  <2>1. pc[p] # "idle"
    <3>1. ASSUME NEW f \in Files, IndexSource(p, f) \/ \E r \in BOOLEAN : IndexBinary(p, f, r)
          PROVE  pc[p] # "idle"
      <4>1. CASE IndexSource(p, f)
        BY <4>1, IndexSourceEffect
      <4>2. ASSUME NEW r \in BOOLEAN, IndexBinary(p, f, r)
            PROVE  pc[p] # "idle"
        BY <4>2, IndexBinaryEffect
      <4>3. QED BY <3>1, <4>1, <4>2
    <3>2. CASE ~ \E f \in Files : IndexSource(p, f) \/ \E r \in BOOLEAN : IndexBinary(p, f, r)
      BY <1>2, <3>2, ReadsBinary DEF Step, Fault, ListIncoming, Skip, Take, Vanished, CopyChanges,
         ChangesMissing, CheckUpload, CopyFile, FileMissing, RemoveFile, VerifyMD5Hash, StoreFile,
         Stored, EndBatch, OpenTables, IndexDone, CloseTable,
         Finish, MoveError, IndexError, ParseError, Crash, TornStore
    <3>3. QED BY <3>1, <3>2
  <2>2. QED BY <1>2, <2>1, OthersUntouched DEF OneAtATime
<1>3. QED BY <1>1, <1>2

\* A copy to the pool changes a file that no table knows.
LEMMA StoreKeepsIntact ==
  ASSUME TypeOK, KnownFilesIntact, NEW p \in Procs, UpToDate(p), NEW f \in Files,
         StoreFile(p, f) \/ TornStore(p, f)
  PROVE  KnownFilesIntact' /\ UpToDate(p)'
<1>1. /\ pc[p] = "store" /\ f \in todo[p] /\ pool_pkg' = pool_pkg
      /\ \A g \in Files \ {f} : pool'[g] = pool[g]
  BY DEF StoreFile, TornStore, tables, TypeOK, Directory
<1>2. pool_pkg[f] = Absent /\ up[p] \in Uploads /\ todo[p] \subseteq Listed[up[p]]
  BY <1>1 DEF UpToDate
<1>3. KnownFilesIntact'
  BY <1>1, <1>2 DEF KnownFilesIntact
<1>4. CASE StoreFile(p, f)
  <2>1. /\ UNCHANGED <<pc, seen, up>> /\ todo'[p] \subseteq todo[p]
    BY <1>4 DEF StoreFile, TypeOK
  <2>2. QED BY <1>1, <1>2, <2>1, <1>3 DEF UpToDate
<1>5. CASE Rejected(p)
  <2>1. pc'[p] = "scan" /\ seen' = seen
    BY <1>5 DEF Rejected, TypeOK
  <2>2. QED BY <1>1, <2>1, <1>3 DEF UpToDate, Deciding
<1>6. CASE End(p)
  <2>1. pc'[p] = "idle"
    BY <1>6 DEF End, TypeOK
  <2>2. QED BY <2>1, <1>3 DEF UpToDate, Deciding
<1>7. QED BY <1>4, <1>5, <1>6 DEF TornStore

\* The other steps that move an upload leave the pool and the tables alone.
LEMMA MoveKeepsIntact ==
  ASSUME TypeOK, KnownFilesIntact, NEW p \in Procs, UpToDate(p),
         \/ StartRun(p) \/ ListIncoming(p)
         \/ \E u \in Uploads : Skip(p, u) \/ Take(p, u) \/ Vanished(p, u)
         \/ CopyChanges(p) \/ ChangesMissing(p) \/ CheckUpload(p)
         \/ \E f \in Files : CopyFile(p, f) \/ FileMissing(p, f)
         \/ RemoveFile(p) \/ VerifyMD5Hash(p)
         \/ Stored(p) \/ EndBatch(p) \/ MoveError(p) \/ Finish(p) \/ Crash(p)
  PROVE  KnownFilesIntact' /\ UpToDate(p)'
<1>1. UNCHANGED <<pool_pkg, pool>>
  BY DEF tables, StartRun, ListIncoming, Skip, Take, Vanished, CopyChanges,
         ChangesMissing, CheckUpload, CopyFile, FileMissing, RemoveFile, VerifyMD5Hash,
         Stored, EndBatch, MoveError, Finish, Crash
<1>2. KnownFilesIntact'
  BY <1>1 DEF KnownFilesIntact
<1>3. CASE End(p)
  <2>1. pc'[p] = "idle"
    BY <1>3 DEF End, TypeOK
  <2>2. QED BY <2>1, <1>2 DEF UpToDate, Deciding
<1>4. CASE Rejected(p) /\ pc[p] \in Deciding
  <2>1. pc'[p] = "scan" /\ seen' = seen
    BY <1>4 DEF Rejected, TypeOK
  <2>2. QED BY <1>1, <1>2, <1>4, <2>1 DEF UpToDate, Deciding
<1>5. CASE StartRun(p)
  <2>1. pc'[p] = "list" /\ seen'[p].pool_pkg = pool_pkg
    BY <1>5 DEF StartRun, TypeOK, Disk
  <2>2. QED BY <1>1, <1>2, <2>1 DEF UpToDate
<1>6. CASE ListIncoming(p) \/ CopyChanges(p) \/ Stored(p) \/ \E u \in Uploads : Skip(p, u) \/ Take(p, u)
  <2>1. pc[p] \in Deciding /\ pc'[p] \in {"scan", "take", "check"} /\ seen' = seen
    BY <1>6 DEF TypeOK, ListIncoming, CopyChanges, Stored, Skip, Take, Deciding
  <2>2. QED BY <1>1, <1>2, <2>1 DEF UpToDate, Deciding
<1>7. CASE CheckUpload(p) /\ ~ (End(p) \/ Rejected(p))
  <2>1. /\ up[p] \in Uploads /\ Acceptable(up[p], seen[p])
        /\ pc[p] = "check" /\ pc'[p] = "fetch" /\ UNCHANGED <<seen, up>>
        /\ todo'[p] = Listed[up[p]]
    BY <1>7, UploadAssumption DEF TypeOK, CheckUpload
  <2>2. \A f \in Listed[up[p]] : pool_pkg[f] = Absent
    BY <2>1 DEF UpToDate, Deciding, Acceptable
  <2>3. QED BY <1>1, <1>2, <2>1, <2>2 DEF UpToDate, Deciding
<1>8. CASE RemoveFile(p) \/ \E f \in Files : CopyFile(p, f)
  <2>1. pc[p] = "fetch" /\ UNCHANGED <<pc, seen, up>> /\ todo'[p] \subseteq todo[p]
    BY <1>8 DEF TypeOK, RemoveFile, CopyFile
  <2>2. QED BY <1>1, <1>2, <2>1 DEF UpToDate, Deciding
<1>9. CASE VerifyMD5Hash(p) /\ ~ Rejected(p)
  <2>1. /\ pc[p] = "fetch" /\ pc'[p] = "store" /\ UNCHANGED <<seen, up>>
        /\ todo'[p] = Listed[up[p]]
    BY <1>9 DEF TypeOK, VerifyMD5Hash
  <2>2. QED BY <1>1, <1>2, <2>1 DEF UpToDate, Deciding
<1>10. CASE EndBatch(p) /\ ~ End(p)
  <2>1. pc'[p] = "open"
    BY <1>10 DEF TypeOK, EndBatch
  <2>2. QED BY <1>2, <2>1 DEF UpToDate, Deciding
<1>11. QED
  BY <1>3, <1>4, <1>5, <1>6, <1>7, <1>8, <1>9, <1>10 DEF Vanished, ChangesMissing, CheckUpload,
     FileMissing, VerifyMD5Hash, EndBatch, MoveError, Finish, Crash, Deciding

\* An entry that is made in pool_pkg is about the file as it is in the pool.
LEMMA IndexKeepsIntact ==
  ASSUME TypeOK, KnownFilesIntact, NEW p \in Procs, UpToDate(p),
         \/ OpenTables(p)
         \/ \E f \in Files : IndexSource(p, f)
         \/ \E f \in Files, readable \in BOOLEAN : IndexBinary(p, f, readable)
         \/ IndexDone(p) \/ IndexError(p) \/ \E f \in Files, described \in BOOLEAN : ParseError(p, f, described)
         \/ \E tb \in Tables : CloseTable(p, tb)
  PROVE  KnownFilesIntact' /\ UpToDate(p)'
<1>1. pool' = pool /\ pc'[p] \in {"index", "close"}
  <2>1. ASSUME NEW f \in Files, IndexSource(p, f) \/ \E r \in BOOLEAN : IndexBinary(p, f, r)
        PROVE  pool' = pool /\ pc'[p] \in {"index", "close"}
    <3>1. CASE IndexSource(p, f)
      BY <3>1, IndexSourceEffect
    <3>2. ASSUME NEW r \in BOOLEAN, IndexBinary(p, f, r)
          PROVE  pool' = pool /\ pc'[p] \in {"index", "close"}
      BY <3>2, IndexBinaryEffect
    <3>3. QED BY <2>1, <3>1, <3>2
  <2>2. CASE ~ \E f \in Files : IndexSource(p, f) \/ \E r \in BOOLEAN : IndexBinary(p, f, r)
    BY <2>2 DEF TypeOK, OpenTables, IndexDone, IndexError, ParseError, CloseTable
  <2>3. QED BY <2>1, <2>2
<1>2. CASE OpenTables(p)
  <2>1. pool_pkg' = pool_pkg /\ cache'[p].pool_pkg = pool_pkg
    BY <1>2 DEF TypeOK, OpenTables, tables, Disk
  <2>2. QED BY <1>1, <2>1 DEF KnownFilesIntact, UpToDate, Deciding
<1>3. CASE pool_pkg' = pool_pkg /\ cache' = cache /\ pc[p] \in {"index", "close"}
  BY <1>1, <1>3 DEF KnownFilesIntact, UpToDate, Deciding
<1>4. ASSUME NEW f \in Files, cache[p] \in Database, pc[p] = "index", pool_pkg' = pool_pkg,
             cache'[p].pool_pkg = [cache[p].pool_pkg EXCEPT ![f] = pool[f]]
      PROVE  KnownFilesIntact' /\ UpToDate(p)'
  <2>1. \A g \in Files : cache'[p].pool_pkg[g] = IF g = f THEN pool[g] ELSE cache[p].pool_pkg[g]
    BY <1>4 DEF Database, Directory
  <2>2. QED BY <1>1, <1>4, <2>1 DEF KnownFilesIntact, UpToDate, Deciding
<1>5. cache[p] \in Database
  BY DEF TypeOK
<1>6. ASSUME NEW f \in Files,
             \/ IndexSource(p, f)
             \/ \E described \in BOOLEAN : ParseError(p, f, described)
             \/ \E r \in BOOLEAN : IndexBinary(p, f, r)
      PROVE  KnownFilesIntact' /\ UpToDate(p)'
  <2>1. /\ pc[p] = "index" /\ pool_pkg' = pool_pkg
        /\ cache' = cache \/ cache'[p].pool_pkg = [cache[p].pool_pkg EXCEPT ![f] = pool[f]]
    <3>1. CASE IndexSource(p, f)
      BY <3>1, IndexSourceEffect
    <3>2. CASE \E described \in BOOLEAN : ParseError(p, f, described)
      <4>1. PICK described \in BOOLEAN : ParseError(p, f, described)
        BY <3>2
      <4>2. /\ pc[p] = "index" /\ pool_pkg' = pool_pkg
            /\ cache'[p] = [cache[p] EXCEPT !.pool_pkg = [@ EXCEPT ![f] = pool[f]],
                                           !.pkg_info = @ \cup {g \in {f} : described}]
        BY <4>1 DEF TypeOK, ParseError, tables
      <4>3. QED BY <1>5, <4>2 DEF Database
    <3>3. CASE \E r \in BOOLEAN : IndexBinary(p, f, r)
      BY <3>3, IndexBinaryEffect
    <3>4. QED BY <1>6, <3>1, <3>2, <3>3
  <2>2. QED BY <1>3, <1>4, <1>5, <2>1
<1>7. CASE IndexDone(p) \/ IndexError(p)
  BY <1>3, <1>7 DEF IndexDone, IndexError, tables, dbs
<1>8. ASSUME NEW tb \in Tables, CloseTable(p, tb)
      PROVE  KnownFilesIntact' /\ UpToDate(p)'
  <2>1. pc[p] = "close" /\ cache' = cache /\ pool_pkg' \in {pool_pkg, cache[p].pool_pkg}
    BY <1>8 DEF CloseTable
  <2>2. QED BY <1>1, <2>1 DEF KnownFilesIntact, UpToDate, Deciding
<1>9. QED BY <1>2, <1>6, <1>7, <1>8

\* What runs know of the pool and the tables stays right while no two overlap.
LEMMA IntactPreserved ==
  (~ Overlap \/ OneAtATime') /\ TypeOK /\ IntactInv /\ [Next]_vars => IntactInv'
<1> SUFFICES ASSUME ~ Overlap \/ OneAtATime', TypeOK, IntactInv, [Next]_vars
             PROVE  IntactInv'
  OBVIOUS
<1>1. CASE UNCHANGED vars \/ Environment
  <2>1. UNCHANGED <<pool_pkg, pool, pc, seen, up, todo, cache>>
    BY <1>1 DEF vars, tables, move, dbs, Environment, Drop, Age
  <2>2. QED BY <2>1 DEF IntactInv, OneAtATime, KnownFilesIntact, UpToDate
<1>2. ASSUME NEW p \in Procs, StartRun(p) \/ Step(p) \/ Fault(p)
      PROVE  IntactInv'
  <2>1. OneAtATime /\ KnownFilesIntact /\ UpToDate(p)
    BY DEF IntactInv
  <2>2. \A q \in Procs \ {p} : pc'[q] = "idle"
    BY <1>2, <2>1, RunsAreApart
  <2>3. OneAtATime' /\ \A q \in Procs \ {p} : UpToDate(q)'
    BY <2>2 DEF OneAtATime, UpToDate, Deciding
  <2>4. KnownFilesIntact' /\ UpToDate(p)'
    BY <1>2, <2>1, StoreKeepsIntact, MoveKeepsIntact, IndexKeepsIntact, ReadsBinary DEF Step, Fault
  <2>5. QED BY <2>3, <2>4 DEF IntactInv
<1>3. QED BY <1>1, <1>2 DEF Next, ReliableNext

\* As long as no two runs overlap, a file that has been indexed is never written
\* over, whatever a run that fails or is killed leaves behind (the invariant
\* KnownFilesIntact).
THEOREM KnownFilesStay == ASSUME ~ Overlap PROVE Spec => []KnownFilesIntact
<1>1. Init => TypeOK /\ IntactInv
  <2>1. Init => IntactInv
    BY DEF Init, IntactInv, OneAtATime, KnownFilesIntact, UpToDate, Deciding, NoFiles
  <2>2. QED BY <2>1, InitialTypes
<1>2. TypeOK /\ IntactInv /\ [Next]_vars => (TypeOK /\ IntactInv)'
  BY TypesPreserved, IntactPreserved
<1>3. IntactInv => KnownFilesIntact
  BY DEF IntactInv
<1>4. QED BY <1>1, <1>2, <1>3, PTL DEF Spec
-----------------------------------------------------------------------------
(***************************************************************************)
(* Undisturbed runs that do not overlap index whatever they store.         *)
(***************************************************************************)

\* The steps that move an upload keep what is to be indexed in view.
LEMMA MoveKeepsTracked ==
  ASSUME TypeOK, Malformed = {}, NEW p \in Procs, Tracked(p),
         \A q \in Procs \ {p} : pc[q] = "idle",
         Quiet => Described(Disk) /\ Covered(Disk, {}),
         \/ StartRun(p) \/ ListIncoming(p)
         \/ \E u \in Uploads : Skip(p, u) \/ Take(p, u) \/ Vanished(p, u)
         \/ CopyChanges(p) \/ ChangesMissing(p) \/ CheckUpload(p)
         \/ \E f \in Files : CopyFile(p, f) \/ FileMissing(p, f)
         \/ RemoveFile(p) \/ VerifyMD5Hash(p) \/ Stored(p)
  PROVE  Tracked(p)' /\ pc'[p] # "idle"
<1>1. UNCHANGED <<tables, pool>>
  BY DEF StartRun, ListIncoming, Skip, Take, Vanished, CopyChanges, ChangesMissing, CheckUpload,
         CopyFile, FileMissing, RemoveFile, VerifyMD5Hash, Stored
<1>2. ASSUME pc[p] \in Deciding, pc'[p] \in Deciding,
             ToBeIndexed(p) \subseteq ToBeIndexed(p)',
             pc'[p] # "list" => \A u \in batch'[p] : changes'[u] # "absent",
             pc'[p] \in {"take", "check"} => up'[p] \notin batch'[p]
      PROVE  Tracked(p)' /\ pc'[p] # "idle"
  <2>1. Described(Disk) /\ Covered(Disk, ToBeIndexed(p))
    BY <1>2 DEF Tracked
  <2>2. Disk' = Disk /\ InPool' = InPool /\ pool' = pool
    BY <1>1 DEF tables, Disk, InPool
  <2>3. Described(Disk)' /\ Covered(Disk, ToBeIndexed(p))'
    BY <1>2, <2>1, <2>2 DEF Described, Covered, Indexed
  <2>4. pc'[p] \notin {"idle", "open", "index", "close"}
    BY <1>2 DEF Deciding
  <2> QED
    BY <1>2, <2>3, <2>4 DEF Tracked
<1>3. CASE StartRun(p)
  <2>1. pc[p] = "idle" /\ pc'[p] = "list" /\ new'[p] = new[p]
    BY <1>3 DEF StartRun, MayStart, TypeOK, move
  <2>2. Described(Disk) /\ Covered(Disk, {})
    BY <2>1 DEF Quiet
  <2>3. Disk' = Disk /\ InPool' = InPool /\ pool' = pool
    BY <1>1 DEF tables, Disk, InPool
  <2>4. Described(Disk)' /\ Covered(Disk, ToBeIndexed(p))'
    BY <2>2, <2>3 DEF Described, Covered, Indexed
  <2> QED
    BY <2>1, <2>4 DEF Tracked, Deciding
<1>4. CASE ListIncoming(p)
  <2>1. /\ pc[p] = "list" /\ pc'[p] = "scan" /\ new' = new
        /\ batch'[p] = {u \in Uploads : changes[u] # "absent"} /\ changes' = changes
    BY <1>4 DEF ListIncoming, TypeOK, spool
  <2> QED
    BY <1>2, <2>1 DEF ToBeIndexed, Deciding
<1>5. ASSUME NEW u \in Uploads, Skip(p, u) \/ Take(p, u)
      PROVE  Tracked(p)' /\ pc'[p] # "idle"
  <2>1. /\ pc[p] = "scan" /\ pc'[p] \in {"scan", "take"} /\ new' = new
        /\ batch'[p] = batch[p] \ {u} /\ changes' = changes
        /\ pc'[p] = "take" => up'[p] = u
    BY <1>5 DEF Skip, Take, TypeOK, spool
  <2>2. \A v \in batch[p] : changes[v] # "absent"
    BY <2>1 DEF Tracked, Deciding
  <2> QED
    BY <1>2, <2>1, <2>2 DEF ToBeIndexed, Deciding
<1>6. ASSUME NEW u \in Uploads, Vanished(p, u) PROVE FALSE
  BY <1>6 DEF Vanished, Tracked, Deciding
<1>7. CASE CopyChanges(p)
  <2>1. /\ pc[p] = "take" /\ pc'[p] = "check" /\ new' = new /\ up' = up
        /\ batch' = batch /\ changes' = changes
    BY <1>7 DEF CopyChanges, TypeOK, spool, move
  <2>2. (\A v \in batch[p] : changes[v] # "absent") /\ up[p] \notin batch[p]
    BY <2>1 DEF Tracked, Deciding
  <2> QED
    BY <1>2, <2>1, <2>2 DEF ToBeIndexed, Deciding
<1>8. CASE Rejected(p) /\ changes' = changes /\ pc[p] \in {"take", "fetch"}
  <2>1. pc'[p] = "scan" /\ new' = new /\ batch' = batch
    BY <1>8 DEF Rejected, TypeOK
  <2>2. \A v \in batch[p] : changes[v] # "absent"
    BY <1>8 DEF Tracked, Deciding
  <2> QED
    BY <1>2, <1>8, <2>1, <2>2 DEF ToBeIndexed, Deciding
<1>9. CASE CheckUpload(p)
  <2>1. /\ pc[p] = "check" /\ changes' = [changes EXCEPT ![up[p]] = "absent"]
        /\ pc'[p] \in {"scan", "fetch"} /\ new' = new /\ batch' = batch
    BY <1>9 DEF CheckUpload, Rejected, TypeOK
  <2>2. (\A v \in batch[p] : changes[v] # "absent") /\ up[p] \notin batch[p]
    BY <2>1 DEF Tracked, Deciding
  <2>3. \A v \in batch[p] : changes'[v] # "absent"
    BY <2>1, <2>2 DEF TypeOK
  <2> QED
    BY <1>2, <2>1, <2>3 DEF ToBeIndexed, Deciding
<1>10. CASE RemoveFile(p) \/ \E f \in Files : CopyFile(p, f)
  <2>1. pc[p] = "fetch" /\ pc' = pc /\ new' = new /\ batch' = batch /\ changes' = changes
    BY <1>10 DEF RemoveFile, CopyFile, spool
  <2>2. \A v \in batch[p] : changes[v] # "absent"
    BY <2>1 DEF Tracked, Deciding
  <2> QED
    BY <1>2, <2>1, <2>2 DEF ToBeIndexed, Deciding
<1>11. CASE VerifyMD5Hash(p) /\ ~ Rejected(p)
  <2>1. /\ pc[p] = "fetch" /\ pc'[p] = "store" /\ new' = new /\ batch' = batch /\ changes' = changes
    BY <1>11 DEF VerifyMD5Hash, TypeOK, spool
  <2>2. \A v \in batch[p] : changes[v] # "absent"
    BY <2>1 DEF Tracked, Deciding
  <2> QED
    BY <1>2, <2>1, <2>2 DEF ToBeIndexed, Deciding
<1>12. CASE Stored(p)
  <2>1. /\ pc[p] = "store" /\ pc'[p] = "scan" /\ batch' = batch /\ changes' = changes
        /\ new'[p] = new[p] \cup ToIndex(up[p])
    BY <1>12 DEF Stored, TypeOK, spool
  <2>2. \A v \in batch[p] : changes[v] # "absent"
    BY <2>1 DEF Tracked, Deciding
  <2> QED
    BY <1>2, <2>1, <2>2 DEF ToBeIndexed, Deciding
<1>13. CASE ChangesMissing(p) \/ (VerifyMD5Hash(p) /\ Rejected(p)) \/ \E f \in Files : FileMissing(p, f)
  BY <1>8, <1>13 DEF ChangesMissing, VerifyMD5Hash, FileMissing, spool
<1> QED
  BY <1>3, <1>4, <1>5, <1>6, <1>7, <1>9, <1>10, <1>11, <1>12, <1>13

\* So does the copy of a file to the pool, which is a file of the upload.
LEMMA StoreKeepsTracked ==
  ASSUME TypeOK, NEW p \in Procs, Tracked(p), UpToDate(p), NEW f \in Files, StoreFile(p, f)
  PROVE  Tracked(p)' /\ pc'[p] # "idle"
<1>1. /\ pc[p] = "store" /\ f \in todo[p] /\ pc' = pc /\ UNCHANGED <<tables, new, up, batch, changes>>
      /\ \A g \in Files \ {f} : pool'[g] = pool[g]
  BY DEF StoreFile, TypeOK, Directory, spool
<1>2. f \in Listed[up[p]]
  BY <1>1 DEF UpToDate
<1>3. Described(Disk) /\ Covered(Disk, ToBeIndexed(p))
  BY <1>1 DEF Tracked, Deciding
<1>4. Disk' = Disk /\ ToBeIndexed(p)' = ToBeIndexed(p)
  BY <1>1 DEF Disk, tables, ToBeIndexed
<1>5. Kind[f] \in {"dsc", "deb"} => f \in ToBeIndexed(p)
  BY <1>1, <1>2 DEF ToBeIndexed, ToIndex
<1>6. Described(Disk)' /\ Covered(Disk, ToBeIndexed(p))'
  BY <1>1, <1>3, <1>4, <1>5 DEF Described, Covered, Indexed, InPool
<1>7. \A u \in batch[p] : changes[u] # "absent"
  BY <1>1 DEF Tracked, Deciding
<1> QED
  BY <1>1, <1>6, <1>7 DEF Tracked, Deciding

\* A run that has nothing to index has left nothing unindexed.
LEMMA EndBatchKeepsTracked ==
  ASSUME TypeOK, NEW p \in Procs, Tracked(p), EndBatch(p)
  PROVE  Tracked(p)' /\ (pc'[p] = "idle" => Described(Disk)' /\ Covered(Disk, {})')
<1>1. pc[p] = "scan" /\ Described(Disk) /\ Covered(Disk, new[p])
  BY DEF EndBatch, Tracked, Deciding, ToBeIndexed
<1>2. Disk' = Disk /\ pool' = pool /\ InPool' = InPool
  BY DEF EndBatch, tables, Disk, InPool
<1>3. CASE new[p] = {}
  <2>1. pc'[p] = "idle"
    BY <1>3 DEF EndBatch, End, TypeOK
  <2>2. Described(Disk)' /\ Covered(Disk, {})'
    BY <1>1, <1>2, <1>3 DEF Described, Covered, Indexed
  <2> QED
    BY <2>1, <2>2 DEF Tracked, Deciding
<1>4. CASE new[p] # {}
  <2>1. pc'[p] = "open" /\ new' = new
    BY <1>4 DEF EndBatch, TypeOK, move
  <2>2. Described(Disk)' /\ Covered(Disk, ToBeIndexed(p))'
    BY <1>1, <1>2, <2>1 DEF Described, Covered, Indexed, ToBeIndexed
  <2> QED
    BY <2>1, <2>2 DEF Tracked, Deciding
<1> QED
  BY <1>3, <1>4

\* The package f is marked as seen in the tables of p, and described as far as
\* it can be.
Marked(p, f) ==
  /\ cache'[p].pool_pkg = [cache[p].pool_pkg EXCEPT ![f] = pool[f]]
  /\ cache[p].src_info \subseteq cache'[p].src_info
  /\ cache[p].pkg_info \subseteq cache'[p].pkg_info
  /\ cache[p].pkg_deps \subseteq cache'[p].pkg_deps
  /\ Kind[f] = "dsc" => Belongs[f] \in cache'[p].src_info
  /\ Kind[f] = "deb" /\ pool[f] \in Readable =>
       f \in cache'[p].pkg_info /\ f \in cache'[p].pkg_deps
  /\ dirty[p] \cup {"pool_pkg"} \subseteq dirty'[p]
  /\ "src_info" \notin dirty'[p] => cache'[p].src_info = cache[p].src_info
  /\ "pkg_info" \notin dirty'[p] => cache'[p].pkg_info = cache[p].pkg_info
  /\ "pkg_deps" \notin dirty'[p] => cache'[p].pkg_deps = cache[p].pkg_deps

\* What IndexSource and IndexBinary do to the tables a run has open.
LEMMA IndexEffect ==
  ASSUME TypeOK, NEW p \in Procs, NEW f \in Files,
         IndexSource(p, f) \/ IndexBinary(p, f, pool[f] \in Readable)
  PROVE  /\ pc[p] = "index" /\ UNCHANGED <<pc, pool, tables>> /\ new'[p] = new[p] \ {f}
         /\ \/ cache[p].pool_pkg[f] # Absent /\ cache' = cache /\ dirty' = dirty
            \/ cache[p].pool_pkg[f] = Absent /\ Marked(p, f)
<1>1. cache[p] \in Database
  BY DEF TypeOK
<1>2. CASE IndexSource(p, f)
  <2>1. /\ pc[p] = "index" /\ UNCHANGED <<pc, pool, tables>> /\ Kind[f] = "dsc"
        /\ new' = [new EXCEPT ![p] = @ \ {f}]
    BY <1>2, Zenon DEF IndexSource, SourcesLeft
  <2>2. new'[p] = new[p] \ {f}
    BY <2>1 DEF TypeOK
  <2>3. CASE cache[p].pool_pkg[f] # Absent
    BY <1>2, <2>1, <2>2, <2>3 DEF IndexSource, dbs
  <2>4. CASE cache[p].pool_pkg[f] = Absent
    <3>1. /\ cache' = [cache EXCEPT ![p] =
               [cache[p] EXCEPT !.pool_pkg = [@ EXCEPT ![f] = pool[f]],
                                !.src_info = @ \cup {Belongs[f]}]]
          /\ dirty' = [dirty EXCEPT ![p] = @ \cup {"pool_pkg", "src_info"}]
      BY <1>2, <2>4 DEF IndexSource
    <3>2. /\ cache'[p].pool_pkg = [cache[p].pool_pkg EXCEPT ![f] = pool[f]]
          /\ cache'[p].src_info = cache[p].src_info \cup {Belongs[f]}
          /\ cache'[p].pkg_info = cache[p].pkg_info /\ cache'[p].pkg_deps = cache[p].pkg_deps
          /\ dirty'[p] = dirty[p] \cup {"pool_pkg", "src_info"}
      BY <1>1, <3>1 DEF TypeOK, Database
    <3>3. Marked(p, f)
      BY <2>1, <3>2 DEF Marked
    <3> QED
      BY <2>1, <2>2, <2>4, <3>3
  <2> QED
    BY <2>3, <2>4
<1>3. CASE IndexBinary(p, f, pool[f] \in Readable)
  <2>1. /\ pc[p] = "index" /\ UNCHANGED <<pc, pool, tables>>
        /\ f \in new[p] /\ SourcesLeft(p) = {}
        /\ new' = [new EXCEPT ![p] = @ \ {f}]
    BY <1>3, Zenon DEF IndexBinary
  <2>2. new'[p] = new[p] \ {f} /\ Kind[f] # "dsc"
    BY <2>1 DEF TypeOK, SourcesLeft
  <2>3. CASE cache[p].pool_pkg[f] # Absent
    BY <1>3, <2>1, <2>2, <2>3 DEF IndexBinary, dbs
  <2>4. CASE cache[p].pool_pkg[f] = Absent
    <3> DEFINE found  == {g \in {f} : pool[f] \in Readable}
               filled == {t \in {"pkg_info", "pkg_deps"} : pool[f] \in Readable}
    <3>1. /\ cache' = [cache EXCEPT ![p] =
               [cache[p] EXCEPT !.pool_pkg = [@ EXCEPT ![f] = pool[f]],
                                !.pkg_info = @ \cup found, !.pkg_deps = @ \cup found]]
          /\ dirty' = [dirty EXCEPT ![p] = @ \cup {"pool_pkg"} \cup filled]
      BY <1>3, <2>4 DEF IndexBinary
    <3>2. /\ found = IF pool[f] \in Readable THEN {f} ELSE {}
          /\ filled = IF pool[f] \in Readable THEN {"pkg_info", "pkg_deps"} ELSE {}
      OBVIOUS
    <3> HIDE DEF found, filled
    <3>3. /\ cache'[p].pool_pkg = [cache[p].pool_pkg EXCEPT ![f] = pool[f]]
          /\ cache'[p].src_info = cache[p].src_info
          /\ cache'[p].pkg_info = cache[p].pkg_info \cup found
          /\ cache'[p].pkg_deps = cache[p].pkg_deps \cup found
          /\ dirty'[p] = dirty[p] \cup {"pool_pkg"} \cup filled
      BY <1>1, <3>1 DEF TypeOK, Database
    <3>4. Marked(p, f)
      BY <2>2, <3>2, <3>3 DEF Marked
    <3> QED
      BY <2>1, <2>2, <2>4, <3>4
  <2> QED
    BY <2>3, <2>4
<1> QED
  BY <1>2, <1>3

\* Indexing moves packages from the list of the run to its tables, and these to
\* the disk.
LEMMA IndexKeepsTracked ==
  ASSUME TypeOK, NEW p \in Procs, Tracked(p), UpToDate(p),
         \/ OpenTables(p)
         \/ \E f \in Files : IndexSource(p, f)
         \/ \E f \in Files : IndexBinary(p, f, pool[f] \in Readable)
         \/ IndexDone(p) \/ \E tb \in Tables : CloseTable(p, tb)
  PROVE  Tracked(p)' /\ pc'[p] # "idle"
<1>1. CASE OpenTables(p)
  <2>1. /\ pc[p] = "open" /\ pc'[p] = "index" /\ cache'[p] = Disk
        /\ UNCHANGED <<src_info, pool_pkg, pkg_info, pkg_deps, pool, new>>
    BY <1>1 DEF OpenTables, TypeOK, tables, move
  <2>2. Described(Disk) /\ Covered(Disk, new[p])
    BY <2>1 DEF Tracked, ToBeIndexed
  <2>3. Described(cache[p])' /\ Covered(cache[p], new[p])'
    BY <2>1, <2>2 DEF Described, Covered, Indexed, InPool
  <2>4. /\ src_info' = cache'[p].src_info /\ pool_pkg' = cache'[p].pool_pkg
        /\ pkg_info' = cache'[p].pkg_info /\ pkg_deps' = cache'[p].pkg_deps
    BY <2>1 DEF Disk
  <2> QED
    BY <2>1, <2>3, <2>4 DEF Tracked, Deciding
<1>2. ASSUME NEW f \in Files,
             IndexSource(p, f) \/ IndexBinary(p, f, pool[f] \in Readable)
      PROVE  Tracked(p)' /\ pc'[p] # "idle"
  <2>1. pc[p] = "index" /\ UNCHANGED <<pc, pool, tables>> /\ new'[p] = new[p] \ {f}
    BY <1>2, IndexEffect
  <2>2. /\ Described(cache[p]) /\ Covered(cache[p], new[p])
        /\ "src_info" \notin dirty[p] => src_info = cache[p].src_info
        /\ "pool_pkg" \notin dirty[p] => pool_pkg = cache[p].pool_pkg
        /\ "pkg_info" \notin dirty[p] => pkg_info = cache[p].pkg_info
        /\ "pkg_deps" \notin dirty[p] => pkg_deps = cache[p].pkg_deps
        /\ \A g \in Files : cache[p].pool_pkg[g] # Absent => pool[g] = cache[p].pool_pkg[g]
    BY <2>1 DEF Tracked, UpToDate
  <2>3. CASE cache[p].pool_pkg[f] # Absent /\ cache' = cache /\ dirty' = dirty
    <3>1. Described(cache[p])' /\ Covered(cache[p], new[p])'
      BY <2>1, <2>2, <2>3 DEF Described, Covered, Indexed, InPool
    <3> QED
      BY <2>1, <2>2, <2>3, <3>1 DEF Tracked, Deciding, tables
  <2>4. CASE cache[p].pool_pkg[f] = Absent /\ Marked(p, f)
    <3>1. cache[p].pool_pkg \in Directory
      BY DEF TypeOK, Database
    <3>2. \A g \in Files : cache'[p].pool_pkg[g] = IF g = f THEN pool[f] ELSE cache[p].pool_pkg[g]
      BY <2>4, <3>1 DEF Directory, Marked
    <3>3. Described(cache[p])'
      BY <2>2, <2>4, <3>2 DEF Described, Marked
    <3>4. ASSUME NEW g \in Files, g \in InPool, Kind[g] \in {"dsc", "deb"}, g \notin new'[p]
          PROVE  Indexed(cache[p], g)'
      <4>1. CASE g = f
        BY <2>1, <2>4, <3>2, <3>4, <4>1 DEF Indexed, Marked
      <4>2. CASE g # f
        <5>1. Indexed(cache[p], g)
          BY <2>1, <2>2, <3>4, <4>2 DEF Covered
        <5>2. QED BY <2>1, <2>4, <3>2, <4>2, <5>1 DEF Indexed, Marked
      <4>3. QED BY <4>1, <4>2
    <3>5. Covered(cache[p], new[p])'
      BY <2>1, <3>4 DEF Covered, InPool
    <3>6. /\ "src_info" \notin dirty'[p] => src_info' = cache'[p].src_info
          /\ "pkg_info" \notin dirty'[p] => pkg_info' = cache'[p].pkg_info
          /\ "pkg_deps" \notin dirty'[p] => pkg_deps' = cache'[p].pkg_deps
          /\ "pool_pkg" \in dirty'[p]
      BY <2>1, <2>2, <2>4 DEF tables, Marked
    <3> QED
      BY <2>1, <3>3, <3>5, <3>6 DEF Tracked, Deciding
  <2> QED
    BY <1>2, <2>3, <2>4, IndexEffect
<1>3. CASE IndexDone(p)
  <2>1. /\ pc[p] = "index" /\ pc'[p] = "close" /\ new[p] = {}
        /\ UNCHANGED <<src_info, pool_pkg, pkg_info, pkg_deps, pool, new, cache, dirty>>
    BY <1>3 DEF IndexDone, TypeOK, tables, move, dbs
  <2>2. Described(cache[p])' /\ Covered(cache[p], new[p])'
    BY <2>1 DEF Tracked, Described, Covered, Indexed, InPool
  <2> QED
    BY <2>1, <2>2 DEF Tracked, Deciding
<1>4. ASSUME NEW tb \in Tables, CloseTable(p, tb)
      PROVE  Tracked(p)' /\ pc'[p] # "idle"
  <2>1. /\ pc[p] = "close" /\ UNCHANGED <<pc, pool, new, cache>>
        /\ dirty'[p] = dirty[p] \ {tb}
        /\ src_info' = IF tb = "src_info" THEN cache[p].src_info ELSE src_info
        /\ pool_pkg' = IF tb = "pool_pkg" THEN cache[p].pool_pkg ELSE pool_pkg
        /\ pkg_info' = IF tb = "pkg_info" THEN cache[p].pkg_info ELSE pkg_info
        /\ pkg_deps' = IF tb = "pkg_deps" THEN cache[p].pkg_deps ELSE pkg_deps
    BY <1>4 DEF CloseTable, TypeOK, move
  <2>2. Described(cache[p])' /\ Covered(cache[p], new[p])'
    BY <2>1 DEF Tracked, Described, Covered, Indexed, InPool
  <2>3. /\ "src_info" \notin dirty'[p] => src_info' = cache'[p].src_info
        /\ "pool_pkg" \notin dirty'[p] => pool_pkg' = cache'[p].pool_pkg
        /\ "pkg_info" \notin dirty'[p] => pkg_info' = cache'[p].pkg_info
        /\ "pkg_deps" \notin dirty'[p] => pkg_deps' = cache'[p].pkg_deps
    BY <2>1 DEF Tracked
  <2> QED
    BY <2>1, <2>2, <2>3 DEF Tracked, Deciding
<1> QED
  BY <1>1, <1>2, <1>3, <1>4

\* When the tables are closed the disk has all that the run has indexed.
LEMMA FinishKeepsTracked ==
  ASSUME TypeOK, NEW p \in Procs, Tracked(p), Finish(p)
  PROVE  Tracked(p)' /\ Described(Disk)' /\ Covered(Disk, {})'
<1>1. /\ pc[p] = "close" /\ dirty[p] = {} /\ pc'[p] = "idle"
      /\ UNCHANGED <<src_info, pool_pkg, pkg_info, pkg_deps, pool>>
  BY DEF Finish, End, TypeOK, tables
<1>2. /\ Described(cache[p]) /\ Covered(cache[p], {})
      /\ src_info = cache[p].src_info /\ pool_pkg = cache[p].pool_pkg
      /\ pkg_info = cache[p].pkg_info /\ pkg_deps = cache[p].pkg_deps
  BY <1>1 DEF Tracked
<1>3. Described(Disk)' /\ Covered(Disk, {})'
  BY <1>1, <1>2 DEF Described, Covered, Indexed, Disk, InPool
<1> QED
  BY <1>1, <1>3 DEF Tracked, Deciding

\* No step loses track of a file that is yet to be indexed.
LEMMA TrackedPreserved ==
  Malformed = {} /\ TypeOK /\ IntactInv /\ TrackedInv /\ OneAtATime' /\ [ReliableNext]_vars => TrackedInv'
<1> SUFFICES ASSUME Malformed = {}, TypeOK, IntactInv, TrackedInv, OneAtATime', [ReliableNext]_vars
             PROVE  TrackedInv'
  OBVIOUS
<1>1. CASE UNCHANGED vars \/ Environment
  <2>1. /\ UNCHANGED <<src_info, pool_pkg, pkg_info, pkg_deps, pool, pc, batch, up, new, cache, dirty>>
        /\ \A u \in Uploads : changes[u] # "absent" => changes'[u] # "absent"
    BY <1>1 DEF vars, spool, tables, move, dbs, Environment, Drop, Age, TypeOK
  <2>2. Disk' = Disk /\ InPool' = InPool /\ Quiet' = Quiet
    BY <2>1 DEF Disk, InPool, Quiet
  <2>3. Quiet' => Described(Disk)' /\ Covered(Disk, {})'
    BY <2>1, <2>2 DEF TrackedInv, Described, Covered, Indexed
  <2>4. ASSUME NEW p \in Procs PROVE Tracked(p)'
    <3>1. Tracked(p) /\ batch[p] \subseteq Uploads
      BY DEF TrackedInv, TypeOK
    <3>2. ToBeIndexed(p)' = ToBeIndexed(p)
      BY <2>1 DEF ToBeIndexed
    <3>3. pc[p] \in Deciding \cup {"open"} => Described(Disk)' /\ Covered(Disk, ToBeIndexed(p))'
      BY <2>1, <2>2, <3>1, <3>2 DEF Tracked, Described, Covered, Indexed
    <3>4. pc[p] \in {"index", "close"} => Described(cache[p])' /\ Covered(cache[p], new[p])'
      BY <2>1, <2>2, <3>1 DEF Tracked, Described, Covered, Indexed
    <3> QED
      BY <2>1, <3>1, <3>3, <3>4 DEF Tracked
  <2> QED
    BY <2>3, <2>4 DEF TrackedInv
<1>2. ASSUME NEW p \in Procs, StartRun(p) \/ Step(p)
      PROVE  TrackedInv'
  <2>1. /\ OneAtATime /\ UpToDate(p) /\ Tracked(p)
        /\ Quiet => Described(Disk) /\ Covered(Disk, {})
    BY DEF IntactInv, TrackedInv
  <2>2. \A q \in Procs \ {p} : pc[q] = "idle" /\ pc'[q] = "idle"
    BY <1>2, <2>1, RunsAreApart
  <2>3. \A q \in Procs \ {p} : Tracked(q)'
    BY <2>2 DEF Tracked, Deciding
  <2>4. Tracked(p)' /\ (pc'[p] = "idle" => Described(Disk)' /\ Covered(Disk, {})')
    BY <1>2, <2>1, <2>2, MoveKeepsTracked, StoreKeepsTracked, EndBatchKeepsTracked,
       IndexKeepsTracked, FinishKeepsTracked DEF Step
  <2> QED
    BY <2>3, <2>4 DEF TrackedInv, Quiet
<1> QED
  BY <1>1, <1>2 DEF ReliableNext

\* As long as no two runs have overlapped and no signed .changes file lacks a
\* field, what undisturbed runs have moved into the pool is indexed as it is
\* whenever no run is going on: a source package with its description, a binary
\* package with description and dependencies unless it cannot be read (the
\* property StoredIsIndexed).
THEOREM StoredFilesIndexed == ASSUME Malformed = {} PROVE ReliableSpec => StoredIsIndexed
<1>1. Init => TypeOK /\ IntactInv /\ TrackedInv
  <2>1. Init => IntactInv
    BY DEF Init, IntactInv, OneAtATime, KnownFilesIntact, UpToDate, Deciding, NoFiles
  <2>2. Init => TrackedInv
    BY DEF Init, TrackedInv, Tracked, Described, Covered, Disk, InPool, NoFiles, Deciding
  <2> QED
    BY <2>1, <2>2, InitialTypes
<1>2. TypeOK /\ IntactInv /\ TrackedInv /\ OneAtATime' /\ [ReliableNext]_vars
      => (TypeOK /\ IntactInv /\ TrackedInv)'
  <2>1. [ReliableNext]_vars => [Next]_vars
    BY DEF Next
  <2> QED
    BY <2>1, TypesPreserved, IntactPreserved, TrackedPreserved
<1>3. TrackedInv => (Quiet => AllIndexed)
  BY DEF TrackedInv, Covered, Disk, AllIndexed
<1> QED
  BY <1>1, <1>2, <1>3, PTL DEF ReliableSpec, StoredIsIndexed
=============================================================================
