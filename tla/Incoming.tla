------------------------------- MODULE Incoming -------------------------------
(***************************************************************************)
(* enter_incoming: a run looks for .changes files in incoming/, moves each *)
(* acceptable upload through a temporary directory into pool/, and indexes *)
(* what it has moved.  Uploads are decided with the src_info and pool_pkg  *)
(* tables as they were when the run began; the tables are written by the   *)
(* second RunWithDB of the run.  Uploaders work in incoming/ meanwhile,    *)
(* and nothing keeps two runs apart.                                       *)
(*                                                                         *)
(* The last step of a run, a snapshot release of the latest packages, is   *)
(* the commit command of ReleaseStore.                                     *)
(***************************************************************************)
EXTENDS Integers

CONSTANTS
  Files,      \* file names
  Contents,   \* contents of files, as told apart by size and MD5 hash
  Torn,       \* what is in a file whose copying was broken off
  Absent,     \* the file does not exist, or the table has no such key
  Readable,   \* contents of binary packages that dpkg-deb can read
  Kind,       \* Kind[f]: "dsc", "diff", "orig", "tar" or "deb"
  Sources,    \* source packages (name_version)
  Belongs,    \* Belongs[f]: the source that f is a part of or was built from
  Native,     \* sources whose version has no '-'
  Upstreams,  \* upstream versions of source packages
  Upstream,   \* Upstream[s]: the one that the source s packages
  KeyPrefix,  \* pairs <<s, k>>: the src_info key k starts with the header of s
  Uploads,    \* .changes files
  Source,     \* Source[u]: the source package the upload is about
  Listed,     \* Listed[u]: the files named in u
  Hash,       \* Hash[u][f]: the content of f according to u
  Signed,     \* uploads with a good signature
  Malformed,  \* signed uploads without a Source, Version or Files field
  MaxDrops,   \* bound: times that something is put in incoming/
  Procs,      \* runs of enter_incoming
  Overlap     \* TRUE: a run may start while another is going on

ASSUME UploadAssumption ==
  /\ Torn \in Contents
  /\ Absent \notin Contents
  /\ Readable \subseteq Contents \ {Torn}
  /\ Absent \notin Files
  /\ Absent \notin Uploads
  /\ Kind \in [Files -> {"dsc", "diff", "orig", "tar", "deb"}]
  /\ Belongs \in [Files -> Sources]
  /\ Native \subseteq Sources
  /\ Upstream \in [Sources -> Upstreams]
  /\ KeyPrefix \subseteq Sources \X Sources
  /\ Source \in [Uploads -> Sources]
  /\ Listed \in [Uploads -> SUBSET Files]
  /\ Hash \in [Uploads -> [Files -> Contents]]
  /\ Signed \subseteq Uploads
  /\ Malformed \subseteq Signed
  /\ MaxDrops \in Nat
  /\ Overlap \in BOOLEAN

\* What dpkg-genchanges writes: an upload lists parts of the source it names.
ASSUME GenchangesAssumption ==
  \A u \in Uploads : \A f \in Listed[u] :
    IF Kind[f] = "orig" THEN Upstream[Belongs[f]] = Upstream[Source[u]]
                        ELSE Belongs[f] = Source[u]

VARIABLES
  src_info,  \* sources with a description
  pool_pkg,  \* pool_pkg[f]: size of f when it was indexed, or Absent
  pkg_info,  \* binary package files with a description
  pkg_deps,  \* binary package files with dependency attributes
  incoming,  \* incoming[f]: content of f in incoming/, or Absent
  changes,   \* changes[u]: "absent", "fresh" for 5 seconds, then "ready"
  drops,     \* counts the uploads for MaxDrops
  pool,      \* pool[f]: content of f in pool/, or Absent
  (* one run per process *)
  pc,        \* the stage the run is in
  seen,      \* src_info and pool_pkg as the run found them when it began
  batch,     \* .changes files of the directory listing still to be looked at
  up,        \* the upload in process
  todo,      \* its files still to be moved
  held,      \* a file that is copied and not yet removed from incoming/
  temp,      \* the temporary directory
  new,       \* .dsc and .deb files to index
  cache,     \* the tables of the second RunWithDB
  dirty      \* those of them that were changed

tables == <<src_info, pool_pkg, pkg_info, pkg_deps>>
spool  == <<incoming, changes, drops>>
move   == <<batch, up, todo, held, temp, new>>
dbs    == <<cache, dirty>>
vars   == <<tables, spool, pool, pc, seen, move, dbs>>

Disk == [src_info |-> src_info, pool_pkg |-> pool_pkg, pkg_info |-> pkg_info,
         pkg_deps |-> pkg_deps]
NoFiles == [f \in Files |-> Absent]
EmptyDisk == [src_info |-> {}, pool_pkg |-> NoFiles, pkg_info |-> {}, pkg_deps |-> {}]

Init ==
  /\ src_info = {} /\ pool_pkg = NoFiles /\ pkg_info = {} /\ pkg_deps = {}
  /\ incoming = NoFiles
  /\ changes = [u \in Uploads |-> "absent"]
  /\ drops = 0
  /\ pool = NoFiles
  /\ pc = [p \in Procs |-> "idle"]
  /\ seen = [p \in Procs |-> EmptyDisk]
  /\ batch = [p \in Procs |-> {}]
  /\ up = [p \in Procs |-> Absent]
  /\ todo = [p \in Procs |-> {}]
  /\ held = [p \in Procs |-> Absent]
  /\ temp = [p \in Procs |-> NoFiles]
  /\ new = [p \in Procs |-> {}]
  /\ cache = [p \in Procs |-> EmptyDisk]
  /\ dirty = [p \in Procs |-> {}]
-----------------------------------------------------------------------------
(* Uploaders. *)

\* An upload arrives, perhaps without some of its files.
Drop(u, S) ==
  /\ drops < MaxDrops
  /\ drops' = drops + 1
  /\ incoming' = [f \in Files |-> IF f \in S THEN Hash[u][f] ELSE incoming[f]]
  /\ changes' = [changes EXCEPT ![u] = "fresh"]
  /\ UNCHANGED <<tables, pool, pc, seen, move, dbs>>

\* More than 5 seconds pass since the .changes file was written.
Age(u) ==
  /\ changes[u] = "fresh"
  /\ changes' = [changes EXCEPT ![u] = "ready"]
  /\ UNCHANGED <<tables, incoming, drops, pool, pc, seen, move, dbs>>
-----------------------------------------------------------------------------
(* The decision of _ProcessChangesFile. *)

Has(u, kind) == \E f \in Listed[u] : Kind[f] = kind

NewSource(u, db) == Source[u] \notin db.src_info

\* No key of src_info starts with source_upstreamversion-
NewUpstream(u, db) == ~ \E k \in db.src_info : <<Source[u], k>> \in KeyPrefix

\* Mutant of Acceptable: nothing asks for the upstream source.
AcceptableNoOrig(u, db) ==
  /\ \A f \in Listed[u] : db.pool_pkg[f] = Absent
  /\ NewSource(u, db) => Has(u, "dsc") /\ (Source[u] \in Native => Has(u, "tar"))

\* Mutant of Acceptable: files that are in the pool already are admitted.
AcceptableAgain(u, db) ==
  NewSource(u, db) => Has(u, "dsc") /\ (Source[u] \in Native <=> Has(u, "tar"))

\* Mutant of Acceptable: binary packages of an unknown source are admitted.
AcceptableBinary(u, db) ==
  /\ \A f \in Listed[u] : db.pool_pkg[f] = Absent
  /\ NewSource(u, db) /\ Has(u, "dsc") /\ Source[u] \in Native => Has(u, "tar")

\* Do the contents of the upload match its status in the repository?
Acceptable(u, db) ==
  /\ \A f \in Listed[u] : db.pool_pkg[f] = Absent
  /\ NewSource(u, db) =>
       /\ Has(u, "dsc")
       /\ IF Source[u] \in Native
          THEN ~ Has(u, "diff") /\ ~ Has(u, "orig") /\ Has(u, "tar")
          ELSE /\ Has(u, "diff") /\ ~ Has(u, "tar")
               /\ Has(u, "orig") <=> NewUpstream(u, db)
-----------------------------------------------------------------------------
(* The first RunWithDB: DoProcessInTempDir. *)

MayStart(p) == pc[p] = "idle" /\ (Overlap \/ \A q \in Procs : pc[q] = "idle")

StartRun(p) ==
  /\ MayStart(p)
  /\ pc' = [pc EXCEPT ![p] = "list"]
  /\ seen' = [seen EXCEPT ![p] = Disk]
  /\ UNCHANGED <<tables, spool, pool, move, dbs>>

ListIncoming(p) ==
  /\ pc[p] = "list"
  /\ pc' = [pc EXCEPT ![p] = "scan"]
  /\ batch' = [batch EXCEPT ![p] = {u \in Uploads : changes[u] # "absent"}]
  /\ UNCHANGED <<tables, spool, pool, seen, up, todo, held, temp, new, dbs>>

\* Mutant of Skip: the test of the age does not hold any file to be old enough.
SkipAny(p, u) ==
  /\ pc[p] = "scan" /\ u \in batch[p]
  /\ changes[u] # "absent"
  /\ batch' = [batch EXCEPT ![p] = @ \ {u}]
  /\ UNCHANGED <<tables, spool, pool, pc, seen, up, todo, held, temp, new, dbs>>

\* The directory listing is in no particular order.
Skip(p, u) ==
  /\ pc[p] = "scan" /\ u \in batch[p]
  /\ changes[u] = "fresh"
  /\ batch' = [batch EXCEPT ![p] = @ \ {u}]
  /\ UNCHANGED <<tables, spool, pool, pc, seen, up, todo, held, temp, new, dbs>>

Take(p, u) ==
  /\ pc[p] = "scan" /\ u \in batch[p]
  /\ changes[u] = "ready"
  /\ pc' = [pc EXCEPT ![p] = "take"]
  /\ batch' = [batch EXCEPT ![p] = @ \ {u}]
  /\ up' = [up EXCEPT ![p] = u]
  /\ UNCHANGED <<tables, spool, pool, seen, todo, held, temp, new, dbs>>

\* The run is over, and forgets the files that it has moved into the pool.
End(p) ==
  /\ pc' = [pc EXCEPT ![p] = "idle"]
  /\ seen' = [seen EXCEPT ![p] = EmptyDisk]
  /\ batch' = [batch EXCEPT ![p] = {}]
  /\ up' = [up EXCEPT ![p] = Absent]
  /\ todo' = [todo EXCEPT ![p] = {}]
  /\ held' = [held EXCEPT ![p] = Absent]
  /\ temp' = [temp EXCEPT ![p] = NoFiles]
  /\ new' = [new EXCEPT ![p] = {}]
  /\ cache' = [cache EXCEPT ![p] = EmptyDisk]
  /\ dirty' = [dirty EXCEPT ![p] = {}]

\* getmtime raises OSError outside of the try block.
Vanished(p, u) ==
  /\ pc[p] = "scan" /\ u \in batch[p]
  /\ changes[u] = "absent"
  /\ End(p)
  /\ UNCHANGED <<tables, spool, pool>>

\* An EnvironmentError ends the upload and not the run.  What is left in the
\* temporary directory is never read again.
Rejected(p) ==
  /\ pc' = [pc EXCEPT ![p] = "scan"]
  /\ up' = [up EXCEPT ![p] = Absent]
  /\ todo' = [todo EXCEPT ![p] = {}]
  /\ held' = [held EXCEPT ![p] = Absent]
  /\ temp' = [temp EXCEPT ![p] = NoFiles]
  /\ UNCHANGED <<seen, batch, new, dbs>>

\* CopyDeleteFiles copies the .changes file out of incoming/.
CopyChanges(p) ==
  /\ pc[p] = "take"
  /\ changes[up[p]] # "absent"
  /\ pc' = [pc EXCEPT ![p] = "check"]
  /\ UNCHANGED <<tables, spool, pool, seen, move, dbs>>

ChangesMissing(p) ==
  /\ pc[p] = "take"
  /\ changes[up[p]] = "absent"
  /\ Rejected(p)
  /\ UNCHANGED <<tables, spool, pool>>

\* Then it removes the original, and the copy is checked: the KeyError of a
\* malformed upload is caught nowhere.
CheckUpload(p) ==
  LET u == up[p]
  IN  /\ pc[p] = "check"
      /\ changes' = [changes EXCEPT ![u] = "absent"]
      /\ \/ u \in Malformed /\ End(p)
         \/ u \notin Signed /\ Rejected(p)
         \/ u \in Signed \ Malformed /\ ~ Acceptable(u, seen[p]) /\ Rejected(p)
         \/ /\ u \in Signed \ Malformed /\ Acceptable(u, seen[p])
            /\ pc' = [pc EXCEPT ![p] = "fetch"]
            /\ todo' = [todo EXCEPT ![p] = Listed[u]]
            /\ UNCHANGED <<seen, batch, up, held, temp, new, dbs>>
      /\ UNCHANGED <<tables, incoming, drops, pool>>

\* CopyDeleteFiles from incoming/ to the temporary directory, one file.
CopyFile(p, f) ==
  /\ pc[p] = "fetch" /\ held[p] = Absent
  /\ f \in todo[p]
  /\ incoming[f] # Absent
  /\ temp' = [temp EXCEPT ![p] = [@ EXCEPT ![f] = incoming[f]]]
  /\ held' = [held EXCEPT ![p] = f]
  /\ UNCHANGED <<tables, spool, pool, pc, seen, batch, up, todo, new, dbs>>

FileMissing(p, f) ==
  /\ pc[p] = "fetch" /\ held[p] = Absent
  /\ f \in todo[p]
  /\ incoming[f] = Absent
  /\ Rejected(p)
  /\ UNCHANGED <<tables, spool, pool>>

\* A file that another run has removed meanwhile is no error.
RemoveFile(p) ==
  /\ pc[p] = "fetch" /\ held[p] # Absent
  /\ incoming' = [incoming EXCEPT ![held[p]] = Absent]
  /\ todo' = [todo EXCEPT ![p] = @ \ {held[p]}]
  /\ held' = [held EXCEPT ![p] = Absent]
  /\ UNCHANGED <<tables, changes, drops, pool, pc, seen, batch, up, temp, new, dbs>>

VerifyMD5Hash(p) ==
  LET intact == \A f \in Listed[up[p]] : temp[p][f] = Hash[up[p]][f]
  IN  /\ pc[p] = "fetch" /\ held[p] = Absent
      /\ todo[p] = {}
      /\ \/ ~ intact /\ Rejected(p)
         \/ /\ intact
            /\ pc' = [pc EXCEPT ![p] = "store"]
            /\ todo' = [todo EXCEPT ![p] = Listed[up[p]]]
            /\ UNCHANGED <<seen, batch, up, held, temp, new, dbs>>
      /\ UNCHANGED <<tables, spool, pool>>

\* CopyDeleteFiles from the temporary directory to the pool, one file.
StoreFile(p, f) ==
  /\ pc[p] = "store"
  /\ f \in todo[p]
  /\ pool' = [pool EXCEPT ![f] = temp[p][f]]
  /\ temp' = [temp EXCEPT ![p] = [@ EXCEPT ![f] = Absent]]
  /\ todo' = [todo EXCEPT ![p] = @ \ {f}]
  /\ UNCHANGED <<tables, spool, pc, seen, batch, up, held, new, dbs>>

ToIndex(u) == {f \in Listed[u] : Kind[f] \in {"dsc", "deb"}}

Stored(p) ==
  /\ pc[p] = "store"
  /\ todo[p] = {}
  /\ pc' = [pc EXCEPT ![p] = "scan"]
  /\ new' = [new EXCEPT ![p] = @ \cup ToIndex(up[p])]
  /\ up' = [up EXCEPT ![p] = Absent]
  /\ UNCHANGED <<tables, spool, pool, seen, batch, todo, held, temp, dbs>>

\* The run goes on if it has moved something into the pool.
EndBatch(p) ==
  /\ pc[p] = "scan"
  /\ batch[p] = {}
  /\ \/ new[p] = {} /\ End(p)
     \/ /\ new[p] # {}
        /\ pc' = [pc EXCEPT ![p] = "open"]
        /\ seen' = [seen EXCEPT ![p] = EmptyDisk]
        /\ UNCHANGED <<move, dbs>>
  /\ UNCHANGED <<tables, spool, pool>>
-----------------------------------------------------------------------------
(* The second RunWithDB: IndexPool, over what was moved. *)

OpenTables(p) ==
  /\ pc[p] = "open"
  /\ pc' = [pc EXCEPT ![p] = "index"]
  /\ cache' = [cache EXCEPT ![p] = Disk]
  /\ UNCHANGED <<tables, spool, pool, seen, move, dirty>>

SourcesLeft(p) == {f \in new[p] : Kind[f] = "dsc"}

IndexSource(p, f) ==
  LET c == cache[p]
  IN  /\ pc[p] = "index"
      /\ f \in SourcesLeft(p)
      /\ new' = [new EXCEPT ![p] = @ \ {f}]
      /\ IF c.pool_pkg[f] = Absent
         THEN /\ cache' = [cache EXCEPT ![p] =
                   [c EXCEPT !.pool_pkg = [@ EXCEPT ![f] = pool[f]],
                             !.src_info = @ \cup {Belongs[f]}]]
              /\ dirty' = [dirty EXCEPT ![p] = @ \cup {"pool_pkg", "src_info"}]
         ELSE UNCHANGED dbs
      /\ UNCHANGED <<tables, spool, pool, pc, seen, batch, up, todo, held, temp>>

\* Mutant of IndexBinary: the package is marked as seen and not described.
IndexBinaryUndescribed(p, f, readable) ==
  LET c == cache[p]
  IN  /\ pc[p] = "index" /\ SourcesLeft(p) = {}
      /\ f \in new[p]
      /\ new' = [new EXCEPT ![p] = @ \ {f}]
      /\ cache' = [cache EXCEPT ![p] = [c EXCEPT !.pool_pkg = [@ EXCEPT ![f] = pool[f]]]]
      /\ dirty' = [dirty EXCEPT ![p] = @ \cup {"pool_pkg"}]
      /\ UNCHANGED <<tables, spool, pool, pc, seen, batch, up, todo, held, temp>>

\* Binary packages are indexed after the source packages.  One that cannot be
\* read is marked as seen and left at that.
IndexBinary(p, f, readable) ==
  LET c == cache[p]
  IN  /\ pc[p] = "index" /\ SourcesLeft(p) = {}
      /\ f \in new[p]
      /\ new' = [new EXCEPT ![p] = @ \ {f}]
      /\ IF c.pool_pkg[f] = Absent
         THEN /\ cache' = [cache EXCEPT ![p] =
                   [c EXCEPT !.pool_pkg = [@ EXCEPT ![f] = pool[f]],
                             !.pkg_info = @ \cup {g \in {f} : readable},
                             !.pkg_deps = @ \cup {g \in {f} : readable}]]
              /\ dirty' = [dirty EXCEPT ![p] =
                   @ \cup {"pool_pkg"} \cup {t \in {"pkg_info", "pkg_deps"} : readable}]
         ELSE UNCHANGED dbs
      /\ UNCHANGED <<tables, spool, pool, pc, seen, batch, up, todo, held, temp>>

IndexDone(p) ==
  /\ pc[p] = "index"
  /\ new[p] = {}
  /\ pc' = [pc EXCEPT ![p] = "close"]
  /\ UNCHANGED <<tables, spool, pool, seen, move, dbs>>

Tables == {"src_info", "pool_pkg", "pkg_info", "pkg_deps"}

CloseTable(p, tb) ==
  /\ pc[p] = "close"
  /\ tb \in dirty[p]
  /\ dirty' = [dirty EXCEPT ![p] = @ \ {tb}]
  /\ src_info' = IF tb = "src_info" THEN cache[p].src_info ELSE src_info
  /\ pool_pkg' = IF tb = "pool_pkg" THEN cache[p].pool_pkg ELSE pool_pkg
  /\ pkg_info' = IF tb = "pkg_info" THEN cache[p].pkg_info ELSE pkg_info
  /\ pkg_deps' = IF tb = "pkg_deps" THEN cache[p].pkg_deps ELSE pkg_deps
  /\ UNCHANGED <<spool, pool, pc, seen, move, cache>>

Finish(p) ==
  /\ pc[p] = "close"
  /\ dirty[p] = {}
  /\ End(p)
  /\ UNCHANGED <<tables, spool, pool>>
-----------------------------------------------------------------------------
(* Faults. *)

\* A write error while an upload is moved rejects the upload.
MoveError(p) ==
  /\ pc[p] \in {"take", "check", "fetch", "store"}
  /\ Rejected(p)
  /\ UNCHANGED <<tables, spool, pool>>

\* A write error, or the end of the process, in the middle of a copy to the pool.
TornStore(p, f) ==
  /\ pc[p] = "store"
  /\ f \in todo[p]
  /\ pool' = [pool EXCEPT ![f] = Torn]
  /\ Rejected(p) \/ End(p)
  /\ UNCHANGED <<tables, spool>>

\* An exception in IndexPool ends the run; the tables are closed.
IndexError(p) ==
  /\ pc[p] = "index"
  /\ pc' = [pc EXCEPT ![p] = "close"]
  /\ new' = [new EXCEPT ![p] = {}]
  /\ UNCHANGED <<tables, spool, pool, seen, batch, up, todo, held, temp, dbs>>

\* An IOError while a package is read is taken for a package that is bad.
ReadError(p, f) == IndexBinary(p, f, FALSE)

\* An exception while a package is parsed: pool_pkg has it already, and pkg_info
\* has it when its dependencies are what cannot be parsed.
ParseError(p, f, described) ==
  /\ pc[p] = "index"
  /\ f \in new[p] /\ (Kind[f] = "dsc" \/ SourcesLeft(p) = {})
  /\ described => Kind[f] = "deb"
  /\ cache[p].pool_pkg[f] = Absent
  /\ pc' = [pc EXCEPT ![p] = "close"]
  /\ new' = [new EXCEPT ![p] = {}]
  /\ cache' = [cache EXCEPT ![p] =
       [cache[p] EXCEPT !.pool_pkg = [@ EXCEPT ![f] = pool[f]],
                        !.pkg_info = @ \cup {g \in {f} : described}]]
  /\ dirty' = [dirty EXCEPT ![p] =
       @ \cup {"pool_pkg"} \cup {t \in {"pkg_info"} : described}]
  /\ UNCHANGED <<tables, spool, pool, seen, batch, up, todo, held, temp>>

\* The process is killed.
Crash(p) ==
  /\ pc[p] # "idle"
  /\ End(p)
  /\ UNCHANGED <<tables, spool, pool>>
-----------------------------------------------------------------------------
Step(p) ==
  \/ ListIncoming(p)
  \/ \E u \in Uploads : Skip(p, u) \/ Take(p, u) \/ Vanished(p, u)
  \/ CopyChanges(p) \/ ChangesMissing(p) \/ CheckUpload(p)
  \/ \E f \in Files : CopyFile(p, f) \/ FileMissing(p, f)
  \/ RemoveFile(p) \/ VerifyMD5Hash(p)
  \/ \E f \in Files : StoreFile(p, f)
  \/ Stored(p) \/ EndBatch(p) \/ OpenTables(p)
  \/ \E f \in Files : IndexSource(p, f)
  \/ \E f \in Files : IndexBinary(p, f, pool[f] \in Readable)
  \/ IndexDone(p)
  \/ \E tb \in Tables : CloseTable(p, tb)
  \/ Finish(p)

Environment ==
  \/ \E u \in Uploads : \E S \in SUBSET Listed[u] : Drop(u, S)
  \/ \E u \in Uploads : Age(u)

ReliableNext == Environment \/ \E p \in Procs : StartRun(p) \/ Step(p)

Fault(p) ==
  \/ MoveError(p) \/ IndexError(p) \/ Crash(p)
  \/ \E f \in Files : TornStore(p, f) \/ ReadError(p, f)
  \/ \E f \in Files, described \in BOOLEAN : ParseError(p, f, described)

Next == ReliableNext \/ \E p \in Procs : Fault(p)

\* enter_incoming is started again and again, its runs are scheduled, and the
\* clock advances.
Fairness ==
  /\ \A p \in Procs : WF_vars(StartRun(p)) /\ WF_vars(Step(p))
  /\ \A u \in Uploads : WF_vars(Age(u))

Spec         == Init /\ [][Next]_vars
ReliableSpec == Init /\ [][ReliableNext]_vars /\ Fairness
=============================================================================
