---------------------------- MODULE IncomingProps ----------------------------
(***************************************************************************)
(* Properties of the runs of Incoming.                                     *)
(***************************************************************************)
EXTENDS Incoming

Stages == {"idle", "list", "scan", "take", "check", "fetch", "store", "open",
           "index", "close"}
Moving == {"take", "check", "fetch", "store"}
Directory == [Files -> Contents \cup {Absent}]
Database == [src_info : SUBSET Sources, pool_pkg : Directory, pkg_info : SUBSET Files,
             pkg_deps : SUBSET Files]

\* The types of the tables, the directories and the runs.
TypeOK ==
  /\ Disk \in Database
  /\ incoming \in Directory
  /\ changes \in [Uploads -> {"absent", "fresh", "ready"}]
  /\ drops \in 0 .. MaxDrops
  /\ pool \in Directory
  /\ pc \in [Procs -> Stages]
  /\ seen \in [Procs -> Database]
  /\ batch \in [Procs -> SUBSET Uploads]
  /\ up \in [Procs -> Uploads \cup {Absent}]
  /\ todo \in [Procs -> SUBSET Files]
  /\ held \in [Procs -> Files \cup {Absent}]
  /\ temp \in [Procs -> Directory]
  /\ new \in [Procs -> SUBSET Files]
  /\ cache \in [Procs -> Database]
  /\ dirty \in [Procs -> SUBSET Tables]
  /\ \A p \in Procs : pc[p] \in Moving => up[p] # Absent

\* The files of S contain the parts of the source s; the upstream source may
\* have come with another version.
Complete(s, S) ==
  /\ \E f \in S : Kind[f] = "dsc" /\ Belongs[f] = s
  /\ s \in Native => \E f \in S : Kind[f] = "tar" /\ Belongs[f] = s
  /\ s \notin Native =>
       /\ \E f \in S : Kind[f] = "diff" /\ Belongs[f] = s
       /\ \E f \in S : Kind[f] = "orig" /\ Upstream[Belongs[f]] = Upstream[s]

InPool == {f \in Files : pool[f] # Absent}

\* Every indexed source package is complete in the pool, however runs overlap or
\* end and however stale the tables were with which its upload was admitted.
SourcesComplete == \A s \in src_info : Complete(s, InPool)

\* "all binary packages come with sources"
BinariesComeWithSource == \A f \in pkg_info : f \in InPool /\ Complete(Belongs[f], InPool)

\* pool_pkg serves "to prevent duplicated uploads": a file that was indexed is
\* the one that is still in the pool.
KnownFilesIntact == \A f \in Files : pool_pkg[f] # Absent => pool[f] = pool_pkg[f]

Quiet == \A p \in Procs : pc[p] = "idle"
OneAtATime == \A p, q \in Procs : pc[p] # "idle" /\ pc[q] # "idle" => p = q

\* The package f is in the tables db as it is in the pool: a source with its
\* description, a binary that can be read with description and dependencies.
Indexed(db, f) ==
  /\ db.pool_pkg[f] = pool[f]
  /\ Kind[f] = "dsc" => Belongs[f] \in db.src_info
  /\ Kind[f] = "deb" /\ pool[f] \in Readable => f \in db.pkg_info \cap db.pkg_deps

AllIndexed == \A f \in InPool : Kind[f] \in {"dsc", "deb"} => Indexed(Disk, f)

\* As long as no two runs have overlapped, all packages that undisturbed runs
\* have moved into the pool are indexed when they end, but for binary packages
\* that cannot be read: these are marked as seen and described nowhere.
StoredIsIndexed == []OneAtATime => [](Quiet => AllIndexed)

\* Every .changes file is taken from incoming/ in the end, and not only those
\* that were there, and old enough, when a run listed the directory.
UploadsProcessed == \A u \in Uploads : changes[u] # "absent" ~> changes[u] = "absent"
-----------------------------------------------------------------------------
(* The inductive invariant from which IncomingProofs derives the two         *)
(* properties about sources.                                                 *)

\* Versions of one source whose headers agree package one upstream version:
\* true as long as no upstream version has a '-' in it.
HeadersAreUpstreams ==
  \A s, k \in Sources : <<s, k>> \in KeyPrefix => Upstream[s] = Upstream[k] /\ k \notin Native

\* With the files S in the pool, the tables db describe nothing but complete
\* sources and stored packages.
Backed(db, S) ==
  /\ \A s \in db.src_info : Complete(s, S)
  /\ \A f \in db.pkg_info : f \in S /\ Complete(Belongs[f], S)

\* A run holds such tables only, and an upload that it has admitted completes
\* its source when all its files are in the pool.
Careful(p) ==
  /\ Backed(seen[p], InPool)
  /\ Backed(cache[p], InPool)
  /\ \A f \in new[p] : f \in InPool /\ Complete(Belongs[f], InPool)
  /\ pc[p] \in {"fetch", "store"} =>
       up[p] \in Uploads /\ Complete(Source[up[p]], InPool \cup Listed[up[p]])
  /\ pc[p] = "store" =>
       /\ \A f \in todo[p] : temp[p][f] # Absent
       /\ Listed[up[p]] \subseteq InPool \cup todo[p]

SourceInv == Backed(Disk, InPool) /\ \A p \in Procs : Careful(p)
-----------------------------------------------------------------------------
(* The inductive invariant from which IncomingProofs derives that known files  *)
(* stay intact when no two runs overlap.                                       *)

Deciding == {"list", "scan", "take", "check", "fetch", "store"}

\* The only run there is has tables that are not out of date, and moves or is
\* about to move none of the files that the pool is known to have.
UpToDate(p) ==
  /\ pc[p] \in Deciding => seen[p].pool_pkg = pool_pkg
  /\ pc[p] \in {"fetch", "store"} =>
       /\ up[p] \in Uploads /\ todo[p] \subseteq Listed[up[p]]
       /\ \A f \in Listed[up[p]] : pool_pkg[f] = Absent
  /\ pc[p] \in {"index", "close"} =>
       \A f \in Files : cache[p].pool_pkg[f] # Absent => pool[f] = cache[p].pool_pkg[f]

IntactInv == OneAtATime /\ KnownFilesIntact /\ \A p \in Procs : UpToDate(p)
-----------------------------------------------------------------------------
(* The inductive invariant from which IncomingProofs derives that nothing is   *)
(* left unindexed by runs that are undisturbed and do not overlap.             *)

\* The tables db describe what they are marked to have seen.
Described(db) ==
  \A f \in Files : db.pool_pkg[f] # Absent =>
    /\ Kind[f] = "dsc" => Belongs[f] \in db.src_info
    /\ Kind[f] = "deb" /\ db.pool_pkg[f] \in Readable => f \in db.pkg_info \cap db.pkg_deps

\* Every package in the pool is in S, or indexed in the tables db as it is.
Covered(db, S) ==
  \A f \in InPool : Kind[f] \in {"dsc", "deb"} /\ f \notin S => Indexed(db, f)

\* What the run has noted for its index, or is going to note.
ToBeIndexed(p) == new[p] \cup (IF pc[p] = "store" THEN ToIndex(up[p]) ELSE {})

\* A run loses sight of no file that it moves, of no entry that it makes, and
\* of no .changes file that it has still to look at.
Tracked(p) ==
  /\ pc[p] \in Deciding \cup {"open"} => Described(Disk) /\ Covered(Disk, ToBeIndexed(p))
  /\ pc[p] \in {"index", "close"} =>
       /\ Described(cache[p]) /\ Covered(cache[p], new[p])
       /\ "src_info" \notin dirty[p] => src_info = cache[p].src_info
       /\ "pool_pkg" \notin dirty[p] => pool_pkg = cache[p].pool_pkg
       /\ "pkg_info" \notin dirty[p] => pkg_info = cache[p].pkg_info
       /\ "pkg_deps" \notin dirty[p] => pkg_deps = cache[p].pkg_deps
  /\ pc[p] = "close" => new[p] = {}
  /\ pc[p] \in Deciding \ {"list"} => \A u \in batch[p] : changes[u] # "absent"
  /\ pc[p] \in {"take", "check"} => up[p] \notin batch[p]

TrackedInv ==
  /\ Quiet => Described(Disk) /\ Covered(Disk, {})
  /\ \A p \in Procs : Tracked(p)
=============================================================================
