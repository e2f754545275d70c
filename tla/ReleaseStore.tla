---------------------------- MODULE ReleaseStore ----------------------------
(***************************************************************************)
(* The administrator commands that write a debmarshal repository:          *)
(*   index_pool            index pool/ and commit a snapshot release       *)
(*   make_release commit   number, write, record and link a new release    *)
(*   make_release rebuild  write the tree of a recorded release again      *)
(*   handle_alias          update, remove or refresh release aliases       *)
(* Each command is a process.  What it reads of a Berkeley DB table it     *)
(* reads into a private cache, what it stores in the table reaches dbs/    *)
(* only when RunWithDB closes the table, and nothing locks the repository. *)
(*                                                                         *)
(* A table is as large as one database page: a process caches it whole     *)
(* when it opens it and writes it back whole.                              *)
(***************************************************************************)
EXTENDS Integers, FiniteSets

CONSTANTS
  Packages,     \* binary packages (name_version_architecture)
  Newer,        \* pairs <<x, y>>: x is a later version of the package y
  Components,   \* components of the repository
  Architectures,\* the setting Architectures: those that are published
  All,          \* the architecture of binary-independent packages
  ComponentOf,  \* the component of a package
  ArchOf,       \* the architecture of a package, configured or not
  Partial,      \* what is in a file that is opened and not, or badly, written
  Missing,      \* what is in a file that is not there
  ReleaseFile,  \* the top-level Release file, as a directory entry
  SignatureFile,\* its detached signature, Release.gpg
  Tracks,       \* maintenance tracks
  Snapshot,     \* the track index_pool publishes to
  Names,        \* alias names, such as "latest"
  latest,       \* the alias that every commit moves
  MaxRelease,   \* bound: a track has releases 0 .. MaxRelease
  Procs,        \* concurrently running commands
  Commands,     \* the kinds of command that are run
  Overlap       \* TRUE: a command may start while another is running

Versions == 0 .. MaxRelease
Releases == Tracks \X Versions
Aliases  == Tracks \X Names
NoVersion == -1
NoEntry   == <<>>
Leaves    == Components \X Architectures  \* directories with a Packages file
Contents  == {Partial} \cup SUBSET Packages

ASSUME ConstantsAssumption ==
  /\ Newer \subseteq Packages \X Packages
  /\ ComponentOf \in [Packages -> Components]
  /\ All \notin Architectures
  /\ Snapshot \in Tracks
  /\ latest \in Names
  /\ Names \cap Versions = {}
  /\ NoVersion \notin Names
  /\ NoEntry \notin Aliases \cup Leaves
  /\ {ReleaseFile, SignatureFile} \cap Leaves = {}
  /\ ReleaseFile # SignatureFile
  /\ \A S \in SUBSET Packages : S # Partial
  /\ Partial # Missing
  /\ {Partial, Missing} \cap [Leaves -> Contents] = {}
  /\ MaxRelease \in Nat
  /\ Commands \subseteq {"index", "commit", "rebuild", "update", "remove", "refresh"}
  /\ Overlap \in BOOLEAN

\* Comparing versions orders the finitely many versions of a package.
ASSUME NewerAssumption ==
  /\ IsFiniteSet(Packages)
  /\ \A x \in Packages : <<x, x>> \notin Newer
  /\ \A x, y, z \in Packages : <<x, y>> \in Newer /\ <<y, z>> \in Newer => <<x, z>> \in Newer

VARIABLES
  (* dbs/: the tables on disk *)
  pool_pkg,  \* package files that have been seen by the indexer
  pkg_info,  \* packages with a description
  pkg_deps,  \* packages with dependency attributes
  releases,  \* releases[<<t, v>>]: packages of a release, {} if it has no record
  aliases,   \* aliases[<<t, n>>]: version of the last entry, NoVersion if no key
  (* pool/ and dists/ *)
  pool,      \* package files in the pool
  leaf,      \* leaf[<<t, v>>][l]: packages in the Packages file of l, {} if none
  top,       \* top[<<t, v>>]: the leaf contents that its Release file fingerprints
  signed,    \* signed[<<t, v>>]: Release.gpg signs the Release file as it is
  link,      \* link[<<t, n>>]: version the alias symlink names, or NoVersion
  (* one running command per process *)
  pc,        \* the stage the command is in
  job,       \* what was asked for: kind, track, alias name, release argument
  pkgs,      \* the package list it works on
  ver,       \* the version it builds
  todo,      \* packages to index, leaves to write or aliases to refresh
  cur,       \* the alias whose symlink it has removed, the leaf it has opened
  prints,    \* the fingerprints of the tree that it writes to Release
  kept,      \* auxiliary: tree entries that its rmtree failed to delete
  view,      \* its caches of the tables
  dirty      \* the tables that differ from what it read

tables == <<pool_pkg, pkg_info, pkg_deps, releases, aliases>>
dists  == <<leaf, top, signed, link>>
local  == <<pc, job, pkgs, ver, todo, cur, prints, kept, view, dirty>>
vars   == <<tables, pool, dists, local>>

NoListing == [l \in Leaves |-> {}]
NoJob == [kind |-> "none", track |-> Snapshot, name |-> latest, arg |-> latest]

Disk == [pool_pkg |-> pool_pkg, pkg_info |-> pkg_info, pkg_deps |-> pkg_deps,
         releases |-> releases, aliases |-> aliases]
EmptyDisk == [pool_pkg |-> {}, pkg_info |-> {}, pkg_deps |-> {},
              releases |-> [r \in Releases |-> {}],
              aliases |-> [a \in Aliases |-> NoVersion]]

Init ==
  /\ pool_pkg = {} /\ pkg_info = {} /\ pkg_deps = {}
  /\ releases = EmptyDisk.releases
  /\ aliases = EmptyDisk.aliases
  /\ pool = {}
  /\ leaf = [r \in Releases |-> NoListing]
  /\ top = [r \in Releases |-> Missing]
  /\ signed = [r \in Releases |-> FALSE]
  /\ link = [a \in Aliases |-> NoVersion]
  /\ pc = [p \in Procs |-> "idle"]
  /\ job = [p \in Procs |-> NoJob]
  /\ pkgs = [p \in Procs |-> {}]
  /\ ver = [p \in Procs |-> NoVersion]
  /\ todo = [p \in Procs |-> {}]
  /\ cur = [p \in Procs |-> NoEntry]
  /\ prints = [p \in Procs |-> NoListing]
  /\ kept = [p \in Procs |-> {}]
  /\ view = [p \in Procs |-> EmptyDisk]
  /\ dirty = [p \in Procs |-> {}]
-----------------------------------------------------------------------------
(* Reading the tables. *)

\* Mutants of NextReleaseNumber: no increment, and counting from 1.
NextReleaseNumberLast(t, rel) ==
  LET used == {v \in Versions : rel[<<t, v>>] # {}}
  IN  IF used = {} THEN 0 ELSE CHOOSE v \in used : \A u \in used : u <= v

NextReleaseNumberFromOne(t, rel) ==
  LET used == {v \in Versions : rel[<<t, v>>] # {}}
  IN  IF used = {} THEN 1
      ELSE 1 + (CHOOSE v \in used : \A u \in used : u <= v)

\* One more than the largest number recorded for the track, 0 if none is.
NextReleaseNumber(t, rel) ==
  LET used == {v \in Versions : rel[<<t, v>>] # {}}
  IN  IF used = {} THEN 0
      ELSE 1 + (CHOOSE v \in used : \A u \in used : u <= v)

\* The release number that track/arg stands for, NoVersion if it is none.
LookupAlias(v, t, arg) ==
  LET n == IF arg \in Names THEN v.aliases[<<t, arg>>] ELSE arg
  IN  IF n # NoVersion /\ v.releases[<<t, n>>] # {} THEN n ELSE NoVersion

SelectLatestPackages(S) == {x \in S : ~ \E y \in S : <<y, x>> \in Newer}

\* Mutant of Buildable: only the descriptions are looked up.
BuildableDescribed(v, S) == S \subseteq v.pkg_info

\* Every package has a description, and GroupByComponent finds its component.
Buildable(v, S) == S \subseteq v.pkg_info /\ S \subseteq v.pkg_deps

RecordedAliases(v) == {a \in Aliases : v.aliases[a] # NoVersion}

\* Mutant of ArchsOf: a binary-independent package is not copied.
ArchsOfNoAll(x) == {ArchOf[x]} \cap Architectures

\* The published architectures a package goes to: a package of another
\* architecture goes to none, a binary-independent one to all of them.
ArchsOf(x) == IF ArchOf[x] = All THEN Architectures ELSE {ArchOf[x]} \cap Architectures

\* What the Packages file of each component and architecture is to list.
Listing(S) == [l \in Leaves |-> {x \in S : l[1] = ComponentOf[x] /\ l[2] \in ArchsOf(x)}]
LeavesOf(S) == {l \in Leaves : Listing(S)[l] # {}}
Entries == Leaves \cup {ReleaseFile, SignatureFile}
Target(p) == <<job[p].track, ver[p]>>

\* Mutant of TreeEntries: the old tree is not removed.
TreeEntriesNone(r) == {}

\* What rmtree finds in dists/track/release.
TreeEntries(r) ==
  {l \in Leaves : leaf[r][l] # {}}
    \cup {e \in {ReleaseFile} : top[r] # Missing}
    \cup {e \in {SignatureFile} : signed[r]}
-----------------------------------------------------------------------------
(* A command starts. *)

MayStart(p) == pc[p] = "idle" /\ (Overlap \/ \A q \in Procs : pc[q] = "idle")

Begin(p, kind, t, n, arg, S) ==
  /\ kind \in Commands
  /\ MayStart(p)
  /\ pc' = [pc EXCEPT ![p] = "open"]
  /\ job' = [job EXCEPT ![p] = [kind |-> kind, track |-> t, name |-> n, arg |-> arg]]
  /\ pkgs' = [pkgs EXCEPT ![p] = S]
  /\ UNCHANGED <<tables, pool, dists, ver, todo, cur, prints, kept, view, dirty>>

\* make_release commit: the versions it selects from come from pkg_info,
\* which it opens, reads and closes before it builds the release.
StartCommit(p) ==
  \E t \in Tracks, S \in SUBSET pkg_info : Begin(p, "commit", t, latest, latest, S)

\* make_release -r track/arg rebuild: it fetches the release once to begin with.
StartRebuild(p) ==
  \E t \in Tracks, arg \in Versions \cup Names :
    /\ LookupAlias(Disk, t, arg) # NoVersion
    /\ Begin(p, "rebuild", t, latest, arg, {})

StartAlias(p) ==
  \E t \in Tracks, n \in Names :
    \/ \E arg \in Versions \cup Names : Begin(p, "update", t, n, arg, {})
    \/ Begin(p, "remove", t, n, latest, {})

StartRefresh(p) == Begin(p, "refresh", Snapshot, latest, latest, {})

\* index_pool lists pool/ before it opens the tables.
StartIndex(p) == Begin(p, "index", Snapshot, latest, latest, pool)

\* A mirror run or an administrator puts package files in the pool.
AddToPool(x) ==
  /\ "index" \in Commands
  /\ x \notin pool
  /\ pool' = pool \cup {x}
  /\ UNCHANGED <<tables, dists, local>>
-----------------------------------------------------------------------------
(* RunWithDB opens the tables and the command reads them. *)

\* A command that finds nothing to do, or exits, goes on to close the tables.
Opened(p, next, S, v, work, cached, changed) ==
  /\ pc[p] = "open"
  /\ pc' = [pc EXCEPT ![p] = next]
  /\ pkgs' = [pkgs EXCEPT ![p] = S]
  /\ ver' = [ver EXCEPT ![p] = v]
  /\ todo' = [todo EXCEPT ![p] = work]
  /\ view' = [view EXCEPT ![p] = cached]
  /\ dirty' = [dirty EXCEPT ![p] = changed]
  /\ UNCHANGED <<tables, pool, dists, job, cur, prints, kept>>

OpenCommit(p) ==
  LET S == pkgs[p]
      number == NextReleaseNumber(job[p].track, releases)
  IN  /\ job[p].kind = "commit"
      /\ IF Buildable(Disk, S) /\ S # {} /\ number \in Versions
         THEN Opened(p, "write", S, number, LeavesOf(S), Disk, {})
         ELSE Opened(p, "close", {}, NoVersion, {}, Disk, {})

OpenRebuild(p) ==
  LET v == LookupAlias(Disk, job[p].track, job[p].arg)
  IN  /\ job[p].kind = "rebuild"
      /\ IF v # NoVersion
         THEN Opened(p, "rmtree", releases[<<job[p].track, v>>], v,
                     TreeEntries(<<job[p].track, v>>), Disk, {})
         ELSE Opened(p, "close", {}, NoVersion, {}, Disk, {})

\* Mutant of OpenUpdate: RefreshAlias is not called.
OpenUpdateNoRefresh(p) ==
  LET a == <<job[p].track, job[p].name>>
      v == LookupAlias(Disk, job[p].track, job[p].arg)
      cached == [Disk EXCEPT !.aliases = [aliases EXCEPT ![a] = v]]
  IN  /\ job[p].kind = "update"
      /\ IF v # NoVersion
         THEN Opened(p, "close", {}, NoVersion, {}, cached, {"aliases"})
         ELSE Opened(p, "close", {}, NoVersion, {}, Disk, {})

OpenUpdate(p) ==
  LET a == <<job[p].track, job[p].name>>
      v == LookupAlias(Disk, job[p].track, job[p].arg)
      cached == [Disk EXCEPT !.aliases = [aliases EXCEPT ![a] = v]]
  IN  /\ job[p].kind = "update"
      /\ IF v # NoVersion
         THEN Opened(p, "refresh", {}, NoVersion, RecordedAliases(cached), cached, {"aliases"})
         ELSE Opened(p, "close", {}, NoVersion, {}, Disk, {})

\* RemoveAlias deletes the key and leaves the symlink in dists/ as it is.
OpenRemove(p) ==
  LET a == <<job[p].track, job[p].name>>
      cached == [Disk EXCEPT !.aliases = [aliases EXCEPT ![a] = NoVersion]]
  IN  /\ job[p].kind = "remove"
      /\ IF aliases[a] # NoVersion
         THEN Opened(p, "close", {}, NoVersion, {}, cached, {"aliases"})
         ELSE Opened(p, "close", {}, NoVersion, {}, Disk, {})

OpenRefresh(p) ==
  /\ job[p].kind = "refresh"
  /\ Opened(p, "refresh", {}, NoVersion, RecordedAliases(Disk), Disk, {})

\* Known package files are skipped unless they were named with --retry.
OpenIndex(p) ==
  /\ job[p].kind = "index"
  /\ \E retry \in SUBSET pkgs[p] :
       Opened(p, "index", {}, NoVersion, (pkgs[p] \ pool_pkg) \cup retry, Disk, {})
-----------------------------------------------------------------------------
(* IndexPool *)

\* pool_pkg is written before the package is parsed; one that cannot be read
\* is left at that.
IndexBinary(p, x, readable) ==
  /\ pc[p] = "index"
  /\ x \in todo[p]
  /\ todo' = [todo EXCEPT ![p] = @ \ {x}]
  /\ IF readable
     THEN /\ view' = [view EXCEPT ![p].pool_pkg = @ \cup {x},
                                  ![p].pkg_info = @ \cup {x},
                                  ![p].pkg_deps = @ \cup {x}]
          /\ dirty' = [dirty EXCEPT ![p] = @ \cup {"pool_pkg", "pkg_info", "pkg_deps"}]
          /\ pkgs' = [pkgs EXCEPT ![p] = @ \cup {x}]
     ELSE /\ view' = [view EXCEPT ![p].pool_pkg = @ \cup {x}]
          /\ dirty' = [dirty EXCEPT ![p] = @ \cup {"pool_pkg"}]
          /\ UNCHANGED pkgs
  /\ UNCHANGED <<tables, pool, dists, pc, job, ver, cur, prints, kept>>

\* Mutant of IndexDone: the snapshot has the new packages only.
IndexDoneNewOnly(p) ==
  /\ pc[p] = "index"
  /\ todo[p] = {}
  /\ pc' = [pc EXCEPT ![p] = "close"]
  /\ UNCHANGED <<tables, pool, dists, job, pkgs, ver, todo, cur, prints, kept, view, dirty>>

\* pkgs, until now the new packages, becomes the list of the snapshot release;
\* it stays empty if there was no new package.
IndexDone(p) ==
  /\ pc[p] = "index"
  /\ todo[p] = {}
  /\ pc' = [pc EXCEPT ![p] = "close"]
  /\ pkgs' = [pkgs EXCEPT ![p] =
                IF @ = {} THEN {} ELSE SelectLatestPackages(view[p].pkg_info)]
  /\ UNCHANGED <<tables, pool, dists, job, ver, todo, cur, prints, kept, view, dirty>>
-----------------------------------------------------------------------------
(* _GenerateReleaseWithDB *)

\* rmtree deletes, one after the other, the entries it found in the tree.
RemoveEntry(p, e) ==
  LET r == Target(p)
  IN  /\ pc[p] = "rmtree"
      /\ e \in todo[p]
      /\ leaf' = [leaf EXCEPT ![r] = [l \in Leaves |-> IF l = e THEN {} ELSE @[l]]]
      /\ top' = IF e = ReleaseFile THEN [top EXCEPT ![r] = Missing] ELSE top
      /\ signed' = IF e \in {ReleaseFile, SignatureFile} THEN [signed EXCEPT ![r] = FALSE] ELSE signed
      /\ todo' = [todo EXCEPT ![p] = @ \ {e}]
      /\ UNCHANGED <<tables, pool, link, pc, job, pkgs, ver, cur, prints, kept, view, dirty>>

\* Only when the old tree is gone does a rebuild validate the package list.
RebuildTree(p) ==
  /\ pc[p] = "rmtree"
  /\ todo[p] = {}
  /\ IF Buildable(view[p], pkgs[p])
     THEN /\ pc' = [pc EXCEPT ![p] = "write"]
          /\ todo' = [todo EXCEPT ![p] = LeavesOf(pkgs[p])]
     ELSE /\ pc' = [pc EXCEPT ![p] = "close"]
          /\ UNCHANGED todo
  /\ UNCHANGED <<tables, pool, dists, job, pkgs, ver, cur, prints, kept, view, dirty>>

\* open(..., 'w') truncates a file that is there.  A leaf that the package list
\* does not have is not touched: what an earlier build left there stays.
OpenInfoFile(p, l) ==
  /\ pc[p] = "write"
  /\ l \in todo[p]
  /\ cur[p] = NoEntry
  /\ leaf' = [leaf EXCEPT ![Target(p)][l] = Partial]
  /\ cur' = [cur EXCEPT ![p] = l]
  /\ UNCHANGED <<tables, pool, top, signed, link, pc, job, pkgs, ver, todo, prints, kept, view, dirty>>

\* Who writes over what another command has written since the file was opened
\* may leave a mixture of both.
WriteInfoFile(p) ==
  LET l == cur[p]
  IN  /\ pc[p] = "write"
      /\ l # NoEntry
      /\ \E c \in Contents :
           /\ c = Listing(pkgs[p])[l] \/ (c = Partial /\ leaf[Target(p)][l] # Partial)
           /\ leaf' = [leaf EXCEPT ![Target(p)][l] = c]
      /\ todo' = [todo EXCEPT ![p] = @ \ {l}]
      /\ cur' = [cur EXCEPT ![p] = NoEntry]
      /\ UNCHANGED <<tables, pool, top, signed, link, pc, job, pkgs, ver, prints, kept, view, dirty>>

\* _WriteTopReleaseFile fingerprints every file it finds in the tree, and then
\* opens the top-level Release file, which truncates one that is there.
OpenReleaseFile(p) ==
  /\ pc[p] = "write"
  /\ todo[p] = {}
  /\ prints' = [prints EXCEPT ![p] = leaf[Target(p)]]
  /\ top' = [top EXCEPT ![Target(p)] = Partial]
  /\ signed' = [signed EXCEPT ![Target(p)] = FALSE]
  /\ pc' = [pc EXCEPT ![p] = "release"]
  /\ UNCHANGED <<tables, pool, leaf, link, job, pkgs, ver, todo, cur, kept, view, dirty>>

WriteReleaseFile(p) ==
  /\ pc[p] = "release"
  /\ \/ top' = [top EXCEPT ![Target(p)] = prints[p]]
     \/ /\ top[Target(p)] # Partial
        /\ top' = [top EXCEPT ![Target(p)] = Partial]
  /\ signed' = [signed EXCEPT ![Target(p)] = FALSE]
  /\ prints' = [prints EXCEPT ![p] = NoListing]
  /\ pc' = [pc EXCEPT ![p] = "sign"]
  /\ UNCHANGED <<tables, pool, leaf, link, job, pkgs, ver, todo, cur, kept, view, dirty>>

\* A rebuild is done; a commit goes on to record its release.
TreeDone(p) ==
  /\ pc[p] = "sign"
  /\ pc' = [pc EXCEPT ![p] = IF job[p].kind = "commit" THEN "record" ELSE "close"]
  /\ UNCHANGED <<tables, pool, leaf, top, link, job, pkgs, ver, todo, cur, prints, kept, view, dirty>>

\* gpg signs the Release file as it is now.
SignReleaseFile(p) ==
  /\ TreeDone(p)
  /\ signed' = [signed EXCEPT ![Target(p)] = TRUE]

\* Mutant of RecordRelease: it does not wait for the Release file.
RecordReleaseEarly(p) ==
  LET moved == [view[p].aliases EXCEPT ![<<job[p].track, latest>>] = ver[p]]
  IN  /\ pc[p] \in {"write", "record"} /\ todo[p] = {} /\ job[p].kind = "commit"
      /\ pc' = [pc EXCEPT ![p] = "refresh"]
      /\ view' = [view EXCEPT ![p].releases = [@ EXCEPT ![Target(p)] = pkgs[p]],
                              ![p].aliases = moved]
      /\ dirty' = [dirty EXCEPT ![p] = {"releases", "aliases"}]
      /\ todo' = [todo EXCEPT ![p] = {a \in Aliases : moved[a] # NoVersion}]
      /\ UNCHANGED <<tables, pool, dists, job, pkgs, ver, cur, prints, kept>>

RecordRelease(p) ==
  LET moved == [view[p].aliases EXCEPT ![<<job[p].track, latest>>] = ver[p]]
  IN  /\ pc[p] = "record"
      /\ pc' = [pc EXCEPT ![p] = "refresh"]
      /\ view' = [view EXCEPT ![p].releases = [@ EXCEPT ![Target(p)] = pkgs[p]],
                              ![p].aliases = moved]
      /\ dirty' = [dirty EXCEPT ![p] = {"releases", "aliases"}]
      /\ todo' = [todo EXCEPT ![p] = {a \in Aliases : moved[a] # NoVersion}]
      /\ UNCHANGED <<tables, pool, dists, job, pkgs, ver, cur, prints, kept>>
-----------------------------------------------------------------------------
(* RefreshAlias *)

RemoveLink(p, a) ==
  /\ pc[p] = "refresh"
  /\ a \in todo[p]
  /\ link' = [link EXCEPT ![a] = NoVersion]
  /\ pc' = [pc EXCEPT ![p] = "symlink"]
  /\ cur' = [cur EXCEPT ![p] = a]
  /\ UNCHANGED <<tables, pool, leaf, top, signed, job, pkgs, ver, todo, prints, kept, view, dirty>>

\* Mutant of CreateLink: the symlink names the alias and not its release.
CreateLinkToItself(p) ==
  LET a == cur[p]
  IN  /\ pc[p] = "symlink"
      /\ link[a] = NoVersion
      /\ link' = [link EXCEPT ![a] = a[2]]
      /\ todo' = [todo EXCEPT ![p] = @ \ {a}]
      /\ pc' = [pc EXCEPT ![p] = "refresh"]
      /\ cur' = [cur EXCEPT ![p] = NoEntry]
      /\ UNCHANGED <<tables, pool, leaf, top, signed, job, pkgs, ver, prints, kept, view, dirty>>

CreateLink(p) ==
  LET a == cur[p]
  IN  /\ pc[p] = "symlink"
      /\ link[a] = NoVersion
      /\ link' = [link EXCEPT ![a] = view[p].aliases[a]]
      /\ todo' = [todo EXCEPT ![p] = @ \ {a}]
      /\ pc' = [pc EXCEPT ![p] = "refresh"]
      /\ cur' = [cur EXCEPT ![p] = NoEntry]
      /\ UNCHANGED <<tables, pool, leaf, top, signed, job, pkgs, ver, prints, kept, view, dirty>>

\* The remaining aliases keep their old symlinks.
LeaveLinks(p) ==
  /\ pc' = [pc EXCEPT ![p] = "close"]
  /\ todo' = [todo EXCEPT ![p] = {}]
  /\ cur' = [cur EXCEPT ![p] = NoEntry]
  /\ UNCHANGED <<tables, pool, dists, job, pkgs, ver, prints, kept, view, dirty>>

\* Mutant of LinkExists: it waits for the symlink to go away.
LinkExistsWait(p) ==
  /\ pc[p] = "symlink"
  /\ link[cur[p]] # NoVersion
  /\ UNCHANGED vars

\* Another command has put the symlink back: symlink raises EEXIST.
LinkExists(p) ==
  /\ pc[p] = "symlink"
  /\ link[cur[p]] # NoVersion
  /\ LeaveLinks(p)

RefreshDone(p) ==
  /\ pc[p] = "refresh"
  /\ todo[p] = {}
  /\ LeaveLinks(p)
-----------------------------------------------------------------------------
(* The finally clause of RunWithDB closes the tables one by one. *)

\* Closing a changed table writes it; a clean one is closed without a trace.
CloseTable(p, tb) ==
  /\ pc[p] = "close"
  /\ tb \in dirty[p]
  /\ dirty' = [dirty EXCEPT ![p] = @ \ {tb}]
  /\ pool_pkg' = IF tb = "pool_pkg" THEN view[p].pool_pkg ELSE pool_pkg
  /\ pkg_info' = IF tb = "pkg_info" THEN view[p].pkg_info ELSE pkg_info
  /\ pkg_deps' = IF tb = "pkg_deps" THEN view[p].pkg_deps ELSE pkg_deps
  /\ releases' = IF tb = "releases" THEN view[p].releases ELSE releases
  /\ aliases'  = IF tb = "aliases" THEN view[p].aliases ELSE aliases
  /\ UNCHANGED <<pool, dists, pc, job, pkgs, ver, todo, cur, prints, kept, view>>

Exit(p) ==
  /\ pc' = [pc EXCEPT ![p] = "idle"]
  /\ job' = [job EXCEPT ![p] = NoJob]
  /\ pkgs' = [pkgs EXCEPT ![p] = {}]
  /\ ver' = [ver EXCEPT ![p] = NoVersion]
  /\ todo' = [todo EXCEPT ![p] = {}]
  /\ cur' = [cur EXCEPT ![p] = NoEntry]
  /\ prints' = [prints EXCEPT ![p] = NoListing]
  /\ kept' = [kept EXCEPT ![p] = {}]
  /\ view' = [view EXCEPT ![p] = EmptyDisk]
  /\ dirty' = [dirty EXCEPT ![p] = {}]
  /\ UNCHANGED <<tables, pool, dists>>

AllClosed(p) == pc[p] = "close" /\ dirty[p] = {}

Finish(p) ==
  /\ AllClosed(p)
  /\ job[p].kind = "index" => pkgs[p] = {}
  /\ Exit(p)

\* index_pool goes on to publish the latest packages, in a second RunWithDB.
CommitSnapshot(p) ==
  /\ AllClosed(p)
  /\ job[p].kind = "index" /\ pkgs[p] # {}
  /\ pc' = [pc EXCEPT ![p] = "open"]
  /\ job' = [job EXCEPT ![p].kind = "commit", ![p].track = Snapshot]
  /\ UNCHANGED <<tables, pool, dists, pkgs, ver, todo, cur, prints, kept, view, dirty>>
-----------------------------------------------------------------------------
(* Faults. *)

\* rmtree ignores every error: an entry that it cannot delete stays.
KeepEntry(p, e) ==
  /\ pc[p] = "rmtree"
  /\ e \in todo[p]
  /\ todo' = [todo EXCEPT ![p] = @ \ {e}]
  /\ kept' = [kept EXCEPT ![p] = @ \cup {e}]
  /\ UNCHANGED <<tables, pool, dists, pc, job, pkgs, ver, cur, prints, view, dirty>>

\* Nobody looks at the exit status of gpg: the release goes on unsigned.
SigningFails(p) == TreeDone(p) /\ UNCHANGED signed

\* An exception (a write error, a missing program, ^C) ends the work early;
\* the finally clause still closes the tables.
Fail(p) ==
  /\ pc[p] \in {"index", "rmtree", "write", "release", "sign", "record", "refresh", "symlink"}
  /\ pc' = [pc EXCEPT ![p] = "close"]
  /\ pkgs' = [pkgs EXCEPT ![p] = {}]
  /\ todo' = [todo EXCEPT ![p] = {}]
  /\ cur' = [cur EXCEPT ![p] = NoEntry]
  /\ prints' = [prints EXCEPT ![p] = NoListing]
  /\ kept' = [kept EXCEPT ![p] = {}]
  /\ UNCHANGED <<tables, pool, dists, job, ver, view, dirty>>

\* The process is killed: tables that are still open lose their changes.
Crash(p) == pc[p] # "idle" /\ Exit(p)
-----------------------------------------------------------------------------
Start(p) ==
  \/ StartCommit(p) \/ StartRebuild(p) \/ StartAlias(p)
  \/ StartRefresh(p) \/ StartIndex(p)

Open(p) ==
  \/ OpenCommit(p) \/ OpenRebuild(p) \/ OpenUpdate(p)
  \/ OpenRemove(p) \/ OpenRefresh(p) \/ OpenIndex(p)

Tables == {"pool_pkg", "pkg_info", "pkg_deps", "releases", "aliases"}

Step(p) ==
  \/ Open(p)
  \/ \E x \in Packages, readable \in BOOLEAN : IndexBinary(p, x, readable)
  \/ IndexDone(p)
  \/ \E e \in Entries : RemoveEntry(p, e)
  \/ RebuildTree(p)
  \/ \E l \in Leaves : OpenInfoFile(p, l)
  \/ WriteInfoFile(p)
  \/ OpenReleaseFile(p) \/ WriteReleaseFile(p) \/ SignReleaseFile(p)
  \/ RecordRelease(p)
  \/ \E a \in Aliases : RemoveLink(p, a)
  \/ CreateLink(p) \/ LinkExists(p) \/ RefreshDone(p)
  \/ \E tb \in Tables : CloseTable(p, tb)
  \/ Finish(p) \/ CommitSnapshot(p)

\* Commands run to their end.
ReliableNext ==
  \/ \E p \in Procs : Start(p) \/ Step(p)
  \/ \E x \in Packages : AddToPool(x)

Fault(p) ==
  \/ \E e \in Entries : KeepEntry(p, e)
  \/ SigningFails(p) \/ Fail(p) \/ Crash(p)

Next == ReliableNext \/ \E p \in Procs : Fault(p)

\* A running command is scheduled; nobody has to start one.
Fairness == \A p \in Procs : WF_vars(Step(p))

Spec         == Init /\ [][Next]_vars /\ Fairness
ReliableSpec == Init /\ [][ReliableNext]_vars /\ Fairness
=============================================================================
