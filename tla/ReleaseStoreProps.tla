-------------------------- MODULE ReleaseStoreProps --------------------------
(***************************************************************************)
(* Properties of the commands of ReleaseStore.                             *)
(***************************************************************************)
EXTENDS ReleaseStore

Stages == {"idle", "open", "index", "rmtree", "write", "release", "sign",
           "record", "refresh", "symlink", "close"}

Cache == [pool_pkg : SUBSET Packages, pkg_info : SUBSET Packages,
          pkg_deps : SUBSET Packages, releases : [Releases -> SUBSET Packages],
          aliases : [Aliases -> Versions \cup {NoVersion}]]

Jobs == [kind : {"none", "index", "commit", "rebuild", "update", "remove", "refresh"},
         track : Tracks, name : Names, arg : Versions \cup Names]

\* The types of the tables, the published trees and the running commands; one
\* that works on a tree has chosen its release.
TypeOK ==
  /\ Disk \in Cache
  /\ pool \in SUBSET Packages
  /\ leaf \in [Releases -> [Leaves -> Contents]]
  /\ top \in [Releases -> [Leaves -> Contents] \cup {Missing, Partial}]
  /\ signed \in [Releases -> BOOLEAN]
  /\ link \in [Aliases -> Versions \cup {NoVersion}]
  /\ pc \in [Procs -> Stages]
  /\ job \in [Procs -> Jobs]
  /\ pkgs \in [Procs -> SUBSET Packages]
  /\ ver \in [Procs -> Versions \cup {NoVersion}]
  /\ \A p \in Procs : pc[p] \in {"rmtree", "write", "release", "sign", "record"} => ver[p] \in Versions
  /\ todo \in [Procs -> SUBSET (Packages \cup Entries \cup Aliases)]
  /\ cur \in [Procs -> Aliases \cup Leaves \cup {NoEntry}]
  /\ prints \in [Procs -> [Leaves -> Contents]]
  /\ kept \in [Procs -> SUBSET Entries]
  /\ view \in [Procs -> Cache]
  /\ dirty \in [Procs -> SUBSET Tables]

Recorded(r) == releases[r] # {}

\* "A release is immutable": no step changes or drops the record of a release.
RecordImmutable ==
  [][\A r \in Releases : Recorded(r) => releases'[r] = releases[r]]_vars

\* The published tree of a recorded release changes only while a rebuild of
\* that very release is at work; a commit never writes into it.
TreeImmutable ==
  [][\A r \in Releases :
       Recorded(r) /\ <<leaf[r], top[r], signed[r]>>' # <<leaf[r], top[r], signed[r]>>
         => \E p \in Procs : job[p].kind = "rebuild" /\ Target(p) = r]_vars

\* Every package of a recorded release is in the tables a rebuild reads, so
\* that the validation that follows the deletion of the old tree succeeds.
RecordedIsIndexed ==
  \A r \in Releases : releases[r] \subseteq pkg_info /\ releases[r] \subseteq pkg_deps

\* Release numbers of a track have no gaps, whatever is interrupted or lost.
NumbersContiguous ==
  \A t \in Tracks, v \in Versions : Recorded(<<t, v>>) /\ v > 0 => Recorded(<<t, v - 1>>)

Rebuilding(r) == \E p \in Procs : pc[p] # "open" /\ job[p].kind = "rebuild" /\ Target(p) = r

\* A package belongs in the Packages file of its component and architecture; a
\* binary-independent one in those of its component for every architecture.
Belongs(x, l) == l[1] = ComponentOf[x] /\ ArchOf[x] \in {l[2], All}
Layout(S) == [l \in Leaves |-> {x \in S : Belongs(x, l)}]

\* The tree of a recorded release has its packages in the Packages files they
\* belong in and nothing else: a recorded package of an architecture that is
\* not published is in none.  The Release file fingerprints the tree, and it is
\* the one that is signed.
TreeMatchesRecord ==
  \A r \in Releases : Recorded(r) /\ ~ Rebuilding(r) =>
    leaf[r] = Layout(releases[r]) /\ top[r] = leaf[r] /\ signed[r]

\* The Packages files of tree are those of the package list S, but for files of
\* leaves that S does not have and that rmtree could not delete.
Restored(tree, S, left) ==
  \A l \in Leaves : tree[l] = Layout(S)[l] \/ (l \in left /\ Layout(S)[l] = {})

\* A rebuild that reaches its end has put the recorded packages in the Packages
\* files they belong in, whatever an earlier build or rebuild left in the tree.
\* A Packages file beyond these is there only when rmtree, whose errors are
\* ignored, failed to delete it, and the Release file fingerprints all of them.
RebuildRestores ==
  [][\A p \in Procs :
       pc[p] = "sign" /\ pc'[p] = "close" /\ job[p].kind = "rebuild" /\ pkgs'[p] # {}
         => LET r == Target(p)
            IN  Restored(leaf'[r], releases[r], kept[p]) /\ top'[r] = leaf'[r]]_vars

\* An alias link never dangles: it leads to a tree that has a Release file.
\* That the file is finished is not said: a second command that builds the same
\* number truncates it under the link and may mix its own text into it.
LinkLeadsToRelease ==
  \A t \in Tracks, n \in Names : link[<<t, n>>] # NoVersion => top[<<t, link[<<t, n>>]>>] # Missing

Quiet == \A p \in Procs : pc[p] = "idle"

\* Between commands every alias names a recorded release, and its symlink is
\* in dists/ and names the same one.
AliasesInForce ==
  Quiet => \A t \in Tracks, n \in Names : aliases[<<t, n>>] # NoVersion =>
             Recorded(<<t, aliases[<<t, n>>]>>) /\ link[<<t, n>>] = aliases[<<t, n>>]

\* Every command that starts ends, its tables closed.
Terminates == \A p \in Procs : pc[p] # "idle" ~> pc[p] = "idle"

\* Once index_pool is done, the newest release of the snapshot track holds the
\* latest version of every package that was ever indexed.
SnapshotCurrent ==
  Quiet /\ pkg_info # {} /\ ~ Recorded(<<Snapshot, MaxRelease>>) =>
    \E v \in Versions :
      /\ releases[<<Snapshot, v>>] = SelectLatestPackages(pkg_info)
      /\ ~ Recorded(<<Snapshot, v + 1>>)

Log == INSTANCE ReleaseLog WITH indexed <- pkg_info \cap pkg_deps, log <- releases
ImplementsLog == Log!Spec
-----------------------------------------------------------------------------
(* The inductive invariants from which ReleaseStoreProofs derives them. *)

\* A command that has chosen a number and has not recorded the release yet.
Building(p) ==
  \/ pc[p] = "record"
  \/ pc[p] \in {"write", "release", "sign"} /\ job[p].kind = "commit"

\* The recorded numbers of a track are an initial segment.
Segment(rel) ==
  \A t \in Tracks, v \in Versions :
    rel[<<t, v>>] # {} => \A u \in 0 .. (v - 1) : rel[<<t, u>>] # {}

\* What a command holds: its copy of the releases table is a segment, and the
\* release it constructs extends the copy it was numbered in.
Numbered(p) ==
  /\ Segment(view[p].releases)
  /\ pc[p] = "rmtree" => job[p].kind = "rebuild"
  /\ Building(p) =>
       /\ pkgs[p] # {}
       /\ ver[p] \in Versions
       /\ \A u \in 0 .. (ver[p] - 1) : view[p].releases[<<job[p].track, u>>] # {}

\* Every copy of the releases table is a segment.
NumberingInv == Segment(releases) /\ \A p \in Procs : Numbered(p)

InSession(p) == pc[p] \notin {"idle", "open"}

\* new is rel with the next release of some track.
Extends(new, rel) ==
  \E t \in Tracks, v \in Versions, S \in SUBSET Packages :
    /\ rel[<<t, v>>] = {}
    /\ \A u \in 0 .. (v - 1) : rel[<<t, u>>] # {}
    /\ S # {} /\ S \subseteq pkg_info /\ S \subseteq pkg_deps
    /\ new = [rel EXCEPT ![<<t, v>>] = S]

\* The caches of a command that runs alone are never behind the tables on
\* disk, and what it has stored in releases extends the table on disk.
Session(p) ==
  /\ pkg_info \subseteq view[p].pkg_info
  /\ pkg_deps \subseteq view[p].pkg_deps
  /\ IF "releases" \in dirty[p]
     THEN dirty[p] \subseteq {"releases", "aliases"} /\ Extends(view[p].releases, releases)
     ELSE view[p].releases = releases
  /\ pc[p] = "index" => "releases" \notin dirty[p]
  /\ Building(p) =>
       /\ dirty[p] = {}
       /\ releases[Target(p)] = {}
       /\ Buildable(Disk, pkgs[p])

OneAtATime == \A p, q \in Procs : pc[p] # "idle" /\ pc[q] # "idle" => p = q

SerialInv ==
  /\ OneAtATime
  /\ RecordedIsIndexed
  /\ \A p \in Procs : InSession(p) => Session(p)

\* The stages that a kind of command goes through, and what it holds in them.
Staged(p) ==
  /\ pc[p] = "idle" => job[p].kind = "none" /\ kept[p] = {}
  /\ pc[p] \notin {"write", "symlink"} => cur[p] = NoEntry
  /\ pc[p] = "write" => cur[p] \in (todo[p] \cap Leaves) \cup {NoEntry}
  /\ pc[p] = "index" => job[p].kind = "index"
  /\ pc[p] = "rmtree" => job[p].kind = "rebuild"
  /\ pc[p] \in {"write", "release", "sign"} => job[p].kind \in {"commit", "rebuild"}
  /\ pc[p] = "record" => job[p].kind = "commit"
  /\ pc[p] \in {"refresh", "symlink"} => job[p].kind \in {"commit", "update", "refresh"}
  /\ job[p].kind \in Commands \cup {"none", "commit"}

StagesInv == \A p \in Procs : Staged(p)

\* The leaves that are dealt with are gone, or list the packages; all others
\* but those that could not be deleted are gone.
Removed(p) == \A l \in Leaves \ (todo[p] \cup kept[p]) : leaf[Target(p)][l] = {}
Written(p) ==
  \A l \in Leaves \ todo[p] :
    leaf[Target(p)][l] = Listing(pkgs[p])[l] \/ (l \in kept[p] /\ Listing(pkgs[p])[l] = {})

\* What a command that runs alone has written so far: the leaves it has dealt
\* with, nothing to the file it has opened, and the fingerprints of the tree.
Writing(p) ==
  /\ pc[p] \in {"write", "release", "sign"} => Written(p)
  /\ pc[p] = "write" /\ cur[p] # NoEntry => leaf[Target(p)][cur[p]] = Partial
  /\ pc[p] = "write" => todo[p] \subseteq LeavesOf(pkgs[p])
  /\ pc[p] \in {"release", "sign"} => todo[p] = {}
  /\ pc[p] = "release" => top[Target(p)] = Partial /\ prints[p] = leaf[Target(p)]
  /\ pc[p] = "sign" => top[Target(p)] = leaf[Target(p)]

\* A rebuild that runs alone works from the record of its release, and what an
\* earlier build left in the tree is gone before it writes.
Restoring(p) ==
  pc[p] \in {"rmtree", "write", "release", "sign"} /\ job[p].kind = "rebuild" =>
    /\ releases[Target(p)] # {} /\ pkgs[p] = releases[Target(p)]
    /\ IF pc[p] = "rmtree" THEN Removed(p) ELSE Writing(p)

RestoringInv == \A p \in Procs : Restoring(p)

\* No release of which somebody knows is without a Release file.
Complete(v) ==
  /\ \A r \in Releases : v.releases[r] # {} => top[r] # Missing
  /\ \A a \in Aliases : v.aliases[a] # NoVersion => top[<<a[1], v.aliases[a]>>] # Missing

Published(p) ==
  /\ Complete(view[p])
  /\ pc[p] \in {"release", "sign", "record"} => top[Target(p)] # Missing

PublishedInv ==
  /\ Complete(Disk)
  /\ LinkLeadsToRelease
  /\ \A p \in Procs : Published(p)

\* What the tables v say is in force: the aliases that are not to be refreshed
\* any more have their links, and the trees nobody is at work in list exactly
\* what is recorded.
AliasesHold(v, undone) ==
  \A a \in Aliases : v.aliases[a] # NoVersion =>
    /\ v.releases[<<a[1], v.aliases[a]>>] # {}
    /\ a \notin undone => link[a] = v.aliases[a]

TreesHold(v, busy) ==
  \A r \in Releases \ busy :
    /\ leaf[r] = Listing(v.releases[r])
    /\ v.releases[r] # {} => top[r] = leaf[r] /\ signed[r]

Undone(p) == IF pc[p] \in {"refresh", "symlink"} THEN todo[p] ELSE {}
Busy(p) ==
  IF pc[p] \in {"rmtree", "write", "release", "sign", "record"} THEN {Target(p)} ELSE {}

\* The caches of a command that runs alone are the tables on disk but for what
\* it has changed.
Fresh(p) ==
  /\ "pkg_info" \notin dirty[p] => view[p].pkg_info = pkg_info
  /\ "pkg_deps" \notin dirty[p] => view[p].pkg_deps = pkg_deps
  /\ "aliases" \notin dirty[p] => view[p].aliases = aliases

\* The tables that a command that runs alone is going to leave behind.
Seen(p) == IF InSession(p) THEN view[p] ELSE Disk

Undisturbed(p) ==
  /\ InSession(p) => Fresh(p)
  /\ AliasesHold(Seen(p), Undone(p))
  /\ pc[p] = "symlink" => cur[p] \in todo[p] \cap Aliases /\ link[cur[p]] = NoVersion
  /\ TreesHold(Seen(p), Busy(p))
  /\ kept[p] = {}
  /\ Writing(p)
  /\ pc[p] = "record" =>
       /\ leaf[Target(p)] = Listing(pkgs[p])
       /\ top[Target(p)] = leaf[Target(p)] /\ signed[Target(p)]

Alone(p) == \A q \in Procs : q # p => pc[q] = "idle"

UndisturbedInv ==
  /\ Quiet => AliasesHold(Disk, {}) /\ TreesHold(Disk, {})
  /\ \A p \in Procs : Alone(p) => Undisturbed(p)

\* The newest snapshot release in rel holds the latest of the packages info.
Current(rel, info) ==
  info # {} /\ rel[<<Snapshot, MaxRelease>>] = {} =>
    \E v \in Versions :
      /\ rel[<<Snapshot, v>>] = SelectLatestPackages(info)
      /\ rel[<<Snapshot, v + 1>>] = {}

\* A snapshot release that is going to be recorded: the second half of
\* index_pool publishes what the first half has indexed.
Pending(p) ==
  \/ job[p].kind = "commit" /\ pc[p] \in {"open", "write", "release", "sign", "record"}
  \/ job[p].kind = "index" /\ pc[p] = "close" /\ pkgs[p] # {}

Snapped(p) ==
  /\ Seen(p).pkg_info = Seen(p).pkg_deps
  /\ pc[p] = "index" =>
       Current(Seen(p).releases, pkg_info) /\ Seen(p).pkg_info = pkg_info \cup pkgs[p]
  /\ Pending(p) => pkgs[p] = SelectLatestPackages(Seen(p).pkg_info) /\ pkgs[p] # {}
  /\ job[p].kind = "commit" => job[p].track = Snapshot
  /\ pc[p] # "index" /\ ~ Pending(p) => Current(Seen(p).releases, Seen(p).pkg_info)

SnapshotInv ==
  /\ Quiet => pkg_info = pkg_deps /\ Current(releases, pkg_info)
  /\ \A p \in Procs : Alone(p) => Snapped(p)
=============================================================================
