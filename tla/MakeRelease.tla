---------------------------- MODULE MakeRelease ----------------------------
(***************************************************************************)
(* make_release: from the packages an administrator asks for to the list   *)
(* of a release, then committed, compared or verified on top of another    *)
(* repository.  Every table is opened when it is needed and closed again,  *)
(* while index_pool and other commits go on; what one step has read is     *)
(* not looked at again in the next.  What is written is kept in memory and *)
(* reaches the tables one by one, as they are closed: index_pool and the   *)
(* import of the tables of another repository may overwrite each other and *)
(* may be cut off in between.                                              *)
(***************************************************************************)
EXTENDS Integers, Sequences, FiniteSets

CONSTANTS
  Names, Archs,  \* package names; architectures and all
  Architectures, \* the Architectures setting
  all,           \* the architecture of binary-independent packages
  Versions,
  Compare,       \* Compare[v][w]: CompareVersion
  Paths,         \* files that packages install
  FilesOf,       \* the files of the packages of a name
  AliasNames,
  NoAlias,
  Scenarios,     \* command lines and the repositories they are given in
  MaxRelease,    \* bound: releases 1 .. MaxRelease
  MaxMarred      \* bound: kinds of accidents of one behaviour

NVA == Names \X Versions \X Archs
Key(x) == <<x[1], x[3]>>
Keys == Names \X Archs

Relation == [kind : {"+", "name", "!", "condition", "malformed"},
             name : Names, op : {"<<", "<=", "<", "=", ">", ">=", ">>", "!=", "<>"},
             version : Versions]
\* A command line; spec is NoSpec without -t or without a config/track.spec.
Options == [snapshot : BOOLEAN, lists : SUBSET NVA, release : AliasNames \cup {NoAlias},
            spec : Seq(Relation), filtered : BOOLEAN,
            command : {"list", "commit", "diff", "verify"}]
Repository == [release : SUBSET NVA, pkg_deps : SUBSET NVA, file_pkg : [Paths -> Seq(NVA)]]

\* Every package that has dependencies recorded owns its files.
Owned(deps, files) ==
  \A x \in deps : \A p \in FilesOf[x[1]] : \E i \in DOMAIN files[p] : files[p][i] = x

\* Versions that compare equal may differ, otherwise a total order.
IsOrder(compare) ==
  /\ compare \in [Versions -> [Versions -> {-1, 0, 1}]]
  /\ \A v, w \in Versions : compare[v][w] = - compare[w][v]
  /\ \A u, v, w \in Versions :
       compare[u][v] <= 0 /\ compare[v][w] <= 0 => compare[u][w] <= 0

ASSUME OrderAssumption == IsOrder(Compare)

\* What index_pool has left, here and in the underlying repositories.  Every
\* package of a release is indexed (RecordedIsIndexed in ReleaseStoreProps);
\* whether it owns its files depends on how index_pool has ended.
AreScenarios(scenarios) ==
  /\ scenarios \subseteq [pool : SUBSET NVA, indexed : SUBSET NVA, files : [Paths -> Seq(NVA)],
                          options : Options, bases : SUBSET Repository]
  /\ \A s \in scenarios : \A r \in s.bases : r.release \subseteq r.pkg_deps

ASSUME ScenarioAssumption ==
  /\ Architectures \subseteq Archs /\ all \in Archs /\ NoAlias \notin AliasNames
  /\ FilesOf \in [Names -> SUBSET Paths]
  /\ MaxRelease \in Nat
  /\ IsFiniteSet(Versions)
  /\ AreScenarios(Scenarios)

VARIABLES
  pool,       \* package files that index_pool has not seen yet
  pkg_info, pkg_deps, file_pkg,  \* dbs/, see index_pool
  releases,   \* packages of the recorded releases
  aliases,    \* aliases[n]: a release, 0 for none
  bases,      \* the repositories of the Underlying setting
  options,    \* the command line
  pc,
  packages,   \* what the release is to contain at most
  versions,   \* the version dictionary, as a set of packages
  selected,   \* the list of the release
  base,       \* the packages of the underlying releases
  remote,     \* the repositories that are still to be fetched
  plan,       \* architecture to packages, those to check and those below
  index, unsaved,    \* the tables in index_pool's memory, and those it has not closed
  import, unmerged,  \* the same of the import, and the repository it is from
  known,      \* history: pkg_info when the command was started
  marred      \* history: writers have overlapped, or one was cut off

tables == <<pkg_info, pkg_deps, file_pkg>>
record == <<releases, aliases>>
local == <<packages, versions, selected, base, remote, plan>>
writers == <<index, unsaved, import, unmerged, marred>>
vars == <<pool, tables, record, bases, options, pc, local, writers, known>>

IndexTables == {"pool_pkg", "pkg_info", "pkg_deps", "file_pkg"}
ImportTables == {"pkg_deps", "file_pkg"}
NoOwners == [p \in Paths |-> <<>>]
NoIndex == [pool |-> {}, pkg_info |-> {}, pkg_deps |-> {}, file_pkg |-> NoOwners]
NoImport == [from |-> {}, pkg_deps |-> {}, file_pkg |-> NoOwners]

\* The accidents of a step are remembered.
Mark(kinds) == marred' = marred \cup kinds /\ Cardinality(marred') <= MaxMarred
When(condition, kind) == IF condition THEN {kind} ELSE {}

AtMost(v, w) == Compare[v][w] <= 0

\* The sets that have exactly one element of S for each key of an element.
OneForEach(S, key(_)) ==
  {T \in SUBSET S : /\ \A x \in S : \E y \in T : key(y) = key(x)
                    /\ \A x, y \in T : key(x) = key(y) => x = y}

\* The possible answers: one greatest version for each name and architecture.
\* Of versions that compare equal the first stays, and a table has no order.
SelectLatestPackages(S) ==
  OneForEach({x \in S : \A y \in S : Key(y) = Key(x) => AtMost(y[2], x[2])}, Key)

VersionsOf(S, k) == {x[2] : x \in {y \in S : Key(y) = k}}

\* The lists of the versions in V, latest first.
Descending(V) ==
  {s \in [1 .. Cardinality(V) -> V] :
     /\ \A v \in V : \E i \in DOMAIN s : s[i] = v
     /\ \A i, j \in DOMAIN s : i < j => AtMost(s[j], s[i])}

\* What a line of a release specification file says of a package.
CheckPackageRelation(x, r) ==
  LET c == Compare[x[2]][r.version]
      holds == \/ r.op = "<<" /\ c < 0
               \/ r.op = ">>" /\ c > 0
               \/ r.op \in {"<", "<="} /\ c <= 0
               \/ r.op \in {">", ">="} /\ c >= 0
               \/ r.op = "!=" /\ c # 0
               \/ r.op = "=" /\ c = 0
  IN  IF r.kind = "+" THEN "include"
      ELSE IF r.kind = "malformed" \/ r.name # x[1] THEN "none"
      ELSE IF r.kind = "name" THEN "include"
      ELSE IF r.kind # "!" /\ (holds \/ r.op = "<>") THEN "none" ELSE "exclude"

\* The first line that says anything decides.
MatchInclusionList(x, spec) ==
  \E i \in DOMAIN spec :
    /\ CheckPackageRelation(x, spec[i]) = "include"
    /\ \A j \in 1 .. (i - 1) : CheckPackageRelation(x, spec[j]) = "none"

\* value is a list that is already part of existing, or is appended to it.
AppendEntry(existing, value) ==
  IF \E i \in 0 .. Len(existing) - Len(value) :
       SubSeq(existing, i + 1, i + Len(value)) = value
  THEN existing ELSE existing \o value

NoPlan == [a \in Architectures |-> [check |-> {}, below |-> {}]]

Init ==
  /\ \E s \in Scenarios :
       /\ pool = s.pool /\ pkg_info = s.indexed /\ pkg_deps = s.indexed
       /\ file_pkg = s.files
       /\ options = s.options
       /\ bases = s.bases
       /\ marred = When(~ Owned(s.indexed, s.files), "cut")
  /\ index = NoIndex /\ unsaved = {} /\ import = NoImport /\ unmerged = {}
  /\ releases = <<>>
  /\ aliases = [n \in AliasNames |-> 0]
  /\ pc = "idle"
  /\ packages = {} /\ versions = {} /\ selected = {}
  /\ base = {} /\ remote = {} /\ plan = NoPlan
  /\ known = {}
-----------------------------------------------------------------------------
(* Meanwhile: index_pool, a commit that moves an alias, and the maintainers *)
(* of an underlying repository.                                             *)

\* index_pool opens the tables and keeps what it reads of them in memory.  One
\* that finds nothing new writes nothing.
IndexPool ==
  /\ unsaved = {}
  /\ pool # {}
  /\ unsaved' = IndexTables
  /\ index' = [pool |-> pool, pkg_info |-> pkg_info, pkg_deps |-> pkg_deps, file_pkg |-> file_pkg]
  /\ Mark(When(unmerged # {}, "overlap"))
  /\ UNCHANGED <<pool, tables, record, bases, options, pc, local, import, unmerged, known>>

\* A package is entered into the tables in memory.
Index(x) ==
  /\ unsaved = IndexTables
  /\ x \in index.pool
  /\ index' = [pool     |-> index.pool \ {x},
               pkg_info |-> index.pkg_info \cup {x},
               pkg_deps |-> index.pkg_deps \cup {x},
               file_pkg |-> [p \in Paths |->
                               IF p \in FilesOf[x[1]] THEN AppendEntry(index.file_pkg[p], <<x>>)
                                                     ELSE index.file_pkg[p]]]
  /\ UNCHANGED <<pool, tables, record, bases, options, pc, local, unsaved, import, unmerged, marred, known>>

\* A table is written when it is closed.
CloseIndexed(t) ==
  /\ t \in unsaved
  /\ unsaved' = unsaved \ {t}
  /\ pool' = IF t = "pool_pkg" THEN index.pool ELSE pool
  /\ pkg_info' = IF t = "pkg_info" THEN index.pkg_info ELSE pkg_info
  /\ pkg_deps' = IF t = "pkg_deps" THEN index.pkg_deps ELSE pkg_deps
  /\ file_pkg' = IF t = "file_pkg" THEN index.file_pkg ELSE file_pkg
  /\ index' = IF unsaved = {t} THEN NoIndex ELSE index
  /\ UNCHANGED <<record, bases, options, pc, local, import, unmerged, marred, known>>

\* index_pool is killed; the tables it has not closed stay as they were.
IndexPoolKilled ==
  /\ unsaved # {}
  /\ unsaved' = {} /\ index' = NoIndex
  /\ Mark(When(unsaved # IndexTables, "cut"))
  /\ UNCHANGED <<pool, tables, record, bases, options, pc, local, import, unmerged, known>>

Publish(S) ==
  /\ S # {}
  /\ Len(releases) < MaxRelease
  /\ releases' = Append(releases, S)
  /\ aliases' = [n \in AliasNames |-> Len(releases) + 1]

\* Bound: only where the command line names a release, nothing else reads them.
CommitElsewhere ==
  /\ options.release # NoAlias
  /\ \E S \in SelectLatestPackages(pkg_info) : Publish(S)
  /\ UNCHANGED <<pool, tables, bases, options, pc, local, writers, known>>
-----------------------------------------------------------------------------
(* The stages of main. *)

Start ==
  /\ pc \in {"idle", "done"}
  /\ pc' = "gather"
  /\ packages' = {} /\ versions' = {} /\ selected' = {}
  /\ base' = {} /\ remote' = {} /\ plan' = NoPlan
  /\ known' = pkg_info
  /\ UNCHANGED <<pool, tables, record, bases, options, writers>>

\* Latest packages of the pool, and those of Packages trees and text files.
TakeSnapshot ==
  /\ pc = "gather"
  /\ pc' = "retrieve"
  /\ IF options.snapshot
     THEN \E S \in SelectLatestPackages(pkg_info) : packages' = S \cup options.lists
     ELSE packages' = options.lists
  /\ UNCHANGED <<pool, tables, record, bases, options, versions, selected, base, remote, plan, writers, known>>

\* The packages of a release that is named by an alias.
Retrieve ==
  /\ pc = "retrieve"
  /\ \/ options.release = NoAlias /\ pc' = "collect" /\ UNCHANGED packages
     \/ /\ options.release # NoAlias
        /\ IF aliases[options.release] = 0
           THEN pc' = "idle" /\ UNCHANGED packages  \* a KeyError
           ELSE /\ pc' = "collect"
                /\ packages' = packages \cup releases[aliases[options.release]]
  /\ UNCHANGED <<pool, tables, record, bases, options, versions, selected, base, remote, plan, writers, known>>

\* The version dictionary: every indexed version of a name and architecture.
CollectPackageVersions ==
  /\ pc = "collect"
  /\ pc' = "select"
  /\ versions' = pkg_info
  /\ UNCHANGED <<pool, tables, record, bases, options, packages, selected, base, remote, plan, writers, known>>

Allowed(x) == options.filtered => MatchInclusionList(x, options.spec)

\* Mutant of CutOffVersions: the version asked for is dropped as well.
CutOffVersionsBelow(s, w) == {i \in DOMAIN s : \E j \in 1 .. i : Compare[s[j]][w] < 0}

\* Versions are dropped from the head of the list until one is not above w.
CutOffVersions(s, w) == {i \in DOMAIN s : \E j \in 1 .. i : AtMost(s[j], w)}

\* Mutant of Candidates: the last of the versions that are left.
CandidatesOldest(k, w) ==
  {v \in VersionsOf(versions, k) :
     \E s \in Descending(VersionsOf(versions, k)) :
       LET left == {i \in CutOffVersions(s, w) : Allowed(<<k[1], s[i], k[2]>>)}
       IN  \E i \in left : s[i] = v /\ \A j \in left : j <= i}

\* The first version of the list after the cut that passes the filter, for
\* every order in which versions that compare equal may be listed.
Candidates(k, w) ==
  {v \in VersionsOf(versions, k) :
     \E s \in Descending(VersionsOf(versions, k)) :
       LET left == {i \in CutOffVersions(s, w) : Allowed(<<k[1], s[i], k[2]>>)}
       IN  \E i \in left : s[i] = v /\ \A j \in left : i <= j}

\* Mutant of Selections: what is not in the pool is taken over unchanged.
SelectionsUnchecked(wanted) ==
  OneForEach({x \in versions \cup wanted :
                \E y \in wanted : x = y \/ (Key(y) = Key(x) /\ x[2] \in Candidates(Key(x), y[2]))}, Key)

Selections(wanted) ==
  OneForEach({x \in versions :
                \E y \in wanted : Key(y) = Key(x) /\ x[2] \in Candidates(Key(x), y[2])}, Key)

SelectVersions ==
  /\ pc = "select"
  /\ pc' = options.command
  /\ \E wanted \in SelectLatestPackages(packages) : \E T \in Selections(wanted) : selected' = T
  /\ remote' = IF options.command = "verify" THEN bases ELSE {}
  /\ UNCHANGED <<pool, tables, record, bases, options, packages, versions, base, plan, writers, known>>

\* list and diff only print.
Show ==
  /\ pc \in {"list", "diff"}
  /\ pc' = "done"
  /\ UNCHANGED <<pool, tables, record, bases, options, local, writers, known>>

\* The list is validated against the tables; see ReleaseStore for the rest.
Commit ==
  /\ pc = "commit"
  /\ pc' = "done"
  /\ IF selected \subseteq pkg_info /\ selected # {} /\ Len(releases) < MaxRelease
     THEN Publish(selected) ELSE UNCHANGED record
  /\ UNCHANGED <<pool, tables, bases, options, local, writers, known>>
-----------------------------------------------------------------------------
(* verify: the packages are to be installed on top of underlying releases. *)

\* Mutant of IsMissing: one package that is known is taken for all of them.
IsMissingAll(r) == r.release \cap pkg_deps = {}

IsMissing(r) == ~ (r.release \subseteq pkg_deps)

\* Tables are imported only for a release with a package that has none yet.
FetchUnderlying(r) ==
  /\ pc = "verify"
  /\ r \in remote
  /\ IF IsMissing(r)
     THEN /\ pc' = "open"
          /\ import' = [import EXCEPT !.from = {r}]
          /\ UNCHANGED <<base, remote>>
     ELSE /\ base' = base \cup r.release
          /\ remote' = remote \ {r}
          /\ UNCHANGED <<pc, import>>
  /\ UNCHANGED <<pool, tables, record, bases, options, packages, versions, selected, plan,
                 index, unsaved, unmerged, marred, known>>

\* They are opened anew to be written, and stay open during the download.
OpenTables ==
  /\ pc = "open"
  /\ pc' = "import"
  /\ import' = [import EXCEPT !.pkg_deps = pkg_deps, !.file_pkg = file_pkg]
  /\ unmerged' = ImportTables
  /\ Mark(When(unsaved # {}, "overlap"))
  /\ UNCHANGED <<pool, tables, record, bases, options, local, index, unsaved, known>>

\* pkg_deps first, then file_pkg; an interrupt on the way still closes them.
MergeUnderlying(r) ==
  /\ pc = "import"
  /\ r \in import.from
  /\ \E D \in SUBSET r.pkg_deps, P \in SUBSET Paths :
       /\ D # {} /\ (P = {} \/ D = r.pkg_deps)
       /\ pc' = IF D = r.pkg_deps /\ P = Paths THEN "merged" ELSE "interrupted"
       /\ Mark(When(pc' = "interrupted" \/ ~ Owned(r.pkg_deps, r.file_pkg), "cut"))
       /\ import' = [import EXCEPT
                       !.pkg_deps = @ \cup D,
                       !.file_pkg = [p \in Paths |-> IF p \in P THEN AppendEntry(@[p], r.file_pkg[p])
                                                             ELSE @[p]]]
  /\ UNCHANGED <<pool, tables, record, bases, options, local, index, unsaved, unmerged, known>>

CloseImported(t) ==
  /\ pc \in {"merged", "interrupted"}
  /\ t \in unmerged
  /\ unmerged' = unmerged \ {t}
  /\ pkg_deps' = IF t = "pkg_deps" THEN import.pkg_deps ELSE pkg_deps
  /\ file_pkg' = IF t = "file_pkg" THEN import.file_pkg ELSE file_pkg
  /\ UNCHANGED <<pool, pkg_info, record, bases, options, pc, local, index, unsaved, import, marred, known>>

\* The packages of the release count as underlying ones from now on.
Imported(r) ==
  /\ pc = "merged" /\ unmerged = {}
  /\ r \in import.from
  /\ pc' = "verify"
  /\ import' = NoImport
  /\ base' = base \cup r.release
  /\ remote' = remote \ {r}
  /\ UNCHANGED <<pool, tables, record, bases, options, packages, versions, selected, plan,
                 index, unsaved, unmerged, marred, known>>

\* The repository cannot be reached (an EnvironmentError), an interrupt, or a
\* kill between the tables; what has not been closed is lost.
ImportFails ==
  /\ \/ pc = "verify" /\ remote # {}
     \/ pc \in {"import", "merged", "interrupted"}
  /\ pc' = "idle"
  /\ import' = NoImport /\ unmerged' = {}
  /\ Mark(When(pc \in {"merged", "interrupted"} /\ unmerged \notin {{}, ImportTables}, "cut"))
  /\ packages' = {} /\ versions' = {} /\ selected' = {}
  /\ base' = {} /\ remote' = {} /\ plan' = NoPlan /\ known' = {}
  /\ UNCHANGED <<pool, tables, record, bases, options, index, unsaved>>

\* Binary-independent packages belong to every architecture.
GroupByArch(S) ==
  [a \in Architectures |-> {x \in S : x[3] = a \/ x[3] = all}]

\* Mutant of Partition: a package in both lists counts as underlying.
PartitionBase(S, T) ==
  {[a \in Architectures |-> [check |-> GroupByArch(U \ T)[a], below |-> GroupByArch(U \cap T)[a]]] :
     U \in SelectLatestPackages(S \cup T)}

\* The latest packages of both lists: those of the release, and the others.
Partition(S, T) ==
  {[a \in Architectures |-> [check |-> GroupByArch(U \cap S)[a], below |-> GroupByArch(U \ S)[a]]] :
     U \in SelectLatestPackages(S \cup T)}

\* The lists that CheckDependency is called with.
Verify ==
  /\ pc = "verify" /\ remote = {}
  /\ pc' = "done"
  /\ plan' \in Partition(selected, base)
  /\ UNCHANGED <<pool, tables, record, bases, options, packages, versions, selected, base, remote, writers, known>>

Environment ==
  \/ CommitElsewhere
  \/ IndexPool \/ IndexPoolKilled
  \/ \E x \in index.pool : Index(x)
  \/ \E t \in IndexTables : CloseIndexed(t)

Run ==
  \/ Start \/ TakeSnapshot \/ Retrieve \/ CollectPackageVersions
  \/ SelectVersions \/ Show \/ Commit
  \/ OpenTables \/ ImportFails \/ Verify
  \/ \E r \in remote : FetchUnderlying(r)
  \/ \E r \in import.from : MergeUnderlying(r) \/ Imported(r)
  \/ \E t \in ImportTables : CloseImported(t)

Next == Environment \/ Run

Spec == Init /\ [][Next]_vars
=============================================================================
