# Verification of debmarshal

This directory specifies parts of debmarshal in TLA+, checks them with TLC on
small instances and proves theorems about them with TLAPS. Line numbers refer to
the files under `src/` of the same commit; `PROJECT.json` maps every definition
to the lines it models.

1. [The system](#1-the-system)
2. [The modules](#2-the-modules)
3. [Release store](#3-release-store), [uploads](#4-uploads),
   [tunbr](#5-tunbr), [dependency search](#6-dependency-search),
   [versions and selection](#7-versions-and-selection),
   [text files and child processes](#8-text-files-and-child-processes)
4. [Proofs](#9-proofs)
5. [What the code does otherwise than it says](#10-where-the-code-and-its-documents-differ)
6. [What is not modelled](#11-not-modelled)

## 1. The system

debmarshal is a set of programs for keeping Debian package repositories and for
testing releases on virtual machines. They share no process: they meet in files.

| component | state | operations | hard behaviour | correct when |
|---|---|---|---|---|
| release store (`release_utils`, `make_release`, `bsddb_utils`) | Berkeley DB tables in `dbs/`, trees in `dists/` | commit, rebuild | commands overlap, fail, are killed; tables are cached and written at close; files are truncated and written in place; errors of `rmtree` and `gpg` are ignored | recorded releases never change, numbers have no gap, trees list what is recorded |
| aliases (`alias_utils`, `handle_alias`) | `aliases` table, symlinks in `dists/` | update, remove, refresh, look up | table and symlinks are written at different times; unlink and symlink are two steps | between commands both name the same recorded release |
| pool indexing (`index_pool`, `deb_utils`) | `pool_pkg`, `pkg_info`, `pkg_deps`, `src_info`, `file_pkg` | index, then commit a snapshot | exceptions and kills between tables | what releases and verifiers read is there; the snapshot has the latest versions |
| uploads (`enter_incoming`, `os_utils`, `crypto_utils`) | `incoming/`, a temporary directory, `pool/`, the tables | admit, move, index | uploaders work meanwhile; stale tables; two runs; file-by-file moves | no binary without its complete source; indexed files are never replaced |
| dependency verifier (`verifier_utils`) | an in-memory graph of one release | check each package, try each suspicious pair | backtracking search, five-second alarm | sound and complete answers, nothing unreported |
| version order and selection (`release_utils`, `make_release`) | the lists of one command | compare, gather, filter, cut off, select latest, lay a release on top of others | digits, letters, tildes, empty parts; tables read one after another while others write | the order of Debian Policy; never an upgrade, nothing missed, newest of what is allowed |
| metadata parsing (`package_utils`, `deb_utils`), settings, logging, processes, crypto | configuration, a temporary directory, a child and its pipe | verify, parse, unpack, record | text around a signature, folded and malformed lines, programs that fail, pipes that fill up | of a signed message only what is framed is parsed, parsers return what the text means, nothing stays behind, and nothing hangs but on a pipe that is full |
| cleaners (`distclean`, `pooldebclean`, `poolsourceclean`) | `dists/`, `pool/` | delete what nothing refers to | run beside commits and uploads | nothing referenced is deleted |
| mirror and upload jobs | mirror directories, `best`/`better` links | clean, mirror, rotate | order of steps, symlinks to directories | a published mirror is complete |
| privileged operations (`privops`, `_privops`) | networks and domains of libvirt, owners, state files | create and destroy networks and domains | rollback, lock files, pickles truncated by a crash | only owners destroy; state and libvirt agree |
| test runner, image preparation (`runner`, `distros`) | disk images, networks, VMs of one test | prepare, run, clean up | failures half-way, threads and per-process locks | nothing is left behind; images are whole |
| hypervisors, VM descriptions, web server, addresses | none of its own | build XML, list domains, serve files | - | - |
| `tunbr` (`cbtb/tunbr`) | dnsmasq lease file, PXE files, tap devices | take a lease, run a command, give it back | overlapping invocations stop and start one dnsmasq; `O_EXCL` file as a lock; kills | every command has an address of its own; nothing is lost |
| continuous build (`cbtb/host-scripts`) | revision files | build, install, test | pipeline of scripts through files | each stage works on what the previous one finished |
| packaging, proxy configuration, host recipes | - | - | - | - |

Interactions: `enter_incoming` and `index_pool` end with the commit of the
release store and share its tables; every commit and alias command refreshes
alias links; the verifier reads the tables the indexers write; the cleaners
delete from `dists/` and `pool/`, which the others write; the test runner calls
the privileged daemon over D-Bus; tunbr stands beside a dnsmasq daemon that reads
its lease file only when it starts.

## 2. The modules

| module | models |
|---|---|
| `ReleaseLog` | abstract: an append-only log of immutable releases |
| `ReleaseStore` | `index_pool`, `make_release`, `handle_alias` as processes |
| `ReleaseStoreProps` | their properties and inductive invariants; the refinement of `ReleaseLog` |
| `ReleaseStoreProofs`, `ReleaseSerialProofs` | proofs: any commands; commands one at a time |
| `Incoming`, `IncomingProps`, `IncomingProofs` | `enter_incoming` |
| `Tunbr`, `TunbrProps`, `TunbrProofs` | `tunbr` |
| `Closure` | the graph of a release and, declaratively, what can be installed |
| `DepSolver`, `DepSolverProps`, `DepSolverProofs` | `CheckDependency` and its search |
| `VersionOrder` | `CompareVersion`, character by character |
| `DebianPolicy` | the order of Debian Policy 5.6.12, defined independently of the code |
| `MakeRelease`, `MakeReleaseProps` | one `make_release` for any order of versions, while the tables change |
| `MakeReleasePolicy`, `MakeReleaseProofs` | the same with versions that are strings, judged by Policy; the proofs of both |
| `ControlFiles`, `ControlFilesProps`, `ControlFilesProofs` | from a text file to records: signatures, attributes, settings, packages, child processes |
| `NumberLemmas` | minima of sets of numbers and induction up to a number, for the proofs |
| `*MC` | the constants of the TLC runs |

Operators whose comment begins with "Mutant of" are plausible bugs: replacing the
definition they name by them must violate a property (`PROJECT.json`, "mutants").

A name is a model value, a package list a set, a file its content as told apart by
hash. Every process has a stage `pc`; one action is what the code does between
two points where another process, a fault or a kill can make a difference.

## 3. Release store

State and code: a Berkeley DB table is a value on disk (`releases`, `aliases`,
`pool_pkg`, `pkg_info`, `pkg_deps`) and a cached copy in `view[p]`. `Opened` is the
opening of all tables by `RunWithDB` (`bsddb_utils.py:52`), `CloseTable` the
`finally` clause that closes them one by one (line 72); `dirty[p]` are the tables
that this will write.

The tree `dists/track/number` has a Packages file `leaf` for every component and
published architecture, the top-level Release file `top`, which holds the leaf
contents it fingerprints, and its signature (`signed`: Release.gpg signs Release as it
is now). `Listing` is the filter of `release_utils.py:66-81`: a binary-independent
package goes into the Packages files of all published architectures, and one of an
architecture that is not published, though recorded, into none. Files are written in
place: `OpenInfoFile` and `OpenReleaseFile` truncate them (their content is `Partial`),
`WriteInfoFile` and `WriteReleaseFile` complete them, and whoever writes to a file
that another command has filled meanwhile may leave a mixture, `Partial` again.

A commit goes through `OpenCommit` (number and validate), `OpenInfoFile` and
`WriteInfoFile` for each leaf, `OpenReleaseFile` (which takes the fingerprints),
`WriteReleaseFile`, `SignReleaseFile`, `RecordRelease`, then the refresh of the aliases
(`RemoveLink`, `CreateLink`, `LinkExists`, `RefreshDone`; `link` are the symlinks) and
`CloseTable`; a rebuild first deletes the tree entry by entry (`RemoveEntry`).

Faults: `Fail` is an exception anywhere in between, `Crash` the end of the process,
`KeepEntry` an entry that `rmtree(..., ignore_errors=True)` could not delete (line 366),
`SigningFails` a `gpg` that fails, at whose exit status nobody looks: the release goes
on unsigned.

| run | instance | shows |
|---|---|---|
| `release_serial` | commits, rebuilds and `index_pool` one at a time, each with all faults at every step; 2 packages, one of them of an architecture that is not published, 2 numbers; 7.4 M states | `TypeOK`, `RecordImmutable`, `TreeImmutable`, `RebuildRestores`, `RecordedIsIndexed`, and that the commands implement `ReleaseLog` |
| `release_undisturbed` | undisturbed commands of all kinds but commit by hand and the removal of an alias; 2 versions of one package, a binary-independent one and one that is not published; 2 architectures, 2 aliases, 3 numbers; 4.1 M states | `AliasesInForce`, `TreeMatchesRecord`, `SnapshotCurrent` |
| `release_overlap` | two undisturbed commands that overlap: commits, `index_pool`, removals of an alias; 2 numbers; 0.7 M states | `NumbersContiguous`, `LinkLeadsToRelease`, `Terminates` |

What they say and what they do not:

- `TreeMatchesRecord` and `RebuildRestores` compare the tree with `Layout`, which says of
  one package and one Packages file whether it belongs there. A release whose packages
  are all of unpublished architectures is recorded and has an empty tree.
- After a rebuild a Packages file that the release does not have can be left over, when
  `rmtree` failed to delete it; `kept[p]` remembers these, and `RebuildRestores` says that
  nothing else can be. The Release file fingerprints what is left over as well.
- `LinkLeadsToRelease` says that an alias never dangles, not that the Release file behind it
  is finished: a second command that builds the same number truncates it under the link
  (`top = Partial`), may mix its text into it, and may end there. One command at a time, the
  file is finished and signed (`TreeMatchesRecord`).
- `LinkLeadsToRelease` is checked without rebuilds: a rebuild removes a tree, with the aliases
  still leading there.

Bounds. `MaxRelease` limits the numbers of a track: commits are refused beyond it,
so that two or three are made; the numbering only ever compares with the largest.
Two packages are needed for a record that differs from another, two versions of one
for the selection of the latest, two architectures for a package that is copied.
One Packages file is enough for a tree that is partly written, since the Release file
and its signature follow it; the overlap needs two numbers, one that both commands
build and one to go on with. Deadlock is not checked: when no number is left, nothing
more happens.

Fairness. `WF(Step(p))`: a command that runs is scheduled. Nothing is assumed of
who starts one. `Terminates` needs no more; with two commands racing for a symlink
the loser gets `EEXIST` and ends.

## 4. Uploads

A run of `enter_incoming` copies the tables into `seen[p]` (`main`, line 250),
lists `incoming/`, and for each `.changes` file older than five seconds: copies and
removes it, checks signature and fields, decides (`Acceptable`, lines 109-163),
fetches the files one by one into the temporary directory, verifies size and hash,
and copies them into the pool one by one. After the last one `OpenTables` starts the
second `RunWithDB`, and `IndexSource`/`IndexBinary` and `CloseTable` do what
`index_pool` does. An uploader may `Drop` any part of an upload at any time, also
over files of the same name that a run is working on. Faults: `MoveError`
(an `EnvironmentError`, which rejects one upload), a malformed header (a `KeyError`,
which ends the run), `TornStore` (half a file in the pool), `IndexError` (an exception
between two packages), `ReadError` (an `IOError`, which is taken for a package that is bad),
`ParseError` (an exception while a package is parsed, before its entry in `pkg_info` or between
that and the one in `pkg_deps`), `Crash`.

`IndexBinary` is in the order of `index_pool.py:111-138`: the file is marked in `pool_pkg`
before it is parsed, then it gets its entries in `pkg_info` and `pkg_deps`. Whether a
content is a package at all is the constant `Readable`; one that is not stays marked as
seen and is described nowhere, in undisturbed runs too.

| run | instance | shows |
|---|---|---|
| `incoming_faults` | one run at a time with all faults; seven uploads (two Debian revisions of one upstream, a binary, a native package, a rebuild of it under the same names, a malformed and an unsigned one), three arrivals; 1.7 M states | `SourcesComplete`, `BinariesComeWithSource`, `KnownFilesIntact` |
| `incoming_reliable` | two undisturbed runs that may overlap; a source, a binary upload and one whose binary package is cut off, two arrivals; 0.2 M states | `UploadsProcessed`, and `StoredIsIndexed` as long as runs do not overlap |
| `incoming_hyphen` | upstream version 1.0-1 is in the repository, 1.0-2 arrives | `SourcesComplete` fails, see section 10 |

Three arrivals are enough for an upload, one that depends on it, and a repeated or
conflicting one. Fairness: runs are started again and again (they are cron jobs or
loops of an administrator), are scheduled, and the clock advances.

A file torn by `TornStore` counts as being in the pool: `SourcesComplete` is about
names, `KnownFilesIntact` about content.

`StoredIsIndexed` asks of every package in the pool, between runs, that `pool_pkg` has it as it
is, that a source is described in `src_info`, and that a binary package that can be read is in
`pkg_info` and in `pkg_deps`. It is a property of undisturbed runs that do not overlap: a run that
is killed or fails between the move and the last table leaves files that nothing indexes later.

## 5. tunbr

The lease file is the set `leases` of pairs of MAC and IP address, `draft` and
`pending` the new lease file that `O_EXCL` makes the lock of an update, `served` what
dnsmasq read when it last started. `add_to_leases` and `del_from_leases` are the same
sequence (`StopDnsmasq`, `CreateNew` or `NewExists`, `AddLine` or `DeleteLine`,
`Rename`, `StartDnsmasq`) with `task[p]` saying which. Then follow the PXE file, the
tap device, the bridge, the command and the undoing of all that. `Faults` chooses
which of these happen: `"crash"`, `"errors"` of system calls and programs, `"lossy"`
(short writes and unreadable lease files, both of which the code goes on from) and
`"signal"`.

| run | instance | shows |
|---|---|---|
| `tunbr_faults` | three overlapping invocations, three MAC addresses to draw from, two IP addresses, crashes and errors; 2.7 M states | `LeaseHeld`, `PrivateLeases`, `ConflictFree`, `NothingLost`, `DnsmasqBack` |
| `tunbr_serial` | three invocations whose updates do not overlap, with short writes and signals; 0.5 M states | `ServedIsCurrent`, `NothingLeft` |

Three invocations with three MAC addresses and two IP addresses are enough to use up the
range (the third gets the address after it), to draw equal MAC addresses, and to have two
updates under way while a third invocation holds a lease.

`PrivateLeases` and `ConflictFree` speak of addresses of the range; the one after it is handed out
to every further invocation (section 10). `NothingLost` is checked without short writes, and
`ServedIsCurrent` without overlapping updates: with them both fail (section 10).

Left out: the environment variables that number nested invocations, the exit status
(which is uninitialised at line 593 when `wait` fails), an administrator who deletes
the new lease file while somebody holds it, and the start of the machine, where
`host-setup/dnsmasq.sh` empties the lease file.

## 6. Dependency search

`Closure` has a release as `_BuildDependencyGraph` builds it. A relation is a set of
alternatives; an alternative names an actual or virtual package and, if it is
versioned, lists the packages whose version fits. `Solution` and `Solvable` say what
the verifier promises without any search. `DepSolver` is the search: a frame of
`stack` is a call of `_DoComputeDependency` with its queue, base, exclusion list and
the packages of the head still to be tried; `TryCandidate`, `AddDependency` and
`Descend` are the loop body from line 277 on, and `SkipHead`, `SkipCandidate`, `Solved`,
`Exhausted`, `DeadEnd` its exits. `CutOff` is the alarm; `LateAlarm` is the alarm after
the search has returned and before `alarm(0)`, which nobody catches.

| run | instance | shows |
|---|---|---|
| `solver` | 4 packages, one virtual; about four thousand releases with cycles, alternatives, versions, conflicts with virtual names, essential packages, shared files; 0.5 M states | `Sound`, `Complete`, `ReportsExact`, `Ends` |
| `solver_dead` | those with dependencies that nothing satisfies | `NoneMeansNoSolution` fails, see section 10 |

Four packages allow two alternatives that conflict, a dependency of both, and a package
that has to be backtracked over.

`Complete` and `ReportsExact` speak of releases in which every dependency selects something
(`NoDeadRelation`; the others are `solver_dead`) and of searches that the alarm has not cut off.
`ReportsExact` also speaks of checks that reach their end: a late alarm is an exception that
nobody catches and ends the check with the reports made so far (`"aborted"`). Fairness:
`WF(Next)`, one process that runs. The alarm is not obliged to ring, so `Ends` says that
the search itself terminates. That a solution is a smallest one ("a minimum set", line
241) is not so and not claimed.

## 7. Versions and selection

`VersionOrder` translates the comparison loop by loop: a version is a sequence of characters,
`SplitVersion` cuts off epoch and revision, `CompareSubVersion` takes text and numbers in turn.
`DebianPolicy` defines the same order from the words of Policy, by a key for every part, without
looking at the code. Both know eleven characters that stand for all: three digits, two small
letters and a capital one, the tilde, and the four signs that a version may have. `MakeReleasePolicy`
gives every version a string (`Text`), assumes that `Compare` is `CompareVersion` of these strings,
and states what Policy expects of a selection.

`MakeRelease` is one command of `make_release.py`, for any `Compare` that is an order: versions
that compare equal may differ (`1.02` and `1.2`). Its stages are those of `main`: the packages of
the snapshot and of lists (`TakeSnapshot`), of a release named by an alias (`Retrieve`), the
version dictionary (`CollectPackageVersions`), then filter, cut-off and choice
(`SelectVersions`), and `Show`, `Commit` or, for `verify`, `FetchUnderlying` and `Verify`. Each
stage opens the tables it needs and closes them again.

`verify` fetches the release of each underlying repository (`FetchUnderlying`, in a `RunWithDB` that
only reads) and imports its tables when a package of it has no dependencies here: `OpenTables`
opens them anew, `MergeUnderlying` merges `pkg_deps` and then `file_pkg`, as far as it comes, and
`CloseImported` writes one and then the other, in either order. `Imported` goes on;
`ImportFails` is a download that fails, an interrupt, or a kill between the two tables.

Meanwhile `index_pool` opens its four tables (`IndexPool`), enters packages in memory (`Index`),
closes the tables one by one (`CloseIndexed`), and may be killed between them
(`IndexPoolKilled`); `CommitElsewhere` is another release, which only matters where the command
line names one. The scenarios include tables that an interrupted `index_pool` has left, here
and in the underlying repository. `marred` remembers the accidents of a behaviour: writers that
have overlapped, and one that was cut off. `MaxMarred` bounds them.

| run | instance | shows |
|---|---|---|
| `make_release` | pairs of all versions of one to three of the characters `0 1 a ~` and of one and a one-character revision; two packages with seven versions that differ in zeros, epochs, tildes and lengths, one of them in all architectures; three tables, two packages that arrive meanwhile, seven specification files, snapshots, lists, aliases, three underlying repositories, one of them cut off; writers that overlap or are killed; 1.4 M states, deadlock checked | `LatestByPolicy`, `NeverUpgrades`, `NewestAllowed`, `NothingMissed`, `VerifiedTogether`, `TablesSuffice` |

Bounds. Three characters of four classes (a digit that is zero, one that is not, a letter, a
tilde) meet at every boundary the comparison knows: number against number, text against end,
tilde against end, empty against zero. `MaxRelease = 1`: one commit elsewhere, or one of the
command's own, is what an alias can be read before or after. `MaxMarred = 1`: either writers
overlap or one is cut off; what `TablesSuffice` says of each case is about that case alone.
`LatestByPolicy` speaks of tables of comparisons, computed once by the code's rules and once by
Policy's; section 9 has both comparisons of strings of any length.

What the model has of the code, and a reader may not expect:

- Packages are told apart by name *and* architecture, so one that went from `i386` to `all` may be
  in a release twice; `VerifiedTogether` is about the two lists that `verify` hands over.
- `<` and `>` of a relation mean `<=` and `>=`, as in old Policy; a line that a comment follows
  keeps its trailing space and is then ill-formed, that is, ignored (kind `"malformed"`).
- A missing specification file leaves the version dictionary as it is (`filtered`); an unknown
  alias is a `KeyError`, an unreachable repository an `EnvironmentError`: both end the command.
- The entries of a package in `pool_pkg`, `pkg_info`, `pkg_deps` and `file_pkg` are made in one step,
  since they are in the memory of `index_pool` until the tables are closed; an exception in the
  middle of a package is a fault of `Incoming`.
- The test before the import looks at `pkg_deps` only. An import that is cut off before `pkg_deps` is
  complete is made again; one that is cut off between `pkg_deps` and `file_pkg` is not, and the files
  of these packages stay unknown (section 10).

`TablesSuffice` has two parts, and each says under which accidents it holds. `UnderlyingKnown`: the
dependencies of all underlying packages are known, also after writers were cut off at any
point, as long as none overlapped. `TablesComplete`: between two writers, when none has ever
overlapped or been cut off, the dependencies of the packages to be checked are known and
`file_pkg` names every package that has a file, so that file conflicts are found.

## 8. Text files and child processes

A text is a list of lines, each with the kind that the parsers tell apart (a header of OpenPGP,
the same with blanks behind it, an escaped line, an attribute, a key without value, a folded line,
a heading, anything else) and the parts of its value. `StripSignature`, `ParseAttributes`,
`ParseConfig` and `GetUpstreamReleaseList` fold one step per line, in the form of the loops of the
code. Around them is the process that handles a file: a `.changes` file goes through `gpgv`, a
binary package through a temporary directory, `ar`, `lzma` if its data is compressed so, its
control file and `md5sum`, and then into `pkg_info` and `pkg_deps` (`Record`). `Run` starts a
child, which writes into a pipe (`ChildWrites`) as long as it has room and ends (`ChildExits`);
`Wait` is `child.wait()` and the reading of the pipe after it. `Fail` is the `finally` clause on
the way of an exception.

| run | instance | shows |
|---|---|---|
| `control_files` | signed messages with each frame present, missing or, the header, followed by blanks, text before and after, and bodies of two lines of six kinds; control files with up to three further lines of nine; settings files of up to five lines of seven; programs that fail and print up to one line more than the pipe holds; 0.5 M states | `SignedTextOnly`, `AttributesExact`, `SettingsExact`, `DependenciesKept`, `UpstreamReadsBack`, `Ends` |

The properties compare each loop with what the text means, said of positions in the whole text and
without a loop. Three further lines are enough to repeat an attribute, to continue it and to
interrupt the continuation; five to leave a section and come back to it.

Deadlock is not checked, since a file that has been dealt with ends the behaviour. Fairness:
`WF(Child)` and `WF(Parent)`, the scheduler runs both processes. `Capacity = 2` and
`MaxOutput = 3`: a program that prints nothing, what the pipe just holds, and more.

`Ends` says that every file is dealt with and no temporary directory left, or else that parent and
child wait for each other for ever because the pipe is full (`Stuck`; `SpawnProgram` waits before
it reads, section 10): of all that a program may do, that is the only thing that hangs.

`SignedTextOnly` says that what is parsed of a message is what is between its first frames, and names
the two cases in which a file is parsed whole: a `.dsc` file that is not signed, and a `.changes` file
in which every header has blanks behind it, which `gpgv` takes for one and `StripSignature` does not
(section 10). Of `gpgv` the model has that it accepts nothing without a header (`MayAccept`), and
otherwise nothing: which text a signature is for is its business.

What the model has of the code, and a reader may not expect:

- A malformed signature is not taken for an unsigned text: `StripSignature` returns None and
  parsing fails with a `TypeError`. In the signed text only lines that begin with `- ` may begin
  with a dash.
- A field that goes on in folded lines keeps the comma at the end of each line, so that its parts
  are the lines; a section heading that a comment follows is not a heading.
- An empty `Essential:` or `Source:` makes `BuildDependencyString` fail when `pkg_info` has its
  entry and `pkg_deps` has not (`index_pool.py:138`).
- The exit status of `ar` and `md5sum` is ignored; they fail by what they leave out.
- `GetUpstreamReleaseList` completes a package when it reads its version: it reads back what this
  program writes (`UpstreamReadsBack`), but not stanzas with the fields in another order.

## 9. Proofs

All theorems hold for every value of the constants that satisfies the named assumptions
of the modules (`ConstantsAssumption`, `UploadAssumption`, `GenchangesAssumption`,
`TunbrAssumption`, `PackagesAssumption`, `GraphsAssumption`, `OrderAssumption`,
`ScenarioAssumption`, `NewerAssumption`, `FilesAssumption`, `BoundAssumption`; the last one says no
more than that the capacity of a pipe and the output of a program are numbers). Where a theorem
assumes more, the table says so: what it assumes is what the run of the same property is
configured with, and section 10 or the run itself shows what happens without it.

| theorem | assumes | says |
|---|---|---|
| `ReleaseStoreProofs!TypeCorrect`, `NumberingCorrect`, `NoGaps` | - | types; release numbers have no gap, whatever overlaps, fails or is killed |
| `ReleaseStoreProofs!LinksLead` | `"rebuild" \notin Commands` | an alias link leads to a tree that has a Release file, finished or truncated, whatever overlaps, fails or is killed |
| `ReleaseSerialProofs!SerialCorrect`, `RecordsStayBuildable`, `SerialImplementsLog`, `ReleasesImmutable` | `Overlap = FALSE` | one command at a time implements the append-only log |
| `ReleaseSerialProofs!TreesImmutable`, `RestoringCorrect`, `RebuildsRestore` | `Overlap = FALSE` | a tree changes in a rebuild only; a rebuild that ends has put the recorded packages where they belong, and the only other Packages files are those that `rmtree` failed to delete |
| `ReleaseSerialProofs!UndisturbedCorrect`, `AliasesStayInForce`, `TreesMatchRecords` | `Overlap = FALSE`, `ReliableSpec` | undisturbed commands keep tables, links and trees in agreement: every recorded package is in the Packages files of its component and architecture and in no other |
| `ReleaseSerialProofs!SnapshotStaysCurrent` | the same, `"commit" \notin Commands` | the newest snapshot has the latest version of all that was indexed |
| `IncomingProofs!TypeCorrect` | - | types |
| `IncomingProofs!SourceInvariant`, `SourcesStayComplete`, `BinariesHaveSource` | `HeadersAreUpstreams` | sources are complete and come with their binaries, also when runs overlap, fail or are killed |
| `IncomingProofs!KnownFilesStay` | `~ Overlap` | a file that the tables name keeps its contents, through failures and kills |
| `IncomingProofs!StoredFilesIndexed` | `Malformed = {}`, `ReliableSpec` (the property assumes `[]OneAtATime`) | what undisturbed runs have moved into the pool is in the tables when they end: a source described, a binary package that can be read described and with its dependencies |
| `TunbrProofs!TypeCorrect` | - | types |
| `TunbrProofs!LeasesCorrect`, `LeasesStay`, `NoConflicts`, `OnlyOwnLineLost` | `"lossy" \notin Faults` | leases are held, without conflict and private, and only their holder removes them |
| `TunbrProofs!ServerComesBack` | - | dnsmasq is down only while an update is under way, or after one was stopped in the middle |
| `TunbrProofs!ServerCorrect` | `Overlap = FALSE` | a running dnsmasq has read the present leases |
| `TunbrProofs!NothingIsLeft` | `Overlap = FALSE`, no `"crash"` and no `"errors"` | what has ended has left no lease, device or file |
| `DepSolverProofs!TypeCorrect`, `SearchCorrect`, `SearchIsSound` | - | a result of the search can be installed |
| `DepSolverProofs!SearchIsComplete` | - (the property assumes `NoDeadRelation` of the release) | a search that returns None without the alarm had no solution to find |
| `DepSolverProofs!ReportsAreExact` | - (the property assumes the same, and that the check reaches its end) | the report names what cannot be installed, and nothing else, up to the searches that the alarm cut off |
| `MakeReleaseProofs!TypesHold` | - | types |
| `MakeReleaseProofs!NeverUpgradesHolds`, `NewestAllowedHolds` | - | a release has only what was asked for, allowed and indexed, and the newest of that, for every order of versions |
| `MakeReleaseProofs!VersionsCompareByPolicy` | - | `CompareVersion` orders any two strings, of any length, as Policy does |
| `MakeReleaseProofs!VersionsAreOrdered` | - | so it is a total order of any set of strings, which is what `OrderAssumption` asks of `Compare` |
| `MakeReleaseProofs!LatestByPolicyHolds` | - | the version in a release is the one that Policy calls the latest of those asked for and allowed |
| `MakeReleaseProofs!NothingMissedHolds` | - | a release has some version of everything that was asked for, allowed and indexed |
| `MakeReleaseProofs!VerifiedTogetherHolds` | - | the verifier is given one version of each package, and nothing of the release is left out |
| `MakeReleaseProofs!TablesSufficeHolds` | - (the property assumes that no writers overlapped and, for its second part, that none was cut off) | the verifier knows the dependencies of underlying packages; and those of the packages to be checked, and all owners of a file |
| `ControlFilesProofs!SignedTextHolds` | - | exactly the framed text is parsed where a line is exactly the header, the whole file only in the two cases of section 8, and of a `.changes` file only after `gpgv` has accepted it, for texts of any length |
| `ControlFilesProofs!AttributesAreExact` | - | every attribute has the value that the text gives it last, with all lines that continue it |
| `ControlFilesProofs!DependenciesAreKept` | - | the verifier reads of a package what its control file says |
| `ControlFilesProofs!SettingsAreExact` | - | a setting is that of the last section of its track, or else of the top level, in a settings file of any length |
| `ControlFilesProofs!UpstreamIsReadBack` | - | what is written of a package into a Packages file is read back, and is not mixed up with its neighbours |
| `ControlFilesProofs!TypesHold`, `NoDirectoryLeft` | - | types, for programs that print less or more than the pipe holds; no temporary directory outlives its file, whatever fails |

The arguments, each with the invariant that makes the property inductive:

- `NumberingInv`: not only the table on disk but every cached copy has an initial
  segment of numbers, and a command that builds number *v* holds a copy with all smaller
  ones. Closing a table replaces one segment by another, so that even lost updates leave
  no gap.
- `SerialInv`: the caches of the only running command are never behind the disk, and its
  copy of `releases` extends the one on disk by at most one buildable release. From this
  follow the refinement step by step and immutability.
- `PublishedInv`: no table, on disk or cached, names a release or an alias whose tree is without a
  Release file, and a build that has opened it still finds one there; the link comes after the
  record, and the record after the Release file. Together with `StagesInv`, the stages each kind
  of command goes through, this holds in every interleaving, since without rebuilds nothing
  deletes a Release file.
- `RestoringInv`: a rebuild that runs alone holds the record that is on disk, since nobody else
  can have replaced it; the leaves it has dealt with are gone before it writes, unless they are in
  `kept[p]`, and then they list what belongs in them; the file it has opened is `Partial` until it
  writes it, and the fingerprints it took are those of the tree. So it does not matter what an
  earlier failure has left in the tree. `Listing`, which the code computes, and `Layout`, which the
  properties ask for, are equal (`ListingIsLayout`).
- `UndisturbedInv`: `Seen(p)` are the tables that the running command is going to leave behind,
  its caches, or those on disk when it has none. All aliases in them but those it has yet to
  refresh have their links, and all trees but the one it is at work on list the records. Between
  commands nothing is left undone, which is what the properties say.
- `SnapshotInv`: `index_pool` keeps what it has indexed for the commit that follows. From the
  first package it stores until this commit is recorded the newest snapshot is behind; then, and
  otherwise, it is `SelectLatestPackages` of the table. That this is not empty for a table that
  is not is the one place that needs `NewerAssumption`: a finite strict order has a maximal
  element.
- `SourceInv`: all copies of the tables, those with which an upload was decided included,
  describe only sources that are complete in the pool. The pool only grows, so stale
  copies stay true; an admitted upload completes its source once its files are stored.
  `HeadersAreUpstreams` says that keys that match the header of an upload share its
  upstream version, which is what fails for upstream versions with a hyphen.
- `IntactInv`: the one run there is decides with a table of files that is not out of date, so
  that what it moves into the pool is not named there, and the cached table it will write names
  only contents that the pool has.
- `TrackedInv`: every file of the pool that the table does not name as it is, is in the list of
  files that the running command will index (`ToBeIndexed`, `new`): it is in a batch whose uploads
  are still in `incoming/`, or has been moved and not yet been indexed. The list is empty before
  the tables are closed. A signed `.changes` file without one of its fields ends the run between
  the two, which is why the theorem assumes `Malformed = {}`.
- `LeaseInv` in `TunbrProofs`: the holder of the new lease file has in `draft` all lines of
  `leases` (but its own when it deletes), and registered invocations have distinct lines.
- `BackInv` in `TunbrProofs`: a new lease file and a stopped dnsmasq each have a reason, an
  invocation that is updating or one that was stopped while it did.
- `ServerInv` in `TunbrProofs`: between the stop and the start of the only update dnsmasq is
  stopped; otherwise what it serves is the lease file.
- `Owned` in `TunbrProofs`: as long as no invocation was stopped in the middle, every lease, tap
  device and PXE file, and every line about to be renamed into place, belongs to an invocation
  that has yet to take it away.
- `SearchInv` in `DepSolverProofs`: the base of every call has no conflicts, its conflicts
  are on the exclusion list, and for the query and for every dependency of the base there is
  an answer in the base or still in the queue; while a queue is built it has the tail and the
  dependencies read so far.
- `CompleteInv` in `DepSolverProofs`: some call on the stack is still on the way to every
  solution, that is, the solution contains its base, answers its queue and contains a package
  of the head that the call has not tried. Whatever is on an exclusion list conflicts with a
  package of the base (`Justified`), so that a rejected candidate is in no such solution; this
  is also why the code may exclude for the whole subtree. A dependency that nothing satisfies
  makes a call return None at once, alternatives included: there the invariant, and the
  property, fail (section 10).
- `ReportInv` in `DepSolverProofs`: each of the four halves of `ReportsExact` holds of the queries
  answered so far, because `Sound` and `Complete` hold of the answer about to be reported.
- `IInv` in `MakeReleaseProofs`: `pkg_info` only grows, so what a command has read stays below it:
  `known`, then the version dictionary, then `pkg_info`. `Kept`: while writers do not overlap the
  same is so of `pkg_deps`, since whoever writes it has read it after the last one has closed it;
  every release that counts as an underlying one is in it, because it was when it was tested or
  because its import has closed `pkg_deps`. `Whole`: the tables that a writer has in memory are
  complete, that is, every package with dependencies owns its files, and those it has closed are
  equal to them; merging two such tables gives another (`OwnedEntry`, `OwnedMerge`).
  For `NothingMissed` a greatest version is found in every finite set of versions (the smallest
  rank, by `NumbersHaveMinimum`); `VerifiedTogether` follows from what `Partition` computes, and
  from `Commanded`: the stage after the selection is that of the command line.
- `CompareVersion` works in rounds: text, then a number, each with a comparison of its own. Policy's
  key of a part is one list of numbers, compared from the front. `Cut` says how one call of
  `SplitSubVersion` divides a part, and `KeyOfCut` that the key is then the weights of the text, a 0,
  the number and the key of the rest. If the weights of the two texts differ anywhere, both
  comparisons end at the same place (`HeadsDiffer`: beyond its end a text has weight 0, which is
  what the blank of `CompareString` is to `CompareChar`); if not, the number decides or the rest
  does (`HeadsAgree`, `KeysShift`). `Decides` is the invariant of the rounds and `Shrinks` their
  variant: what is left gets shorter, so that after as many rounds as there are characters nothing
  is left (`PartsCompareByKeys`). The first part that differs decides on both sides. That no part
  has to be legal, or even non-empty, came out of the proof: it is assumed nowhere.
- Keys of numbers are compared antisymmetrically and transitively (`KeysOpposite`,
  `KeysTransitive`: of two first differences the earlier one decides), and so are versions.
- `LatestByPolicy` follows from `NeverUpgrades` and `NewestAllowed` once both orders are the same
  (`OrdersAgree`): then the same packages are asked for (`RequestsAgree`), and a specification file
  lets the same ones through, since the first line that includes a package is preceded by none that
  rejects it (`FiltersAgree`).
- `GpgvInv` in `ControlFilesProps`: a `gpgv` that has accepted a file has found a header in it, so that a
  file without a line that is exactly the header has one with blanks behind it.
- `ReadingInv` in `ControlFilesProps`: each kind of file goes through stages of its own; the text
  is what `StripSignature` took out of the file, the dictionary is what `ParseAttributes` returns
  for the text, and the entries are made of this dictionary.
- What the two loops return for a text of any length is proved line by line. `SignatureKnows` and
  `AttributeKnows` say, of positions in the whole text, what a loop knows after *i* lines;
  `SignatureLearns` and `AttributeLearns` that one more line adds to it. The induction is
  `NumberLemmas!BoundedInduction`, which is about a set of positions and not about a predicate, so
  that no prover has to instantiate an operator; it rests on the minimum of a set of numbers. The
  same lemma shows that the recursion in `Loop` has a value at all (`SignatureLoop`,
  `AttributeLoop`). `FilesAssumption` says what cutting a line into fields guarantees: an attribute
  has a name, and a value at least one part, since `split` never returns an empty list; a heading
  names a track.
- `ConfigKnows` in `ControlFilesProofs`: of the lines read so far (blank ones left out, `Kept`) the
  sections that a heading has closed are recorded, each track with its last one (`LastSays`), and
  the collected lines are those since the last heading. What `ParseAttributes` returns for the lines
  of a section is then carried over to their positions in the whole file (`SectionMeaning`).
- A Packages file is the concatenation of stanzas, and what the loop makes of two parts is what it
  makes of the second from where the first has led (`UpstreamConcat`). So a stanza adds its package
  whatever came before it (`StanzaRead`, `InfoRead`): the name and the architecture are overwritten
  before the version is reached, which is what the order of fields in `BuildDebInfoText` is good for.
- `ProcessInv` in `ControlFilesProps`: a child that runs has its parent at `wait()`, the pipe is
  empty otherwise, and the temporary directory exists only on the way to the control file or out of
  the `finally` clause.

Only model-checked:

- liveness (`Terminates`, `UploadsProcessed`, `Ends`): fairness and `ENABLED` are beyond this
  prover.

## 10. Where the code and its documents differ

Each of these has a run that ends with a counterexample:

- `incoming_hyphen`. The search for `foo_1.0-` also finds `foo_1.0-1-1`.
- `solver_dead`. `return None` at `verifier_utils.py:326` gives up the remaining
  alternatives, so that an installable package is reported as uninstallable.

Met while modelling, reproducible by changing the constants of a run, without a run of
their own:

- Nothing locks `dbs/`. Of two commands that overlap, the one that closes its tables last
  writes its stale copy over the other's record, against `internals.txt:48`
  (`release_overlap` with `RecordImmutable`).
- A commit never clears the directory it writes to, so leaves of an earlier attempt that
  failed are fingerprinted and published with the next release of that number
  (`release_undisturbed` with `Spec` in place of `ReliableSpec`, `TreeMatchesRecord`).
- `rmtree` ignores its errors (`release_utils.py:366`): a rebuild goes on over what it could not
  delete, and the Release file then fingerprints Packages files that the release does not have
  (`release_serial` with `TreeMatchesRecord`). Nor is the exit status of `gpg` looked at: a release
  may be published unsigned.
- The Release file is truncated and written in place (`release_utils.py:298`). A commit that overlaps
  with another of the same number leaves an alias that leads to an empty or mixed one.
- `os_utils.py:131`: `SpawnProgram` waits for its child before it reads the pipe: with more
  output than a pipe holds both wait for ever (`control_files` with an `Ends` that lacks `Stuck`).
  `lzma` writes to a file and `gpgv` prints little; `md5sum -c` prints a line for each file.
- `package_utils.py:64` compares a line with the header of a signed message, while `gpgv` leaves out
  the blanks at the end of a line. A `.changes` file with such a header is accepted by `gpgv` and then
  parsed as a whole, with whatever is outside the frames (`control_files` with a `SignedTextOnly`
  that lacks the second case).
- `index_pool.py:111-127`: a package is marked as seen before it is parsed. One that cannot be read, or
  on which the run ends, is not looked at again without `--retry`, and the pool then has a package
  that no table describes (`incoming_reliable` with `Readable` left out of `Indexed`).
- Two overlapping runs of `enter_incoming` both find that a file is not in the pool; the
  second replaces what the first has indexed (`enter_incoming.py:110`; `incoming_faults` with
  two processes, `Overlap = TRUE` and the uploads `native` and `rebuilt`, `KnownFilesIntact`).
- `tunbr.c:282`: when the range is used up, the address after it is handed out, to every
  further invocation, though line 181 promises one "that does not conflict with existing
  entries".
- `tunbr.c:125`: a deletion that finds the new lease file of another invocation is given up
  and the line stays for good; line 102 says it "is deleted".
- `tunbr.c:255`: after equal MAC addresses the new lease file stays, and the rerun that line
  253 recommends fails until somebody removes it.
- `tunbr.c:152`: a short write is reported and the shortened file renamed into place; line 103
  says that "all other lines are passed through verbatim".
- `tunbr.c:404`: ignored signals stay ignored in the command, which line 404 wants to receive
  them.
- When tunbr updates overlap, the start of a dnsmasq that already runs does nothing and it goes
  on serving the leases it has read (`ServedIsCurrent` with `Overlap = TRUE`).
- `bsddb_utils.py:193-207`: an import of the tables of an underlying repository that was cut off between
  `pkg_deps` and `file_pkg` is not repeated, because the test looks at `pkg_deps`; the files of
  its packages stay unknown and their conflicts are not found (`make_release` without
  `marred = {}` in `TablesComplete`). An `index_pool` that overlaps with the import may lose either's
  entries.

## 11. Not modelled

Within the modelled parts:

- Berkeley DB: a table is one page, read whole when opened and written whole when closed; no
  eviction of pages, no torn tables, no recovery. A machine that loses unsynced files is not
  modelled, a killed process is.
- Release store: an alias keeps its last entry, not its history; the text of Packages and Release
  files is the set of packages it lists; one `make_release` of `MakeRelease` stands for the
  choice of a list, whose commit in all its steps is `ReleaseStore`.
- Release store: Sources files, which are written beside the Packages files in the same way; an
  exception in the middle of a package that is being indexed (`ParseError` of `Incoming`).
- Uploads: `file_pkg`, mail, and the final snapshot (it is the commit of `ReleaseStore`).
- Dependency search: the order of versions (which packages a versioned relation selects is
  part of the input; the order itself is `VersionOrder`), and messages.
- Parsing: characters within a line, the entries of source packages, paths in the pool; logging,
  which only writes text.
- tunbr: see section 5.

Parts of the system without a module:

- Cleaners (`distclean`, `pooldebclean`, `poolsourceclean`): Perl scripts that list a directory and
  unlink what no file names. They have no state and no protocol with the programs that write those
  directories; beside a commit or an upload they delete what is being published, by construction.
- Mirror and upload jobs: shell scripts around `debmirror` and `mv`. What they leave is
  decided by those programs.
- Privileged operations daemon: wrappers of libvirt behind D-Bus. Its state is that of libvirt,
  which is not in the repository, and `createNetwork` cannot succeed as written
  (`privops.py:172` passes an argument to a function that takes none), so that everything after it
  would be about a program other than this one.
- Test runner and image preparation: drive virtual machines, installers and downloads; nearly all
  they do is done by external programs.
- Hypervisors, VM descriptions, web server, addresses: generation of XML and thin wrappers.
- Continuous build: shell loops around checkouts, builds and remote commands.
- Packaging, proxy configuration, host recipes: static.

Their hazards are listed in `PROJECT.json` all the same.
