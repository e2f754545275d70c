-------------------------- MODULE MakeReleaseProps --------------------------
(***************************************************************************)
(* Properties of version selection and of what make_release verifies.      *)
(***************************************************************************)
EXTENDS MakeRelease

\* The types of the tables and of what the command holds.
TypeOK ==
  /\ pool \subseteq NVA /\ pkg_info \subseteq NVA /\ pkg_deps \subseteq NVA
  /\ file_pkg \in [Paths -> Seq(NVA)]
  /\ releases \in Seq(SUBSET NVA)
  /\ aliases \in [AliasNames -> 0 .. MaxRelease]
  /\ bases \subseteq Repository /\ remote \subseteq Repository
  /\ options \in Options
  /\ pc \in {"idle", "gather", "retrieve", "collect", "select",
             "list", "diff", "commit", "verify", "open", "import", "merged", "interrupted", "done"}
  /\ packages \subseteq NVA /\ versions \subseteq NVA
  /\ selected \subseteq NVA /\ base \subseteq NVA
  /\ plan \in [Architectures -> [check : SUBSET NVA, below : SUBSET NVA]]
  /\ known \subseteq NVA
  /\ index \in [pool : SUBSET NVA, pkg_info : SUBSET NVA, pkg_deps : SUBSET NVA,
                file_pkg : [Paths -> Seq(NVA)]]
  /\ import \in [from : SUBSET Repository, pkg_deps : SUBSET NVA, file_pkg : [Paths -> Seq(NVA)]]
  /\ unsaved \subseteq IndexTables /\ unmerged \subseteq ImportTables
  /\ marred \subseteq {"overlap", "cut"}

\* The versions are chosen.
Importing == pc \in {"open", "import", "merged", "interrupted"}
Settled == pc \in {"list", "diff", "commit", "verify", "done"} \/ Importing

\* Not above the version that some source of the release asks for.
Requested(x) == \E y \in packages : Key(y) = Key(x) /\ AtMost(x[2], y[2])

\* "debmarshal only downgrades packages and not upgrade them", to versions
\* that the specification file lets through and that a commit finds indexed.
NeverUpgrades ==
  Settled => \A x \in selected : x \in pkg_info /\ Requested(x) /\ Allowed(x)

\* No other version of a package of the release is asked for, allowed and
\* later, among all that were indexed when the command was started; and no
\* package is there in two versions.
NewestAllowed ==
  Settled => \A x \in selected, y \in known \cup selected :
    /\ Key(y) = Key(x) /\ Requested(y) /\ Allowed(y) => AtMost(y[2], x[2])
    /\ Key(y) = Key(x) /\ y \in selected => y = x

\* A package of which a version was indexed, asked for and allowed is in the
\* release, although the tables have been read one after another.
NothingMissed ==
  Settled => \A y \in known :
    Requested(y) /\ Allowed(y) => \E x \in selected : Key(x) = Key(y)

Planned(a) == plan[a].check \cup plan[a].below

\* What is verified can be installed together: one version of each package,
\* and each package of the release unless an underlying one supersedes it.
VerifiedTogether ==
  pc = "done" /\ options.command = "verify" =>
    \A a \in Architectures :
      /\ plan[a].check \subseteq selected
      /\ \A x, y \in Planned(a) : Key(x) = Key(y) => x = y
      /\ \A x \in selected \cup base : x[3] \in {a, all} =>
           \E y \in Planned(a) :
             /\ Key(y) = Key(x) /\ AtMost(x[2], y[2])
             /\ y \in plan[a].check <=> y \in selected

\* The dependencies of every underlying package are known: an import that has
\* failed, or was cut off before all of them came in, is made again.
UnderlyingKnown ==
  "overlap" \notin marred => \A a \in Architectures : plan[a].below \subseteq pkg_deps

\* Between two writers, when none has been cut off, the dependencies of the
\* packages to be checked are known as well, and the table of files names
\* every package that has one, also those of other repositories: the verifier
\* finds all packages that install the same file.
TablesComplete ==
  marred = {} /\ unsaved = {} /\ unmerged = {} =>
    /\ \A a \in Architectures : plan[a].check \subseteq pkg_deps
    /\ Owned(pkg_deps, file_pkg)

\* What the verifier reads of the tables, however often this repository was
\* indexed and others were imported, as long as no two writers overlapped.
TablesSuffice == UnderlyingKnown /\ TablesComplete
=============================================================================
