------------------------------ MODULE Closure ------------------------------
(***************************************************************************)
(* What the dependency verifier computes about a release, without saying   *)
(* how: which packages a relation selects, which sets of packages can be   *)
(* installed together, and which pairs of packages conflict implicitly     *)
(* (src/repository/src/verifier_utils.py, docs/closure.hs).                *)
(*                                                                         *)
(* A graph g is what _BuildDependencyGraph makes of the pkg_deps table for *)
(* the packages that are not of a debian-installer component.  A relation  *)
(* is a set of alternatives; each names an actual or virtual package, and  *)
(* if it is versioned also the packages whose version satisfies it.        *)
(***************************************************************************)
EXTENDS Naturals, Sequences

CONSTANTS Packages,  \* numbers, in the order of name_version_arch
          Names, Graphs

ASSUME PackagesAssumption == Packages \in SUBSET Nat

Alternatives == [name : Names, versioned : BOOLEAN, versions : SUBSET Packages]
Relations == SUBSET Alternatives

Graph ==
  [packages : SUBSET Packages,           \* the release and what underlies it
   checked : SUBSET Packages,            \* the packages of the release
   essential : Seq(Packages),
   name : [Packages -> Names],
   provides : [Packages -> SUBSET Names],
   depends : [Packages -> Seq(Relations)],
   conflicts : [Packages -> Relations],  \* a list of relations taken as one
   replaces : [Packages -> Relations],
   paths : SUBSET (SUBSET Packages)]     \* the packages that install a file

ASSUME GraphsAssumption ==
  /\ Graphs \subseteq Graph
  /\ \A g \in Graphs :
       /\ g.checked \subseteq g.packages
       /\ \A i \in DOMAIN g.essential : g.essential[i] \in g.packages

\* The entries _depi[name]: actual and virtual names.
Named(g, name) ==
  {p \in g.packages : name = g.name[p] \/ name \in g.provides[p]}

\* A version, and strictness, restrict the match to actual names.
Matches(g, p, alt, strict) ==
  /\ p \in Named(g, alt.name)
  /\ alt.versioned \/ strict => g.name[p] = alt.name
  /\ alt.versioned => p \in alt.versions

Select(g, relation, strict) ==
  {p \in g.packages : \E alt \in relation : Matches(g, p, alt, strict)}

\* The packages that p declares to be in conflict with.
Conflicted(g, p) == Select(g, g.conflicts[p], FALSE)

-----------------------------------------------------------------------------
\* A set of packages with everything they depend on.
Closed(g, S) ==
  \A p \in S : \A i \in DOMAIN g.depends[p] :
    Select(g, g.depends[p][i], FALSE) \cap S # {}

\* A package may conflict with what it provides itself (Policy 7.3).
Compatible(g, S) == \A p, q \in S : q \in Conflicted(g, p) => q = p

\* S answers a query, a sequence of sets of alternative packages.
Solution(g, query, S) ==
  /\ S \subseteq g.packages
  /\ \A i \in DOMAIN query : query[i] \cap S # {}
  /\ Closed(g, S)
  /\ Compatible(g, S)

Solvable(g, query) == \E S \in SUBSET g.packages : Solution(g, query, S)

\* Every relation somebody depends on selects something.
NoDeadRelation(g) ==
  \A p \in g.packages : \A i \in DOMAIN g.depends[p] :
    Select(g, g.depends[p][i], FALSE) # {}

\* Neither p nor q declares the other in Replaces or in Conflicts.
Undeclared(g, p, q) ==
  /\ q \notin Select(g, g.replaces[p], TRUE)
  /\ p \notin Select(g, g.replaces[q], TRUE)
  /\ q \notin Conflicted(g, p)
  /\ p \notin Conflicted(g, q)

\* _BuildConflictList: the pairs to try.
Suspects(g) ==
  {pq \in g.packages \X g.packages :
     /\ pq[1] < pq[2]
     /\ pq[1] \in g.checked \/ pq[2] \in g.checked
     /\ \E sharing \in g.paths : pq[1] \in sharing /\ pq[2] \in sharing
     /\ Undeclared(g, pq[1], pq[2])}
=============================================================================
