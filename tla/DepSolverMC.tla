---------------------------- MODULE DepSolverMC ----------------------------
(***************************************************************************)
(* Releases of up to four packages a, b, c and d, of which b and c provide *)
(* the virtual package v, with every combination of a few dependencies,    *)
(* conflicts, essential packages and shared files.                         *)
(***************************************************************************)
EXTENDS DepSolverProps, TLC

CONSTANTS a, b, c, d, v, e

MCPackages == 1 .. 4
Unversioned(n) == [name |-> n, versioned |-> FALSE, versions |-> {}]
Versioned(n, S) == [name |-> n, versioned |-> TRUE, versions |-> S]
Family(A, B, C, D) ==
  {1 :> x[1] @@ 2 :> x[2] @@ 3 :> x[3] @@ 4 :> x[4] : x \in A \X B \X C \X D}

Depends == Family(
  {<<{Unversioned(b), Unversioned(c)}>>,
   <<{Unversioned(v)}, {Versioned(d, {4})}>>},
  {<<>>, <<{Unversioned(d)}, {Unversioned(a)}>>},
  {<<>>, <<{Unversioned(b), Unversioned(d)}, {Unversioned(v)}>>},
  {<<>>, <<{Unversioned(c)}>>})
\* With dependencies that nothing satisfies: no package e, no such version of d.
Dead == Family(
  {<<{Unversioned(b), Unversioned(c)}>>,
   <<{Unversioned(v)}, {Versioned(d, {4})}>>},
  {<<>>, <<{Unversioned(d)}, {Unversioned(e)}>>},
  {<<>>, <<{Versioned(d, {})}>>},
  {<<>>})
Conflicts == Family(
  {{}}, {{}, {Unversioned(v)}, {Unversioned(d)}},
  {{}, {Unversioned(a)}}, {{}, {Unversioned(b)}})
Replaces == {<<{}, {}, {}, {}>>, <<{Unversioned(d)}, {}, {Unversioned(v)}, {}>>}
Essential == {<<>>, <<4, 3>>}
Paths == {{{1, 2}, {1, 4}}, {{2, 3}}}

\* The underlying release has d, or nothing.
Releases(depends) ==
  [packages : {1 .. 4}, checked : {{1, 2, 3}},
   essential : Essential, name : {<<a, b, c, d>>},
   provides : {<<{}, {v}, {v}, {}>>},
   depends : depends, conflicts : Conflicts, replaces : Replaces, paths : Paths]
MCGraphs == Releases(Depends) \cup Releases(Dead)
DeadGraphs == Releases(Dead)
=============================================================================
