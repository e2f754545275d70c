--------------------------- MODULE DepSolverProps ---------------------------
(* Properties of the dependency search.                                    *)
EXTENDS DepSolver

Queues == Seq(SUBSET Packages)
Calls == [queue : Queues, base : SUBSET Packages, exclude : SUBSET Packages,
          left : SUBSET Packages]
Goals == Seq(Packages)

\* Every variable has its type, and there are calls exactly while a query is
\* being answered.
TypeOK ==
  /\ graph \in Graphs
  /\ unchecked \in SUBSET graph.checked
  /\ suspects \in SUBSET Suspects(graph)
  /\ pc \in {"next", "search", "depends", "report", "aborted"}
  /\ goal \in Goals
  /\ stack \in Seq(Calls)
  /\ stack # <<>> <=> pc \in {"search", "depends"}
  /\ new \in Queues
  /\ next \in Nat
  /\ result \in [known : BOOLEAN, packages : SUBSET Packages, timeout : BOOLEAN]
  /\ reports \in SUBSET Goals
  /\ late \in SUBSET Goals

\* What the search returns are packages of the release that can be installed
\* together with the query and the essential packages: all dependencies are
\* there, and no two conflict.
Sound ==
  pc = "report" /\ result.known =>
    Solution(graph, Query(graph, goal), result.packages)

\* If every dependency of the release names something, a search that was not
\* cut off returns None only when there is no solution.
Complete ==
  pc = "report" /\ ~ result.known /\ ~ result.timeout /\ NoDeadRelation(graph) =>
    ~ Solvable(graph, Query(graph, goal))

Installable(p) == Solvable(graph, Query(graph, <<p>>))
Together(pq) == Solvable(graph, Query(graph, pq))
Finished == pc = "next" /\ unchecked = {} /\ suspects = {}

\* If every dependency of the release names something, at the end of the check
\* every uninstallable package of the release and every implicit conflict has
\* been reported, and nothing else, up to the queries whose search the alarm cut
\* off.  A check that a late alarm ended before (pc = "aborted") has left queries
\* unanswered, and nothing is said of it.
ReportsExact ==
  Finished /\ NoDeadRelation(graph) =>
    /\ \A p \in graph.checked :
         /\ ~ Installable(p) => <<p>> \in reports
         /\ <<p>> \in reports \ late => ~ Installable(p)
    /\ \A pq \in Suspects(graph) :
         /\ pq \in reports => Together(pq)
         /\ Together(pq) /\ pq \notin late => pq \in reports

\* No search goes on for ever, even without the alarm: the check of a release
\* comes to its end, or to the one that a late alarm makes of it.
Ends == <>[](Finished \/ pc = "aborted")

\* verifier_utils.py:248: "The function returns None if it cannot find any such
\* solution."
NoneMeansNoSolution ==
  pc = "report" /\ ~ result.known /\ ~ result.timeout =>
    ~ Solvable(graph, Query(graph, goal))
=============================================================================
