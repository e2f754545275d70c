----------------------------- MODULE DepSolver -----------------------------
(***************************************************************************)
(* CheckDependency of src/repository/src/verifier_utils.py: every package  *)
(* of a release is checked to be installable, and every pair of packages   *)
(* that install the same file not to be, with the depth-first search of    *)
(* _DoComputeDependency.  Its recursion is a stack of frames, one for each *)
(* call that still has packages to try.                                    *)
(***************************************************************************)
EXTENDS Closure

VARIABLES graph,      \* the packages and their relations
          unchecked,  \* packages still to be checked
          suspects,   \* pairs still to be tried
          pc,
          goal,       \* the packages of the query that is being answered
          stack,      \* calls of _DoComputeDependency
          new,        \* the queue that is being built for the next call
          next,       \* how many dependencies it has
          result,     \* what _ComputeDependency returned
          reports,    \* uninstallable packages and conflicting pairs
          late        \* queries that were not solved "within time bound"

search == <<stack, new, next>>
work == <<unchecked, suspects>>
vars == <<graph, work, pc, goal, search, result, reports, late>>

NoResult == [known |-> FALSE, packages |-> {}, timeout |-> FALSE]
Found(S) == [known |-> TRUE, packages |-> S, timeout |-> FALSE]
TimedOut == [known |-> FALSE, packages |-> {}, timeout |-> TRUE]

Least(S) == CHOOSE x \in S : \A y \in S : x <= y
FirstPair(S) ==
  LET p == Least({pq[1] : pq \in S})
  IN  <<p, Least({pq[2] : pq \in {x \in S : x[1] = p}})>>

\* A call: all packages of the head of the queue are still to be tried.
Frame(queue, base, exclude) ==
  [queue |-> queue, base |-> base, exclude |-> exclude,
   left |-> IF queue = <<>> THEN {} ELSE Head(queue)]

\* _essential + queue
Query(g, packages) ==
  [i \in 1 .. Len(g.essential) |-> {g.essential[i]}]
    \o [i \in 1 .. Len(packages) |-> {packages[i]}]

Top == stack[Len(stack)]
Replace(f) == [stack EXCEPT ![Len(stack)] = f]

Init ==
  /\ graph \in Graphs
  /\ unchecked = graph.checked
  /\ suspects = Suspects(graph)
  /\ pc = "next"
  /\ goal = <<>> /\ stack = <<>> /\ new = <<>> /\ next = 0
  /\ result = NoResult
  /\ reports = {} /\ late = {}

Ask(packages) ==
  /\ goal' = packages
  /\ stack' = <<Frame(Query(graph, packages), {}, {})>>
  /\ pc' = "search"
  /\ UNCHANGED <<graph, new, next, result, reports, late>>

CheckPackage ==
  /\ pc = "next"
  /\ unchecked # {}
  /\ Ask(<<Least(unchecked)>>)
  /\ unchecked' = unchecked \ {Least(unchecked)}
  /\ UNCHANGED suspects

\* Mutant of CheckPair: the pairs are kept by their first package.
CheckPairByFirst ==
  /\ pc = "next"
  /\ unchecked = {} /\ suspects # {}
  /\ Ask(FirstPair(suspects))
  /\ suspects' = {pq \in suspects : pq[1] # FirstPair(suspects)[1]}
  /\ UNCHANGED unchecked

CheckPair ==
  /\ pc = "next"
  /\ unchecked = {} /\ suspects # {}
  /\ Ask(FirstPair(suspects))
  /\ suspects' = suspects \ {FirstPair(suspects)}
  /\ UNCHANGED unchecked

-----------------------------------------------------------------------------
(* _DoComputeDependency                                                    *)

Return(r) ==
  /\ pc' = "report"
  /\ result' = r
  /\ stack' = <<>> /\ new' = <<>> /\ next' = 0
  /\ UNCHANGED <<graph, work, goal, reports>>

\* Mutant of Fail: every caller returns the first None.
FailAll == Return(NoResult) /\ UNCHANGED late

\* A call that returns None: the caller tries its next package.
Fail ==
  \/ Len(stack) = 1 /\ Return(NoResult) /\ UNCHANGED late
  \/ /\ Len(stack) > 1
     /\ stack' = SubSeq(stack, 1, Len(stack) - 1)
     /\ pc' = "search" /\ new' = <<>> /\ next' = 0
     /\ UNCHANGED <<graph, work, goal, result, reports, late>>

\* The queue is empty: every caller returns the base.
Solved ==
  /\ pc = "search"
  /\ Top.queue = <<>>
  /\ Return(Found(Top.base))
  /\ UNCHANGED late

Included == Top.queue # <<>> /\ Head(Top.queue) \cap Top.base # {}

\* Mutant of SkipHead: the head is put at the end of the queue.
SkipHeadLater ==
  /\ pc = "search"
  /\ Included
  /\ stack' = Replace(Frame(Append(Tail(Top.queue), Head(Top.queue)),
                            Top.base, Top.exclude))
  /\ UNCHANGED <<graph, work, pc, goal, new, next, result, reports, late>>

\* A package of the head is in the base already.
SkipHead ==
  /\ pc = "search"
  /\ Included
  /\ stack' = Replace(Frame(Tail(Top.queue), Top.base, Top.exclude))
  /\ UNCHANGED <<graph, work, pc, goal, new, next, result, reports, late>>

Trying == pc = "search" /\ Top.queue # <<>> /\ ~ Included
Candidate == Least(Top.left)

\* Mutant of Rejected: only the conflicts the base declares count.
RejectedByBase == Candidate \in Top.exclude

\* The base declares a conflict with the candidate, or the other way round.
Rejected ==
  \/ Candidate \in Top.exclude
  \/ Conflicted(graph, Candidate) \cap Top.base # {}

SkipCandidate ==
  /\ Trying /\ Top.left # {}
  /\ Rejected
  /\ stack' = Replace([Top EXCEPT !.left = @ \ {Candidate}])
  /\ UNCHANGED <<graph, work, pc, goal, new, next, result, reports, late>>

TryCandidate ==
  /\ Trying /\ Top.left # {}
  /\ ~ Rejected
  /\ pc' = "depends" /\ next' = 0
  /\ new' = Tail(Top.queue)
  /\ UNCHANGED <<graph, work, goal, stack, result, reports, late>>

\* No package of the head is left: return None.
Exhausted ==
  /\ Trying /\ Top.left = {}
  /\ Fail

Dependencies == graph.depends[Candidate]
Choices == Select(graph, Dependencies[next + 1], FALSE)
OneChoice == \E p \in Choices : Choices = {p}

\* A dependency with one choice is put in front, another one at the end.
AddDependency ==
  /\ pc = "depends"
  /\ next < Len(Dependencies)
  /\ Choices # {}
  /\ \/ OneChoice /\ new' = <<Choices>> \o new
     \/ ~ OneChoice /\ new' = Append(new, Choices)
  /\ next' = next + 1
  /\ UNCHANGED <<graph, work, pc, goal, stack, result, reports, late>>

\* Nothing satisfies a dependency: the whole call returns None, with it the
\* alternatives to the candidate.
DeadEnd ==
  /\ pc = "depends"
  /\ next < Len(Dependencies)
  /\ Choices = {}
  /\ Fail

\* The call for the rest of the queue with the candidate in the base.
Descend ==
  /\ pc = "depends"
  /\ next = Len(Dependencies)
  /\ stack' = Append(Replace([Top EXCEPT !.left = @ \ {Candidate}]),
                     Frame(new, Top.base \cup {Candidate},
                           Top.exclude \cup Conflicted(graph, Candidate)))
  /\ pc' = "search" /\ new' = <<>> /\ next' = 0
  /\ UNCHANGED <<graph, work, goal, result, reports, late>>

\* Five seconds are over: MemoryError, and _ComputeDependency returns None.
CutOff ==
  /\ pc \in {"search", "depends"}
  /\ Return(TimedOut)
  /\ late' = late \cup {goal}

-----------------------------------------------------------------------------
\* The alarm rings between the return and alarm(0): nothing catches that
\* MemoryError, and the remaining checks are not made.
LateAlarm ==
  /\ pc = "report" /\ ~ result.timeout
  /\ pc' = "aborted"
  /\ UNCHANGED <<graph, work, goal, search, result, reports, late>>

\* A package that cannot be installed, or a pair that can.
Wrong == IF Len(goal) = 1 THEN ~ result.known ELSE result.known

Report ==
  /\ pc = "report"
  /\ reports' = reports \cup (IF Wrong THEN {goal} ELSE {})
  /\ pc' = "next" /\ goal' = <<>> /\ result' = NoResult
  /\ UNCHANGED <<graph, work, search, late>>

Next ==
  \/ CheckPackage \/ CheckPair
  \/ Solved \/ SkipHead \/ SkipCandidate \/ TryCandidate \/ Exhausted
  \/ AddDependency \/ DeadEnd \/ Descend \/ CutOff
  \/ LateAlarm \/ Report

\* The verifier is one process that runs until it has checked everything.
\* Nothing obliges the alarm to ring: CutOff and LateAlarm may be never taken.
Spec == Init /\ [][Next]_vars /\ WF_vars(Next)
=============================================================================
