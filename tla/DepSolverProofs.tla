-------------------------- MODULE DepSolverProofs --------------------------
(***************************************************************************)
(* The dependency search is sound for every release: a set of packages it  *)
(* returns can be installed together with the essential packages.  It is   *)
(* complete for every release without a relation that nothing satisfies.   *)
(***************************************************************************)
EXTENDS DepSolverProps, NumberLemmas, SequenceTheorems

(***************************************************************************)
(* The order in which packages and pairs are taken.                        *)
(***************************************************************************)

\* A non-empty set of packages has the member that Least names.
LEMMA LeastIsMember ==
  ASSUME NEW S \in SUBSET Packages, S # {}
  PROVE  Least(S) \in S
<1>1. PICK x \in S : \A y \in S : x <= y
  BY NumbersHaveMinimum, PackagesAssumption
<1>2. QED BY <1>1 DEF Least

\* So has a set of pairs, by the first component and then the second.
LEMMA FirstPairIsMember ==
  ASSUME NEW S \in SUBSET (Packages \X Packages), S # {}
  PROVE  FirstPair(S) \in S
<1> DEFINE firsts == {pq[1] : pq \in S}
           p == Least(firsts)
           seconds == {pq[2] : pq \in {x \in S : x[1] = p}}
<1>1. firsts \in SUBSET Packages /\ firsts # {}
  OBVIOUS
<1>2. p \in firsts
  BY <1>1, LeastIsMember
<1>3. seconds \in SUBSET Packages /\ seconds # {}
  BY <1>2
<1>4. Least(seconds) \in seconds
  BY <1>3, LeastIsMember
<1>5. \A q \in seconds : <<p, q>> \in S
  OBVIOUS
<1>6. FirstPair(S) = <<p, Least(seconds)>>
  BY DEF FirstPair
<1> HIDE DEF seconds, p
<1>7. QED BY <1>4, <1>5, <1>6

(***************************************************************************)
(* The queue of a query.                                                   *)
(***************************************************************************)

\* A query is a sequence of sets of packages of its graph.
LEMMA QueryType ==
  ASSUME NEW g \in Graphs, NEW packages \in Seq(g.packages)
  PROVE  Query(g, packages) \in Seq(SUBSET g.packages)
<1>1. /\ g.essential \in Seq(Packages)
      /\ \A i \in DOMAIN g.essential : g.essential[i] \in g.packages
  BY GraphsAssumption DEF Graph
<1>2. [i \in 1 .. Len(g.essential) |-> {g.essential[i]}] \in Seq(SUBSET g.packages)
  <2>1. Len(g.essential) \in Nat /\ DOMAIN g.essential = 1 .. Len(g.essential)
    BY <1>1
  <2>2. \A i \in 1 .. Len(g.essential) : {g.essential[i]} \in SUBSET g.packages
    BY <1>1, <2>1
  <2>3. QED BY <2>1, <2>2, IsASeq
<1>3. [i \in 1 .. Len(packages) |-> {packages[i]}] \in Seq(SUBSET g.packages)
  <2>1. Len(packages) \in Nat
    OBVIOUS
  <2>2. \A i \in 1 .. Len(packages) : {packages[i]} \in SUBSET g.packages
    OBVIOUS
  <2>3. QED BY <2>1, <2>2, IsASeq
<1>4. QED BY <1>2, <1>3, ConcatProperties DEF Query

\* A relation selects packages of the graph.
LEMMA SelectType ==
  ASSUME NEW g, NEW relation, NEW strict
  PROVE  Select(g, relation, strict) \in SUBSET g.packages
BY DEF Select

(***************************************************************************)
(* What one call of _DoComputeDependency keeps: its base has no conflicts, *)
(* excludes what it conflicts with, and has or has queued an alternative   *)
(* for the query and for every dependency of the base.                     *)
(***************************************************************************)
Queued(alternatives, queue) ==
  \E k \in DOMAIN queue : queue[k] = alternatives
Answered(alternatives, base, queue) ==
  alternatives \cap base # {} \/ Queued(alternatives, queue)

CallInv(g, query, f) ==
  /\ f.queue \in Seq(SUBSET g.packages)
  /\ f.base \in SUBSET g.packages
  /\ f.exclude \in SUBSET g.packages
  /\ f.left \in SUBSET g.packages
  /\ f.queue = <<>> => f.left = {}
  /\ f.queue # <<>> => f.left \subseteq Head(f.queue)
  /\ Compatible(g, f.base)
  /\ \A p \in f.base : Conflicted(g, p) \subseteq f.exclude
  /\ \A i \in DOMAIN query : Answered(query[i], f.base, f.queue)
  /\ \A p \in f.base : \A i \in DOMAIN g.depends[p] :
       Answered(Select(g, g.depends[p][i], FALSE), f.base, f.queue)

BuildInv ==
  /\ Top.queue # <<>> /\ Top.left # {}
  /\ ~ Rejected
  /\ next \in 0 .. Len(Dependencies)
  /\ new \in Seq(SUBSET graph.packages)
  /\ \A j \in DOMAIN Tail(Top.queue) : Queued(Tail(Top.queue)[j], new)
  /\ \A i \in 1 .. next : Queued(Select(graph, Dependencies[i], FALSE), new)

SearchInv ==
  /\ TypeOK
  /\ goal \in Seq(graph.packages)
  /\ \A k \in DOMAIN stack : CallInv(graph, Query(graph, goal), stack[k])
  /\ pc = "depends" => BuildInv
  /\ Sound

\* A call that starts keeps it.
LEMMA FrameKeepsInv ==
  ASSUME NEW g \in Graphs, NEW query, NEW queue \in Seq(SUBSET g.packages),
         NEW base \in SUBSET g.packages, NEW exclude \in SUBSET g.packages,
         Compatible(g, base),
         \A p \in base : Conflicted(g, p) \subseteq exclude,
         \A i \in DOMAIN query : Answered(query[i], base, queue),
         \A p \in base : \A i \in DOMAIN g.depends[p] :
           Answered(Select(g, g.depends[p][i], FALSE), base, queue)
  PROVE  CallInv(g, query, Frame(queue, base, exclude))
<1> DEFINE left == IF queue = <<>> THEN {} ELSE Head(queue)
           f == Frame(queue, base, exclude)
<1>1. left \in SUBSET g.packages
  <2>1. queue # <<>> => Head(queue) \in SUBSET g.packages
    BY HeadTailProperties
  <2>2. QED BY <2>1
<1>2. f.queue = queue /\ f.base = base /\ f.exclude = exclude /\ f.left = left
  BY DEF Frame
<1>3. (queue = <<>> => left = {}) /\ (queue # <<>> => left \subseteq Head(queue))
  OBVIOUS
<1> HIDE DEF left, f
<1>4. QED BY <1>1, <1>2, <1>3 DEF CallInv, f

\* The head has an answer in the base: the tail is enough.
LEMMA SkipHeadKeepsInv ==
  ASSUME NEW g \in Graphs, NEW query, NEW f, CallInv(g, query, f),
         f.queue # <<>>, Head(f.queue) \cap f.base # {}
  PROVE  CallInv(g, query, Frame(Tail(f.queue), f.base, f.exclude))
<1>1. /\ f.queue \in Seq(SUBSET g.packages)
      /\ f.base \in SUBSET g.packages /\ f.exclude \in SUBSET g.packages
  BY DEF CallInv
<1>2. ASSUME NEW alternatives, Answered(alternatives, f.base, f.queue)
      PROVE  Answered(alternatives, f.base, Tail(f.queue))
  <2>1. CASE alternatives \cap f.base # {}
    BY <2>1 DEF Answered
  <2>2. CASE Queued(alternatives, f.queue)
    <3>1. PICK k \in DOMAIN f.queue : f.queue[k] = alternatives
      BY <2>2 DEF Queued
    <3>2. CASE k = 1
      BY <3>1, <3>2, <1>1 DEF Answered
    <3>3. CASE k # 1
      <4>1. k - 1 \in DOMAIN Tail(f.queue) /\ Tail(f.queue)[k - 1] = f.queue[k]
        BY <1>1, <3>3, HeadTailProperties
      <4>2. QED BY <3>1, <4>1 DEF Answered, Queued
    <3>4. QED BY <3>2, <3>3
  <2>3. QED BY <1>2, <2>1, <2>2 DEF Answered
<1>3. Tail(f.queue) \in Seq(SUBSET g.packages)
  BY <1>1, HeadTailProperties
<1>4. QED BY <1>1, <1>2, <1>3, FrameKeepsInv DEF CallInv

\* The tail, the dependencies of the candidate and the candidate itself answer
\* what the call was to answer.
LEMMA DescendKeepsInv ==
  ASSUME NEW g \in Graphs, NEW query, NEW f, CallInv(g, query, f),
         f.queue # <<>>, NEW c \in f.left, c \notin f.exclude,
         Conflicted(g, c) \cap f.base = {},
         NEW queue \in Seq(SUBSET g.packages),
         \A j \in DOMAIN Tail(f.queue) : Queued(Tail(f.queue)[j], queue),
         \A i \in DOMAIN g.depends[c] :
           Queued(Select(g, g.depends[c][i], FALSE), queue)
  PROVE  CallInv(g, query, Frame(queue, f.base \cup {c},
                                 f.exclude \cup Conflicted(g, c)))
<1> DEFINE base == f.base \cup {c}
           exclude == f.exclude \cup Conflicted(g, c)
<1>1. /\ f.queue \in Seq(SUBSET g.packages)
      /\ f.base \in SUBSET g.packages /\ f.exclude \in SUBSET g.packages
      /\ c \in g.packages /\ c \in Head(f.queue)
  BY DEF CallInv
<1>2. base \in SUBSET g.packages /\ exclude \in SUBSET g.packages
  BY <1>1, SelectType DEF Conflicted
<1>3. Compatible(g, base)
  <2>1. SUFFICES ASSUME NEW p \in base, NEW q \in base, q \in Conflicted(g, p)
                 PROVE  q = p
    BY DEF Compatible
  <2>2. CASE p \in f.base /\ q \in f.base
    BY <2>1, <2>2 DEF CallInv, Compatible
  <2>3. CASE p \in f.base /\ q = c
    BY <2>1, <2>3 DEF CallInv
  <2>4. CASE p = c /\ q \in f.base
    BY <2>1, <2>4
  <2>5. QED BY <2>2, <2>3, <2>4
<1>4. \A p \in base : Conflicted(g, p) \subseteq exclude
  BY DEF CallInv
<1>5. ASSUME NEW alternatives, Answered(alternatives, f.base, f.queue)
      PROVE  Answered(alternatives, base, queue)
  <2>1. CASE alternatives \cap f.base # {}
    BY <2>1 DEF Answered
  <2>2. CASE Queued(alternatives, f.queue)
    <3>1. PICK k \in DOMAIN f.queue : f.queue[k] = alternatives
      BY <2>2 DEF Queued
    <3>2. CASE k = 1
      BY <3>1, <3>2, <1>1 DEF Answered
    <3>3. CASE k # 1
      <4>1. k - 1 \in DOMAIN Tail(f.queue) /\ Tail(f.queue)[k - 1] = f.queue[k]
        BY <1>1, <3>3, HeadTailProperties
      <4>2. QED BY <3>1, <4>1 DEF Answered
    <3>4. QED BY <3>2, <3>3
  <2>3. QED BY <1>5, <2>1, <2>2 DEF Answered
<1>6. \A i \in DOMAIN query : Answered(query[i], base, queue)
  BY <1>5 DEF CallInv
<1>7. ASSUME NEW p \in base, NEW i \in DOMAIN g.depends[p]
      PROVE  Answered(Select(g, g.depends[p][i], FALSE), base, queue)
  <2>1. CASE p \in f.base
    BY <1>5, <2>1 DEF CallInv
  <2>2. CASE p = c
    BY <2>2 DEF Answered
  <2>3. QED BY <2>1, <2>2
<1> HIDE DEF base, exclude
<1>8. CallInv(g, query, Frame(queue, base, exclude))
  BY <1>2, <1>3, <1>4, <1>6, <1>7, FrameKeepsInv
<1>9. QED BY <1>8 DEF base, exclude

\* An empty queue leaves nothing to answer: the base is a solution.
LEMMA EmptyQueueIsSolution ==
  ASSUME NEW g \in Graphs, NEW query, NEW f, CallInv(g, query, f),
         f.queue = <<>>
  PROVE  Solution(g, query, f.base)
<1>1. ASSUME NEW alternatives, Answered(alternatives, f.base, f.queue)
      PROVE  alternatives \cap f.base # {}
  BY <1>1 DEF Answered, Queued
<1>2. Closed(g, f.base)
  BY <1>1 DEF Closed, CallInv
<1>3. QED BY <1>1, <1>2 DEF Solution, CallInv

\* A call whose candidates become fewer keeps it.
LEMMA FewerCandidatesKeepInv ==
  ASSUME NEW g \in Graphs, NEW query, NEW f \in Calls, CallInv(g, query, f), NEW c
  PROVE  CallInv(g, query, [f EXCEPT !.left = @ \ {c}])
<1> DEFINE h == [f EXCEPT !.left = @ \ {c}]
<1>1. /\ h.queue = f.queue /\ h.base = f.base /\ h.exclude = f.exclude
      /\ h.left = f.left \ {c}
  BY DEF Calls
<1> HIDE DEF h
<1>2. CallInv(g, query, h)
  BY <1>1 DEF CallInv
<1>3. QED BY <1>2 DEF h

(***************************************************************************)
(* Steps keep the types.                                                   *)
(***************************************************************************)

\* What the assumption about graphs says of one of them.
LEMMA GraphFacts ==
  ASSUME NEW g \in Graphs
  PROVE  /\ g.packages \in SUBSET Packages
         /\ g.checked \in SUBSET g.packages
         /\ Suspects(g) \in SUBSET (g.packages \X g.packages)
         /\ \A p \in Packages : g.depends[p] \in Seq(Relations)
         /\ Seq(g.packages) \subseteq Goals
         /\ Seq(SUBSET g.packages) \subseteq Queues
<1>1. /\ g.packages \in SUBSET Packages
      /\ g.checked \in SUBSET g.packages
      /\ \A p \in Packages : g.depends[p] \in Seq(Relations)
  BY GraphsAssumption DEF Graph
<1>2. Suspects(g) \in SUBSET (g.packages \X g.packages)
  BY DEF Suspects
<1>3. SUBSET g.packages \subseteq SUBSET Packages
  BY <1>1
<1>4. QED BY <1>1, <1>2, <1>3, SeqMonotonic DEF Goals, Queues

\* A new call is a call.
LEMMA FrameType ==
  ASSUME NEW g \in Graphs, NEW queue \in Seq(SUBSET g.packages),
         NEW base \in SUBSET g.packages, NEW exclude \in SUBSET g.packages
  PROVE  Frame(queue, base, exclude) \in Calls
<1>1. queue # <<>> => Head(queue) \in SUBSET g.packages
  BY HeadTailProperties
<1>2. /\ queue \in Queues /\ base \in SUBSET Packages /\ exclude \in SUBSET Packages
      /\ (IF queue = <<>> THEN {} ELSE Head(queue)) \in SUBSET Packages
  BY <1>1, GraphFacts
<1>3. QED BY <1>2 DEF Frame, Calls

\* While a query is being answered there is a call on top of the stack.
LEMMA TopFacts ==
  ASSUME SearchInv, pc \in {"search", "depends"}
  PROVE  /\ Len(stack) \in Nat \ {0} /\ Len(stack) \in DOMAIN stack
         /\ Top \in Calls
         /\ CallInv(graph, Query(graph, goal), Top)
<1>1. stack \in Seq(Calls) /\ stack # <<>>
  BY DEF SearchInv, TypeOK
<1>2. Len(stack) \in Nat \ {0} /\ Len(stack) \in DOMAIN stack
  BY <1>1, LenProperties, EmptySeq
<1>3. QED BY <1>1, <1>2, ElementOfSeq DEF SearchInv, Top

\* A return ends the query.
LEMMA ReturnKeepsInv ==
  ASSUME SearchInv, NEW r, Return(r),
         r \in [known : BOOLEAN, packages : SUBSET Packages, timeout : BOOLEAN],
         late' \in SUBSET Goals,
         r.known => Solution(graph, Query(graph, goal), r.packages)
  PROVE  SearchInv'
<1> USE DEF Return, work
<1>1. TypeOK'
  <2>1. stack' \in Seq(Calls) /\ new' \in Queues /\ next' \in Nat
    BY EmptySeq DEF Queues
  <2>2. QED BY <2>1 DEF SearchInv, TypeOK
<1>2. \A k \in DOMAIN stack' : CallInv(graph', Query(graph', goal'), stack'[k])
  BY EmptySeq
<1>3. Sound'
  BY DEF Sound
<1>4. QED BY <1>1, <1>2, <1>3 DEF SearchInv

\* A call that fails leaves the invariant to its caller.
LEMMA FailKeepsInv ==
  ASSUME SearchInv, pc \in {"search", "depends"}, Fail
  PROVE  SearchInv'
<1>1. CASE Return(NoResult) /\ UNCHANGED late
  BY <1>1, ReturnKeepsInv DEF NoResult, SearchInv, TypeOK
<1>2. CASE /\ Len(stack) > 1
           /\ stack' = SubSeq(stack, 1, Len(stack) - 1)
           /\ pc' = "search" /\ new' = <<>> /\ next' = 0
           /\ UNCHANGED <<graph, work, goal, result, reports, late>>
  <2> USE DEF work
  <2>1. stack \in Seq(Calls)
    BY DEF SearchInv, TypeOK
  <2>2. /\ stack' \in Seq(Calls) /\ stack' # <<>>
        /\ \A k \in DOMAIN stack' : k \in DOMAIN stack /\ stack'[k] = stack[k]
    <3>1. Len(stack) \in Nat /\ DOMAIN stack = 1 .. Len(stack)
      BY <2>1
    <3>2. /\ stack' \in Seq(Calls)
          /\ Len(stack') = Len(stack) - 1
          /\ \A k \in 1 .. Len(stack) - 1 : stack'[k] = stack[k]
      BY <1>2, <2>1, <3>1
    <3>3. DOMAIN stack' = 1 .. Len(stack) - 1
      BY <3>2
    <3>4. stack' # <<>>
      <4>1. Len(stack') > 0
        BY <1>2, <3>1, <3>2
      <4>2. QED BY <4>1
    <3>5. QED BY <3>1, <3>2, <3>3, <3>4
  <2>3. TypeOK'
    BY <1>2, <2>2 DEF SearchInv, TypeOK, Queues
  <2>4. \A k \in DOMAIN stack' : CallInv(graph', Query(graph', goal'), stack'[k])
    BY <1>2, <2>2 DEF SearchInv
  <2>5. QED BY <1>2, <2>3, <2>4 DEF SearchInv, Sound
<1>3. QED BY <1>1, <1>2 DEF Fail

\* A step that puts another call on top of the stack.
LEMMA ReplaceKeepsInv ==
  ASSUME SearchInv, pc = "search", NEW f \in Calls,
         CallInv(graph, Query(graph, goal), f),
         stack' = Replace(f),
         UNCHANGED <<graph, work, pc, goal, new, next, result, reports, late>>
  PROVE  SearchInv'
<1> USE DEF work
<1>1. stack \in Seq(Calls) /\ Len(stack) \in DOMAIN stack
  BY TopFacts DEF SearchInv, TypeOK
<1>2. /\ stack' \in Seq(Calls) /\ DOMAIN stack' = DOMAIN stack
      /\ stack'[Len(stack)] = f
      /\ \A k \in DOMAIN stack : k # Len(stack) => stack'[k] = stack[k]
  BY <1>1, ExceptSeq DEF Replace
<1>3. stack' # <<>>
  BY <1>1, <1>2
<1>4. TypeOK'
  BY <1>2, <1>3 DEF SearchInv, TypeOK
<1>5. \A k \in DOMAIN stack' : CallInv(graph', Query(graph', goal'), stack'[k])
  BY <1>2 DEF SearchInv
<1>6. QED BY <1>4, <1>5 DEF SearchInv, Sound

(***************************************************************************)
(* The steps.                                                              *)
(***************************************************************************)

\* A query that begins is its own queue.
LEMMA AskKeepsInv ==
  ASSUME SearchInv, NEW packages \in Seq(graph.packages), Ask(packages),
         unchecked' \in SUBSET unchecked, suspects' \in SUBSET suspects
  PROVE  SearchInv'
<1> USE DEF Ask
<1> DEFINE query == Query(graph, packages)
           f == Frame(query, {}, {})
<1>1. graph \in Graphs
  BY DEF SearchInv, TypeOK
<1>2. query \in Seq(SUBSET graph.packages)
  BY <1>1, QueryType
<1>3. f \in Calls
  BY <1>1, <1>2, FrameType
<1>4. CallInv(graph, query, f)
  <2>1. \A i \in DOMAIN query : Answered(query[i], {}, query)
    BY DEF Answered, Queued
  <2>2. Compatible(graph, {})
    BY DEF Compatible
  <2> HIDE DEF query
  <2>3. QED BY <1>1, <1>2, <2>1, <2>2, FrameKeepsInv
<1>5. stack' = <<f>> /\ goal' = packages
  OBVIOUS
<1> HIDE DEF f
<1>6. /\ stack' \in Seq(Calls) /\ stack' # <<>>
      /\ \A k \in DOMAIN stack' : stack'[k] = f
  BY <1>3, <1>5
<1>7. packages \in Goals
  BY <1>1, GraphFacts
<1>8. TypeOK'
  BY <1>6, <1>7 DEF SearchInv, TypeOK
<1>9. QED BY <1>4, <1>5, <1>6, <1>8 DEF SearchInv, Sound

\* Sequences of one and of two elements.
LEMMA ShortSequences ==
  ASSUME NEW S, NEW x \in S, NEW y \in S
  PROVE  <<x>> \in Seq(S) /\ <<x, y>> \in Seq(S)
OBVIOUS

\* A query that is put on an empty stack satisfies the invariant.
LEMMA CheckKeepsInv ==
  ASSUME SearchInv, CheckPackage \/ CheckPair
  PROVE  SearchInv'
<1>1. /\ graph \in Graphs
      /\ unchecked \in SUBSET graph.packages /\ unchecked \in SUBSET Packages
      /\ suspects \in SUBSET (graph.packages \X graph.packages)
      /\ suspects \in SUBSET (Packages \X Packages)
  BY GraphFacts DEF SearchInv, TypeOK
<1>2. CASE CheckPackage
  <2>1. Least(unchecked) \in graph.packages
    BY <1>1, <1>2, LeastIsMember DEF CheckPackage
  <2>2. <<Least(unchecked)>> \in Seq(graph.packages)
    BY <2>1, ShortSequences
  <2>3. QED BY <1>2, <2>2, AskKeepsInv DEF CheckPackage
<1>3. CASE CheckPair
  <2>1. FirstPair(suspects) \in graph.packages \X graph.packages
    BY <1>1, <1>3, FirstPairIsMember DEF CheckPair
  <2>2. FirstPair(suspects) \in Seq(graph.packages)
    <3>1. PICK p \in graph.packages, q \in graph.packages :
            FirstPair(suspects) = <<p, q>>
      BY <2>1
    <3>2. QED BY <3>1, ShortSequences
  <2>3. QED BY <1>3, <2>2, AskKeepsInv DEF CheckPair
<1>4. QED BY <1>2, <1>3

\* What is returned with an empty queue is a solution.
LEMMA SolvedKeepsInv ==
  ASSUME SearchInv, Solved
  PROVE  SearchInv'
<1>1. /\ graph \in Graphs
      /\ Top.queue = <<>> /\ CallInv(graph, Query(graph, goal), Top)
  BY TopFacts DEF Solved, SearchInv, TypeOK
<1>2. Solution(graph, Query(graph, goal), Top.base)
  BY <1>1, EmptyQueueIsSolution
<1>3. Top.base \in SUBSET Packages
  BY <1>1, GraphFacts DEF CallInv
<1>4. QED BY <1>2, <1>3, ReturnKeepsInv DEF Solved, Found, SearchInv, TypeOK

\* A head that is answered, or a candidate that conflicts, can be passed over.
LEMMA SkipKeepsInv ==
  ASSUME SearchInv, SkipHead \/ SkipCandidate
  PROVE  SearchInv'
<1>1. /\ graph \in Graphs
      /\ Top \in Calls /\ CallInv(graph, Query(graph, goal), Top)
  BY TopFacts DEF SkipHead, SkipCandidate, Trying, SearchInv, TypeOK
<1>2. CASE SkipHead
  <2> DEFINE f == Frame(Tail(Top.queue), Top.base, Top.exclude)
  <2>1. CallInv(graph, Query(graph, goal), f)
    BY <1>1, <1>2, SkipHeadKeepsInv DEF SkipHead, Included
  <2>2. f \in Calls
    <3>1. Tail(Top.queue) \in Seq(SUBSET graph.packages)
      BY <1>1, <1>2, HeadTailProperties DEF SkipHead, Included, CallInv
    <3>2. QED BY <1>1, <3>1, FrameType DEF CallInv
  <2>3. stack' = Replace(f)
    BY <1>2 DEF SkipHead
  <2> HIDE DEF f
  <2>4. QED BY <1>2, <2>1, <2>2, <2>3, ReplaceKeepsInv DEF SkipHead
<1>3. CASE SkipCandidate
  <2> DEFINE f == [Top EXCEPT !.left = @ \ {Candidate}]
  <2>1. CallInv(graph, Query(graph, goal), f)
    BY <1>1, FewerCandidatesKeepInv
  <2>2. f \in Calls
    BY <1>1 DEF Calls
  <2>3. stack' = Replace(f)
    BY <1>3 DEF SkipCandidate
  <2> HIDE DEF f
  <2>4. QED BY <1>3, <2>1, <2>2, <2>3, ReplaceKeepsInv DEF SkipCandidate, Trying
<1>4. QED BY <1>2, <1>3

\* The candidate is a package of the release with a list of dependencies.
LEMMA CandidateFacts ==
  ASSUME SearchInv, pc \in {"search", "depends"}, Top.left # {}
  PROVE  /\ Candidate \in Top.left /\ Candidate \in graph.packages
         /\ Dependencies \in Seq(Relations)
         /\ Len(Dependencies) \in Nat
         /\ DOMAIN Dependencies = 1 .. Len(Dependencies)
<1>1. /\ graph \in Graphs
      /\ CallInv(graph, Query(graph, goal), Top)
  BY TopFacts DEF SearchInv, TypeOK
<1>2. Top.left \in SUBSET graph.packages /\ Top.left \in SUBSET Packages
  BY <1>1, GraphFacts DEF CallInv
<1>3. Candidate \in Top.left /\ Candidate \in graph.packages /\ Candidate \in Packages
  BY <1>2, LeastIsMember DEF Candidate
<1>4. Dependencies \in Seq(Relations)
  BY <1>1, <1>3, GraphFacts DEF Dependencies
<1>5. QED BY <1>3, <1>4

\* What is built stays what it is while the call on top does not change.
LEMMA TryKeepsInv ==
  ASSUME SearchInv, TryCandidate
  PROVE  SearchInv'
<1> USE DEF TryCandidate, work
<1>1. /\ graph \in Graphs /\ Top.queue # <<>> /\ Top.left # {}
      /\ CallInv(graph, Query(graph, goal), Top)
  BY TopFacts DEF Trying, SearchInv, TypeOK
<1>2. new' = Tail(Top.queue) /\ new' \in Seq(SUBSET graph.packages)
  BY <1>1, HeadTailProperties DEF CallInv
<1>3. new' \in Queues
  BY <1>1, <1>2, GraphFacts
<1>4. TypeOK'
  BY <1>3 DEF Trying, SearchInv, TypeOK
<1>5. BuildInv'
  <2>1. Top' = Top /\ Candidate' = Candidate /\ Dependencies' = Dependencies
    BY DEF Top, Candidate, Dependencies
  <2>2. ~ Rejected'
    BY <2>1 DEF Rejected
  <2>3. Len(Dependencies) \in Nat
    BY <1>1, CandidateFacts DEF Trying
  <2>4. \A j \in DOMAIN Tail(Top.queue) : Queued(Tail(Top.queue)[j], new')
    BY <1>2 DEF Queued
  <2>5. next' = 0 /\ graph' = graph
    OBVIOUS
  <2>6. QED BY <1>1, <1>2, <2>1, <2>2, <2>3, <2>4, <2>5 DEF BuildInv
<1>6. QED BY <1>4, <1>5 DEF Trying, SearchInv, Sound

\* Putting alternatives in front or at the end loses none of the queue.
LEMMA QueueGrows ==
  ASSUME NEW S, NEW q \in Seq(S), NEW x \in S, NEW r,
         r = <<x>> \o q \/ r = Append(q, x)
  PROVE  /\ r \in Seq(S)
         /\ Queued(x, r)
         /\ \A y : Queued(y, q) => Queued(y, r)
<1>1. CASE r = <<x>> \o q
  <2>1. <<x>> \in Seq(S) /\ Len(<<x>>) = 1
    OBVIOUS
  <2>2. /\ r \in Seq(S) /\ Len(r) = 1 + Len(q)
        /\ r[1] = x
        /\ \A k \in 1 .. Len(q) : r[k + 1] = q[k]
    BY <1>1, <2>1
  <2>3. DOMAIN r = 1 .. 1 + Len(q) /\ DOMAIN q = 1 .. Len(q) /\ Len(q) \in Nat
    BY <2>2
  <2>4. \A y : Queued(y, q) => Queued(y, r)
    BY <2>2, <2>3 DEF Queued
  <2>5. QED BY <2>2, <2>3, <2>4 DEF Queued
<1>2. CASE r = Append(q, x)
  <2>1. /\ r \in Seq(S) /\ Len(r) = Len(q) + 1
        /\ r[Len(q) + 1] = x
        /\ \A k \in 1 .. Len(q) : r[k] = q[k]
    BY <1>2, AppendProperties
  <2>2. DOMAIN r = 1 .. 1 + Len(q) /\ DOMAIN q = 1 .. Len(q) /\ Len(q) \in Nat
    BY <2>1
  <2>3. QED BY <2>1, <2>2 DEF Queued
<1>3. QED BY <1>1, <1>2

\* A dependency that is read is answered by the base or goes into the queue.
LEMMA AddKeepsInv ==
  ASSUME SearchInv, AddDependency
  PROVE  SearchInv'
<1> USE DEF AddDependency, work
<1>1. BuildInv /\ graph \in Graphs
  BY DEF SearchInv, TypeOK
<1>2. Len(Dependencies) \in Nat
  BY <1>1, CandidateFacts DEF BuildInv
<1>3. Choices \in SUBSET graph.packages
  BY SelectType DEF Choices
<1>4. /\ new' \in Seq(SUBSET graph.packages)
      /\ Queued(Choices, new')
      /\ \A y : Queued(y, new) => Queued(y, new')
  <2>1. new \in Seq(SUBSET graph.packages)
    BY <1>1 DEF BuildInv
  <2>2. new' = <<Choices>> \o new \/ new' = Append(new, Choices)
    OBVIOUS
  <2>3. QED BY <1>3, <2>1, <2>2, QueueGrows
<1>5. next' = next + 1 /\ next' \in 0 .. Len(Dependencies) /\ next \in Nat
  BY <1>1, <1>2 DEF BuildInv
<1>6. TypeOK'
  <2>1. new' \in Queues
    BY <1>1, <1>4, GraphFacts
  <2>2. next' \in Nat
    BY <1>5
  <2>3. QED BY <2>1, <2>2 DEF SearchInv, TypeOK
<1>7. BuildInv'
  <2>1. Top' = Top /\ Candidate' = Candidate /\ Dependencies' = Dependencies
    BY DEF Top, Candidate, Dependencies
  <2>2. ~ Rejected'
    BY <1>1, <2>1 DEF Rejected, BuildInv
  <2>3. \A j \in DOMAIN Tail(Top.queue) : Queued(Tail(Top.queue)[j], new')
    BY <1>1, <1>4 DEF BuildInv
  <2>4. \A i \in 1 .. next' : Queued(Select(graph, Dependencies[i], FALSE), new')
    <3>1. SUFFICES ASSUME NEW i \in 1 .. next + 1
                   PROVE  Queued(Select(graph, Dependencies[i], FALSE), new')
      BY <1>5
    <3>2. CASE i = next + 1
      BY <1>4, <3>2 DEF Choices
    <3>3. CASE i # next + 1
      <4>1. i \in 1 .. next
        BY <1>5, <3>3
      <4>2. QED BY <1>1, <1>4, <4>1 DEF BuildInv
    <3>4. QED BY <3>2, <3>3
  <2>5. graph' = graph
    OBVIOUS
  <2>6. QED BY <1>1, <1>4, <1>5, <2>1, <2>2, <2>3, <2>4, <2>5 DEF BuildInv
<1>8. QED BY <1>6, <1>7 DEF SearchInv, Sound

\* The elements of a sequence with one more at its end.
LEMMA AppendFacts ==
  ASSUME NEW S, NEW s \in Seq(S), NEW x \in S, NEW r, r = Append(s, x)
  PROVE  /\ r \in Seq(S) /\ r # <<>>
         /\ \A k \in DOMAIN r : r[k] = x \/ (k \in DOMAIN s /\ r[k] = s[k])
<1>1. /\ r \in Seq(S) /\ Len(r) = Len(s) + 1 /\ r[Len(s) + 1] = x
      /\ \A k \in 1 .. Len(s) : r[k] = s[k]
  BY AppendProperties
<1>2. DOMAIN r = 1 .. Len(s) + 1 /\ DOMAIN s = 1 .. Len(s) /\ Len(s) \in Nat
  BY <1>1
<1>3. Len(r) > 0
  BY <1>1, <1>2
<1>4. r # <<>>
  BY <1>3
<1>5. QED BY <1>1, <1>2, <1>4

\* The call below has the candidate in its base and no conflict with it.
LEMMA DescendKeepsSearchInv ==
  ASSUME SearchInv, Descend
  PROVE  SearchInv'
<1> USE DEF Descend, work
<1> DEFINE query == Query(graph, goal)
           top == [Top EXCEPT !.left = @ \ {Candidate}]
           f == Frame(new, Top.base \cup {Candidate},
                      Top.exclude \cup Conflicted(graph, Candidate))
<1>1. BuildInv /\ graph \in Graphs /\ stack \in Seq(Calls)
  BY DEF SearchInv, TypeOK
<1>2. /\ Len(stack) \in DOMAIN stack
      /\ Top \in Calls /\ CallInv(graph, query, Top)
  BY TopFacts
<1>3. /\ Candidate \in Top.left /\ Candidate \in graph.packages
      /\ DOMAIN Dependencies = 1 .. next
  BY <1>1, CandidateFacts DEF BuildInv
<1>4. CallInv(graph, query, f)
  <2>1. /\ Top.queue # <<>>
        /\ Candidate \notin Top.exclude
        /\ Conflicted(graph, Candidate) \cap Top.base = {}
        /\ new \in Seq(SUBSET graph.packages)
        /\ \A j \in DOMAIN Tail(Top.queue) : Queued(Tail(Top.queue)[j], new)
    BY <1>1 DEF BuildInv, Rejected
  <2>2. \A i \in DOMAIN graph.depends[Candidate] :
          Queued(Select(graph, graph.depends[Candidate][i], FALSE), new)
    BY <1>1, <1>3 DEF BuildInv, Dependencies
  <2> HIDE DEF query
  <2>3. QED BY <1>1, <1>2, <1>3, <2>1, <2>2, DescendKeepsInv
<1>5. CallInv(graph, query, top)
  <2> HIDE DEF query
  <2>1. QED BY <1>1, <1>2, FewerCandidatesKeepInv
<1>6. f \in Calls
  <2>1. /\ Top.base \cup {Candidate} \in SUBSET graph.packages
        /\ Top.exclude \cup Conflicted(graph, Candidate) \in SUBSET graph.packages
    BY <1>2, <1>3, SelectType DEF CallInv, Conflicted
  <2>2. QED BY <1>1, <2>1, FrameType DEF BuildInv
<1>7. top \in Calls
  BY <1>2 DEF Calls
<1>8. stack' = Append(Replace(top), f)
  OBVIOUS
<1> HIDE DEF Descend, f, top, query
<1>9. /\ stack' \in Seq(Calls) /\ stack' # <<>>
      /\ \A k \in DOMAIN stack' :
           \/ stack'[k] = f
           \/ stack'[k] = top
           \/ k \in DOMAIN stack /\ stack'[k] = stack[k]
  <2> DEFINE s == Replace(top)
  <2>1. /\ s \in Seq(Calls) /\ DOMAIN s = DOMAIN stack
        /\ \A k \in DOMAIN s : s[k] = top \/ s[k] = stack[k]
    BY <1>1, <1>2, <1>7, ExceptSeq DEF Replace
  <2>0. stack' = Append(s, f)
    BY <1>8
  <2> HIDE DEF s
  <2>2. /\ stack' \in Seq(Calls) /\ stack' # <<>>
        /\ \A k \in DOMAIN stack' :
             stack'[k] = f \/ (k \in DOMAIN s /\ stack'[k] = s[k])
    BY <1>6, <2>0, <2>1, AppendFacts
  <2>3. QED BY <2>1, <2>2
<1>10. TypeOK'
  <2>1. new' \in Queues /\ next' \in Nat
    BY EmptySeq DEF Descend, Queues
  <2>2. QED BY <1>9, <2>1 DEF Descend, SearchInv, TypeOK
<1>11. \A k \in DOMAIN stack' : CallInv(graph', Query(graph', goal'), stack'[k])
  BY <1>4, <1>5, <1>9 DEF Descend, SearchInv, query
<1>12. QED BY <1>10, <1>11 DEF Descend, SearchInv, Sound

(***************************************************************************)
(* The theorems.                                                           *)
(***************************************************************************)

\* The alarm and the report change no call.
LEMMA OtherStepsKeepInv ==
  ASSUME SearchInv, CutOff \/ LateAlarm \/ Report \/ UNCHANGED vars
  PROVE  SearchInv'
<1>1. CASE CutOff
  <2>1. Return(TimedOut) /\ late' \in SUBSET Goals
    BY <1>1 DEF CutOff, SearchInv, TypeOK
  <2>2. QED BY <2>1, ReturnKeepsInv DEF TimedOut
<1>2. CASE LateAlarm
  <2>1. TypeOK'
    BY <1>2 DEF LateAlarm, search, work, SearchInv, TypeOK
  <2>2. QED BY <1>2, <2>1 DEF LateAlarm, search, work, SearchInv, Sound
<1>3. CASE Report
  <2>1. stack' = <<>> /\ pc' = "next"
    BY <1>3 DEF Report, search, SearchInv, TypeOK
  <2>2. goal' \in Seq(graph'.packages) /\ goal' \in Goals
    BY <1>3, EmptySeq DEF Report, Goals
  <2>3. reports' \in SUBSET Goals
    BY <1>3 DEF Report, SearchInv, TypeOK
  <2>4. TypeOK'
    BY <1>3, <2>1, <2>2, <2>3 DEF Report, search, work, NoResult, SearchInv, TypeOK
  <2>5. QED BY <2>1, <2>2, <2>4 DEF SearchInv, Sound
<1>4. CASE UNCHANGED vars
  <2> USE <1>4 DEF vars, search, work
  <2>1. TypeOK' /\ Sound'
    BY DEF SearchInv, TypeOK, Sound
  <2>2. pc' = "depends" => BuildInv'
    BY DEF SearchInv, BuildInv, Top, Rejected, Candidate, Dependencies
  <2>3. QED BY <2>1, <2>2 DEF SearchInv
<1>5. QED BY <1>1, <1>2, <1>3, <1>4

\* Every step keeps the invariant of the search.
LEMMA StepKeepsInv == SearchInv /\ [Next]_vars => SearchInv'
<1>1. SUFFICES ASSUME SearchInv, [Next]_vars
               PROVE  SearchInv'
  OBVIOUS
<1>2. CASE CheckPackage \/ CheckPair
  BY <1>1, <1>2, CheckKeepsInv
<1>3. CASE Solved \/ SkipHead \/ SkipCandidate
  BY <1>1, <1>3, SolvedKeepsInv, SkipKeepsInv
<1>4. CASE Exhausted \/ DeadEnd
  BY <1>1, <1>4, FailKeepsInv DEF Exhausted, DeadEnd, Trying
<1>5. CASE TryCandidate \/ AddDependency \/ Descend
  BY <1>1, <1>5, TryKeepsInv, AddKeepsInv, DescendKeepsSearchInv
<1>6. CASE CutOff \/ LateAlarm \/ Report \/ UNCHANGED vars
  BY <1>1, <1>6, OtherStepsKeepInv
<1>7. QED BY <1>1, <1>2, <1>3, <1>4, <1>5, <1>6 DEF Next

\* Nothing has been asked at first.
LEMMA InitKeepsInv == Init => SearchInv
<1>1. SUFFICES ASSUME Init
               PROVE  SearchInv
  OBVIOUS
<1>2. stack = <<>> /\ stack \in Seq(Calls) /\ new \in Queues
      /\ goal \in Goals /\ goal \in Seq(graph.packages)
  BY <1>1, EmptySeq DEF Init, Goals, Queues
<1>3. TypeOK
  BY <1>1, <1>2 DEF Init, NoResult, TypeOK
<1>4. QED BY <1>1, <1>2, <1>3 DEF Init, SearchInv, Sound

\* In every release, the search, whatever it has skipped, abandoned or been cut
\* off in, keeps the invariant of its calls: no conflict within a base, and an
\* answer in the base or in the queue for everything the base asks for.
THEOREM SearchCorrect == Spec => []SearchInv
BY InitKeepsInv, StepKeepsInv, PTL DEF Spec

\* The verifier's variables keep their types for every set of releases.
THEOREM TypeCorrect == Spec => []TypeOK
<1>1. SearchInv => TypeOK
  BY DEF SearchInv
<1>2. QED BY <1>1, SearchCorrect, PTL

\* For every release: what the search returns can be installed together with
\* the query and the essential packages, with all dependencies and no conflict.
THEOREM SearchIsSound == Spec => []Sound
<1>1. SearchInv => Sound
  BY DEF SearchInv
<1>2. QED BY <1>1, SearchCorrect, PTL

(***************************************************************************)
(* Completeness.  A call is on the way to the solution S when S has its    *)
(* base and an answer for everything in its queue, and it has not yet      *)
(* tried all packages of the head that are in S.                           *)
(***************************************************************************)
OnTheWay(S, f) ==
  /\ f.base \subseteq S
  /\ \A j \in DOMAIN f.queue : f.queue[j] \cap S # {}
  /\ f.queue # <<>> /\ Head(f.queue) \cap f.base = {} => f.left \cap S # {}

\* Nothing is on the exclusion list without a conflict with the base.
Justified(g, f) == \A x \in f.exclude : \E p \in f.base : x \in Conflicted(g, p)

\* The queue that is built for a candidate of S has an answer in S.
BuildsOn(S) ==
  OnTheWay(S, Top) /\ Candidate \in S => \A j \in DOMAIN new : new[j] \cap S # {}

Solutions == {S \in SUBSET graph.packages : Solution(graph, Query(graph, goal), S)}

\* Some call is on the way to every solution.
Pursued ==
  NoDeadRelation(graph) /\ pc \in {"search", "depends"} =>
    \A S \in Solutions :
      /\ \E k \in DOMAIN stack : OnTheWay(S, stack[k])
      /\ pc = "depends" => BuildsOn(S)

CompleteInv ==
  /\ \A k \in DOMAIN stack : Justified(graph, stack[k])
  /\ Pursued
  /\ Complete

\* The first call is on the way to every solution of its query.
LEMMA AskIsComplete ==
  ASSUME SearchInv, CompleteInv, NEW packages \in Seq(graph.packages), Ask(packages)
  PROVE  CompleteInv'
<1> USE DEF Ask
<1> DEFINE query == Query(graph, packages)
           f == Frame(query, {}, {})
<1>1. graph \in Graphs /\ query \in Seq(SUBSET graph.packages)
  BY QueryType DEF SearchInv, TypeOK
<1>2. /\ f.queue = query /\ f.base = {} /\ f.exclude = {}
      /\ query # <<>> => f.left = Head(query)
  BY DEF Frame
<1>3. stack' = <<f>> /\ goal' = packages /\ graph' = graph /\ pc' = "search"
  OBVIOUS
<1> HIDE DEF f
<1>4. DOMAIN stack' = {1} /\ stack'[1] = f
  BY <1>3
<1>5. \A k \in DOMAIN stack' : Justified(graph', stack'[k])
  BY <1>2, <1>4 DEF Justified
<1>6. ASSUME NEW S, Solution(graph, query, S)
      PROVE  OnTheWay(S, f)
  <2>1. \A j \in DOMAIN query : query[j] \cap S # {}
    BY <1>6 DEF Solution
  <2> HIDE DEF query
  <2>2. query # <<>> => Head(query) \cap S # {}
    <3>1. query # <<>> => 1 \in DOMAIN query /\ Head(query) = query[1]
      BY <1>1
    <3>2. QED BY <2>1, <3>1
  <2>3. QED BY <1>2, <2>1, <2>2 DEF OnTheWay
<1>7. Pursued'
  BY <1>3, <1>4, <1>6 DEF Pursued, Solutions
<1>8. QED BY <1>3, <1>5, <1>7 DEF CompleteInv, Complete

\* A search that returns leaves nothing to pursue, and its result is complete if r is.
LEMMA ReturnIsComplete ==
  ASSUME NEW r, Return(r),
         ~ r.known /\ ~ r.timeout /\ NoDeadRelation(graph) =>
           ~ Solvable(graph, Query(graph, goal))
  PROVE  CompleteInv'
<1> USE DEF Return
<1>1. stack' = <<>> /\ pc' = "report" /\ result' = r /\ graph' = graph /\ goal' = goal
  OBVIOUS
<1>2. Complete'
  BY <1>1 DEF Complete
<1>3. Pursued'
  BY <1>1 DEF Pursued
<1>4. \A k \in DOMAIN stack' : Justified(graph', stack'[k])
  BY <1>1
<1>5. QED BY <1>2, <1>3, <1>4 DEF CompleteInv

\* A call that is on the way to no solution may return None.
LEMMA FailIsComplete ==
  ASSUME SearchInv, CompleteInv, pc \in {"search", "depends"}, Fail,
         NoDeadRelation(graph) => \A S \in Solutions : ~ OnTheWay(S, Top)
  PROVE  CompleteInv'
<1>1. stack \in Seq(Calls) /\ Len(stack) \in Nat /\ DOMAIN stack = 1 .. Len(stack)
  BY DEF SearchInv, TypeOK
<1>2. ASSUME NoDeadRelation(graph), NEW S \in Solutions
      PROVE  \E k \in 1 .. Len(stack) - 1 : OnTheWay(S, stack[k])
  <2>1. PICK k \in DOMAIN stack : OnTheWay(S, stack[k])
    BY <1>2 DEF CompleteInv, Pursued
  <2>2. k # Len(stack)
    BY <1>2, <2>1 DEF Top
  <2>3. QED BY <1>1, <2>1, <2>2
<1>3. CASE Return(NoResult) /\ Len(stack) = 1
  <2>1. NoDeadRelation(graph) => Solutions = {}
    BY <1>2, <1>3
  <2>2. NoDeadRelation(graph) => ~ Solvable(graph, Query(graph, goal))
    BY <2>1 DEF Solvable, Solutions
  <2>3. QED BY <1>3, <2>2, ReturnIsComplete
<1>4. CASE /\ Len(stack) > 1
           /\ stack' = SubSeq(stack, 1, Len(stack) - 1)
           /\ pc' = "search"
           /\ UNCHANGED <<graph, goal>>
  <2>1. /\ DOMAIN stack' = 1 .. Len(stack) - 1
        /\ \A k \in DOMAIN stack' : k \in DOMAIN stack /\ stack'[k] = stack[k]
    <3>1. /\ Len(stack') = Len(stack) - 1 /\ stack' \in Seq(Calls)
          /\ \A k \in 1 .. Len(stack) - 1 : stack'[k] = stack[k]
      BY <1>1, <1>4
    <3>2. DOMAIN stack' = 1 .. Len(stack) - 1
      BY <3>1
    <3>3. QED BY <1>1, <3>1, <3>2
  <2>2. \A k \in DOMAIN stack' : Justified(graph', stack'[k])
    BY <1>4, <2>1 DEF CompleteInv
  <2>3. Pursued'
    <3>1. Solutions' = Solutions
      BY <1>4 DEF Solutions
    <3>2. QED BY <1>2, <1>4, <2>1, <3>1 DEF Pursued
  <2>4. QED BY <1>4, <2>2, <2>3 DEF CompleteInv, Complete
<1>5. QED BY <1>3, <1>4 DEF Fail

\* The search fails at the end of a head only when no solution is that way.
LEMMA ExhaustedIsComplete ==
  ASSUME SearchInv, CompleteInv, Exhausted \/ DeadEnd
  PROVE  CompleteInv'
<1>1. CASE Exhausted
  <2>1. \A S : ~ OnTheWay(S, Top)
    BY <1>1 DEF Exhausted, Trying, Included, OnTheWay
  <2>2. QED BY <1>1, <2>1, FailIsComplete DEF Exhausted, Trying
<1>2. CASE DeadEnd
  <2>1. BuildInv /\ next \in 0 .. Len(Dependencies) /\ next < Len(Dependencies)
    BY <1>2 DEF DeadEnd, SearchInv, BuildInv
  <2>2. Candidate \in graph.packages /\ next + 1 \in DOMAIN Dependencies
    BY <1>2, <2>1, CandidateFacts DEF DeadEnd, BuildInv
  <2>3. ~ NoDeadRelation(graph)
    BY <1>2, <2>2 DEF DeadEnd, NoDeadRelation, Choices, Dependencies
  <2>4. QED BY <1>2, <2>3, FailIsComplete DEF DeadEnd
<1>3. QED BY <1>1, <1>2

\* A step that puts a call on top of the stack that is still on the way.
LEMMA ReplaceIsComplete ==
  ASSUME SearchInv, CompleteInv, pc = "search", NEW f \in Calls,
         Justified(graph, f),
         NoDeadRelation(graph) =>
           \A S \in Solutions : OnTheWay(S, Top) => OnTheWay(S, f),
         stack' = Replace(f),
         UNCHANGED <<graph, work, pc, goal, new, next, result, reports, late>>
  PROVE  CompleteInv'
<1>1. stack \in Seq(Calls) /\ Len(stack) \in DOMAIN stack
  BY TopFacts DEF SearchInv, TypeOK
<1>2. /\ DOMAIN stack' = DOMAIN stack
      /\ stack'[Len(stack)] = f
      /\ \A k \in DOMAIN stack : k # Len(stack) => stack'[k] = stack[k]
  BY <1>1, ExceptSeq DEF Replace
<1>3. \A k \in DOMAIN stack' : Justified(graph', stack'[k])
  BY <1>2 DEF CompleteInv
<1>4. ASSUME NoDeadRelation(graph), NEW S \in Solutions
      PROVE  \E k \in DOMAIN stack' : OnTheWay(S, stack'[k])
  <2>1. PICK k \in DOMAIN stack : OnTheWay(S, stack[k])
    BY <1>4 DEF CompleteInv, Pursued
  <2>2. CASE k = Len(stack)
    BY <1>1, <1>2, <1>4, <2>1, <2>2 DEF Top
  <2>3. CASE k # Len(stack)
    BY <1>2, <2>1, <2>3
  <2>4. QED BY <2>2, <2>3
<1>5. Solutions' = Solutions
  BY DEF Solutions
<1>6. Pursued'
  BY <1>4, <1>5 DEF Pursued
<1>7. QED BY <1>3, <1>6 DEF CompleteInv, Complete

\* A head that the base answers can be passed over on the way to every solution.
LEMMA SkipHeadIsComplete ==
  ASSUME SearchInv, CompleteInv, SkipHead
  PROVE  CompleteInv'
<1> DEFINE tail == Tail(Top.queue)
           f == Frame(tail, Top.base, Top.exclude)
<1>1. /\ graph \in Graphs /\ Top.queue # <<>>
      /\ Len(stack) \in DOMAIN stack /\ pc = "search"
      /\ CallInv(graph, Query(graph, goal), Top)
  BY TopFacts DEF SkipHead, Included, SearchInv, TypeOK
<1>2. /\ Top.queue \in Seq(SUBSET graph.packages)
      /\ tail \in Seq(SUBSET graph.packages)
  BY <1>1, HeadTailProperties DEF CallInv
<1>3. f \in Calls
  BY <1>1, <1>2, FrameType DEF CallInv
<1>4. /\ f.queue = tail /\ f.base = Top.base /\ f.exclude = Top.exclude
      /\ tail # <<>> => f.left = Head(tail)
  BY DEF Frame
<1>5. stack' = Replace(f)
  BY DEF SkipHead
<1> HIDE DEF f
<1>6. Justified(graph, f)
  BY <1>1, <1>4 DEF CompleteInv, Justified, Top
<1>7. ASSUME NEW S, OnTheWay(S, Top)
      PROVE  OnTheWay(S, f)
  <2>1. \A j \in DOMAIN tail : tail[j] \cap S # {}
    <3>1. \A j \in DOMAIN tail : j + 1 \in DOMAIN Top.queue /\ tail[j] = Top.queue[j + 1]
      BY <1>1, <1>2, HeadTailProperties
    <3>2. QED BY <1>7, <3>1 DEF OnTheWay
  <2>2. tail # <<>> => 1 \in DOMAIN tail /\ Head(tail) = tail[1]
    BY <1>2
  <2> HIDE DEF tail
  <2>3. QED BY <1>4, <1>7, <2>1, <2>2 DEF OnTheWay
<1>8. QED BY <1>1, <1>3, <1>5, <1>6, <1>7, ReplaceIsComplete DEF SkipHead

\* A rejected candidate is in no solution the call is on the way to.
LEMMA SkipCandidateIsComplete ==
  ASSUME SearchInv, CompleteInv, SkipCandidate
  PROVE  CompleteInv'
<1> DEFINE f == [Top EXCEPT !.left = @ \ {Candidate}]
<1>1. /\ Top.queue # <<>> /\ Head(Top.queue) \cap Top.base = {}
      /\ Rejected /\ Top.left # {} /\ pc = "search"
  BY DEF SkipCandidate, Trying, Included
<1>2. /\ Len(stack) \in DOMAIN stack /\ Top \in Calls
      /\ CallInv(graph, Query(graph, goal), Top)
  BY <1>1, TopFacts
<1>3. Candidate \in Top.left /\ Candidate \notin Top.base
  BY <1>1, <1>2, CandidateFacts DEF CallInv
<1>4. Justified(graph, Top)
  BY <1>2 DEF CompleteInv, Top
<1>5. ASSUME NEW S \in Solutions, OnTheWay(S, Top)
      PROVE  Candidate \notin S
  <2>1. Top.base \subseteq S /\ Compatible(graph, S)
    BY <1>5 DEF OnTheWay, Solutions, Solution
  <2>2. SUFFICES ASSUME Candidate \in S
                 PROVE  FALSE
    OBVIOUS
  <2>3. CASE Candidate \in Top.exclude
    <3>1. PICK p \in Top.base : Candidate \in Conflicted(graph, p)
      BY <1>4, <2>3 DEF Justified
    <3>2. Candidate = p
      BY <2>1, <2>2, <3>1 DEF Compatible
    <3>3. QED BY <1>3, <3>2
  <2>4. CASE Conflicted(graph, Candidate) \cap Top.base # {}
    <3>1. PICK q \in Top.base : q \in Conflicted(graph, Candidate)
      BY <2>4
    <3>2. q = Candidate
      BY <2>1, <2>2, <3>1 DEF Compatible
    <3>3. QED BY <1>3, <3>2
  <2>5. QED BY <1>1, <2>3, <2>4 DEF Rejected
<1>6. /\ f \in Calls
      /\ f.queue = Top.queue /\ f.base = Top.base /\ f.exclude = Top.exclude
      /\ f.left = Top.left \ {Candidate}
  BY <1>2 DEF Calls
<1>7. stack' = Replace(f)
  BY DEF SkipCandidate
<1> HIDE DEF f
<1>8. Justified(graph, f)
  BY <1>4, <1>6 DEF Justified
<1>9. \A S \in Solutions : OnTheWay(S, Top) => OnTheWay(S, f)
  BY <1>1, <1>5, <1>6 DEF OnTheWay
<1>10. QED
  BY <1>1, <1>6, <1>7, <1>8, <1>9, ReplaceIsComplete DEF SkipCandidate

\* The queue for the candidate begins as the rest of the queue, ...
LEMMA TryIsComplete ==
  ASSUME SearchInv, CompleteInv, TryCandidate
  PROVE  CompleteInv'
<1> USE DEF TryCandidate, work
<1>1. /\ pc = "search" /\ pc' = "depends" /\ Top.queue # <<>>
      /\ CallInv(graph, Query(graph, goal), Top)
      /\ new' = Tail(Top.queue) /\ stack' = stack /\ graph' = graph /\ goal' = goal
  BY TopFacts DEF Trying
<1>2. Top.queue \in Seq(SUBSET graph.packages)
  BY <1>1 DEF CallInv
<1>3. \A j \in DOMAIN new' : j + 1 \in DOMAIN Top.queue /\ new'[j] = Top.queue[j + 1]
  BY <1>1, <1>2, HeadTailProperties
<1>4. Top' = Top
  BY <1>1 DEF Top
<1>5. \A S : BuildsOn(S)'
  BY <1>3, <1>4 DEF BuildsOn, OnTheWay
<1>6. Solutions' = Solutions
  BY <1>1 DEF Solutions
<1>7. Pursued'
  BY <1>1, <1>5, <1>6 DEF CompleteInv, Pursued
<1>8. \A k \in DOMAIN stack' : Justified(graph', stack'[k])
  BY <1>1 DEF CompleteInv
<1>9. QED BY <1>1, <1>7, <1>8 DEF CompleteInv, Complete

\* A sequence that has grown by one has no other new element.
LEMMA NothingElseQueued ==
  ASSUME NEW S, NEW q \in Seq(S), NEW x \in S, NEW r,
         r = <<x>> \o q \/ r = Append(q, x)
  PROVE  \A k \in DOMAIN r : r[k] = x \/ Queued(r[k], q)
<1>1. CASE r = <<x>> \o q
  <2>1. <<x>> \in Seq(S) /\ Len(<<x>>) = 1
    OBVIOUS
  <2>2. /\ r \in Seq(S) /\ Len(r) = 1 + Len(q)
        /\ r[1] = x
        /\ \A k \in 1 .. Len(q) : r[k + 1] = q[k]
    BY <1>1, <2>1
  <2>3. DOMAIN r = 1 .. 1 + Len(q) /\ DOMAIN q = 1 .. Len(q) /\ Len(q) \in Nat
    BY <2>2
  <2>4. ASSUME NEW k \in DOMAIN r, k # 1
        PROVE  k - 1 \in DOMAIN q /\ r[k] = q[k - 1]
    <3>1. k - 1 \in 1 .. Len(q) /\ (k - 1) + 1 = k
      BY <2>3, <2>4
    <3>2. QED BY <2>2, <2>3, <3>1
  <2>5. QED BY <2>2, <2>4 DEF Queued
<1>2. CASE r = Append(q, x)
  <2>1. /\ r \in Seq(S) /\ Len(r) = Len(q) + 1
        /\ r[Len(q) + 1] = x
        /\ \A k \in 1 .. Len(q) : r[k] = q[k]
    BY <1>2, AppendProperties
  <2>2. DOMAIN r = 1 .. 1 + Len(q) /\ DOMAIN q = 1 .. Len(q) /\ Len(q) \in Nat
    BY <2>1
  <2>3. QED BY <2>1, <2>2 DEF Queued
<1>3. QED BY <1>1, <1>2

\* ... and a dependency of the candidate has an answer in every solution that
\* the candidate is in.
LEMMA AddIsComplete ==
  ASSUME SearchInv, CompleteInv, AddDependency
  PROVE  CompleteInv'
<1> USE DEF AddDependency, work
<1>1. BuildInv /\ new \in Seq(SUBSET graph.packages)
  BY DEF SearchInv, BuildInv
<1>2. /\ next + 1 \in DOMAIN Dependencies
      /\ Choices \in SUBSET graph.packages
  <2>1. Top.left # {} /\ next \in Nat /\ next < Len(Dependencies)
    BY <1>1 DEF BuildInv
  <2>2. /\ Len(Dependencies) \in Nat
        /\ DOMAIN Dependencies = 1 .. Len(Dependencies)
    BY <2>1, CandidateFacts
  <2>3. next + 1 \in DOMAIN Dependencies
    BY <2>1, <2>2
  <2>4. Choices \in SUBSET graph.packages
    BY SelectType DEF Choices
  <2>5. QED BY <2>3, <2>4
<1>3. \A k \in DOMAIN new' : new'[k] = Choices \/ Queued(new'[k], new)
  <2>1. new' = <<Choices>> \o new \/ new' = Append(new, Choices)
    OBVIOUS
  <2>2. QED BY <1>1, <1>2, <2>1, NothingElseQueued
<1>4. /\ stack' = stack /\ graph' = graph /\ goal' = goal
      /\ pc = "depends" /\ pc' = "depends"
  OBVIOUS
<1>5. Top' = Top /\ Candidate' = Candidate
  BY <1>4 DEF Top, Candidate
<1>6. ASSUME NEW S \in Solutions, BuildsOn(S)
      PROVE  BuildsOn(S)'
  <2>1. SUFFICES ASSUME OnTheWay(S, Top), Candidate \in S, NEW k \in DOMAIN new'
                 PROVE  new'[k] \cap S # {}
    BY <1>5 DEF BuildsOn
  <2>2. CASE new'[k] = Choices
    <3>1. Choices \cap S # {}
      BY <1>2, <1>6, <2>1 DEF Solutions, Solution, Closed, Choices, Dependencies
    <3>2. QED BY <2>2, <3>1
  <2>3. CASE Queued(new'[k], new)
    BY <1>6, <2>1, <2>3 DEF BuildsOn, Queued
  <2>4. QED BY <1>3, <2>2, <2>3
<1>7. Solutions' = Solutions
  BY <1>4 DEF Solutions
<1>8. Pursued'
  BY <1>4, <1>6, <1>7 DEF CompleteInv, Pursued
<1>9. \A k \in DOMAIN stack' : Justified(graph', stack'[k])
  BY <1>4 DEF CompleteInv
<1>10. QED BY <1>4, <1>8, <1>9 DEF CompleteInv, Complete

\* A call on the way to a solution either keeps another of its packages or
\* makes a call that is on the way.
LEMMA DescendIsComplete ==
  ASSUME SearchInv, CompleteInv, Descend
  PROVE  CompleteInv'
<1> DEFINE top == [Top EXCEPT !.left = @ \ {Candidate}]
           base == Top.base \cup {Candidate}
           exclude == Top.exclude \cup Conflicted(graph, Candidate)
           f == Frame(new, base, exclude)
<1>1. /\ pc = "depends" /\ pc' = "search" /\ graph' = graph /\ goal' = goal
      /\ stack' = Append(Replace(top), f)
  BY DEF Descend
<1>2. /\ BuildInv /\ graph \in Graphs /\ stack \in Seq(Calls)
      /\ new \in Seq(SUBSET graph.packages)
  BY <1>1 DEF SearchInv, TypeOK, BuildInv
<1>3. /\ Len(stack) \in DOMAIN stack /\ Top \in Calls /\ top \in Calls
      /\ CallInv(graph, Query(graph, goal), Top)
      /\ Candidate \in graph.packages
  BY <1>1, <1>2, TopFacts, CandidateFacts DEF BuildInv, Calls
<1>4. f \in Calls
  <2>1. base \in SUBSET graph.packages /\ exclude \in SUBSET graph.packages
    BY <1>3, SelectType DEF CallInv, Conflicted
  <2> HIDE DEF base, exclude
  <2>2. QED BY <1>2, <2>1, FrameType
<1>5. /\ top.queue = Top.queue /\ top.base = Top.base
      /\ top.exclude = Top.exclude /\ top.left = Top.left \ {Candidate}
  BY <1>3 DEF Calls
<1>6. /\ f.queue = new /\ f.base = base /\ f.exclude = exclude
      /\ new # <<>> => f.left = Head(new)
  BY DEF Frame
<1> HIDE DEF f, top
<1>7. /\ Len(stack') = Len(stack) + 1 /\ Len(stack) \in Nat
      /\ DOMAIN stack = 1 .. Len(stack)
      /\ DOMAIN stack' = 1 .. Len(stack) + 1
      /\ stack'[Len(stack) + 1] = f
      /\ stack'[Len(stack)] = top
      /\ \A k \in DOMAIN stack : k # Len(stack) => stack'[k] = stack[k]
  <2> DEFINE s == Replace(top)
  <2>1. /\ s \in Seq(Calls) /\ DOMAIN s = DOMAIN stack
        /\ s[Len(stack)] = top
        /\ \A k \in DOMAIN stack : k # Len(stack) => s[k] = stack[k]
    BY <1>2, <1>3, ExceptSeq DEF Replace
  <2>2. stack' = Append(s, f)
    BY <1>1
  <2> HIDE DEF s
  <2>3. /\ Len(stack) \in Nat /\ DOMAIN stack = 1 .. Len(stack)
        /\ Len(s) \in Nat /\ DOMAIN s = 1 .. Len(s)
    BY <1>2, <2>1
  <2>4. Len(s) = Len(stack)
    BY <2>1, <2>3
  <2>5. /\ stack' \in Seq(Calls) /\ Len(stack') = Len(s) + 1
        /\ stack'[Len(s) + 1] = f
        /\ \A k \in 1 .. Len(s) : stack'[k] = s[k]
    BY <1>4, <2>1, <2>2, AppendProperties
  <2>6. DOMAIN stack' = 1 .. Len(stack) + 1
    BY <2>4, <2>5
  <2>7. QED BY <1>3, <2>1, <2>3, <2>4, <2>5, <2>6
<1>8. Justified(graph, Top)
  BY <1>3 DEF CompleteInv, Top
<1>9. Justified(graph, top) /\ Justified(graph, f)
  BY <1>5, <1>6, <1>8 DEF Justified
<1>10. ASSUME NEW S \in Solutions, BuildsOn(S), OnTheWay(S, Top)
       PROVE  OnTheWay(S, top) \/ OnTheWay(S, f)
  <2>1. CASE Candidate \in S
    <3>1. base \subseteq S /\ \A j \in DOMAIN new : new[j] \cap S # {}
      BY <1>10, <2>1 DEF OnTheWay, BuildsOn
    <3>2. new # <<>> => 1 \in DOMAIN new /\ Head(new) = new[1]
      BY <1>2
    <3> HIDE DEF base
    <3>3. QED BY <1>6, <3>1, <3>2 DEF OnTheWay
  <2>2. CASE Candidate \notin S
    BY <1>5, <1>10, <2>2 DEF OnTheWay
  <2>3. QED BY <2>1, <2>2
<1>11. ASSUME NoDeadRelation(graph), NEW S \in Solutions
       PROVE  \E k \in DOMAIN stack' : OnTheWay(S, stack'[k])
  <2>1. PICK k \in DOMAIN stack : OnTheWay(S, stack[k])
    BY <1>1, <1>11 DEF CompleteInv, Pursued
  <2>2. BuildsOn(S)
    BY <1>1, <1>11 DEF CompleteInv, Pursued
  <2>3. CASE k = Len(stack)
    <3>1. OnTheWay(S, top) \/ OnTheWay(S, f)
      BY <1>10, <2>1, <2>2, <2>3 DEF Top
    <3>2. Len(stack) \in DOMAIN stack' /\ Len(stack) + 1 \in DOMAIN stack'
      BY <1>3, <1>7
    <3>3. QED BY <1>7, <3>1, <3>2
  <2>4. CASE k # Len(stack)
    <3>1. k \in DOMAIN stack'
      BY <1>7
    <3>2. QED BY <1>7, <2>1, <2>4, <3>1
  <2>5. QED BY <2>3, <2>4
<1>12. \A k \in DOMAIN stack' : Justified(graph', stack'[k])
  <2>1. ASSUME NEW k \in DOMAIN stack'
        PROVE  Justified(graph, stack'[k])
    <3>1. CASE k = Len(stack) + 1
      BY <1>7, <1>9, <3>1
    <3>2. CASE k = Len(stack)
      BY <1>7, <1>9, <3>2
    <3>3. CASE k # Len(stack) + 1 /\ k # Len(stack)
      <4>1. k \in DOMAIN stack
        BY <1>7, <3>3
      <4>2. QED BY <1>7, <3>3, <4>1 DEF CompleteInv
    <3>4. QED BY <3>1, <3>2, <3>3
  <2>2. QED BY <1>1, <2>1
<1>13. Solutions' = Solutions
  BY <1>1 DEF Solutions
<1>14. Pursued'
  BY <1>1, <1>11, <1>13 DEF Pursued
<1>15. QED BY <1>1, <1>12, <1>14 DEF CompleteInv, Complete

\* The next query starts on the way to all its solutions.
LEMMA CheckIsComplete ==
  ASSUME SearchInv, CompleteInv, CheckPackage \/ CheckPair
  PROVE  CompleteInv'
<1>1. /\ unchecked \in SUBSET graph.packages /\ unchecked \in SUBSET Packages
      /\ suspects \in SUBSET (graph.packages \X graph.packages)
      /\ suspects \in SUBSET (Packages \X Packages)
  BY GraphFacts DEF SearchInv, TypeOK
<1>2. CASE CheckPackage
  <2>1. Least(unchecked) \in graph.packages
    BY <1>1, <1>2, LeastIsMember DEF CheckPackage
  <2>2. <<Least(unchecked)>> \in Seq(graph.packages)
    BY <2>1, ShortSequences
  <2>3. QED BY <1>2, <2>2, AskIsComplete DEF CheckPackage
<1>3. CASE CheckPair
  <2>1. FirstPair(suspects) \in graph.packages \X graph.packages
    BY <1>1, <1>3, FirstPairIsMember DEF CheckPair
  <2>2. PICK p \in graph.packages, q \in graph.packages :
          FirstPair(suspects) = <<p, q>>
    BY <2>1
  <2>3. FirstPair(suspects) \in Seq(graph.packages)
    BY <2>2, ShortSequences
  <2>4. QED BY <1>3, <2>3, AskIsComplete DEF CheckPair
<1>4. QED BY <1>2, <1>3

\* A result, the alarm and the report leave no solution out.
LEMMA OtherStepsAreComplete ==
  ASSUME SearchInv, CompleteInv,
         Solved \/ CutOff \/ LateAlarm \/ Report \/ UNCHANGED vars
  PROVE  CompleteInv'
<1>1. CASE Solved
  BY <1>1, ReturnIsComplete DEF Solved, Found
<1>2. CASE CutOff
  BY <1>2, ReturnIsComplete DEF CutOff, TimedOut
<1>3. CASE LateAlarm \/ Report
  <2>1. /\ pc' \in {"next", "aborted"} /\ stack' = stack
        /\ graph' = graph
    BY <1>3 DEF LateAlarm, Report, search
  <2>2. QED BY <2>1 DEF CompleteInv, Pursued, Complete
<1>4. CASE UNCHANGED vars
  <2> USE <1>4 DEF vars, search, work
  <2>1. Solutions' = Solutions /\ \A S : BuildsOn(S)' <=> BuildsOn(S)
    BY DEF Solutions, BuildsOn, Top, Candidate
  <2>2. Pursued'
    BY <2>1 DEF CompleteInv, Pursued
  <2>3. QED BY <2>2 DEF CompleteInv, Complete
<1>5. QED BY <1>1, <1>2, <1>3, <1>4

\* Every step keeps the way to every solution open.
LEMMA StepIsComplete == SearchInv /\ CompleteInv /\ [Next]_vars => CompleteInv'
<1>1. SUFFICES ASSUME SearchInv, CompleteInv, [Next]_vars
               PROVE  CompleteInv'
  OBVIOUS
<1>2. CASE CheckPackage \/ CheckPair
  BY <1>1, <1>2, CheckIsComplete
<1>3. CASE SkipHead \/ SkipCandidate \/ TryCandidate
  BY <1>1, <1>3, SkipHeadIsComplete, SkipCandidateIsComplete, TryIsComplete
<1>4. CASE AddDependency \/ Descend
  BY <1>1, <1>4, AddIsComplete, DescendIsComplete
<1>5. CASE Exhausted \/ DeadEnd
  BY <1>1, <1>5, ExhaustedIsComplete
<1>6. CASE Solved \/ CutOff \/ LateAlarm \/ Report \/ UNCHANGED vars
  BY <1>1, <1>6, OtherStepsAreComplete
<1>7. QED BY <1>1, <1>2, <1>3, <1>4, <1>5, <1>6 DEF Next

\* For every release whose dependencies all name something: when the search
\* returns None without the alarm, there is no solution; backtracking and the
\* exclusion list lose none.
THEOREM SearchIsComplete == Spec => []Complete
<1>1. Init => CompleteInv
  BY DEF Init, CompleteInv, Pursued, Complete
<1>2. CompleteInv => Complete
  BY DEF CompleteInv
<1>3. QED BY <1>1, <1>2, StepIsComplete, SearchCorrect, PTL DEF Spec

(***************************************************************************)
(* Reports.  Every query that has been answered has been reported if it    *)
(* had to be.                                                              *)
(***************************************************************************)
Queries == {<<p>> : p \in graph.checked} \cup Suspects(graph)
ToAnswer ==
  {<<p>> : p \in unchecked} \cup suspects \cup (IF pc = "next" THEN {} ELSE {goal})

UninstallableReported ==
  \A p \in graph.checked : <<p>> \notin ToAnswer /\ ~ Installable(p) => <<p>> \in reports
InstallableNotReported ==
  NoDeadRelation(graph) =>
    \A p \in graph.checked : <<p>> \in reports \ late => ~ Installable(p)
ReportedTogether == \A pq \in Suspects(graph) : pq \in reports => Together(pq)
TogetherReported ==
  NoDeadRelation(graph) =>
    \A pq \in Suspects(graph) :
      pq \notin ToAnswer /\ pq \notin late /\ Together(pq) => pq \in reports

ReportInv ==
  /\ pc # "next" => goal \in Queries
  /\ pc = "report" /\ result.timeout => goal \in late
  /\ UninstallableReported /\ InstallableNotReported
  /\ ReportedTogether /\ TogetherReported

\* A query about one package and one about a pair differ in length.
LEMMA QueryLengths ==
  ASSUME NEW g \in Graphs
  PROVE  /\ \A p : Len(<<p>>) = 1
         /\ \A pq \in Suspects(g) : Len(pq) = 2
<1>1. \A p, q : Len(<<p, q>>) = 2
  OBVIOUS
<1>2. \A pq \in Suspects(g) : \E p, q : pq = <<p, q>>
  BY DEF Suspects
<1>3. QED BY <1>1, <1>2

\* Steps that answer a query or give up.
LEMMA AnswerKeepsReports ==
  ASSUME ReportInv, UNCHANGED <<graph, work, goal, reports>>,
         pc # "next", pc' # "next", late \subseteq late',
         pc' = "report" /\ result'.timeout => goal \in late'
  PROVE  ReportInv'
<1> USE DEF work
<1>1. Queries' = Queries /\ ToAnswer' = ToAnswer
  BY DEF Queries, ToAnswer
<1>2. /\ \A p : Installable(p)' <=> Installable(p)
      /\ \A pq : Together(pq)' <=> Together(pq)
  BY DEF Installable, Together
<1>3. UninstallableReported' /\ ReportedTogether'
  BY <1>1, <1>2 DEF ReportInv, UninstallableReported, ReportedTogether
<1>4. InstallableNotReported' /\ TogetherReported'
  BY <1>1, <1>2 DEF ReportInv, InstallableNotReported, TogetherReported
<1>5. QED BY <1>1, <1>3, <1>4 DEF ReportInv

\* A query that begins is still to be answered.
LEMMA AskKeepsReports ==
  ASSUME SearchInv, ReportInv, CheckPackage \/ CheckPair
  PROVE  ReportInv'
<1> USE DEF Ask
<1>1. /\ graph \in Graphs
      /\ unchecked \in SUBSET graph.checked /\ unchecked \in SUBSET Packages
      /\ suspects \in SUBSET Suspects(graph) /\ suspects \in SUBSET (Packages \X Packages)
  BY GraphFacts DEF SearchInv, TypeOK
<1>2. UNCHANGED <<graph, reports, late>> /\ pc = "next" /\ pc' = "search"
  BY DEF CheckPackage, CheckPair
<1>3. Queries' = Queries
  BY <1>2 DEF Queries
<1>4. goal' \in Queries /\ ToAnswer' = ToAnswer
  <2>1. CASE CheckPackage
    <3>1. Least(unchecked) \in unchecked
      BY <1>1, <2>1, LeastIsMember DEF CheckPackage
    <3>2. goal' = <<Least(unchecked)>> /\ unchecked' = unchecked \ {Least(unchecked)} /\ suspects' = suspects
      BY <2>1 DEF CheckPackage
    <3>3. QED BY <1>1, <1>2, <3>1, <3>2 DEF Queries, ToAnswer
  <2>2. CASE CheckPair
    <3>1. FirstPair(suspects) \in suspects
      BY <1>1, <2>2, FirstPairIsMember DEF CheckPair
    <3>2. goal' = FirstPair(suspects) /\ suspects' = suspects \ {FirstPair(suspects)} /\ unchecked' = unchecked
      BY <2>2 DEF CheckPair
    <3>3. QED BY <1>1, <1>2, <3>1, <3>2 DEF Queries, ToAnswer
  <2>3. QED BY <2>1, <2>2
<1>5. /\ \A p : Installable(p)' <=> Installable(p)
      /\ \A pq : Together(pq)' <=> Together(pq)
  BY <1>2 DEF Installable, Together
<1>6. UninstallableReported' /\ ReportedTogether'
  BY <1>2, <1>4, <1>5 DEF ReportInv, UninstallableReported, ReportedTogether
<1>7. InstallableNotReported' /\ TogetherReported'
  BY <1>2, <1>4, <1>5 DEF ReportInv, InstallableNotReported, TogetherReported
<1>8. QED BY <1>2, <1>3, <1>4, <1>6, <1>7 DEF ReportInv

\* A report agrees with the answer, which is sound and complete.
LEMMA ReportKeepsReports ==
  ASSUME SearchInv, Sound, Complete, ReportInv, Report
  PROVE  ReportInv'
<1>1. /\ UNCHANGED <<graph, unchecked, suspects, late>> /\ pc = "report" /\ pc' = "next"
      /\ reports' = reports \cup (IF Wrong THEN {goal} ELSE {})
      /\ graph \in Graphs
  BY DEF Report, work, SearchInv, TypeOK
<1>2. \A g : g \notin ToAnswer' => g \notin ToAnswer \/ g = goal
  BY <1>1 DEF ToAnswer
<1>3. /\ \A p : Installable(p)' <=> Installable(p)
      /\ \A pq : Together(pq)' <=> Together(pq)
  BY <1>1 DEF Installable, Together
<1>4. result.known => Solvable(graph, Query(graph, goal))
  BY <1>1 DEF Sound, Solvable, Solution
<1>5. ~ result.known /\ NoDeadRelation(graph) => goal \in late \/ ~ Solvable(graph, Query(graph, goal))
  BY <1>1 DEF Complete, ReportInv
<1>6. \A p : goal = <<p>> =>
        /\ Wrong <=> ~ result.known
        /\ Installable(p) <=> Solvable(graph, Query(graph, goal))
  BY <1>1, QueryLengths DEF Wrong, Installable
<1>7. \A pq \in Suspects(graph) : goal = pq =>
        /\ Wrong <=> result.known
        /\ Together(pq) <=> Solvable(graph, Query(graph, goal))
  BY <1>1, QueryLengths DEF Wrong, Together
<1>8. UninstallableReported'
  BY <1>1, <1>2, <1>3, <1>4, <1>6 DEF ReportInv, UninstallableReported
<1>9. InstallableNotReported'
  BY <1>1, <1>3, <1>5, <1>6 DEF ReportInv, InstallableNotReported
<1>10. ReportedTogether'
  BY <1>1, <1>3, <1>4, <1>7 DEF ReportInv, ReportedTogether
<1>11. TogetherReported'
  BY <1>1, <1>2, <1>3, <1>5, <1>7 DEF ReportInv, TogetherReported
<1>12. QED BY <1>1, <1>8, <1>9, <1>10, <1>11 DEF ReportInv

\* Every answer is reported as what it is.
LEMMA StepKeepsReports ==
  SearchInv /\ Sound /\ Complete /\ ReportInv /\ [Next]_vars => ReportInv'
<1>1. SUFFICES ASSUME SearchInv, Sound, Complete, ReportInv, [Next]_vars
               PROVE  ReportInv'
  OBVIOUS
<1>2. CASE CheckPackage \/ CheckPair
  BY <1>1, <1>2, AskKeepsReports
<1>3. CASE Report
  BY <1>1, <1>3, ReportKeepsReports
<1>4. CASE \/ Solved \/ SkipHead \/ SkipCandidate \/ TryCandidate \/ Exhausted
           \/ AddDependency \/ DeadEnd \/ Descend \/ CutOff \/ LateAlarm
  <2>1. /\ UNCHANGED <<graph, work, goal, reports>> /\ late \subseteq late'
        /\ pc # "next" /\ pc' # "next"
    BY <1>4 DEF Solved, SkipHead, SkipCandidate, TryCandidate, Exhausted, AddDependency, DeadEnd,
                Descend, CutOff, LateAlarm, Trying, Fail, Return, work
  <2>2. pc' = "report" /\ result'.timeout => goal \in late'
    BY <1>4 DEF Solved, SkipHead, SkipCandidate, TryCandidate, Exhausted, AddDependency, DeadEnd,
                Descend, CutOff, LateAlarm, Trying, Fail, Return, NoResult, Found, TimedOut
  <2>3. QED BY <1>1, <2>1, <2>2, AnswerKeepsReports
<1>5. CASE UNCHANGED vars
  <2> USE <1>1, <1>5 DEF vars, work
  <2>1. Queries' = Queries /\ ToAnswer' = ToAnswer
    BY DEF Queries, ToAnswer
  <2>2. /\ \A p : Installable(p)' <=> Installable(p)
        /\ \A pq : Together(pq)' <=> Together(pq)
    BY DEF Installable, Together
  <2>3. QED BY <2>1, <2>2 DEF ReportInv, UninstallableReported, InstallableNotReported,
                              ReportedTogether, TogetherReported
<1>6. QED BY <1>1, <1>2, <1>3, <1>4, <1>5 DEF Next

\* For every release whose dependencies all name something: at the end of a check
\* that no late alarm broke off, the reports name the uninstallable packages and
\* the implicit conflicts and nothing else, up to the queries whose search was
\* cut off (the invariant ReportsExact).
THEOREM ReportsAreExact == Spec => []ReportsExact
<1>1. Init => ReportInv
  <2> SUFFICES ASSUME Init PROVE ReportInv
    OBVIOUS
  <2>1. ToAnswer = Queries /\ reports = {} /\ pc = "next"
    BY DEF Init, ToAnswer, Queries
  <2>2. \A p \in graph.checked : <<p>> \in ToAnswer
    BY <2>1 DEF Queries
  <2>3. \A pq \in Suspects(graph) : pq \in ToAnswer
    BY <2>1 DEF Queries
  <2>4. QED BY <2>1, <2>2, <2>3 DEF ReportInv, UninstallableReported, InstallableNotReported,
                                   ReportedTogether, TogetherReported
<1>2. ReportInv => ReportsExact
  <2>1. Finished => ToAnswer = {}
    BY DEF Finished, ToAnswer
  <2>2. QED BY <2>1 DEF ReportInv, ReportsExact, UninstallableReported, InstallableNotReported,
                        ReportedTogether, TogetherReported
<1>3. QED BY <1>1, <1>2, StepKeepsReports, SearchIsSound, SearchIsComplete, SearchCorrect, PTL DEF Spec
=============================================================================
