---------------------------- MODULE NumberLemmas ----------------------------
(* Sets of numbers have a smallest element: the free address that tunbr    *)
(* chooses, the package that the dependency search tries first, the last   *)
(* of some versions or lines.  From this follows induction up to a number, *)
(* and that functions applied one after the other have a result.           *)
EXTENDS FiniteSetTheorems, WellFoundedInduction, TLAPS

\* A non-empty set of numbers up to N has a smallest element: the one below
\* which the fewest numbers are.
LEMMA BoundedSetHasMinimum ==
  ASSUME NEW N \in Nat, NEW T \in SUBSET (0 .. N), T # {}
  PROVE  \E x \in T : \A y \in T : x <= y
<1> DEFINE below(x) == 0 .. (x - 1)
           U == {below(x) : x \in T}
           R == StrictSubsetOrdering(0 .. N)
<1>1. U \subseteq FiniteSubsetsOf(0 .. N)
  <2>1. IsFiniteSet(0 .. N)
    BY FS_Interval
  <2>2. FiniteSubsetsOf(0 .. N) = SUBSET (0 .. N)
    BY <2>1, FS_FiniteSubsetsOfFinite
  <2>3. QED BY <2>2
<1>2. PICK A \in U : \A B \in U : <<B, A>> \notin R
  <2>1. IsWellFoundedOn(R, FiniteSubsetsOf(0 .. N))
    BY FS_StrictSubsetOrderingWellFounded
  <2>2. U # {}
    OBVIOUS
  <2> HIDE DEF U, R
  <2>3. QED BY <1>1, <2>1, <2>2, WFMin
<1>3. PICK x \in T : A = below(x)
  OBVIOUS
<1>4. ASSUME NEW y \in T, ~ x <= y
      PROVE  FALSE
  <2>1. below(y) \subseteq below(x) /\ below(y) # below(x)
    <3>1. y \in below(x) /\ y \notin below(y)
      BY <1>4
    <3>2. below(y) \subseteq below(x)
      BY <1>4
    <3>3. QED BY <3>1, <3>2
  <2>2. <<below(y), below(x)>> \in R
    BY <2>1 DEF StrictSubsetOrdering
  <2>3. QED BY <1>3, <1>2, <2>2
<1>5. QED BY <1>4

\* So does every non-empty set of natural numbers: the smallest of the numbers
\* up to one of them.
LEMMA NumbersHaveMinimum ==
  ASSUME NEW S \in SUBSET Nat, S # {}
  PROVE  \E x \in S : \A y \in S : x <= y
<1>1. PICK z \in S : TRUE
  OBVIOUS
<1> DEFINE T == {y \in S : y <= z}
<1>2. T \in SUBSET (0 .. z) /\ T # {} /\ z \in Nat
  <2>1. z \in Nat
    BY <1>1
  <2>2. z \in T
    BY <2>1
  <2>3. \A y \in T : y \in 0 .. z
    BY <2>1
  <2>4. QED BY <2>1, <2>2, <2>3
<1>3. \A x \in T : x \in S /\ x <= z
  OBVIOUS
<1>4. ASSUME NEW y \in S, y \notin T
      PROVE  z <= y
  <2>1. y \in Nat /\ ~ y <= z
    BY <1>4
  <2>2. QED BY <1>2, <2>1
<1> HIDE DEF T
<1>5. PICK x \in T : \A y \in T : x <= y
  BY <1>2, BoundedSetHasMinimum
<1>6. QED BY <1>2, <1>3, <1>4, <1>5

\* Induction up to n, on a set instead of a predicate.
LEMMA BoundedInduction ==
  ASSUME NEW n \in Nat, NEW T, 0 \in T, \A i \in 0 .. n : i \in T /\ i < n => i + 1 \in T
  PROVE  \A i \in 0 .. n : i \in T
<1> DEFINE Bad == {i \in 0 .. n : i \notin T}
<1>1. SUFFICES ASSUME Bad # {} PROVE FALSE
  OBVIOUS
<1>2. PICK m \in Bad : \A i \in Bad : m <= i
  <2>1. Bad \in SUBSET Nat
    OBVIOUS
  <2> HIDE DEF Bad
  <2>2. QED BY <1>1, <2>1, NumbersHaveMinimum
<1>3. m \in 1 .. n /\ m \notin T
  OBVIOUS
<1>4. m - 1 \in T
  BY <1>2, <1>3
<1>5. (m - 1) + 1 = m /\ m - 1 \in 0 .. n /\ m - 1 < n
  BY <1>3
<1>6. QED BY <1>3, <1>4, <1>5

\* f lists what the first n functions of g make of d, one after the other.
Steps(f, n, d, g) == f[0] = d /\ \A i \in 1 .. n : f[i] = g[i][f[i - 1]]

\* Functions that are applied one after the other have a result.
LEMMA StepsExist ==
  ASSUME NEW n \in Nat, NEW D, NEW d \in D, NEW g \in [1 .. n -> [D -> D]]
  PROVE  \E f \in [0 .. n -> D] : Steps(f, n, d, g)
<1> USE DEF Steps
<1> DEFINE UpTo(m, f) == f \in [0 .. m -> D] /\ Steps(f, m, d, g)
           T == {m \in 0 .. n : \E f : UpTo(m, f)}
<1>1. 0 \in T
  <2> DEFINE f == [i \in 0 .. 0 |-> d]
  <2>1. UpTo(0, f)
    OBVIOUS
  <2> HIDE DEF UpTo
  <2> QED
    BY <2>1
<1>2. ASSUME NEW m \in 0 .. n, m \in T, m < n
      PROVE  m + 1 \in T
  <2>1. PICK f : UpTo(m, f)
    BY <1>2
  <2> DEFINE h == [i \in 0 .. m + 1 |-> IF i = m + 1 THEN g[m + 1][f[m]] ELSE f[i]]
  <2>2. m \in Nat /\ m + 1 \in 1 .. n /\ f[m] \in D /\ g[m + 1] \in [D -> D]
    BY <1>2, <2>1
  <2>3. h \in [0 .. m + 1 -> D] /\ h[0] = d
    BY <2>1, <2>2
  <2>4. ASSUME NEW i \in 1 .. m + 1
        PROVE  h[i] = g[i][h[i - 1]]
    <3>1. CASE i = m + 1
      <4>1. h[i] = g[m + 1][f[m]] /\ h[i - 1] = f[m]
        BY <2>2, <3>1
      <4> QED
        BY <3>1, <4>1
    <3>2. CASE i # m + 1
      <4>1. i \in 1 .. m /\ h[i] = f[i] /\ h[i - 1] = f[i - 1]
        BY <2>2, <3>2
      <4> QED
        BY <2>1, <4>1
    <3> QED
      BY <3>1, <3>2
  <2>5. UpTo(m + 1, h)
    <3> HIDE DEF h
    <3> QED
      BY <2>3, <2>4
  <2> HIDE DEF UpTo
  <2> QED
    BY <2>2, <2>5
<1>3. n \in T
  <2> HIDE DEF T
  <2>1. \A m \in 0 .. n : m \in T /\ m < n => m + 1 \in T
    BY <1>2
  <2>2. \A m \in 0 .. n : m \in T
    BY <1>1, <2>1, BoundedInduction
  <2> QED
    BY <2>2
<1> QED
  BY <1>3
=============================================================================
