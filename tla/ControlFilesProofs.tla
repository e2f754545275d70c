------------------------- MODULE ControlFilesProofs -------------------------
(***************************************************************************)
(* Proofs about the reading of one text, and about the process that does   *)
(* it.                                                                     *)
(*                                                                         *)
(* A loop over lines is followed line by line: SignatureKnows and          *)
(* AttributeKnows say what the loop knows of the text when it has read its *)
(* first i lines, every line adds to that (SignatureLearns,                *)
(* AttributeLearns), and BoundedInduction carries it to the last line.     *)
(* From what is known there follows what StripSignature and                *)
(* ParseAttributes return, as the properties say it of positions in the    *)
(* whole text; ReadingInv then takes the result through the stages of a    *)
(* file.  ParseConfig is a loop around this one (ConfigKnown).  A Packages *)
(* file is read part by part: what one part leads to is where the next one *)
(* begins (UpstreamConcat).  The library's induction theorems have an      *)
(* operator as parameter and cannot be used: the induction is over a set   *)
(* of positions instead.                                                   *)
(***************************************************************************)
EXTENDS ControlFilesProps, NumberLemmas

-----------------------------------------------------------------------------
(* Loops over lines. *)

\* What a loop over the lines goes through, as the values of f.
SignatureRun(f, lines) ==
  f = [i \in 0 .. Len(lines) |->
         IF i = 0 THEN [stage |-> 1, lines |-> <<>>, broken |-> FALSE]
         ELSE SignatureStep(f[i - 1], lines[i])]

\* The loop of StripSignature has a value, found line by line.
LEMMA SignatureLoop ==
  ASSUME NEW lines, Len(lines) \in Nat
  PROVE  \E f : /\ SignatureRun(f, lines)
                /\ Loop(SignatureStep, [stage |-> 1, lines |-> <<>>, broken |-> FALSE], lines)
                     = f[Len(lines)]
<1> DEFINE initial == [stage |-> 1, lines |-> <<>>, broken |-> FALSE]
           step(a, i) == CHOOSE s \in {SignatureStep(before, lines[i]) : before \in {a[i - 1]}} : TRUE
           Loops(a) == a = [i \in 0 .. Len(lines) |-> IF i = 0 THEN initial ELSE step(a, i)]
           after == CHOOSE a : Loops(a)
<1>1. \A a, i : step(a, i) = SignatureStep(a[i - 1], lines[i])
  OBVIOUS
<1>2. Loop(SignatureStep, initial, lines) = after[Len(lines)]
  BY Zenon DEF Loop
<1> HIDE DEF step, initial
<1>3. \E f : Loops(f)
  <2> DEFINE n == Len(lines)
             UpTo(m, f) == f = [i \in 0 .. m |-> IF i = 0 THEN initial ELSE step(f, i)]
             T == {m \in 0 .. n : \E f : UpTo(m, f)}
  <2>0. n \in Nat
    OBVIOUS
  <2> HIDE DEF n
  <2>1. 0 \in T
    <3> DEFINE f == [i \in 0 .. 0 |-> initial]
    <3>1. UpTo(0, f)
      OBVIOUS
    <3>2. 0 \in 0 .. n
      BY <2>0
    <3> HIDE DEF UpTo
    <3> QED
      BY <3>1, <3>2
  <2>2. ASSUME NEW m \in 0 .. n, m \in T, m < n
        PROVE  m + 1 \in T
    <3>1. PICK f : UpTo(m, f)
      BY <2>2
    <3> DEFINE g == [i \in 0 .. m + 1 |-> IF i = 0 THEN initial ELSE step(f, i)]
    <3>2. \A i \in 0 .. m : g[i] = f[i]
      BY <3>1
    <3>3. \A i \in 0 .. m + 1 : i # 0 => step(g, i) = step(f, i)
      <4>1. \A i \in 0 .. m + 1 : i # 0 => i - 1 \in 0 .. m
        OBVIOUS
      <4> HIDE DEF g
      <4> QED
        BY <1>1, <3>2, <4>1
    <3>4. UpTo(m + 1, g)
      <4>1. g = [i \in 0 .. m + 1 |-> IF i = 0 THEN initial ELSE step(g, i)]
        BY <3>3
      <4> QED
        BY <4>1
    <3>5. m + 1 \in 0 .. n
      BY <2>0, <2>2
    <3> HIDE DEF UpTo, g
    <3> QED
      BY <3>4, <3>5
  <2>3. n \in T
    <3> HIDE DEF T
    <3>1. \A m \in 0 .. n : m \in T /\ m < n => m + 1 \in T
      BY <2>2
    <3>2. \A m \in 0 .. n : m \in T
      BY <2>0, <2>1, <3>1, BoundedInduction
    <3> QED
      BY <2>0, <3>2
  <2> QED
    BY <2>3 DEF n
<1>4. Loops(after)
  BY <1>3, Zenon
<1>5. SignatureRun(after, lines)
  BY <1>1, <1>4 DEF SignatureRun, initial
<1> QED
  BY <1>2, <1>5 DEF initial

\* The same for the loop of ParseAttributes.
AttributeRun(f, lines) ==
  f = [i \in 0 .. Len(lines) |->
         IF i = 0 THEN [dict |-> Nothing, key |-> Missing, single |-> FALSE]
         ELSE AttributeStep(f[i - 1], lines[i])]

\* It has a value too.
LEMMA AttributeLoop ==
  ASSUME NEW lines, Len(lines) \in Nat
  PROVE  \E f : /\ AttributeRun(f, lines)
                /\ Loop(AttributeStep, [dict |-> Nothing, key |-> Missing, single |-> FALSE], lines)
                     = f[Len(lines)]
<1> DEFINE initial == [dict |-> Nothing, key |-> Missing, single |-> FALSE]
           step(a, i) == CHOOSE s \in {AttributeStep(before, lines[i]) : before \in {a[i - 1]}} : TRUE
           Loops(a) == a = [i \in 0 .. Len(lines) |-> IF i = 0 THEN initial ELSE step(a, i)]
           after == CHOOSE a : Loops(a)
<1>1. \A a, i : step(a, i) = AttributeStep(a[i - 1], lines[i])
  OBVIOUS
<1>2. Loop(AttributeStep, initial, lines) = after[Len(lines)]
  BY Zenon DEF Loop
<1> HIDE DEF step, initial
<1>3. \E f : Loops(f)
  <2> DEFINE n == Len(lines)
             UpTo(m, f) == f = [i \in 0 .. m |-> IF i = 0 THEN initial ELSE step(f, i)]
             T == {m \in 0 .. n : \E f : UpTo(m, f)}
  <2>0. n \in Nat
    OBVIOUS
  <2> HIDE DEF n
  <2>1. 0 \in T
    <3> DEFINE f == [i \in 0 .. 0 |-> initial]
    <3>1. UpTo(0, f)
      OBVIOUS
    <3>2. 0 \in 0 .. n
      BY <2>0
    <3> HIDE DEF UpTo
    <3> QED
      BY <3>1, <3>2
  <2>2. ASSUME NEW m \in 0 .. n, m \in T, m < n
        PROVE  m + 1 \in T
    <3>1. PICK f : UpTo(m, f)
      BY <2>2
    <3> DEFINE g == [i \in 0 .. m + 1 |-> IF i = 0 THEN initial ELSE step(f, i)]
    <3>2. \A i \in 0 .. m : g[i] = f[i]
      BY <3>1
    <3>3. \A i \in 0 .. m + 1 : i # 0 => step(g, i) = step(f, i)
      <4>1. \A i \in 0 .. m + 1 : i # 0 => i - 1 \in 0 .. m
        OBVIOUS
      <4> HIDE DEF g
      <4> QED
        BY <1>1, <3>2, <4>1
    <3>4. UpTo(m + 1, g)
      <4>1. g = [i \in 0 .. m + 1 |-> IF i = 0 THEN initial ELSE step(g, i)]
        BY <3>3
      <4> QED
        BY <4>1
    <3>5. m + 1 \in 0 .. n
      BY <2>0, <2>2
    <3> HIDE DEF UpTo, g
    <3> QED
      BY <3>4, <3>5
  <2>3. n \in T
    <3> HIDE DEF T
    <3>1. \A m \in 0 .. n : m \in T /\ m < n => m + 1 \in T
      BY <2>2
    <3>2. \A m \in 0 .. n : m \in T
      BY <2>0, <2>1, <3>1, BoundedInduction
    <3> QED
      BY <2>0, <3>2
  <2> QED
    BY <2>3 DEF n
<1>4. Loops(after)
  BY <1>3, Zenon
<1>5. AttributeRun(after, lines)
  BY <1>1, <1>4 DEF AttributeRun, initial
<1> QED
  BY <1>2, <1>5 DEF initial
-----------------------------------------------------------------------------
(* The signed text. *)

\* The text between an empty line and the line that begins the signature.
Between(lines, empty, signature) ==
  [i \in 1 .. signature - empty - 1 |-> Unescape(lines[empty + i])]

\* A message that begins in the first header line; after it nothing but hashes.
Headed(lines, header, end) ==
  /\ lines[header].kind = "message"
  /\ \A j \in 1 .. header - 1 : lines[j].kind # "message"
  /\ \A j \in header + 1 .. end - 1 : lines[j].kind = "hash"

\* The same up to the empty line; no line of the text starts with a bare dash.
Begun(lines, header, empty, end) ==
  /\ header < empty /\ empty < end
  /\ Headed(lines, header, empty)
  /\ lines[empty].kind = "empty"
  /\ \A j \in empty + 1 .. end - 1 : lines[j].kind = "escaped" \/ ~ StartsWithDash(lines[j])

\* And with the line that begins the signature.
Sealed(lines, header, empty, signature, end) ==
  /\ Begun(lines, header, empty, signature) /\ signature < end
  /\ lines[signature].kind = "signature"
  /\ \A j \in signature + 1 .. end - 1 : lines[j].kind # "end"

SignatureStates == [stage : 1 .. 5, lines : Seq(Lines), broken : BOOLEAN]

\* What StripSignature knows when it has read i lines.
SignatureKnows(lines, s, i) ==
  /\ s \in SignatureStates
  /\ s.broken => s.stage \in {2, 3}
  /\ s.stage = 1 => s.lines = <<>> /\ \A j \in 1 .. i : lines[j].kind # "message"
  /\ s.stage = 2 /\ ~ s.broken => s.lines = <<>> /\ \E h \in 1 .. i : Headed(lines, h, i + 1)
  /\ s.stage = 3 /\ ~ s.broken =>
       \E h, e \in 1 .. i : Begun(lines, h, e, i + 1) /\ s.lines = Between(lines, e, i + 1)
  /\ s.stage = 4 =>
       \E h, e, g \in 1 .. i : Sealed(lines, h, e, g, i + 1) /\ s.lines = Between(lines, e, g)
  /\ s.stage = 5 =>
       \E h, e, g, d \in 1 .. i :
         Sealed(lines, h, e, g, d) /\ lines[d].kind = "end" /\ s.lines = Between(lines, e, g)

\* A line keeps its type when its escape is taken away.
LEMMA UnescapeType == ASSUME NEW l \in Lines PROVE Unescape(l) \in Lines
BY DEF Unescape, Lines

\* Every line that is read adds to what is known.
LEMMA SignatureLearns ==
  ASSUME NEW lines \in Seq(Lines), NEW s, NEW i \in 0 .. Len(lines), i < Len(lines),
         SignatureKnows(lines, s, i)
  PROVE  SignatureKnows(lines, SignatureStep(s, lines[i + 1]), i + 1)
<1> DEFINE l == lines[i + 1]
           t == SignatureStep(s, l)
<1>1. /\ i \in Nat /\ i + 1 \in 1 .. Len(lines) /\ l \in Lines
      /\ \A j \in 1 .. i : j \in 1 .. i + 1
      /\ \A j \in 1 .. i + 1 : j \in 1 .. i \/ j = i + 1
      /\ s \in SignatureStates
  BY DEF SignatureKnows
<1> HIDE DEF l
<1>2. /\ \A n \in 1 .. 5 : /\ [s EXCEPT !.stage = n] \in SignatureStates
                           /\ [s EXCEPT !.stage = n].stage = n
                           /\ [s EXCEPT !.stage = n].lines = s.lines
                           /\ [s EXCEPT !.stage = n].broken = s.broken
      /\ [s EXCEPT !.broken = TRUE] \in SignatureStates
      /\ [s EXCEPT !.broken = TRUE].stage = s.stage
      /\ [s EXCEPT !.broken = TRUE].broken
  BY <1>1 DEF SignatureStates
<1>3. CASE s.broken
  <2>1. t = s
    BY <1>3 DEF SignatureStep
  <2> QED
    BY <1>1, <1>3, <2>1 DEF SignatureKnows, l
<1>4. CASE s.stage = 5
  <2>1. t = s
    BY <1>4 DEF SignatureStep
  <2> QED
    BY <1>1, <1>4, <2>1 DEF SignatureKnows, l
<1>5. CASE ~ s.broken /\ s.stage = 1
  <2>1. s.lines = <<>> /\ \A j \in 1 .. i : lines[j].kind # "message"
    BY <1>5 DEF SignatureKnows
  <2>2. CASE l.kind = "message"
    <3>1. t = [s EXCEPT !.stage = 2]
      BY <1>5, <2>2 DEF SignatureStep
    <3>2. Headed(lines, i + 1, i + 2)
      BY <1>1, <2>1, <2>2 DEF Headed, l
    <3>3. t \in SignatureStates /\ t.stage = 2 /\ t.lines = <<>> /\ ~ t.broken
      BY <1>2, <1>5, <2>1, <3>1
    <3> HIDE DEF t
    <3> QED
      BY <1>1, <3>2, <3>3 DEF SignatureKnows, t, l
  <2>3. CASE l.kind # "message"
    <3>1. t = [s EXCEPT !.stage = 1]
      BY <1>5, <2>3 DEF SignatureStep
    <3>2. t \in SignatureStates /\ t.stage = 1 /\ t.lines = <<>> /\ ~ t.broken
      BY <1>2, <1>5, <2>1, <3>1
    <3>3. \A j \in 1 .. i + 1 : lines[j].kind # "message"
      BY <1>1, <2>1, <2>3 DEF l
    <3> HIDE DEF t
    <3> QED
      BY <3>2, <3>3 DEF SignatureKnows, t, l
  <2> QED
    BY <2>2, <2>3
<1>6. CASE ~ s.broken /\ s.stage = 2
  <2>1. s.lines = <<>>
    BY <1>6 DEF SignatureKnows
  <2>2. PICK h \in 1 .. i : Headed(lines, h, i + 1)
    BY <1>6 DEF SignatureKnows
  <2>3. CASE l.kind = "hash"
    <3>1. t = s
      BY <1>6, <2>3 DEF SignatureStep
    <3>2. Headed(lines, h, i + 2)
      BY <1>1, <2>2, <2>3 DEF Headed, l
    <3> QED
      BY <1>1, <1>6, <2>1, <3>1, <3>2 DEF SignatureKnows, l
  <2>4. CASE l.kind = "empty"
    <3>1. t = [s EXCEPT !.stage = 3]
      BY <1>6, <2>4 DEF SignatureStep
    <3>2. t \in SignatureStates /\ t.stage = 3 /\ t.lines = <<>> /\ ~ t.broken
      BY <1>2, <1>6, <2>1, <3>1
    <3>3. Begun(lines, h, i + 1, i + 2)
      BY <1>1, <2>2, <2>4 DEF Begun, l
    <3>4. Between(lines, i + 1, i + 2) = <<>>
      BY <1>1 DEF Between
    <3> HIDE DEF t
    <3> QED
      BY <1>1, <3>2, <3>3, <3>4 DEF SignatureKnows, t, l
  <2>5. CASE l.kind \notin {"hash", "empty"}
    <3>1. t = [s EXCEPT !.broken = TRUE]
      BY <1>6, <2>5 DEF SignatureStep
    <3>2. t \in SignatureStates /\ t.stage = 2 /\ t.broken
      BY <1>2, <1>6, <3>1
    <3> HIDE DEF t
    <3> QED
      BY <3>2 DEF SignatureKnows, t, l
  <2> QED
    BY <2>3, <2>4, <2>5
<1>7. CASE ~ s.broken /\ s.stage = 3
  <2>1. PICK h \in 1 .. i, e \in 1 .. i : Begun(lines, h, e, i + 1) /\ s.lines = Between(lines, e, i + 1)
    BY <1>7 DEF SignatureKnows
  <2>2. CASE l.kind = "signature"
    <3>1. t = [s EXCEPT !.stage = 4]
      BY <1>7, <2>2 DEF SignatureStep, StartsWithDash
    <3>2. t \in SignatureStates /\ t.stage = 4 /\ t.lines = s.lines /\ ~ t.broken
      BY <1>2, <1>7, <3>1
    <3>3. Sealed(lines, h, e, i + 1, i + 2)
      BY <1>1, <2>1, <2>2 DEF Sealed, l
    <3> HIDE DEF t
    <3> QED
      BY <1>1, <2>1, <3>2, <3>3 DEF SignatureKnows, t, l
  <2>3. CASE l.kind = "escaped" \/ ~ StartsWithDash(l)
    <3>1. t = [s EXCEPT !.lines = Append(@, Unescape(l))]
      BY <1>7, <2>3 DEF SignatureStep, StartsWithDash
    <3>2. Unescape(l) \in Lines
      BY <1>1, UnescapeType
    <3>3. t \in SignatureStates /\ t.stage = 3 /\ t.lines = Append(s.lines, Unescape(l)) /\ ~ t.broken
      <4>1. Append(s.lines, Unescape(l)) \in Seq(Lines)
        BY <1>1, <3>2 DEF SignatureStates
      <4> DEFINE x == Append(s.lines, Unescape(l))
      <4>2. t = [s EXCEPT !.lines = x]
        BY <3>1
      <4> HIDE DEF x, t
      <4> QED
        BY <1>1, <1>7, <4>1, <4>2 DEF SignatureStates, x
    <3>4. Begun(lines, h, e, i + 2)
      BY <1>1, <2>1, <2>3 DEF Begun, l
    <3>5. Append(s.lines, Unescape(l)) = Between(lines, e, i + 2)
      <4>1. e + ((i + 1) - e) = i + 1 /\ (i + 2) - e - 1 = ((i + 1) - e - 1) + 1
        BY <1>1
      <4>2. (i + 1) - e - 1 \in Nat
        BY <1>1
      <4> DEFINE m == (i + 1) - e - 1
                 f == [j \in 1 .. m |-> Unescape(lines[e + j])]
                 g == [j \in 1 .. m + 1 |-> Unescape(lines[e + j])]
      <4>3. m \in Nat /\ e + (m + 1) = i + 1
        BY <1>1
      <4> HIDE DEF m
      <4>4. f = s.lines /\ s.lines \in Seq(Lines)
        BY <1>1, <2>1 DEF Between, SignatureStates, m
      <4>5. Len(s.lines) = m
        BY <4>3, <4>4
      <4>6. Append(s.lines, Unescape(l)) = g
        <5>1. \A j \in 1 .. m : Unescape(lines[e + j]) = s.lines[j]
          BY <4>4
        <5>2. Append(s.lines, Unescape(l)) = [j \in 1 .. m + 1 |-> IF j = m + 1 THEN Unescape(l) ELSE s.lines[j]]
          BY <4>3, <4>4, <4>5
        <5>3. \A j \in 1 .. m + 1 :
                Unescape(lines[e + j]) = IF j = m + 1 THEN Unescape(l) ELSE s.lines[j]
          <6>1. \A j \in 1 .. m + 1 : j = m + 1 \/ j \in 1 .. m
            BY <4>3
          <6> QED
            BY <4>3, <5>1, <6>1 DEF l
        <5> QED
          BY <5>2, <5>3
      <4> QED
        BY <4>1, <4>6 DEF Between, m
    <3> HIDE DEF t
    <3> QED
      BY <1>1, <2>1, <3>3, <3>4, <3>5 DEF SignatureKnows, t, l
  <2>4. CASE ~ (l.kind \in {"signature", "escaped"} \/ ~ StartsWithDash(l))
    <3>1. t = [s EXCEPT !.broken = TRUE]
      BY <1>7, <2>4 DEF SignatureStep
    <3>2. t \in SignatureStates /\ t.stage = 3 /\ t.broken
      BY <1>2, <1>7, <3>1
    <3> HIDE DEF t
    <3> QED
      BY <3>2 DEF SignatureKnows, t, l
  <2> QED
    BY <2>2, <2>3, <2>4
<1>8. CASE ~ s.broken /\ s.stage = 4
  <2>1. PICK h \in 1 .. i, e \in 1 .. i, g \in 1 .. i :
          Sealed(lines, h, e, g, i + 1) /\ s.lines = Between(lines, e, g)
    BY <1>8 DEF SignatureKnows
  <2>2. CASE l.kind = "end"
    <3>1. t = [s EXCEPT !.stage = 5]
      BY <1>8, <2>2 DEF SignatureStep
    <3>2. t \in SignatureStates /\ t.stage = 5 /\ t.lines = s.lines /\ ~ t.broken
      BY <1>2, <1>8, <3>1
    <3> HIDE DEF t
    <3> QED
      BY <1>1, <2>1, <2>2, <3>2 DEF SignatureKnows, t, l
  <2>3. CASE l.kind # "end"
    <3>1. t = [s EXCEPT !.stage = 4]
      BY <1>8, <2>3 DEF SignatureStep
    <3>2. t \in SignatureStates /\ t.stage = 4 /\ t.lines = s.lines /\ ~ t.broken
      BY <1>2, <1>8, <3>1
    <3>3. Sealed(lines, h, e, g, i + 2)
      BY <1>1, <2>1, <2>3 DEF Sealed, l
    <3> HIDE DEF t
    <3> QED
      BY <1>1, <2>1, <3>2, <3>3 DEF SignatureKnows, t, l
  <2> QED
    BY <2>2, <2>3
<1> QED
  BY <1>1, <1>3, <1>4, <1>5, <1>6, <1>7, <1>8 DEF SignatureStates

\* So the whole text is known at the end.
LEMMA SignatureKnown ==
  ASSUME NEW lines \in Seq(Lines)
  PROVE  \E s : /\ SignatureKnows(lines, s, Len(lines))
                /\ StripSignature(lines) = CASE s.stage = 5 -> s.lines
                                             [] s.stage = 1 -> lines
                                             [] OTHER -> Missing
<1> DEFINE n == Len(lines)
<1>1. n \in Nat
  OBVIOUS
<1>2. PICK f : /\ SignatureRun(f, lines)
               /\ Loop(SignatureStep, [stage |-> 1, lines |-> <<>>, broken |-> FALSE], lines) = f[n]
  BY <1>1, SignatureLoop
<1>3. /\ f[0] = [stage |-> 1, lines |-> <<>>, broken |-> FALSE]
      /\ \A i \in 0 .. n : i < n => f[i + 1] = SignatureStep(f[i], lines[i + 1])
  <2>1. 0 \in 0 .. n
    BY <1>1
  <2>2. f[0] = [stage |-> 1, lines |-> <<>>, broken |-> FALSE]
    BY <1>2, <2>1 DEF SignatureRun
  <2>3. \A i \in 0 .. n : i < n => i + 1 \in 0 .. n /\ i + 1 # 0 /\ (i + 1) - 1 = i
    BY <1>1
  <2>4. \A i \in 0 .. n : i < n => f[i + 1] = SignatureStep(f[i], lines[i + 1])
    <3>1. \A j \in 0 .. n : j # 0 => f[j] = SignatureStep(f[j - 1], lines[j])
      BY <1>2 DEF SignatureRun
    <3> QED
      BY <2>3, <3>1
  <2> QED
    BY <2>2, <2>4
<1> DEFINE T == {i \in 0 .. n : SignatureKnows(lines, f[i], i)}
<1>4. 0 \in T
  <2>1. f[0] \in SignatureStates /\ f[0].stage = 1 /\ f[0].lines = <<>> /\ ~ f[0].broken
    BY <1>3 DEF SignatureStates
  <2>2. SignatureKnows(lines, f[0], 0)
    BY <2>1 DEF SignatureKnows
  <2> QED
    BY <1>1, <2>2
<1>5. \A i \in 0 .. n : i \in T /\ i < n => i + 1 \in T
  <2> SUFFICES ASSUME NEW i \in 0 .. n, i \in T, i < n PROVE i + 1 \in T
    OBVIOUS
  <2>1. SignatureKnows(lines, f[i + 1], i + 1)
    BY <1>3, SignatureLearns
  <2>2. i + 1 \in 0 .. n
    BY <1>1
  <2> QED
    BY <2>1, <2>2
<1>6. n \in T
  <2> HIDE DEF n, T
  <2>1. \A i \in 0 .. n : i \in T
    BY <1>1, <1>4, <1>5, BoundedInduction
  <2> QED
    BY <1>1, <2>1
<1>7. SignatureKnows(lines, f[n], n)
  BY <1>6
<1>8. StripSignature(lines) = CASE f[n].stage = 5 -> f[n].lines
                                [] f[n].stage = 1 -> lines
                                [] OTHER -> Missing
  BY <1>2 DEF StripSignature
<1> QED
  BY <1>7, <1>8

\* What StripSignature returns, if anything.
LEMMA StripSignatureExact ==
  ASSUME NEW lines \in Seq(Lines), WellFormed(lines), StripSignature(lines) # Missing
  PROVE  /\ SignedText(lines, StripSignature(lines))
         /\ StripSignature(lines) \in Seq(Lines)
         /\ WellFormed(StripSignature(lines))
<1> DEFINE n == Len(lines)
<1>1. n \in Nat /\ DOMAIN lines = 1 .. n
  OBVIOUS
<1>2. PICK s : /\ SignatureKnows(lines, s, n)
               /\ StripSignature(lines) = CASE s.stage = 5 -> s.lines
                                            [] s.stage = 1 -> lines
                                            [] OTHER -> Missing
  BY SignatureKnown
<1> HIDE DEF n
<1>3. s \in SignatureStates
  BY <1>2 DEF SignatureKnows
<1>4. CASE s.stage = 1
  <2>1. StripSignature(lines) = lines /\ \A j \in DOMAIN lines : lines[j].kind # "message"
    BY <1>1, <1>2, <1>4 DEF SignatureKnows
  <2> QED
    BY <2>1 DEF SignedText
<1>5. CASE s.stage = 5
  <2>1. StripSignature(lines) = s.lines /\ s.lines \in Seq(Lines)
    BY <1>2, <1>3, <1>5 DEF SignatureStates
  <2>2. PICK h \in 1 .. n, e \in 1 .. n, g \in 1 .. n, d \in 1 .. n :
          Sealed(lines, h, e, g, d) /\ lines[d].kind = "end" /\ s.lines = Between(lines, e, g)
    BY <1>2, <1>5 DEF SignatureKnows
  <2>3. Framed(lines, h, e, g, d)
    <3>1. /\ h < e /\ e < g /\ g < d
          /\ lines[h].kind = "message" /\ lines[e].kind = "empty"
          /\ lines[g].kind = "signature" /\ lines[d].kind = "end"
      BY <2>2 DEF Sealed, Begun, Headed
    <3>2. ASSUME NEW i \in DOMAIN lines
          PROVE  /\ i < h => lines[i].kind # "message"
                 /\ h < i /\ i < e => lines[i].kind = "hash"
                 /\ e < i /\ i < g => lines[i].kind = "escaped" \/ ~ StartsWithDash(lines[i])
                 /\ g < i /\ i < d => lines[i].kind # "end"
      <4>1. /\ i < h => i \in 1 .. h - 1
            /\ h < i /\ i < e => i \in h + 1 .. e - 1
            /\ e < i /\ i < g => i \in e + 1 .. g - 1
            /\ g < i /\ i < d => i \in g + 1 .. d - 1
        BY <1>1
      <4> QED
        BY <2>2, <4>1 DEF Sealed, Begun, Headed
    <3> QED
      BY <3>1, <3>2 DEF Framed
  <2>4. ~ \A i \in DOMAIN lines : lines[i].kind # "message"
    BY <1>1, <2>3 DEF Framed
  <2>5. s.lines = [i \in 1 .. g - e - 1 |-> Unescape(lines[e + i])]
    BY <2>2 DEF Between
  <2>6. SignedText(lines, StripSignature(lines))
    <3>1. h \in DOMAIN lines /\ e \in DOMAIN lines /\ g \in DOMAIN lines /\ d \in DOMAIN lines
      BY <1>1
    <3>2. SignedText(lines, s.lines)
      BY <2>3, <2>4, <2>5, <3>1, Zenon DEF SignedText
    <3> QED
      BY <2>1, <3>2
  <2>7. WellFormed(s.lines)
    <3> SUFFICES ASSUME NEW i \in DOMAIN s.lines,
                        s.lines[i].kind \in {"attribute", "hash", "key", "folded", "heading"}
                 PROVE  /\ s.lines[i].kind \in {"attribute", "hash", "key"} => s.lines[i].key \in Keys
                        /\ s.lines[i].kind \in {"attribute", "hash", "folded"} => s.lines[i].parts # <<>>
                        /\ s.lines[i].kind = "heading" => s.lines[i].track \in Tracks
      BY DEF WellFormed
    <3>1. i \in 1 .. g - e - 1 /\ s.lines[i] = Unescape(lines[e + i])
      BY <2>5
    <3>2. e + i \in DOMAIN lines
      BY <1>1, <3>1
    <3>3. lines[e + i] \in Lines
      BY <3>2
    <3>4. s.lines[i] = lines[e + i]
      BY <3>1, <3>3 DEF Unescape, Lines
    <3> QED
      BY <3>2, <3>4 DEF WellFormed
  <2> QED
    BY <2>1, <2>6, <2>7
<1>6. s.stage \in {1, 5}
  BY <1>2
<1> QED
  BY <1>4, <1>5, <1>6
-----------------------------------------------------------------------------
(* Attributes. *)

\* The parts of a value, each in a line of its own.
Pieces(parts) == [n \in DOMAIN parts |-> <<parts[n]>>]

\* Put together they are the value again.
LEMMA PiecesFlatten ==
  ASSUME NEW S, NEW parts \in Seq(S)
  PROVE  FlattenSeq(Pieces(parts)) = parts
<1> DEFINE m == Len(parts)
           q == Pieces(parts)
           Flattens(f) == f = [i \in 1 .. Len(q) |-> IF i = 1 THEN q[i] ELSE f[i - 1] \o q[i]]
           flatten == CHOOSE f : Flattens(f)
<1>1. /\ m \in Nat /\ DOMAIN parts = 1 .. m
      /\ q = [n \in 1 .. m |-> <<parts[n]>>] /\ Len(q) = m
  BY DEF Pieces
<1>2. CASE m = 0
  <2>1. parts = <<>> /\ q = <<>>
    BY <1>1, <1>2
  <2> QED
    BY <2>1, <1>1, <1>2 DEF FlattenSeq
<1>3. CASE m # 0
  <2>1. FlattenSeq(q) = flatten[m]
    BY <1>1, <1>3, Zenon DEF FlattenSeq
  <2> HIDE DEF q
  <2> DEFINE g == [i \in 1 .. m |-> SubSeq(parts, 1, i)]
  <2>2. /\ SubSeq(parts, 1, 1) = <<parts[1]>>
        /\ \A i \in 1 .. m : i # 1 => SubSeq(parts, 1, i) = SubSeq(parts, 1, i - 1) \o <<parts[i]>>
    <3>1. SubSeq(parts, 1, 1) = <<parts[1]>>
      <4>1. SubSeq(parts, 1, 1) = [j \in 1 .. 1 |-> parts[j]]
        BY <1>1, <1>3
      <4>2. <<parts[1]>> = [j \in 1 .. 1 |-> parts[1]]
        OBVIOUS
      <4>3. \A j \in 1 .. 1 : parts[j] = parts[1]
        OBVIOUS
      <4> QED
        BY <4>1, <4>2, <4>3
    <3>2. ASSUME NEW i \in 1 .. m, i # 1
          PROVE  SubSeq(parts, 1, i) = SubSeq(parts, 1, i - 1) \o <<parts[i]>>
      <4> DEFINE a == SubSeq(parts, 1, i - 1)
      <4>1. a \in Seq(S) /\ Len(a) = i - 1 /\ \A j \in 1 .. i - 1 : a[j] = parts[j]
        BY <1>1, <3>2
      <4>2. a \o <<parts[i]>> = [j \in 1 .. i |-> IF j <= i - 1 THEN a[j] ELSE parts[i]]
        BY <1>1, <3>2, <4>1
      <4>3. SubSeq(parts, 1, i) = [j \in 1 .. i |-> parts[j]]
        BY <1>1, <3>2
      <4>4. \A j \in 1 .. i : parts[j] = IF j <= i - 1 THEN a[j] ELSE parts[i]
        BY <3>2, <4>1
      <4> QED
        BY <4>2, <4>3, <4>4
    <3> QED
      BY <3>1, <3>2
  <2>3. Flattens(g)
    <3>1. \A i \in 1 .. m : g[i] = IF i = 1 THEN q[i] ELSE g[i - 1] \o q[i]
      <4>1. \A i \in 1 .. m : i # 1 => i - 1 \in 1 .. m
        BY <1>1
      <4> QED
        BY <1>1, <2>2, <4>1
    <3> QED
      BY <1>1, <3>1
  <2>4. Flattens(flatten)
    <3> HIDE DEF Flattens, g
    <3> QED
      BY <2>3, Zenon
  <2>5. \A i \in 1 .. m : flatten[i] = IF i = 1 THEN q[i] ELSE flatten[i - 1] \o q[i]
    <3> HIDE DEF flatten
    <3> QED
      BY <1>1, <2>4
  <2> HIDE DEF flatten, Flattens, m
  <2> DEFINE T == {i \in 0 .. m : i = 0 \/ flatten[i] = SubSeq(parts, 1, i)}
  <2>6. \A i \in 0 .. m : i \in T /\ i < m => i + 1 \in T
    <3> SUFFICES ASSUME NEW i \in 0 .. m, i \in T, i < m PROVE i + 1 \in T
      OBVIOUS
    <3>1. i + 1 \in 1 .. m /\ (i + 1) - 1 = i
      BY <1>1
    <3>2. CASE i = 0
      <4>1. flatten[1] = q[1] /\ q[1] = <<parts[1]>>
        BY <1>1, <2>5, <3>1, <3>2
      <4> QED
        BY <2>2, <3>1, <3>2, <4>1
    <3>3. CASE i # 0
      <4>1. flatten[i + 1] = flatten[i] \o q[i + 1]
        <5>1. i + 1 # 1
          BY <3>1, <3>3
        <5> QED
          BY <2>5, <3>1, <5>1
      <4>3. q[i + 1] = <<parts[i + 1]>>
        BY <1>1, <3>1
      <4>2. SubSeq(parts, 1, i + 1) = SubSeq(parts, 1, i) \o <<parts[i + 1]>>
        BY <2>2, <3>1, <3>3
      <4> QED
        BY <3>1, <3>3, <4>1, <4>2, <4>3
    <3> QED
      BY <3>2, <3>3
  <2>7. m \in T
    <3>1. 0 \in T
      BY <1>1
    <3> HIDE DEF T
    <3>2. \A i \in 0 .. m : i \in T
      BY <1>1, <2>6, <3>1, BoundedInduction
    <3> QED
      BY <1>1, <3>2
  <2>8. flatten[m] = SubSeq(parts, 1, m)
    BY <1>3, <2>7
  <2>9. SubSeq(parts, 1, m) = parts
    BY DEF m
  <2> QED
    BY <2>1, <2>8, <2>9 DEF q
<1> QED
  BY <1>2, <1>3

\* The values of an attribute in line a that the next c lines continue.
More(lines, a, c) == [n \in 1 .. c |-> lines[a + n].parts]
ValueOf(lines, a, c) ==
  IF lines[a].kind = "key" THEN More(lines, a, c)
  ELSE IF c = 0 THEN Pieces(lines[a].parts) ELSE <<lines[a].parts>> \o More(lines, a, c)

Named(line) == IsAttribute(line) \/ line.kind = "key"

\* Line a is the last of the first i to give k a value.
LastGiven(lines, i, k, a) ==
  /\ a \in 1 .. i /\ Assigns(lines, a, k)
  /\ \A j \in a + 1 .. i : ~ Assigns(lines, j, k)

\* Among the first i lines, exactly c continue line a.
Folds(lines, i, a, c) ==
  /\ c \in Nat /\ a + c <= i
  /\ \A j \in a + 1 .. a + c : lines[j].kind = "folded"
  /\ a + c < i => lines[a + c + 1].kind # "folded"

Values == Seq(Seq(Seq(STRING)))
AttributeStates == [dict : [Keys -> Values \cup {Missing}], key : Keys \cup {Missing}, single : BOOLEAN]

\* What ParseAttributes knows when it has read i lines: the value of every
\* attribute so far, and the attribute that the next line may continue.
AttributeKnows(lines, s, i) ==
  /\ s \in AttributeStates
  /\ \A k \in Keys : (\A j \in 1 .. i : ~ Assigns(lines, j, k)) => s.dict[k] = Missing
  /\ \A k \in Keys, a \in 1 .. i, c \in Nat :
       LastGiven(lines, i, k, a) /\ Folds(lines, i, a, c) => s.dict[k] = ValueOf(lines, a, c)
  /\ s.key = Missing =>
       \A a \in 1 .. i : Named(lines[a]) => \E j \in a + 1 .. i : lines[j].kind # "folded"
  /\ s.key # Missing =>
       \E a \in 1 .. i : /\ Named(lines[a]) /\ lines[a].key = s.key
                         /\ \A j \in a + 1 .. i : lines[j].kind = "folded"
                         /\ s.single <=> IsAttribute(lines[a]) /\ a = i

\* A value is a list of lines, and a line a list of parts.
LEMMA ValueTypes ==
  ASSUME NEW lines \in Seq(Lines), NEW a \in 1 .. Len(lines), NEW c \in Nat, a + c <= Len(lines)
  PROVE  /\ lines[a].parts \in Seq(Seq(STRING))
         /\ More(lines, a, c) \in Values
         /\ Pieces(lines[a].parts) \in Values
         /\ ValueOf(lines, a, c) \in Values
<1>1. /\ Len(lines) \in Nat
      /\ \A i \in 1 .. Len(lines) : lines[i] \in Lines
  OBVIOUS
<1>2. \A i \in 1 .. Len(lines) : lines[i].parts \in Seq(Seq(STRING))
  BY <1>1 DEF Lines
<1>3. \A n \in 1 .. c : a + n \in 1 .. Len(lines)
  BY <1>1
<1>4. More(lines, a, c) \in Values
  BY <1>2, <1>3 DEF More, Values
<1> DEFINE p == lines[a].parts
<1>5. p \in Seq(Seq(STRING))
  BY <1>2
<1> HIDE DEF p
<1>6. Pieces(p) \in Values
  <2>1. DOMAIN p = 1 .. Len(p) /\ Len(p) \in Nat /\ \A n \in 1 .. Len(p) : p[n] \in Seq(STRING)
    BY <1>5
  <2>2. \A n \in 1 .. Len(p) : <<p[n]>> \in Seq(Seq(STRING))
    BY <2>1
  <2> QED
    BY <2>1, <2>2 DEF Pieces, Values
<1>7. <<p>> \o More(lines, a, c) \in Values
  BY <1>4, <1>5 DEF Values
<1> QED
  BY <1>4, <1>5, <1>6, <1>7 DEF ValueOf, p

\* One more line that continues line a is one more line of its value.
LEMMA MoreGrows ==
  ASSUME NEW lines \in Seq(Lines), NEW a \in 1 .. Len(lines), NEW c \in Nat, a + c + 1 <= Len(lines)
  PROVE  /\ Append(More(lines, a, c), lines[a + c + 1].parts) = More(lines, a, c + 1)
         /\ Append(<<lines[a].parts>> \o More(lines, a, c), lines[a + c + 1].parts)
              = <<lines[a].parts>> \o More(lines, a, c + 1)
<1> DEFINE m == More(lines, a, c)
           x == lines[a + c + 1].parts
           q == lines[a].parts
<1>1. Len(lines) \in Nat /\ a + c <= Len(lines)
  OBVIOUS
<1>2. m \in Values /\ q \in Seq(Seq(STRING))
  BY <1>1, ValueTypes
<1>3. Len(m) = c /\ \A n \in 1 .. c : m[n] = lines[a + n].parts
  BY DEF More
<1> HIDE DEF m
<1>4. Append(m, x) = [n \in 1 .. c + 1 |-> IF n = c + 1 THEN x ELSE m[n]]
  BY <1>2, <1>3 DEF Values
<1>5. \A n \in 1 .. c + 1 : lines[a + n].parts = IF n = c + 1 THEN x ELSE m[n]
  <2>1. a + (c + 1) = a + c + 1 /\ \A n \in 1 .. c + 1 : n = c + 1 \/ n \in 1 .. c
    BY <1>1
  <2> QED
    BY <1>3, <2>1
<1>6. Append(m, x) = More(lines, a, c + 1)
  BY <1>4, <1>5 DEF More
<1>7. Append(<<q>> \o m, x) = <<q>> \o Append(m, x)
  <2>1. x \in Seq(Seq(STRING))
    <3>1. a + c + 1 \in 1 .. Len(lines)
      BY <1>1
    <3>2. lines[a + c + 1] \in Lines
      BY <3>1
    <3> QED
      BY <3>2 DEF Lines
  <2>2. m \in Seq(Seq(Seq(STRING))) /\ <<q>> \in Seq(Seq(Seq(STRING)))
    BY <1>2 DEF Values
  <2> HIDE DEF q, x
  <2> QED
    BY <2>1, <2>2
<1> QED
  BY <1>6, <1>7 DEF m

\* One more line that continues a value is one more part of it.
LEMMA ValueGrows ==
  ASSUME NEW lines \in Seq(Lines), NEW a \in 1 .. Len(lines), NEW c \in Nat, a + c + 1 <= Len(lines)
  PROVE  Append(IF lines[a].kind # "key" /\ c = 0 THEN <<FlattenSeq(ValueOf(lines, a, c))>>
                ELSE ValueOf(lines, a, c), lines[a + c + 1].parts) = ValueOf(lines, a, c + 1)
<1>1. lines[a].parts \in Seq(Seq(STRING)) /\ c + 1 # 0
  BY ValueTypes
<1>2. CASE lines[a].kind = "key"
  BY <1>2, MoreGrows DEF ValueOf
<1>3. CASE lines[a].kind # "key" /\ c # 0
  BY <1>1, <1>3, MoreGrows DEF ValueOf
<1>4. CASE lines[a].kind # "key" /\ c = 0
  <2>1. FlattenSeq(ValueOf(lines, a, c)) = lines[a].parts
    BY <1>1, <1>4, PiecesFlatten DEF ValueOf
  <2>2. <<lines[a].parts>> \o More(lines, a, c) = <<lines[a].parts>>
    <3>1. More(lines, a, c) = <<>>
      BY <1>4 DEF More
    <3> QED
      BY <1>1, <3>1
  <2>3. Append(<<lines[a].parts>>, lines[a + c + 1].parts) = <<lines[a].parts>> \o More(lines, a, c + 1)
    BY <2>2, MoreGrows
  <2> QED
    BY <1>1, <1>4, <2>1, <2>3 DEF ValueOf
<1> QED
  BY <1>2, <1>3, <1>4

\* Every line that is read adds to what is known.
LEMMA AttributeLearns ==
  ASSUME NEW lines \in Seq(Lines), WellFormed(lines), NEW s, NEW i \in 0 .. Len(lines), i < Len(lines),
         AttributeKnows(lines, s, i)
  PROVE  AttributeKnows(lines, AttributeStep(s, lines[i + 1]), i + 1)
<1> DEFINE l == lines[i + 1]
           t == AttributeStep(s, l)
<1>1. /\ Len(lines) \in Nat /\ i \in Nat /\ i + 1 \in 1 .. Len(lines) /\ l \in Lines
      /\ i + 1 \in 1 .. i + 1 /\ DOMAIN lines = 1 .. Len(lines)
      /\ \A j \in 1 .. i : j \in 1 .. i + 1
      /\ \A j \in 1 .. i + 1 : j \in 1 .. i \/ j = i + 1
      /\ s \in AttributeStates
  BY DEF AttributeKnows
<1>2. /\ \A k \in Keys : (\A j \in 1 .. i : ~ Assigns(lines, j, k)) => s.dict[k] = Missing
      /\ \A k \in Keys, a \in 1 .. i, c \in Nat :
           LastGiven(lines, i, k, a) /\ Folds(lines, i, a, c) => s.dict[k] = ValueOf(lines, a, c)
  BY DEF AttributeKnows
<1>3. Named(l) => l.key \in Keys
  BY <1>1 DEF WellFormed, Named, IsAttribute
<1>4. \A k \in Keys : Assigns(lines, i + 1, k) <=> Named(l) /\ l.key = k
  BY DEF Assigns, Named
\* What is last so far stays last, and is continued by as many lines, unless
\* the new line changes that.
<1>5. ASSUME NEW k \in Keys, ~ (Named(l) /\ l.key = k)
      PROVE  /\ (\A j \in 1 .. i + 1 : ~ Assigns(lines, j, k)) => \A j \in 1 .. i : ~ Assigns(lines, j, k)
             /\ \A a \in 1 .. i + 1 : LastGiven(lines, i + 1, k, a) => a \in 1 .. i /\ LastGiven(lines, i, k, a)
  <2>1. ~ Assigns(lines, i + 1, k)
    BY <1>4, <1>5
  <2>2. ASSUME NEW a \in 1 .. i + 1, LastGiven(lines, i + 1, k, a)
        PROVE  a \in 1 .. i /\ LastGiven(lines, i, k, a)
    <3>1. Assigns(lines, a, k) /\ \A j \in a + 1 .. i + 1 : ~ Assigns(lines, j, k)
      BY <2>2 DEF LastGiven
    <3>2. a \in 1 .. i
      BY <1>1, <2>1, <3>1
    <3>3. \A j \in a + 1 .. i : j \in a + 1 .. i + 1
      BY <1>1
    <3> QED
      BY <3>1, <3>2, <3>3 DEF LastGiven
  <2> QED
    BY <1>1, <2>2
<1>6. ASSUME NEW a \in 1 .. i, NEW c \in Nat, Folds(lines, i + 1, a, c), a + c # i + 1
      PROVE  Folds(lines, i, a, c)
  <2>1. a + c <= i
    BY <1>1, <1>6 DEF Folds
  <2> QED
    BY <1>1, <1>6, <2>1 DEF Folds
<1>7. ASSUME NEW a \in 1 .. i, NEW c \in Nat, Folds(lines, i + 1, a, c), a + c = i + 1
      PROVE  /\ \A j \in a + 1 .. i + 1 : lines[j].kind = "folded"
             /\ l.kind = "folded"
  <2>1. i + 1 \in a + 1 .. a + c
    BY <1>1, <1>7
  <2> QED
    BY <1>7, <2>1 DEF Folds
<1> HIDE DEF l, t
<1>8. CASE Named(l)
  <2> DEFINE K == l.key
             v == IF l.kind = "key" THEN <<>> ELSE Pieces(l.parts)
  <2>1. /\ K \in Keys
        /\ t = [dict |-> [s.dict EXCEPT ![K] = v], key |-> K, single |-> IsAttribute(l)]
    <3>1. K \in Keys
      BY <1>3, <1>8
    <3>2. CASE IsAttribute(l)
      <4>1. l.kind # "key" /\ IsAttribute(l) = TRUE
        BY <3>2 DEF IsAttribute
      <4>2. t = [dict |-> [s.dict EXCEPT ![K] = Pieces(l.parts)], key |-> K, single |-> TRUE]
        <5> DEFINE w == [n \in DOMAIN l.parts |-> <<l.parts[n]>>]
        <5>1. t = [dict |-> [s.dict EXCEPT ![l.key] = w], key |-> l.key, single |-> TRUE]
          BY <3>2, <4>1 DEF t, AttributeStep, IsAttribute
        <5>2. w = Pieces(l.parts)
          BY DEF Pieces
        <5> HIDE DEF w
        <5> QED
          BY <5>1, <5>2
      <4> QED
        BY <3>1, <4>1, <4>2
    <3>3. CASE l.kind = "key"
      <4>1. ~ IsAttribute(l) /\ IsAttribute(l) = FALSE
        BY <3>3 DEF IsAttribute
      <4>2. t = [dict |-> [s.dict EXCEPT ![K] = <<>>], key |-> K, single |-> FALSE]
        BY <3>3, <4>1 DEF t, AttributeStep
      <4> QED
        BY <3>1, <3>3, <4>1, <4>2
    <3> QED
      BY <1>8, <3>2, <3>3 DEF Named
  <2>2. v = ValueOf(lines, i + 1, 0) /\ v \in Values
    <3>1. More(lines, i + 1, 0) = <<>>
      BY DEF More
    <3>2. v = ValueOf(lines, i + 1, 0)
      BY <3>1 DEF ValueOf, l
    <3>3. ValueOf(lines, i + 1, 0) \in Values
      BY <1>1, ValueTypes
    <3> QED
      BY <3>2, <3>3
  <2>3. IsAttribute(l) \in BOOLEAN
    BY DEF IsAttribute
  <2> HIDE DEF K, v
  <2>4. /\ t \in AttributeStates /\ t.key = K /\ t.single = IsAttribute(l)
        /\ t.dict[K] = v /\ \A k \in Keys \ {K} : t.dict[k] = s.dict[k]
    BY <1>1, <2>1, <2>2, <2>3 DEF AttributeStates
  <2>5. l.kind # "folded" /\ K # Missing
    BY <1>8, <2>1, FilesAssumption DEF Named, IsAttribute
  <2>6. ASSUME NEW k \in Keys, \A j \in 1 .. i + 1 : ~ Assigns(lines, j, k)
        PROVE  t.dict[k] = Missing
    <3>1. k # K
      BY <1>1, <1>4, <1>8, <2>6 DEF K
    <3> QED
      BY <1>2, <1>5, <2>4, <2>6, <3>1 DEF K
  <2>7. ASSUME NEW k \in Keys, NEW a \in 1 .. i + 1, NEW c \in Nat,
               LastGiven(lines, i + 1, k, a), Folds(lines, i + 1, a, c)
        PROVE  t.dict[k] = ValueOf(lines, a, c)
    <3>1. CASE k = K
      <4>1. Assigns(lines, i + 1, K)
        BY <1>4, <1>8, <2>1 DEF K
      <4>2. a = i + 1
        <5>1. i + 1 \notin a + 1 .. i + 1
          BY <2>7, <3>1, <4>1 DEF LastGiven
        <5> QED
          BY <1>1, <5>1
      <4>3. c = 0
        BY <1>1, <2>7, <4>2 DEF Folds
      <4> QED
        BY <2>2, <2>4, <3>1, <4>2, <4>3
    <3>2. CASE k # K
      <4>1. a \in 1 .. i /\ LastGiven(lines, i, k, a)
        BY <1>5, <2>7, <3>2 DEF K
      <4>2. Folds(lines, i, a, c)
        BY <1>6, <1>7, <2>5, <2>7, <4>1
      <4> QED
        BY <1>2, <2>4, <3>2, <4>1, <4>2
    <3> QED
      BY <3>1, <3>2
  <2>8. \E a \in 1 .. i + 1 : /\ Named(lines[a]) /\ lines[a].key = K
                              /\ \A j \in a + 1 .. i + 1 : lines[j].kind = "folded"
                              /\ t.single <=> IsAttribute(lines[a]) /\ a = i + 1
    <3>1. \A j \in (i + 1) + 1 .. i + 1 : lines[j].kind = "folded"
      BY <1>1
    <3>2. t.single <=> IsAttribute(lines[i + 1]) /\ i + 1 = i + 1
      BY <2>4 DEF l
    <3> QED
      BY <1>1, <1>8, <3>1, <3>2 DEF K, l
  <2>9. AttributeKnows(lines, t, i + 1)
    BY <2>4, <2>5, <2>6, <2>7, <2>8 DEF AttributeKnows
  <2> QED
    BY <2>9 DEF t, l
<1>9. CASE ~ Named(l) /\ (l.kind # "folded" \/ s.key = Missing)
  <2>1. t = [s EXCEPT !.key = Missing]
    <3>1. [s EXCEPT !.key = Missing] = s \/ s.key # Missing
      BY <1>1 DEF AttributeStates
    <3> QED
      BY <1>9, <3>1 DEF t, AttributeStep, Named, IsAttribute
  <2>2. t \in AttributeStates /\ t.key = Missing /\ t.dict = s.dict
    BY <1>1, <2>1 DEF AttributeStates
  <2>3. \A k \in Keys : (\A j \in 1 .. i + 1 : ~ Assigns(lines, j, k)) => t.dict[k] = Missing
    BY <1>2, <1>5, <1>9, <2>2
  <2>4. \A a \in 1 .. i + 1 : Named(lines[a]) => \E j \in a + 1 .. i + 1 : lines[j].kind # "folded"
    <3> SUFFICES ASSUME NEW a \in 1 .. i + 1, Named(lines[a])
                 PROVE  \E j \in a + 1 .. i + 1 : lines[j].kind # "folded"
      OBVIOUS
    <3>1. a \in 1 .. i
      BY <1>1, <1>9 DEF l
    <3>2. CASE l.kind # "folded"
      <4>1. i + 1 \in a + 1 .. i + 1
        BY <1>1, <3>1
      <4> QED
        BY <3>2, <4>1 DEF l
    <3>3. CASE s.key = Missing
      <4>1. PICK j \in a + 1 .. i : lines[j].kind # "folded"
        BY <3>1, <3>3 DEF AttributeKnows
      <4>2. j \in a + 1 .. i + 1
        BY <1>1
      <4> QED
        BY <4>1, <4>2
    <3> QED
      BY <1>9, <3>2, <3>3
  <2>5. ASSUME NEW k \in Keys, NEW a \in 1 .. i + 1, NEW c \in Nat,
               LastGiven(lines, i + 1, k, a), Folds(lines, i + 1, a, c)
        PROVE  t.dict[k] = ValueOf(lines, a, c)
    <3>1. a \in 1 .. i /\ LastGiven(lines, i, k, a)
      BY <1>5, <1>9, <2>5
    <3>2. a + c # i + 1
      <4>1. Named(lines[a])
        BY <3>1 DEF LastGiven, Assigns, Named
      <4>2. PICK j \in a + 1 .. i + 1 : lines[j].kind # "folded"
        BY <1>1, <2>4, <4>1
      <4> QED
        BY <1>7, <2>5, <3>1, <4>2
    <3>3. Folds(lines, i, a, c)
      BY <1>6, <2>5, <3>1, <3>2
    <3> QED
      BY <1>2, <2>2, <3>1, <3>3
  <2>6. AttributeKnows(lines, t, i + 1)
    BY <2>2, <2>3, <2>4, <2>5 DEF AttributeKnows
  <2> QED
    BY <2>6 DEF t, l
<1>10. CASE l.kind = "folded" /\ s.key # Missing
  <2> DEFINE K == s.key
             v == Append(IF s.single THEN <<FlattenSeq(s.dict[K])>> ELSE s.dict[K], l.parts)
  <2>1. K \in Keys /\ ~ Named(l)
    BY <1>1, <1>10 DEF AttributeStates, Named, IsAttribute
  <2>2. PICK b \in 1 .. i : /\ Named(lines[b]) /\ lines[b].key = K
                            /\ \A j \in b + 1 .. i : lines[j].kind = "folded"
                            /\ s.single <=> IsAttribute(lines[b]) /\ b = i
    BY <1>10 DEF AttributeKnows
  <2>3. \A j \in b + 1 .. i + 1 : lines[j].kind = "folded" /\ ~ Named(lines[j])
    <3>1. \A j \in b + 1 .. i + 1 : j \in b + 1 .. i \/ j = i + 1
      BY <1>1
    <3>2. \A j \in b + 1 .. i + 1 : lines[j].kind = "folded"
      BY <1>10, <2>2, <3>1 DEF l
    <3> QED
      BY <3>2 DEF Named, IsAttribute
  <2>4. LastGiven(lines, i, K, b)
    <3>1. Assigns(lines, b, K)
      BY <2>2 DEF Assigns, Named
    <3>2. \A j \in b + 1 .. i : ~ Assigns(lines, j, K)
      BY <1>1, <2>3 DEF Assigns, Named
    <3> QED
      BY <3>1, <3>2 DEF LastGiven
  <2>5. i - b \in Nat /\ Folds(lines, i, b, i - b)
    BY <1>1, <2>2 DEF Folds
  <2>6. s.dict[K] = ValueOf(lines, b, i - b)
    BY <1>2, <2>1, <2>4, <2>5
  <2>7. v = ValueOf(lines, b, i + 1 - b) /\ ValueOf(lines, b, i + 1 - b) \in Values
    <3>1. /\ b \in 1 .. Len(lines) /\ b + (i - b) + 1 = i + 1 /\ (i - b) + 1 = i + 1 - b
          /\ i - b = 0 <=> b = i
      BY <1>1
    <3>2. s.single <=> lines[b].kind # "key" /\ i - b = 0
      BY <2>2, <3>1 DEF Named, IsAttribute
    <3>3. v = Append(IF lines[b].kind # "key" /\ i - b = 0 THEN <<FlattenSeq(ValueOf(lines, b, i - b))>>
                     ELSE ValueOf(lines, b, i - b), lines[b + (i - b) + 1].parts)
      BY <2>6, <3>1, <3>2 DEF l
    <3>4. v = ValueOf(lines, b, i + 1 - b)
      BY <1>1, <2>5, <3>1, <3>3, ValueGrows
    <3>5. ValueOf(lines, b, i + 1 - b) \in Values
      <4>1. i + 1 - b \in Nat /\ b + (i + 1 - b) <= Len(lines)
        BY <1>1
      <4> QED
        BY <3>1, <4>1, ValueTypes
    <3> QED
      BY <3>4, <3>5
  <2>8. t = [s EXCEPT !.dict[K] = v, !.single = FALSE]
    BY <1>10, <2>1 DEF t, AttributeStep, Named, IsAttribute
  <2> HIDE DEF v
  <2>9. /\ t \in AttributeStates /\ t.key = K /\ ~ t.single
        /\ t.dict[K] = v /\ \A k \in Keys \ {K} : t.dict[k] = s.dict[k]
    BY <1>1, <2>1, <2>7, <2>8 DEF AttributeStates
  <2> HIDE DEF K
  <2>10. ASSUME NEW k \in Keys, \A j \in 1 .. i + 1 : ~ Assigns(lines, j, k)
         PROVE  t.dict[k] = Missing
    <3>1. Assigns(lines, b, K)
      BY <2>4 DEF LastGiven
    <3>2. k # K
      BY <1>1, <2>10, <3>1
    <3> QED
      BY <1>2, <1>5, <2>1, <2>9, <2>10, <3>2
  <2>11. ASSUME NEW k \in Keys, NEW a \in 1 .. i + 1, NEW c \in Nat,
                LastGiven(lines, i + 1, k, a), Folds(lines, i + 1, a, c)
         PROVE  t.dict[k] = ValueOf(lines, a, c)
    <3>1. a \in 1 .. i /\ LastGiven(lines, i, k, a)
      BY <1>5, <2>1, <2>11
    <3>2. Named(lines[a]) /\ lines[a].key = k
      BY <3>1 DEF LastGiven, Assigns, Named
    <3>3. ~ b < a
      <4>1. b < a => a \in b + 1 .. i + 1
        BY <1>1, <3>1
      <4> QED
        BY <2>3, <3>2, <4>1
    <3>4. CASE k = K
      <4>1. a = b
        <5>1. a < b => b \in a + 1 .. i
          BY <1>1
        <5>2. ~ a < b
          BY <2>4, <3>1, <3>4, <5>1 DEF LastGiven
        <5> QED
          BY <3>3, <5>2
      <4>2. a + c = i + 1
        <5>1. a + c < i + 1 => a + c + 1 \in b + 1 .. i + 1
          BY <1>1, <4>1
        <5>2. a + c <= i + 1 /\ (a + c < i + 1 => lines[a + c + 1].kind # "folded")
          BY <2>11 DEF Folds
        <5> QED
          BY <1>1, <2>3, <5>1, <5>2
      <4>3. c = i + 1 - b
        BY <1>1, <4>1, <4>2
      <4> QED
        BY <2>7, <2>9, <3>4, <4>1, <4>3
    <3>5. CASE k # K
      <4>1. a < b
        BY <2>2, <3>2, <3>3, <3>5
      <4>2. a + c # i + 1
        <5>1. b \in a + 1 .. i + 1
          BY <1>1, <4>1
        <5>2. lines[b].kind # "folded"
          BY <2>2 DEF Named, IsAttribute
        <5> QED
          BY <1>7, <2>11, <3>1, <5>1, <5>2
      <4>3. Folds(lines, i, a, c)
        BY <1>6, <2>11, <3>1, <4>2
      <4> QED
        BY <1>2, <2>9, <3>1, <3>5, <4>3
    <3> QED
      BY <3>4, <3>5
  <2>12. \E a \in 1 .. i + 1 : /\ Named(lines[a]) /\ lines[a].key = K
                               /\ \A j \in a + 1 .. i + 1 : lines[j].kind = "folded"
                               /\ t.single <=> IsAttribute(lines[a]) /\ a = i + 1
    <3>1. b \in 1 .. i + 1 /\ b # i + 1
      BY <1>1
    <3> QED
      BY <2>2, <2>3, <2>9, <3>1
  <2>13. K # Missing
    BY <1>10 DEF K
  <2>14. AttributeKnows(lines, t, i + 1)
    BY <2>9, <2>10, <2>11, <2>12, <2>13 DEF AttributeKnows
  <2> QED
    BY <2>14 DEF t, l
<1> QED
  BY <1>8, <1>9, <1>10

\* So the dictionary is known at the end.
LEMMA AttributesKnown ==
  ASSUME NEW lines \in Seq(Lines), WellFormed(lines)
  PROVE  \E s : AttributeKnows(lines, s, Len(lines)) /\ ParseAttributes(lines) = s.dict
<1> DEFINE n == Len(lines)
           initial == [dict |-> Nothing, key |-> Missing, single |-> FALSE]
<1>1. n \in Nat
  OBVIOUS
<1>2. PICK f : AttributeRun(f, lines) /\ Loop(AttributeStep, initial, lines) = f[n]
  BY <1>1, AttributeLoop
<1>3. /\ f[0] = initial
      /\ \A i \in 0 .. n : i < n => f[i + 1] = AttributeStep(f[i], lines[i + 1])
  <2>1. 0 \in 0 .. n
    BY <1>1
  <2>2. f[0] = initial
    BY <1>2, <2>1 DEF AttributeRun
  <2>3. \A i \in 0 .. n : i < n => i + 1 \in 0 .. n /\ i + 1 # 0 /\ (i + 1) - 1 = i
    BY <1>1
  <2>4. \A i \in 0 .. n : i < n => f[i + 1] = AttributeStep(f[i], lines[i + 1])
    <3>1. \A j \in 0 .. n : j # 0 => f[j] = AttributeStep(f[j - 1], lines[j])
      BY <1>2 DEF AttributeRun
    <3> QED
      BY <2>3, <3>1
  <2> QED
    BY <2>2, <2>4
<1> DEFINE T == {i \in 0 .. n : AttributeKnows(lines, f[i], i)}
<1>4. 0 \in T
  <2>1. /\ f[0] \in AttributeStates /\ f[0].key = Missing
        /\ \A k \in Keys : f[0].dict[k] = Missing
    BY <1>3 DEF AttributeStates, Nothing
  <2>2. \A a \in 1 .. 0 : FALSE
    OBVIOUS
  <2>3. AttributeKnows(lines, f[0], 0)
    BY <2>1, <2>2 DEF AttributeKnows
  <2> QED
    BY <1>1, <2>3
<1>5. \A i \in 0 .. n : i \in T /\ i < n => i + 1 \in T
  <2> SUFFICES ASSUME NEW i \in 0 .. n, i \in T, i < n PROVE i + 1 \in T
    OBVIOUS
  <2>1. AttributeKnows(lines, f[i + 1], i + 1)
    BY <1>3, AttributeLearns
  <2>2. i + 1 \in 0 .. n
    BY <1>1
  <2> QED
    BY <2>1, <2>2
<1>6. n \in T
  <2> HIDE DEF n, T
  <2>1. \A i \in 0 .. n : i \in T
    BY <1>1, <1>4, <1>5, BoundedInduction
  <2> QED
    BY <1>1, <2>1
<1>7. AttributeKnows(lines, f[n], n)
  BY <1>6
<1>8. ParseAttributes(lines) = f[n].dict
  BY <1>2 DEF ParseAttributes
<1> QED
  BY <1>7, <1>8

\* There is a last line that gives k its value, if there is any.
LEMMA LastExists ==
  ASSUME NEW lines, NEW n \in Nat, NEW k, \E a \in 1 .. n : Assigns(lines, a, k)
  PROVE  \E a \in 1 .. n : LastGiven(lines, n, k, a)
<1> DEFINE S == {m \in 0 .. n : \E a \in 1 .. n : Assigns(lines, a, k) /\ m = n - a}
<1>1. S \in SUBSET (0 .. n) /\ S # {}
  <2>1. PICK a \in 1 .. n : Assigns(lines, a, k)
    OBVIOUS
  <2>2. n - a \in S
    BY <2>1
  <2> QED
    BY <2>2
<1>2. PICK m \in S : \A y \in S : m <= y
  <2> HIDE DEF S
  <2> QED
    BY <1>1, BoundedSetHasMinimum
<1>3. PICK a \in 1 .. n : Assigns(lines, a, k) /\ m = n - a
  OBVIOUS
<1>4. ASSUME NEW j \in a + 1 .. n, Assigns(lines, j, k)
      PROVE  FALSE
  <2>1. j \in 1 .. n /\ n - j \in 0 .. n
    OBVIOUS
  <2>2. n - j \in S
    BY <1>4, <2>1
  <2>3. m <= n - j
    BY <1>2, <2>2
  <2> QED
    BY <1>3, <2>3
<1> QED
  BY <1>3, <1>4 DEF LastGiven

\* Some number of lines continues line a, and these are the next ones.
LEMMA FoldsExist ==
  ASSUME NEW lines \in Seq(Lines), NEW a \in 1 .. Len(lines)
  PROVE  \E c \in Nat : /\ Folds(lines, Len(lines), a, c)
                        /\ Continuing(lines, a) = (a + 1) .. (a + c)
                        /\ Cardinality(Continuing(lines, a)) = c
<1> DEFINE n == Len(lines)
           S == {c \in 0 .. n : a + c <= n /\ (a + c < n => lines[a + c + 1].kind # "folded")}
<1>1. n \in Nat /\ DOMAIN lines = 1 .. n
  OBVIOUS
<1> HIDE DEF n
<1>2. S \in SUBSET (0 .. n) /\ S # {}
  <2>1. n - a \in S
    BY <1>1
  <2> QED
    BY <2>1
<1>3. PICK c \in S : \A y \in S : c <= y
  <2> HIDE DEF S
  <2> QED
    BY <1>1, <1>2, BoundedSetHasMinimum
<1>4. c \in Nat /\ a + c <= n /\ (a + c < n => lines[a + c + 1].kind # "folded")
  OBVIOUS
<1>5. ASSUME NEW j \in a + 1 .. a + c
      PROVE  lines[j].kind = "folded"
  <2> DEFINE b == j - 1 - a
  <2>1. b \in 0 .. n /\ a + b <= n /\ a + b < n /\ a + b + 1 = j /\ ~ c <= b
    BY <1>1, <1>4, <1>5
  <2>2. b \notin S
    BY <1>3, <2>1
  <2> HIDE DEF b
  <2> QED
    BY <2>1, <2>2
<1>6. Folds(lines, n, a, c)
  BY <1>4, <1>5 DEF Folds
<1>7. Continuing(lines, a) = (a + 1) .. (a + c)
  <2>1. ASSUME NEW j \in Continuing(lines, a)
        PROVE  j \in (a + 1) .. (a + c)
    <3>1. j \in 1 .. n /\ a < j /\ \A m \in (a + 1) .. j : lines[m].kind = "folded"
      BY <1>1, <2>1 DEF Continuing
    <3>2. CASE ~ j <= a + c
      <4>1. a + c + 1 \in (a + 1) .. j /\ a + c < n
        BY <1>1, <1>4, <3>1, <3>2
      <4> QED
        BY <1>4, <3>1, <4>1
    <3> QED
      BY <1>1, <1>4, <3>1, <3>2
  <2>2. ASSUME NEW j \in (a + 1) .. (a + c)
        PROVE  j \in Continuing(lines, a)
    <3>1. j \in 1 .. n /\ a < j /\ \A m \in (a + 1) .. j : m \in (a + 1) .. (a + c)
      BY <1>1, <1>4
    <3> QED
      BY <1>1, <1>5, <3>1 DEF Continuing
  <2> QED
    BY <2>1, <2>2
<1>8. Cardinality((a + 1) .. (a + c)) = c
  <2>1. a + 1 \in Int /\ a + c \in Int
    BY <1>4
  <2>2. Cardinality((a + 1) .. (a + c)) = IF a + 1 > a + c THEN 0 ELSE (a + c) - (a + 1) + 1
    BY <2>1, FS_Interval
  <2> QED
    BY <1>4, <2>2
<1> QED
  BY <1>4, <1>6, <1>7, <1>8 DEF n

\* What an attribute means whose last line and continuations are known.
LEMMA MeaningIs ==
  ASSUME NEW lines, NEW start, NEW end, NEW k, NEW a, NEW c \in Nat,
         Assigning(lines, start, end, k) = {a}, Cardinality(Continuing(lines, a)) = c
  PROVE  Meaning(lines, start, end, k) = ValueOf(lines, a, c)
<1>1. (CHOOSE i \in Assigning(lines, start, end, k) : TRUE) = a /\ Assigning(lines, start, end, k) # {}
  OBVIOUS
<1> DEFINE more == [m \in 1 .. c |-> lines[a + m].parts]
<1>2. Meaning(lines, start, end, k) =
        IF lines[a].kind = "key" THEN more
        ELSE IF more = <<>> THEN [m \in DOMAIN lines[a].parts |-> <<lines[a].parts[m]>>]
        ELSE <<lines[a].parts>> \o more
  BY <1>1, Zenon DEF Meaning
<1>3. more = More(lines, a, c)
  BY DEF More
<1>4. more = <<>> <=> c = 0
  <2>1. Len(more) = c
    OBVIOUS
  <2>2. c = 0 => more = <<>>
    OBVIOUS
  <2> QED
    BY <2>1, <2>2
<1> HIDE DEF more
<1> QED
  BY <1>2, <1>3, <1>4 DEF ValueOf, Pieces

\* What ParseAttributes returns.
LEMMA ParseAttributesExact ==
  ASSUME NEW lines \in Seq(Lines), WellFormed(lines)
  PROVE  /\ ParseAttributes(lines) \in [Keys -> Values \cup {Missing}]
         /\ \A k \in Keys : ParseAttributes(lines)[k] = Meaning(lines, 0, Len(lines) + 1, k)
<1> DEFINE n == Len(lines)
<1>1. n \in Nat /\ DOMAIN lines = 1 .. n
  OBVIOUS
<1>2. PICK s : AttributeKnows(lines, s, n) /\ ParseAttributes(lines) = s.dict
  BY AttributesKnown
<1> HIDE DEF n
<1>3. s \in AttributeStates
  BY <1>2 DEF AttributeKnows
<1>4. ParseAttributes(lines) \in [Keys -> Values \cup {Missing}]
  BY <1>2, <1>3 DEF AttributeStates
<1>5. ASSUME NEW k \in Keys
      PROVE  s.dict[k] = Meaning(lines, 0, n + 1, k)
  <2>1. /\ (\A j \in 1 .. n : ~ Assigns(lines, j, k)) => s.dict[k] = Missing
        /\ \A a \in 1 .. n, c \in Nat :
             LastGiven(lines, n, k, a) /\ Folds(lines, n, a, c) => s.dict[k] = ValueOf(lines, a, c)
    BY <1>2 DEF AttributeKnows
  <2>2. CASE \A j \in 1 .. n : ~ Assigns(lines, j, k)
    <3>1. Assigning(lines, 0, n + 1, k) = {}
      BY <1>1, <2>2 DEF Assigning
    <3> QED
      BY <2>1, <2>2, <3>1 DEF Meaning
  <2>3. CASE \E j \in 1 .. n : Assigns(lines, j, k)
    <3>1. PICK a \in 1 .. n : LastGiven(lines, n, k, a)
      BY <1>1, <2>3, LastExists
    <3>2. PICK c \in Nat : Folds(lines, n, a, c) /\ Cardinality(Continuing(lines, a)) = c
      BY FoldsExist DEF n
    <3>3. s.dict[k] = ValueOf(lines, a, c)
      BY <2>1, <3>1, <3>2
    <3>4. Assigning(lines, 0, n + 1, k) = {a}
      <4>1. Assigns(lines, a, k) /\ \A j \in a + 1 .. n : ~ Assigns(lines, j, k)
        BY <3>1 DEF LastGiven
      <4>2. a \in Assigning(lines, 0, n + 1, k)
        BY <1>1, <4>1 DEF Assigning
      <4>3. ASSUME NEW b \in Assigning(lines, 0, n + 1, k)
            PROVE  b = a
        <5>1. /\ b \in 1 .. n /\ Assigns(lines, b, k)
              /\ \A j \in 1 .. n : b < j /\ j < n + 1 => ~ Assigns(lines, j, k)
          BY <1>1, <4>3 DEF Assigning
        <5>2. ~ b < a
          BY <1>1, <4>1, <5>1
        <5>3. ~ a < b
          BY <1>1, <4>1, <5>1
        <5> QED
          BY <5>1, <5>2, <5>3
      <4> QED
        BY <4>2, <4>3
    <3> QED
      BY <3>2, <3>3, <3>4, MeaningIs
  <2> QED
    BY <2>2, <2>3
<1> QED
  BY <1>2, <1>4, <1>5 DEF n

\* The first line of a value has a part, and the part is a list of words.
LEMMA FirstPart ==
  ASSUME NEW lines \in Seq(Lines), WellFormed(lines), NEW k \in Keys,
         Present(ParseAttributes(lines), k)
  PROVE  First(ParseAttributes(lines), k)[1] \in Seq(STRING)
<1> DEFINE n == Len(lines)
           v == ParseAttributes(lines)[k]
<1>1. n \in Nat /\ DOMAIN lines = 1 .. n
  OBVIOUS
<1>2. PICK s : AttributeKnows(lines, s, n) /\ ParseAttributes(lines) = s.dict
  BY AttributesKnown
<1> HIDE DEF n
<1>3. /\ (\A j \in 1 .. n : ~ Assigns(lines, j, k)) => v = Missing
      /\ \A a \in 1 .. n, c \in Nat : LastGiven(lines, n, k, a) /\ Folds(lines, n, a, c) => v = ValueOf(lines, a, c)
  BY <1>2 DEF AttributeKnows
<1>4. v # Missing /\ v # <<>>
  BY DEF Present
<1>5. PICK a \in 1 .. n : LastGiven(lines, n, k, a)
  BY <1>1, <1>3, <1>4, LastExists
<1>6. PICK c \in Nat : Folds(lines, n, a, c)
  BY FoldsExist DEF n
<1>7. v = ValueOf(lines, a, c)
  BY <1>3, <1>5, <1>6
<1>8. a \in 1 .. Len(lines) /\ a + c <= Len(lines)
  BY <1>6 DEF n, Folds
<1> HIDE DEF v
<1> DEFINE p == lines[a].parts
<1>9. p \in Seq(Seq(STRING)) /\ More(lines, a, c) \in Values
  BY <1>8, ValueTypes
\* The first line is the next one where the attribute has none of its own.
<1>10. CASE lines[a].kind = "key"
  <2>1. v = More(lines, a, c)
    BY <1>7, <1>10 DEF ValueOf
  <2>2. c # 0
    <3>1. c = 0 => More(lines, a, c) = <<>>
      BY DEF More
    <3> QED
      BY <1>4, <2>1, <3>1
  <2>3. v[1] = lines[a + 1].parts /\ a + 1 \in 1 .. n /\ lines[a + 1].kind = "folded"
    <3>1. 1 \in 1 .. c /\ a + 1 \in a + 1 .. a + c /\ a + 1 \in 1 .. n
      BY <1>1, <1>6, <2>2 DEF Folds
    <3> QED
      BY <1>6, <2>1, <3>1 DEF More, Folds
  <2> DEFINE q == lines[a + 1].parts
  <2>4. q \in Seq(Seq(STRING)) /\ q # <<>>
    <3>1. q \in Seq(Seq(STRING))
      <4>1. a + 1 \in 1 .. Len(lines) /\ 0 \in Nat /\ (a + 1) + 0 <= Len(lines)
        BY <1>1, <2>3 DEF n
      <4> QED
        BY <4>1, ValueTypes
    <3>2. q # <<>>
      BY <1>1, <2>3 DEF WellFormed
    <3> QED
      BY <3>1, <3>2
  <2> HIDE DEF q
  <2>5. q[1] \in Seq(STRING)
    BY <2>4
  <2> QED
    BY <2>3, <2>5 DEF First, q, v
<1>11. CASE lines[a].kind # "key" /\ c # 0
  <2>1. v = <<p>> \o More(lines, a, c)
    BY <1>7, <1>11 DEF ValueOf
  <2>2. p # <<>>
    BY <1>1, <1>5, <1>11 DEF LastGiven, Assigns, IsAttribute, WellFormed
  <2> DEFINE m == More(lines, a, c)
  <2>3. m \in Seq(Seq(Seq(STRING)))
    BY <1>9 DEF Values
  <2> HIDE DEF p, m
  <2>4. v[1] = p
    BY <1>9, <2>1, <2>3 DEF m
  <2>5. p[1] \in Seq(STRING)
    BY <1>9, <2>2
  <2> QED
    BY <2>4, <2>5 DEF First, v
<1>12. CASE lines[a].kind # "key" /\ c = 0
  <2>1. v = [m \in DOMAIN p |-> <<p[m]>>]
    BY <1>7, <1>12 DEF ValueOf, Pieces
  <2> HIDE DEF p
  <2>2. p # <<>>
    <3>1. p = <<>> => v = <<>>
      BY <2>1
    <3> QED
      BY <1>4, <3>1
  <2>3. 1 \in DOMAIN p /\ p[1] \in Seq(STRING)
    BY <1>9, <2>2
  <2>4. v[1] = <<p[1]>>
    BY <2>1, <2>3
  <2> QED
    BY <2>3, <2>4 DEF First, v
<1> QED
  BY <1>10, <1>11, <1>12
-----------------------------------------------------------------------------
(* The stages of a file. *)

\* What the invariant says of the file itself.
LEMMA FileFacts ==
  ASSUME NEW f \in Files
  PROVE  /\ f.kind \in {"changes", "dsc", "deb", "udeb", "config"}
         /\ f.lines \in Seq(Lines) /\ WellFormed(f.lines)
BY FilesAssumption DEF WellFormed

\* Nothing has been read at the start.
LEMMA ReadingInitially == Init => ReadingInv
BY FilesAssumption DEF Init, ReadingInv, StagesInv, TextInv, EntriesInv, Binary

\* The child writes and exits while the parent waits for it.
LEMMA ChildKeepsReading ==
  ASSUME ReadingInv, Child
  PROVE  ReadingInv'
<1>1. /\ child.running
      /\ UNCHANGED <<file, pc, program, text, attrs, settings, records>>
  BY DEF Child, ChildWrites, ChildExits, parsed
<1>2. StagesInv'
  <2>1. file \in Files /\ file.kind \in {"changes", "dsc", "deb", "udeb", "config"}
    BY FileFacts DEF ReadingInv, StagesInv
  <2> QED
    BY <1>1, <2>1 DEF ReadingInv, StagesInv, Binary
<1>3. TextInv' /\ EntriesInv'
  BY <1>1 DEF ReadingInv, TextInv, EntriesInv, Binary
<1> QED
  BY <1>2, <1>3 DEF ReadingInv

\* A first program, or what comes without one.
LEMMA StartKeepsReading ==
  ASSUME ReadingInv, Start
  PROVE  ReadingInv'
<1>1. /\ file \in Files /\ pc = "start" /\ attrs = Nothing
      /\ UNCHANGED <<file, text, attrs, settings, records>>
  BY DEF ReadingInv, StagesInv, TextInv, Start, parsed
<1>2. /\ file.kind = "changes" => pc' = "wait" /\ program' = "gpgv"
      /\ file.kind \in {"deb", "udeb"} => pc' = "wait" /\ program' = "ar"
      /\ file.kind = "dsc" => pc' = "strip"
      /\ file.kind = "config" => pc' = "config"
  BY DEF Start, Run
<1>3. file.kind \in {"changes", "dsc", "deb", "udeb", "config"}
  BY <1>1, FileFacts
<1>4. StagesInv'
  BY <1>1, <1>2, <1>3 DEF StagesInv, Binary
<1>5. TextInv' /\ EntriesInv'
  BY <1>1, <1>2, <1>3 DEF TextInv, EntriesInv, Binary
<1> QED
  BY <1>4, <1>5 DEF ReadingInv

\* What follows the program that has ended.
LEMMA WaitKeepsReading ==
  ASSUME ReadingInv, Wait
  PROVE  ReadingInv'
<1>1. /\ file \in Files /\ pc = "wait" /\ ~ child.running /\ pc' = AfterProgram
      /\ UNCHANGED <<file, program, child, text, attrs, settings, records>>
  BY DEF ReadingInv, StagesInv, Wait, parsed
<1>2. file.kind \in {"changes", "dsc", "deb", "udeb", "config"}
  BY <1>1, FileFacts
<1>3. \/ file.kind = "changes" /\ program = "gpgv"
      \/ Binary /\ program \in {"ar", "lzma", "md5sum"}
  BY <1>1, <1>2 DEF ReadingInv, StagesInv, Binary
<1>4. CASE file.kind = "changes" /\ program = "gpgv"
  <2>1. pc' \in {"strip", "failing"} /\ (pc' = "strip" => child.status = 0)
    BY <1>1, <1>4 DEF AfterProgram
  <2>2. attrs = Nothing
    BY <1>1, <1>4 DEF ReadingInv, TextInv
  <2>3. StagesInv'
    BY <1>1, <1>4, <2>1 DEF StagesInv, Binary
  <2>4. TextInv' /\ EntriesInv'
    BY <1>1, <1>4, <2>1, <2>2 DEF TextInv, EntriesInv, Binary
  <2> QED
    BY <2>3, <2>4 DEF ReadingInv
<1>5. CASE Binary /\ program \in {"ar", "lzma", "md5sum"}
  <2>1. /\ pc' \in {"unpack", "control", "record", "failing"}
        /\ pc' = "record" => program = "md5sum"
        /\ program = "md5sum" => pc' \in {"record", "failing"}
    BY <1>1, <1>5 DEF AfterProgram
  <2>2. StagesInv'
    BY <1>1, <1>2, <1>5, <2>1 DEF StagesInv, Binary
  <2>3. TextInv'
    BY <1>1, <1>5, <2>1 DEF ReadingInv, TextInv, Binary
  <2>4. EntriesInv'
    BY <1>1, <1>5, <2>1 DEF ReadingInv, EntriesInv, Binary
  <2> QED
    BY <2>2, <2>3, <2>4 DEF ReadingInv
<1> QED
  BY <1>3, <1>4, <1>5

\* The archive in the package.
LEMMA UnpackKeepsReading ==
  ASSUME ReadingInv, Unpack
  PROVE  ReadingInv'
<1>1. /\ file \in Files /\ pc = "unpack" /\ attrs = Nothing
      /\ UNCHANGED <<file, text, attrs, settings, records>>
  BY DEF ReadingInv, StagesInv, TextInv, Unpack, parsed
<1>2. file.kind \in {"changes", "dsc", "deb", "udeb", "config"}
  BY <1>1, FileFacts
<1>3. Binary
  BY <1>1, <1>2 DEF ReadingInv, StagesInv, Binary
<1>4. Binary' /\ \/ pc' = "wait" /\ program' = "lzma"
                 \/ pc' \in {"control", "failing"}
                 \/ file.archive \notin {"lzma", "gz", "none"}
  BY <1>1, <1>3 DEF Unpack, Run, Binary
<1>5. file.archive \in {"lzma", "gz", "none"}
  BY <1>1, <1>3, FilesAssumption DEF Binary
<1>6. StagesInv'
  BY <1>1, <1>2, <1>3, <1>4, <1>5 DEF StagesInv, Binary
<1>7. TextInv' /\ EntriesInv'
  BY <1>1, <1>3, <1>4, <1>5 DEF TextInv, EntriesInv, Binary
<1> QED
  BY <1>6, <1>7 DEF ReadingInv

\* The signed text is taken out.
LEMMA StripKeepsReading ==
  ASSUME ReadingInv, Strip
  PROVE  ReadingInv'
<1>1. /\ file \in Files /\ pc = "strip" /\ attrs = Nothing
      /\ UNCHANGED <<file, program, child, attrs, settings, records>>
  BY DEF ReadingInv, StagesInv, TextInv, Strip, process
<1>2. file.lines \in Seq(Lines) /\ WellFormed(file.lines) /\ file.kind \in {"changes", "dsc", "deb", "udeb", "config"}
  BY <1>1, FileFacts
<1>3. /\ file.kind \in {"changes", "dsc"}
      /\ file.kind = "changes" => program = "gpgv" /\ ~ child.running /\ child.status = 0
  BY <1>1, <1>2 DEF ReadingInv, StagesInv, Binary
<1>4. \/ pc' = "failing"
      \/ pc' = "parse" /\ text' = StripSignature(file.lines) /\ StripSignature(file.lines) # Missing
  BY DEF Strip
<1>5. StagesInv'
  BY <1>1, <1>3, <1>4 DEF StagesInv, Binary
<1>6. pc' = "parse" => SignedText(file.lines, text') /\ text' \in Seq(Lines) /\ WellFormed(text')
  BY <1>2, <1>4, StripSignatureExact
<1>7. TextInv'
  BY <1>1, <1>4, <1>6 DEF TextInv
<1>8. EntriesInv'
  BY <1>1, <1>3 DEF EntriesInv, Binary
<1> QED
  BY <1>5, <1>7, <1>8 DEF ReadingInv

\* The signed text is parsed.
LEMMA ParseKeepsReading ==
  ASSUME ReadingInv, Parse
  PROVE  ReadingInv'
<1>1. /\ file \in Files /\ pc = "parse" /\ pc' = "done" /\ attrs' = ParseAttributes(text)
      /\ UNCHANGED <<file, program, child, text, settings, records>>
  BY DEF ReadingInv, StagesInv, Parse, process
<1>2. file.kind \in {"changes", "dsc", "deb", "udeb", "config"}
  BY <1>1, FileFacts
<1>3. /\ file.kind \in {"changes", "dsc"}
      /\ file.kind = "changes" => program = "gpgv" /\ ~ child.running /\ child.status = 0
  BY <1>1, <1>2 DEF ReadingInv, StagesInv, Binary
<1>4. StagesInv'
  BY <1>1, <1>3 DEF StagesInv
<1>5. TextInv'
  BY <1>1, <1>3 DEF ReadingInv, TextInv
<1>6. EntriesInv'
  BY <1>1, <1>3 DEF EntriesInv, Binary
<1> QED
  BY <1>4, <1>5, <1>6 DEF ReadingInv

\* A configuration file has no attributes of its own.
LEMMA SettingsKeepReading ==
  ASSUME ReadingInv, LoadSettings
  PROVE  ReadingInv'
<1>1. /\ file \in Files /\ pc = "config" /\ pc' = "done" /\ attrs = Nothing
      /\ UNCHANGED <<file, program, child, text, attrs, records>>
  BY DEF ReadingInv, StagesInv, TextInv, LoadSettings, process
<1>2. file.kind \in {"changes", "dsc", "deb", "udeb", "config"}
  BY <1>1, FileFacts
<1>3. file.kind = "config"
  BY <1>1, <1>2 DEF ReadingInv, StagesInv, Binary
<1> QED
  BY <1>1, <1>3 DEF ReadingInv, StagesInv, TextInv, EntriesInv, Binary

\* The control file is the text of a package.
LEMMA ControlKeepsReading ==
  ASSUME ReadingInv, ParseControl
  PROVE  ReadingInv'
<1>1. /\ file \in Files /\ pc = "control"
      /\ text' = file.lines /\ attrs' = ParseAttributes(file.lines)
      /\ UNCHANGED <<file, settings, records>>
  BY DEF ReadingInv, StagesInv, ParseControl
<1>2. file.lines \in Seq(Lines) /\ WellFormed(file.lines) /\ file.kind \in {"changes", "dsc", "deb", "udeb", "config"}
  BY <1>1, FileFacts
<1>3. Binary
  BY <1>1, <1>2 DEF ReadingInv, StagesInv, Binary
<1>4. \/ pc' = "wait" /\ program' = "md5sum" /\ Identified(attrs')
      \/ pc' = "failing"
  BY DEF ParseControl, Run
<1>5. StagesInv'
  BY <1>1, <1>3, <1>4 DEF StagesInv, Binary
<1>6. TextInv'
  BY <1>1, <1>2, <1>3, <1>4 DEF TextInv, Binary
<1>7. EntriesInv'
  BY <1>1, <1>3, <1>4 DEF EntriesInv, Binary
<1> QED
  BY <1>5, <1>6, <1>7 DEF ReadingInv

\* The entries of a package.
LEMMA RecordKeepsReading ==
  ASSUME ReadingInv, Record
  PROVE  ReadingInv'
<1>1. /\ file \in Files /\ pc = "record"
      /\ UNCHANGED <<file, program, child, text, attrs, settings>>
  BY DEF ReadingInv, StagesInv, Record, process
<1>2. file.kind \in {"changes", "dsc", "deb", "udeb", "config"}
  BY <1>1, FileFacts
<1>3. Binary
  BY <1>1, <1>2 DEF ReadingInv, StagesInv, Binary
<1>4. \/ pc' = "failing"
      \/ /\ pc' = "done" /\ <<>> \notin {attrs["Essential"], attrs["Source"]}
         /\ records'.info = BuildDebInfoText(attrs) /\ attrs["Description"] # Missing
         /\ records'.deps = BuildDependencyString(file.kind, attrs)
  BY DEF Record
<1>5. StagesInv'
  BY <1>1, <1>3, <1>4 DEF StagesInv, Binary
<1>6. TextInv'
  BY <1>1, <1>3, <1>4 DEF ReadingInv, TextInv, Binary
<1>7. EntriesInv'
  BY <1>1, <1>3, <1>4 DEF ReadingInv, EntriesInv, Binary
<1> QED
  BY <1>5, <1>6, <1>7 DEF ReadingInv

\* A file that could not be read stays as far as it came.
LEMMA FailKeepsReading ==
  ASSUME ReadingInv, Fail
  PROVE  ReadingInv'
<1>1. /\ file \in Files /\ pc = "failing" /\ pc' = "failed"
      /\ UNCHANGED <<file, program, child, text, attrs, settings, records>>
  BY DEF ReadingInv, StagesInv, Fail, process, parsed
<1>2. file.kind \in {"changes", "dsc", "deb", "udeb", "config"}
  BY <1>1, FileFacts
<1>3. StagesInv'
  BY <1>1, <1>2 DEF ReadingInv, StagesInv, Binary
<1>4. TextInv' /\ EntriesInv'
  BY <1>1 DEF ReadingInv, TextInv, EntriesInv, Binary
<1> QED
  BY <1>3, <1>4 DEF ReadingInv

\* The invariant holds in every state.
LEMMA ReadingCorrect == Spec => []ReadingInv
<1>1. ASSUME ReadingInv, [Next]_vars
      PROVE  ReadingInv'
  <2>1. CASE Child
    BY <1>1, <2>1, ChildKeepsReading
  <2>2. CASE Parent
    BY <1>1, <2>2, StartKeepsReading, WaitKeepsReading, UnpackKeepsReading, StripKeepsReading,
       ParseKeepsReading, SettingsKeepReading, ControlKeepsReading, RecordKeepsReading,
       FailKeepsReading DEF Parent
  <2>3. CASE UNCHANGED vars
    BY <1>1, <2>3 DEF vars, process, parsed, ReadingInv, StagesInv, TextInv, EntriesInv, Binary
  <2> QED
    BY <1>1, <2>1, <2>2, <2>3 DEF Next
<1> QED
  BY <1>1, ReadingInitially, PTL DEF Spec

\* The attributes of a text are those that it gives last, with all lines that
\* continue them (ParseAttributes).
THEOREM AttributesAreExact == Spec => []AttributesExact
<1>1. ReadingInv => AttributesExact
  <2> SUFFICES ASSUME ReadingInv, attrs # Nothing, NEW k \in Keys
               PROVE  attrs[k] = Meaning(text, 0, Len(text) + 1, k)
    BY DEF AttributesExact
  <2>1. attrs = ParseAttributes(text) /\ text \in Seq(Lines) /\ WellFormed(text)
    BY DEF ReadingInv, TextInv
  <2> QED
    BY <2>1, ParseAttributesExact
<1> QED
  BY <1>1, ReadingCorrect, PTL

\* Every key of an entry has a line of its own.
LEMMA EntryLines ==
  ASSUME NEW entry
  PROVE  \A i \in DOMAIN DepKeys :
           ParseDependencyString(entry)[DepKeys[i]] = [n \in DOMAIN entry[i] |-> <<entry[i][n]>>]
<1>1. ASSUME NEW i \in DOMAIN DepKeys
      PROVE  (CHOOSE j \in DOMAIN DepKeys : DepKeys[j] = DepKeys[i]) = i
  <2>1. \A j \in DOMAIN DepKeys : DepKeys[j] = DepKeys[i] => j = i
    BY DEF DepKeys
  <2> QED
    BY <2>1
<1>2. ASSUME NEW i \in DOMAIN DepKeys
      PROVE  ParseDependencyString(entry)[DepKeys[i]] = [n \in DOMAIN entry[i] |-> <<entry[i][n]>>]
  <2>1. DepKeys[i] \in {DepKeys[j] : j \in DOMAIN DepKeys}
    OBVIOUS
  <2> QED
    BY <1>1, <2>1, Zenon DEF ParseDependencyString
<1> QED
  BY <1>2

\* What the verifier reads of a package is what its control file says of its
\* relations, its importance and its source (BuildDependencyString).
THEOREM DependenciesAreKept == Spec => []DependenciesKept
<1>1. ReadingInv => DependenciesKept
  <2>1. SUFFICES ASSUME ReadingInv, Binary, pc = "done"
                 PROVE  DependenciesKept
    BY DEF DependenciesKept
  <2> DEFINE entry == ParseDependencyString(records.deps)
             field(k) == Meaning(text, 0, Len(text) + 1, k)
             pieces(parts) == [i \in DOMAIN parts |-> <<parts[i]>>]
             source == IF field("Source") = Missing THEN field("Package")[1][1] ELSE field("Source")[1][1]
             deps == BuildDependencyString(file.kind, attrs)
  <2>2. /\ attrs = ParseAttributes(text) /\ Identified(attrs)
        /\ text \in Seq(Lines) /\ WellFormed(text)
        /\ records.deps = deps /\ <<>> \notin {attrs["Essential"], attrs["Source"]}
    <3>1. file \in Files /\ text = file.lines
      BY <2>1 DEF ReadingInv, StagesInv, EntriesInv
    <3>2. text \in Seq(Lines) /\ WellFormed(text)
      BY <3>1, FileFacts
    <3> QED
      BY <2>1, <3>2 DEF ReadingInv, EntriesInv
  <2>3. \A k \in Keys : attrs[k] = field(k)
    BY <2>2, ParseAttributesExact
  <2>4. {"Package", "Version", "Source", "Essential", "Depends", "Pre-Depends", "Conflicts", "Provides",
         "Replaces"} \subseteq Keys
    BY FilesAssumption
  <2>5. \A i \in DOMAIN DepKeys : entry[DepKeys[i]] = pieces(deps[i])
    <3>1. entry = ParseDependencyString(deps)
      BY <2>2
    <3> HIDE DEF deps, entry
    <3>2. \A i \in DOMAIN DepKeys :
            ParseDependencyString(deps)[DepKeys[i]] = [n \in DOMAIN deps[i] |-> <<deps[i][n]>>]
      BY EntryLines, Zenon
    <3> QED
      BY <3>1, <3>2
  <2>6. DOMAIN DepKeys = 1 .. 8
    BY DEF DepKeys
  <2>7. /\ DepKeys[2] = "Essential" /\ DepKeys[3] = "Source" /\ DepKeys[4] = "Depends"
        /\ DepKeys[5] = "Pre-Depends" /\ DepKeys[6] = "Conflicts" /\ DepKeys[7] = "Provides"
        /\ DepKeys[8] = "Replaces"
    BY DEF DepKeys
  <2> HIDE DEF field
  <2>8. ASSUME NEW i \in 4 .. 8
        PROVE  entry[DepKeys[i]] = IF field(DepKeys[i]) = Missing THEN <<>> ELSE pieces(FlattenSeq(field(DepKeys[i])))
    <3>1. i \in DOMAIN DepKeys /\ DepKeys[i] \notin {"Component", "Essential", "Source"} /\ DepKeys[i] \in Keys
      BY <2>4, <2>6, <2>7
    <3>2. deps[i] = Value(attrs, DepKeys[i])
      BY <3>1 DEF BuildDependencyString
    <3>3. attrs[DepKeys[i]] = field(DepKeys[i])
      BY <2>3, <3>1
    <3>4. pieces(<<>>) = <<>>
      OBVIOUS
    <3> HIDE DEF deps, entry, pieces
    <3>5. entry[DepKeys[i]] = pieces(deps[i])
      BY <2>5, <3>1
    <3>6. deps[i] = IF field(DepKeys[i]) = Missing THEN <<>> ELSE FlattenSeq(field(DepKeys[i]))
      BY <3>2, <3>3 DEF Value
    <3>7. CASE field(DepKeys[i]) = Missing
      BY <3>4, <3>5, <3>6, <3>7
    <3>8. CASE field(DepKeys[i]) # Missing
      BY <3>5, <3>6, <3>8
    <3> QED
      BY <3>7, <3>8
  <2>9. \A k \in {"Depends", "Pre-Depends", "Conflicts", "Provides", "Replaces"} :
          entry[k] = IF field(k) = Missing THEN <<>> ELSE pieces(FlattenSeq(field(k)))
    <3> HIDE DEF entry, pieces
    <3>1. 4 \in 4 .. 8 /\ 5 \in 4 .. 8 /\ 6 \in 4 .. 8 /\ 7 \in 4 .. 8 /\ 8 \in 4 .. 8
      OBVIOUS
    <3> QED
      BY <2>7, <2>8, <3>1
  <2>10. entry["Essential"] = pieces(IF field("Essential") = Missing THEN << <<"no">> >> ELSE field("Essential")[1])
    <3>1. deps[2] = IF Present(attrs, "Essential") THEN First(attrs, "Essential") ELSE << <<"no">> >>
      BY <2>6, <2>7 DEF BuildDependencyString
    <3>2. attrs["Essential"] = field("Essential") /\ attrs["Essential"] # <<>>
      BY <2>2, <2>3, <2>4
    <3>3. deps[2] = IF field("Essential") = Missing THEN << <<"no">> >> ELSE field("Essential")[1]
      BY <3>1, <3>2 DEF Present, First
    <3> HIDE DEF deps, entry, pieces
    <3>4. 2 \in DOMAIN DepKeys
      BY <2>6
    <3>5. entry["Essential"] = pieces(deps[2])
      BY <2>5, <2>7, <3>4
    <3> QED
      BY <3>3, <3>5
  <2>11. source \in Seq(STRING) /\ SourceEntry(attrs) = <<source[1], IF Len(source) = 2 THEN source[2]
                                                                    ELSE field("Version")[1][1][1]>>
    <3>1. /\ attrs["Source"] = field("Source") /\ attrs["Source"] # <<>>
          /\ attrs["Package"] = field("Package") /\ attrs["Version"] = field("Version")
      BY <2>2, <2>3, <2>4
    <3>2. source = IF Present(attrs, "Source") THEN First(attrs, "Source")[1] ELSE First(attrs, "Package")[1]
      BY <3>1 DEF Present, First
    <3>3. Present(attrs, "Package")
      BY <2>2 DEF Identified
    <3>4. "Source" \in Keys /\ "Package" \in Keys
      BY <2>4
    <3>5. source \in Seq(STRING)
      BY <2>2, <3>2, <3>3, <3>4, FirstPart
    <3> DEFINE src == source
    <3>6. SourceEntry(attrs) = IF Len(src) = 2 THEN src ELSE <<src[1], First(attrs, "Version")[1][1]>>
      BY <3>2 DEF SourceEntry
    <3> HIDE DEF source
    <3>7. Len(src) = 2 => src = <<src[1], src[2]>>
      BY <3>5
    <3> QED
      BY <3>1, <3>5, <3>6, <3>7 DEF First
  <2>12. entry["Source"] = << << <<source[1], IF Len(source) = 2 THEN source[2]
                                              ELSE field("Version")[1][1][1]>> >> >>
    <3>1. deps[3] = <<SourceEntry(attrs)>>
      BY <2>6, <2>7 DEF BuildDependencyString
    <3> DEFINE x == SourceEntry(attrs)
    <3>2. pieces(<<x>>) = << <<x>> >>
      OBVIOUS
    <3> HIDE DEF deps, pieces, x, entry
    <3>3. entry["Source"] = << <<x>> >>
      BY <2>5, <2>6, <2>7, <3>1, <3>2 DEF x
    <3> QED
      BY <2>11, <3>3 DEF x
  <2> QED
    BY <2>9, <2>10, <2>12, Zenon DEF DependenciesKept, field
<1> QED
  BY <1>1, ReadingCorrect, PTL
-----------------------------------------------------------------------------
(* Settings. *)

Dictionaries == [Keys -> Values \cup {Missing}]
ConfigStates ==
  [dict : [Tracks \cup {NoTrack} -> Dictionaries], track : Tracks \cup {NoTrack},
   lines : {x \in Seq(Lines) : WellFormed(x)}]

ConfigInitial ==
  [dict |-> [t \in Tracks \cup {NoTrack} |-> Nothing], track |-> NoTrack, lines |-> <<>>]

\* A text with one more line of another one is well-formed.
LEMMA AppendWellFormed ==
  ASSUME NEW x \in Seq(Lines), WellFormed(x), NEW lines \in Seq(Lines), WellFormed(lines),
         NEW i \in DOMAIN lines
  PROVE  Append(x, lines[i]) \in Seq(Lines) /\ WellFormed(Append(x, lines[i]))
<1>1. lines[i] \in Lines
  OBVIOUS
<1>2. /\ Append(x, lines[i]) \in Seq(Lines)
      /\ DOMAIN Append(x, lines[i]) = 1 .. Len(x) + 1
      /\ \A j \in 1 .. Len(x) + 1 : Append(x, lines[i])[j] = IF j = Len(x) + 1 THEN lines[i] ELSE x[j]
  BY <1>1
<1>3. \A j \in 1 .. Len(x) + 1 : j = Len(x) + 1 \/ j \in DOMAIN x
  OBVIOUS
<1> DEFINE y == Append(x, lines[i])
<1>4. \A j \in DOMAIN y : (\E m \in DOMAIN x : y[j] = x[m]) \/ y[j] = lines[i]
  BY <1>2, <1>3
<1> HIDE DEF y
<1>5. WellFormed(y)
  BY <1>4 DEF WellFormed
<1> QED
  BY <1>2, <1>5 DEF y

\* Every line leaves dictionaries and a section.
LEMMA ConfigStepType ==
  ASSUME NEW lines \in Seq(Lines), WellFormed(lines), NEW i \in DOMAIN lines, NEW s \in ConfigStates
  PROVE  ConfigStep(s, lines[i]) \in ConfigStates
<1> DEFINE l == lines[i]
<1>1. /\ s.dict \in [Tracks \cup {NoTrack} -> Dictionaries] /\ s.track \in Tracks \cup {NoTrack}
      /\ s.lines \in Seq(Lines) /\ WellFormed(s.lines)
  BY DEF ConfigStates
<1>2. CASE l.kind \in {"blank", "empty"}
  <2>1. ConfigStep(s, l) = s
    BY <1>2 DEF ConfigStep
  <2> QED
    BY <2>1
<1>3. CASE l.kind = "heading"
  <2>1. ParseAttributes(s.lines) \in Dictionaries
    BY <1>1, ParseAttributesExact DEF Dictionaries
  <2>2. l.track \in Tracks
    BY <1>3 DEF WellFormed
  <2> DEFINE d == ParseAttributes(s.lines)
  <2>3. ConfigStep(s, l) = [dict |-> [s.dict EXCEPT ![s.track] = d], track |-> l.track, lines |-> <<>>]
    BY <1>3 DEF ConfigStep
  <2>4. <<>> \in {x \in Seq(Lines) : WellFormed(x)}
    BY DEF WellFormed
  <2> HIDE DEF d, l
  <2>5. [s.dict EXCEPT ![s.track] = d] \in [Tracks \cup {NoTrack} -> Dictionaries]
    BY <1>1, <2>1 DEF d
  <2> QED
    BY <2>2, <2>3, <2>4, <2>5 DEF ConfigStates, l
<1>4. CASE l.kind \notin {"blank", "empty", "heading"}
  <2> DEFINE x == Append(s.lines, l)
  <2>1. x \in Seq(Lines) /\ WellFormed(x)
    BY <1>1, AppendWellFormed
  <2>2. ConfigStep(s, l) = [s EXCEPT !.lines = x]
    BY <1>4 DEF ConfigStep
  <2> HIDE DEF x, l
  <2> QED
    BY <2>1, <2>2 DEF ConfigStates, l
<1> QED
  BY <1>2, <1>3, <1>4

\* What the loop of _ParseConfig goes through.
LEMMA ConfigLoop ==
  ASSUME NEW lines \in Seq(Lines), WellFormed(lines)
  PROVE  \E f \in [0 .. Len(lines) -> ConfigStates] :
           /\ f[0] = ConfigInitial
           /\ \A i \in 1 .. Len(lines) : f[i] = ConfigStep(f[i - 1], lines[i])
           /\ Loop(ConfigStep, ConfigInitial, lines) = f[Len(lines)]
<1> DEFINE n == Len(lines)
           step(a, i) == CHOOSE s \in {ConfigStep(before, lines[i]) : before \in {a[i - 1]}} : TRUE
           Loops(a) == a = [i \in 0 .. Len(lines) |-> IF i = 0 THEN ConfigInitial ELSE step(a, i)]
           after == CHOOSE a : Loops(a)
           g == [i \in 1 .. n |-> [s \in ConfigStates |-> ConfigStep(s, lines[i])]]
<1>1. n \in Nat /\ DOMAIN lines = 1 .. n
  OBVIOUS
<1>2. \A a, i : step(a, i) = ConfigStep(a[i - 1], lines[i])
  OBVIOUS
<1>3. Loop(ConfigStep, ConfigInitial, lines) = after[n]
  BY Zenon DEF Loop
<1> HIDE DEF step, n
<1>4. ConfigInitial \in ConfigStates
  <2>1. <<>> \in {x \in Seq(Lines) : WellFormed(x)}
    BY DEF WellFormed
  <2>2. Nothing \in Dictionaries
    BY DEF Nothing, Dictionaries
  <2> QED
    BY <2>1, <2>2 DEF ConfigInitial, ConfigStates
<1>5. g \in [1 .. n -> [ConfigStates -> ConfigStates]]
  BY <1>1, ConfigStepType
<1>6. PICK f \in [0 .. n -> ConfigStates] : Steps(f, n, ConfigInitial, g)
  <2> HIDE DEF g
  <2> QED
    BY <1>1, <1>4, <1>5, StepsExist
<1>7. \A i \in 1 .. n : i - 1 \in 0 .. n /\ f[i - 1] \in ConfigStates
  BY <1>1
<1>8. \A i \in 1 .. n : f[i] = ConfigStep(f[i - 1], lines[i])
  BY <1>6, <1>7 DEF Steps
<1>9. Loops(f)
  <2>1. \A i \in 0 .. n : f[i] = IF i = 0 THEN ConfigInitial ELSE step(f, i)
    <3>1. \A i \in 0 .. n : i = 0 \/ i \in 1 .. n
      BY <1>1
    <3> QED
      BY <1>2, <1>6, <1>8, <3>1 DEF Steps
  <2>2. f = [i \in 0 .. n |-> f[i]]
    OBVIOUS
  <2> QED
    BY <2>1, <2>2 DEF n
<1>10. Loops(after)
  <2> HIDE DEF Loops
  <2> QED
    BY <1>9, Zenon
<1>11. /\ after[0] = ConfigInitial
       /\ \A i \in 1 .. n : after[i] = ConfigStep(after[i - 1], lines[i])
  <2> HIDE DEF after
  <2>1. \A i \in 1 .. n : i \in 0 .. n /\ i # 0
    BY <1>1
  <2>2. 0 \in 0 .. n
    BY <1>1
  <2>3. \A i \in 0 .. n : after[i] = IF i = 0 THEN ConfigInitial ELSE step(after, i)
    BY <1>10 DEF n
  <2> QED
    BY <1>2, <2>1, <2>2, <2>3
<1>12. after \in [0 .. n -> ConfigStates]
  <2> HIDE DEF after
  <2> DEFINE T == {i \in 0 .. n : after[i] \in ConfigStates}
  <2>1. 0 \in T
    BY <1>1, <1>4, <1>11
  <2>2. \A i \in 0 .. n : i \in T /\ i < n => i + 1 \in T
    <3> SUFFICES ASSUME NEW i \in 0 .. n, after[i] \in ConfigStates, i < n PROVE i + 1 \in T
      OBVIOUS
    <3>1. i + 1 \in 1 .. n /\ (i + 1) - 1 = i /\ i + 1 \in 0 .. n
      BY <1>1
    <3>2. after[i + 1] = ConfigStep(after[i], lines[i + 1])
      BY <1>11, <3>1
    <3> QED
      BY <1>1, <3>1, <3>2, ConfigStepType
  <2>3. \A i \in 0 .. n : i \in T
    <3> HIDE DEF T
    <3> QED
      BY <1>1, <2>1, <2>2, BoundedInduction
  <2>4. after = [i \in 0 .. n |-> after[i]]
    BY <1>10 DEF n
  <2> QED
    BY <2>3, <2>4
<1> QED
  BY <1>3, <1>11, <1>12 DEF n

\* What is kept of the lines that have been read, as the values of f.
LEMMA KeptLoop ==
  ASSUME NEW lines \in Seq(Lines), WellFormed(lines)
  PROVE  \E f \in [0 .. Len(lines) -> {x \in Seq(Lines) : WellFormed(x)}] :
           /\ f[0] = <<>>
           /\ \A i \in 1 .. Len(lines) :
                f[i] = IF lines[i].kind \in {"blank", "empty"} THEN f[i - 1] ELSE Append(f[i - 1], lines[i])
           /\ Kept(lines) = f[Len(lines)]
<1> DEFINE n == Len(lines)
           D == {x \in Seq(Lines) : WellFormed(x)}
           step(a, i) == IF lines[i].kind \in {"blank", "empty"} THEN a[i - 1] ELSE Append(a[i - 1], lines[i])
           Loops(a) == a = [i \in 0 .. Len(lines) |-> IF i = 0 THEN <<>> ELSE step(a, i)]
           kept == CHOOSE a : Loops(a)
           g == [i \in 1 .. n |-> [x \in D |-> IF lines[i].kind \in {"blank", "empty"} THEN x
                                               ELSE Append(x, lines[i])]]
<1>1. n \in Nat /\ DOMAIN lines = 1 .. n
  OBVIOUS
<1>2. Kept(lines) = kept[n]
  BY Zenon DEF Kept
<1>3. \A i \in 1 .. n, x \in D : Append(x, lines[i]) \in D
  <2> SUFFICES ASSUME NEW i \in 1 .. n, NEW x \in D PROVE Append(x, lines[i]) \in D
    OBVIOUS
  <2> QED
    BY <1>1, AppendWellFormed
<1>4. <<>> \in D
  BY DEF WellFormed
<1> HIDE DEF n, D
<1>5. g \in [1 .. n -> [D -> D]]
  BY <1>3
<1>6. PICK f \in [0 .. n -> D] : Steps(f, n, <<>>, g)
  <2> HIDE DEF g
  <2> QED
    BY <1>1, <1>4, <1>5, StepsExist
<1>7. f[0] = <<>> /\ \A i \in 1 .. n : f[i] = step(f, i)
  <2>1. \A i \in 1 .. n : i - 1 \in 0 .. n /\ f[i - 1] \in D
    BY <1>1
  <2> QED
    BY <1>6, <2>1 DEF Steps
<1>8. Loops(f)
  <2>1. \A i \in 0 .. n : f[i] = IF i = 0 THEN <<>> ELSE step(f, i)
    <3>1. \A i \in 0 .. n : i = 0 \/ i \in 1 .. n
      BY <1>1
    <3> HIDE DEF step
    <3> QED
      BY <1>7, <3>1
  <2>2. f = [i \in 0 .. n |-> f[i]]
    OBVIOUS
  <2> HIDE DEF step
  <2> QED
    BY <2>1, <2>2 DEF n
<1>9. Loops(kept)
  <2> HIDE DEF Loops
  <2> QED
    BY <1>8, Zenon
<1>10. /\ kept[0] = <<>>
       /\ \A i \in 1 .. n : kept[i] = step(kept, i)
  <2> HIDE DEF kept, step
  <2>1. \A i \in 1 .. n : i \in 0 .. n /\ i # 0
    BY <1>1
  <2>2. 0 \in 0 .. n
    BY <1>1
  <2>3. \A i \in 0 .. n : kept[i] = IF i = 0 THEN <<>> ELSE step(kept, i)
    BY <1>9 DEF n
  <2> QED
    BY <2>1, <2>2, <2>3
<1>11. kept \in [0 .. n -> D]
  <2> HIDE DEF kept
  <2> DEFINE T == {i \in 0 .. n : kept[i] \in D}
  <2>1. 0 \in T
    BY <1>1, <1>4, <1>10
  <2>2. \A i \in 0 .. n : i \in T /\ i < n => i + 1 \in T
    <3> SUFFICES ASSUME NEW i \in 0 .. n, kept[i] \in D, i < n PROVE i + 1 \in T
      OBVIOUS
    <3>1. i + 1 \in 1 .. n /\ (i + 1) - 1 = i /\ i + 1 \in 0 .. n
      BY <1>1
    <3>2. kept[i + 1] = kept[i] \/ kept[i + 1] = Append(kept[i], lines[i + 1])
      BY <1>10, <3>1
    <3> QED
      BY <1>3, <3>1, <3>2
  <2>3. \A i \in 0 .. n : i \in T
    <3> HIDE DEF T
    <3> QED
      BY <1>1, <2>1, <2>2, BoundedInduction
  <2>4. kept = [i \in 0 .. n |-> kept[i]]
    BY <1>9 DEF n
  <2> QED
    BY <2>3, <2>4
<1> QED
  BY <1>2, <1>10, <1>11 DEF n, D

\* Line a is a heading, or there is none before the section that follows it;
\* the section goes up to the next heading or the end, which is b.
Section(p, a, b) ==
  /\ a \in 0 .. Len(p) /\ b \in 1 .. Len(p) + 1 /\ a < b
  /\ a # 0 => p[a].kind = "heading"
  /\ b # Len(p) + 1 => p[b].kind = "heading"
  /\ \A j \in a + 1 .. b - 1 : p[j].kind # "heading"

TrackAt(p, a) == IF a = 0 THEN NoTrack ELSE p[a].track

\* Of the sections that end at n or before, d is what the last of track t says.
LastSays(p, n, t, d) ==
  \/ /\ d = Nothing
     /\ \A a \in 0 .. Len(p), b \in 1 .. n : Section(p, a, b) => TrackAt(p, a) # t
  \/ \E a \in 0 .. Len(p), b \in 1 .. n :
       /\ Section(p, a, b) /\ TrackAt(p, a) = t
       /\ d = ParseAttributes(SubSeq(p, a + 1, b - 1))
       /\ \A c \in 0 .. Len(p), e \in 1 .. n : Section(p, c, e) /\ TrackAt(p, c) = t => c <= a

\* What _ParseConfig knows when it has read the lines p, without those that it
\* leaves out: all sections but the one that is open.
ConfigKnows(p, s) ==
  /\ s \in ConfigStates
  /\ \E h \in 0 .. Len(p) :
       /\ Section(p, h, Len(p) + 1) /\ s.track = TrackAt(p, h)
       /\ s.lines = SubSeq(p, h + 1, Len(p))
  /\ \A t \in Tracks \cup {NoTrack} : LastSays(p, Len(p), t, s.dict[t])

\* The section that is open can be closed.
LEMMA SectionCloses ==
  ASSUME NEW p \in Seq(Lines), NEW s, ConfigKnows(p, s), NEW t \in Tracks \cup {NoTrack}
  PROVE  LastSays(p, Len(p) + 1, t, [s.dict EXCEPT ![s.track] = ParseAttributes(s.lines)][t])
<1> DEFINE n == Len(p)
           d == [s.dict EXCEPT ![s.track] = ParseAttributes(s.lines)]
<1>1. n \in Nat
  OBVIOUS
<1>2. /\ s.dict \in [Tracks \cup {NoTrack} -> Dictionaries] /\ s.track \in Tracks \cup {NoTrack}
      /\ LastSays(p, n, t, s.dict[t])
  BY DEF ConfigKnows, ConfigStates
<1>3. PICK h \in 0 .. n : Section(p, h, n + 1) /\ s.track = TrackAt(p, h) /\ s.lines = SubSeq(p, h + 1, n)
  BY DEF ConfigKnows
<1> HIDE DEF n
\* Whatever ends before comes before it.
<1>4. ASSUME NEW c \in 0 .. n, NEW e \in 1 .. n + 1, Section(p, c, e)
      PROVE  c <= h /\ (e = n + 1 => c = h) /\ (e # n + 1 => e \in 1 .. n)
  <2>1. /\ c < e /\ (e # n + 1 => p[e].kind = "heading") /\ \A j \in c + 1 .. e - 1 : p[j].kind # "heading"
        /\ c # 0 => p[c].kind = "heading"
    BY <1>4 DEF Section, n
  <2>2. (h # 0 => p[h].kind = "heading") /\ \A j \in h + 1 .. n : p[j].kind # "heading"
    BY <1>3, <1>1 DEF Section, n
  <2>3. c <= h
    <3>1. ~ h < c
      BY <1>1, <2>1, <2>2
    <3> QED
      BY <1>1, <3>1
  <2>4. e = n + 1 => c = h
    BY <1>1, <2>1, <2>2, <2>3
  <2> QED
    BY <1>1, <2>3, <2>4
<1>5. CASE t = s.track
  <2>1. d[t] = ParseAttributes(SubSeq(p, h + 1, (n + 1) - 1))
    BY <1>1, <1>2, <1>3, <1>5
  <2>2. n + 1 \in 1 .. n + 1
    BY <1>1
  <2>3. \A c \in 0 .. n, e \in 1 .. n + 1 : Section(p, c, e) /\ TrackAt(p, c) = t => c <= h
    BY <1>4
  <2> HIDE DEF d
  <2>4. LastSays(p, n + 1, t, d[t])
    BY <1>3, <1>5, <2>1, <2>2, <2>3 DEF LastSays, n
  <2> QED
    BY <2>4 DEF d, n
<1>6. CASE t # s.track
  <2>1. d[t] = s.dict[t]
    BY <1>2, <1>6
  <2>2. \A c \in 0 .. n, e \in 1 .. n + 1 : Section(p, c, e) /\ TrackAt(p, c) = t => e \in 1 .. n
    BY <1>3, <1>4, <1>6
  <2>3. \A e \in 1 .. n : e \in 1 .. n + 1
    BY <1>1
  <2> HIDE DEF d
  <2>4. LastSays(p, n + 1, t, d[t])
    <3>1. CASE /\ d[t] = Nothing
               /\ \A a \in 0 .. n, b \in 1 .. n : Section(p, a, b) => TrackAt(p, a) # t
      BY <2>2, <3>1 DEF LastSays, n
    <3>2. CASE \E a \in 0 .. n, b \in 1 .. n :
                 /\ Section(p, a, b) /\ TrackAt(p, a) = t
                 /\ d[t] = ParseAttributes(SubSeq(p, a + 1, b - 1))
                 /\ \A c \in 0 .. n, e \in 1 .. n : Section(p, c, e) /\ TrackAt(p, c) = t => c <= a
      <4>1. PICK a \in 0 .. n, b \in 1 .. n :
              /\ Section(p, a, b) /\ TrackAt(p, a) = t
              /\ d[t] = ParseAttributes(SubSeq(p, a + 1, b - 1))
              /\ \A c \in 0 .. n, e \in 1 .. n : Section(p, c, e) /\ TrackAt(p, c) = t => c <= a
        BY <3>2
      <4>2. \A c \in 0 .. n, e \in 1 .. n + 1 : Section(p, c, e) /\ TrackAt(p, c) = t => c <= a
        BY <2>2, <4>1
      <4> QED
        BY <2>3, <4>1, <4>2 DEF LastSays, n
    <3> QED
      BY <1>2, <2>1, <3>1, <3>2 DEF LastSays, n
  <2> QED
    BY <2>4 DEF d, n
<1> QED
  BY <1>5, <1>6

\* One more line leaves the sections before it.
LEMMA SectionsStay ==
  ASSUME NEW p \in Seq(Lines), NEW l \in Lines, NEW a \in Nat, NEW b \in 1 .. Len(p) + 1,
         b = Len(p) + 1 => l.kind = "heading"
  PROVE  /\ Section(Append(p, l), a, b) <=> Section(p, a, b)
         /\ a \in 0 .. Len(p) => TrackAt(Append(p, l), a) = TrackAt(p, a)
         /\ a < b => SubSeq(Append(p, l), a + 1, b - 1) = SubSeq(p, a + 1, b - 1)
<1> DEFINE q == Append(p, l)
           n == Len(p)
<1>1. /\ n \in Nat /\ Len(q) = n + 1 /\ q \in Seq(Lines)
      /\ q[n + 1] = l /\ \A j \in 1 .. n : q[j] = p[j]
  OBVIOUS
<1> HIDE DEF q, n
<1>2. a \in 0 .. n => TrackAt(q, a) = TrackAt(p, a)
  BY <1>1 DEF TrackAt
<1>3. ASSUME a < b
      PROVE  SubSeq(q, a + 1, b - 1) = SubSeq(p, a + 1, b - 1)
  <2>1. b - 1 <= n /\ \A j \in 1 .. (b - 1) - (a + 1) + 1 : q[(a + 1) + j - 1] = p[(a + 1) + j - 1]
    BY <1>1, <1>3 DEF n
  <2>2. SubSeq(q, a + 1, b - 1) = [j \in 1 .. (b - 1) - (a + 1) + 1 |-> q[(a + 1) + j - 1]]
    BY <1>1, <1>3 DEF n
  <2>3. SubSeq(p, a + 1, b - 1) = [j \in 1 .. (b - 1) - (a + 1) + 1 |-> p[(a + 1) + j - 1]]
    BY <1>1, <1>3 DEF n
  <2> QED
    BY <2>1, <2>2, <2>3
<1>4. Section(q, a, b) <=> Section(p, a, b)
  <2>1. CASE ~ a < b
    BY <2>1 DEF Section
  <2>2. CASE a < b
    <3>1. a \in 0 .. n /\ b \in 1 .. n + 1 /\ a \in 0 .. n + 1 /\ b \in 1 .. (n + 1) + 1 /\ b # (n + 1) + 1
      BY <1>1, <2>2 DEF n
    <3>2. /\ a # 0 => q[a] = p[a]
          /\ \A j \in a + 1 .. b - 1 : q[j] = p[j]
          /\ b # n + 1 => q[b] = p[b]
          /\ b = n + 1 => q[b].kind = "heading"
      <4>1. /\ a # 0 => a \in 1 .. n
            /\ \A j \in a + 1 .. b - 1 : j \in 1 .. n
            /\ b # n + 1 => b \in 1 .. n
        BY <1>1, <2>2, <3>1
      <4>2. b = n + 1 => l.kind = "heading"
        BY DEF n
      <4> QED
        BY <1>1, <4>1, <4>2
    <3> QED
      BY <1>1, <2>2, <3>1, <3>2 DEF Section, n
  <2> QED
    BY <2>1, <2>2
<1> QED
  BY <1>2, <1>3, <1>4 DEF q, n

\* Every line that is kept adds to what is known.
LEMMA ConfigLearns ==
  ASSUME NEW p \in Seq(Lines), NEW s, ConfigKnows(p, s), NEW l \in Lines,
         l.kind \notin {"blank", "empty"}, ConfigStep(s, l) \in ConfigStates
  PROVE  ConfigKnows(Append(p, l), ConfigStep(s, l))
<1> DEFINE q == Append(p, l)
           n == Len(p)
           u == ConfigStep(s, l)
<1>1. /\ n \in Nat /\ Len(q) = n + 1 /\ q \in Seq(Lines)
      /\ q[n + 1] = l /\ \A j \in 1 .. n : q[j] = p[j]
  OBVIOUS
<1>2. s \in ConfigStates /\ s.dict \in [Tracks \cup {NoTrack} -> Dictionaries]
  BY DEF ConfigKnows, ConfigStates
<1>3. PICK h \in 0 .. n : Section(p, h, n + 1) /\ s.track = TrackAt(p, h) /\ s.lines = SubSeq(p, h + 1, n)
  BY DEF ConfigKnows
<1> HIDE DEF q, n, u
<1>4. CASE l.kind = "heading"
  <2> DEFINE d == ParseAttributes(s.lines)
  <2>1. u = [dict |-> [s.dict EXCEPT ![s.track] = d], track |-> l.track, lines |-> <<>>]
    BY <1>4 DEF ConfigStep, u
  <2>2. \A t \in Tracks \cup {NoTrack} : LastSays(q, n + 1, t, u.dict[t])
    <3> SUFFICES ASSUME NEW t \in Tracks \cup {NoTrack} PROVE LastSays(q, n + 1, t, u.dict[t])
      OBVIOUS
    <3> DEFINE e == u.dict[t]
    <3>1. LastSays(p, n + 1, t, e)
      BY <2>1, SectionCloses DEF n
    <3>2. ASSUME NEW a \in 0 .. n + 1, NEW b \in 1 .. n + 1
          PROVE  /\ Section(q, a, b) <=> Section(p, a, b)
                 /\ a \in 0 .. n => TrackAt(q, a) = TrackAt(p, a)
                 /\ a < b => SubSeq(q, a + 1, b - 1) = SubSeq(p, a + 1, b - 1)
                 /\ Section(p, a, b) => a < b /\ a \in 0 .. n
      <4>1. a \in Nat
        BY <1>1
      <4>2. Section(p, a, b) => a < b /\ a \in 0 .. n
        BY DEF Section, n
      <4> QED
        BY <1>4, <4>1, <4>2, SectionsStay DEF q, n
    <3>3. n + 1 \in Nat /\ \A a \in 0 .. n : a \in 0 .. n + 1
      BY <1>1
    <3> HIDE DEF e
    <3>4. CASE e = Nothing /\ \A a \in 0 .. n, b \in 1 .. n + 1 : Section(p, a, b) => TrackAt(p, a) # t
      <4>1. \A a \in 0 .. n + 1, b \in 1 .. n + 1 : Section(q, a, b) => TrackAt(q, a) # t
        BY <3>2, <3>3, <3>4
      <4> QED
        BY <1>1, <3>4, <4>1 DEF LastSays, e
    <3>5. CASE \E a \in 0 .. n, b \in 1 .. n + 1 :
                 /\ Section(p, a, b) /\ TrackAt(p, a) = t
                 /\ e = ParseAttributes(SubSeq(p, a + 1, b - 1))
                 /\ \A c \in 0 .. n, g \in 1 .. n + 1 : Section(p, c, g) /\ TrackAt(p, c) = t => c <= a
      <4>1. PICK a \in 0 .. n, b \in 1 .. n + 1 :
                 /\ Section(p, a, b) /\ TrackAt(p, a) = t
                 /\ e = ParseAttributes(SubSeq(p, a + 1, b - 1))
                 /\ \A c \in 0 .. n, g \in 1 .. n + 1 : Section(p, c, g) /\ TrackAt(p, c) = t => c <= a
        BY <3>5
      <4>2. a \in 0 .. n + 1
        BY <3>3
      <4>3. Section(q, a, b) /\ TrackAt(q, a) = t /\ e = ParseAttributes(SubSeq(q, a + 1, b - 1))
        BY <3>2, <4>1, <4>2
      <4>4. \A c \in 0 .. n + 1, g \in 1 .. n + 1 : Section(q, c, g) /\ TrackAt(q, c) = t => c <= a
        BY <3>2, <4>1
      <4> QED
        BY <1>1, <4>2, <4>3, <4>4 DEF LastSays, e
    <3> QED
      BY <3>1, <3>4, <3>5 DEF LastSays, n
  <2>3. Section(q, n + 1, n + 2) /\ u.track = TrackAt(q, n + 1) /\ u.lines = SubSeq(q, n + 2, n + 1)
    <3>1. Section(q, n + 1, n + 2)
      BY <1>1, <1>4 DEF Section
    <3>2. u.track = TrackAt(q, n + 1)
      BY <1>1, <2>1 DEF TrackAt
    <3>3. SubSeq(q, n + 2, n + 1) = <<>>
      BY <1>1
    <3> QED
      BY <2>1, <3>1, <3>2, <3>3
  <2>4. /\ n + 1 \in 0 .. Len(q) /\ Len(q) + 1 = n + 2 /\ (n + 1) + 1 = n + 2
    BY <1>1
  <2>5. u \in ConfigStates
    BY DEF u
  <2>6. ConfigKnows(q, u)
    BY <1>1, <2>2, <2>3, <2>4, <2>5 DEF ConfigKnows
  <2> QED
    BY <2>6 DEF q, u
<1>5. CASE l.kind # "heading"
  <2>1. u = [s EXCEPT !.lines = Append(s.lines, l)]
    BY <1>5 DEF ConfigStep, u
  <2>2. u.dict = s.dict /\ u.track = s.track /\ u.lines = Append(s.lines, l)
    BY <1>2, <2>1 DEF ConfigStates
  <2>3. ASSUME NEW a \in 0 .. n + 1, NEW b \in 1 .. n + 1
        PROVE  /\ Section(q, a, b) => b \in 1 .. n /\ a \in 0 .. n
               /\ b \in 1 .. n =>
                    /\ Section(q, a, b) <=> Section(p, a, b)
                    /\ a \in 0 .. n => TrackAt(q, a) = TrackAt(p, a)
                    /\ a < b => SubSeq(q, a + 1, b - 1) = SubSeq(p, a + 1, b - 1)
               /\ Section(p, a, b) => a < b
    <3>1. a \in Nat
      BY <1>1
    <3>2. Section(q, a, b) => b \in 1 .. n /\ a \in 0 .. n
      <4>1. b = n + 1 => ~ Section(q, a, b)
        BY <1>1, <1>5 DEF Section
      <4>2. Section(q, a, b) => a < b
        BY DEF Section
      <4> QED
        BY <1>1, <4>1, <4>2
    <3>3. b \in 1 .. n => b \in 1 .. n + 1 /\ b # n + 1
      BY <1>1
    <3>4. Section(p, a, b) => a < b
      BY DEF Section
    <3> QED
      BY <3>1, <3>2, <3>3, <3>4, SectionsStay DEF q, n
  <2>4. \A t \in Tracks \cup {NoTrack} : LastSays(q, n + 1, t, u.dict[t])
    <3> SUFFICES ASSUME NEW t \in Tracks \cup {NoTrack} PROVE LastSays(q, n + 1, t, u.dict[t])
      OBVIOUS
    <3> DEFINE e == u.dict[t]
    <3>1. LastSays(p, n, t, e)
      BY <2>2 DEF ConfigKnows, n
    <3>2. n + 1 \in Nat /\ \A a \in 0 .. n : a \in 0 .. n + 1
      BY <1>1
    <3>3. \A b \in 1 .. n : b \in 1 .. n + 1
      BY <1>1
    <3> HIDE DEF e
    <3>4. CASE e = Nothing /\ \A a \in 0 .. n, b \in 1 .. n : Section(p, a, b) => TrackAt(p, a) # t
      <4>1. \A a \in 0 .. n + 1, b \in 1 .. n + 1 : Section(q, a, b) => TrackAt(q, a) # t
        BY <2>3, <3>4
      <4> QED
        BY <1>1, <3>4, <4>1 DEF LastSays, e
    <3>5. CASE \E a \in 0 .. n, b \in 1 .. n :
                 /\ Section(p, a, b) /\ TrackAt(p, a) = t
                 /\ e = ParseAttributes(SubSeq(p, a + 1, b - 1))
                 /\ \A c \in 0 .. n, g \in 1 .. n : Section(p, c, g) /\ TrackAt(p, c) = t => c <= a
      <4>1. PICK a \in 0 .. n, b \in 1 .. n :
                 /\ Section(p, a, b) /\ TrackAt(p, a) = t
                 /\ e = ParseAttributes(SubSeq(p, a + 1, b - 1))
                 /\ \A c \in 0 .. n, g \in 1 .. n : Section(p, c, g) /\ TrackAt(p, c) = t => c <= a
        BY <3>5
      <4>2. a \in 0 .. n + 1 /\ b \in 1 .. n + 1
        BY <3>2, <3>3
      <4>3. Section(q, a, b) /\ TrackAt(q, a) = t /\ e = ParseAttributes(SubSeq(q, a + 1, b - 1))
        BY <2>3, <4>1, <4>2
      <4>4. \A c \in 0 .. n + 1, g \in 1 .. n + 1 : Section(q, c, g) /\ TrackAt(q, c) = t => c <= a
        BY <2>3, <4>1
      <4> QED
        BY <1>1, <4>2, <4>3, <4>4 DEF LastSays, e
    <3> QED
      BY <3>1, <3>4, <3>5 DEF LastSays, n
  <2>5. Section(q, h, n + 2) /\ u.track = TrackAt(q, h) /\ u.lines = SubSeq(q, h + 1, n + 1)
    <3>1. Section(q, h, n + 2)
      <4>1. (h # 0 => h \in 1 .. n) /\ \A j \in h + 1 .. (n + 2) - 1 : j = n + 1 \/ j \in h + 1 .. (n + 1) - 1
        BY <1>1
      <4>2. \A j \in h + 1 .. (n + 1) - 1 : j \in 1 .. n
        BY <1>1
      <4>3. (h # 0 => p[h].kind = "heading") /\ \A j \in h + 1 .. (n + 1) - 1 : p[j].kind # "heading"
        BY <1>3 DEF Section
      <4>4. h \in 0 .. n + 1 /\ n + 2 \in 1 .. (n + 1) + 1 /\ h < n + 2 /\ n + 2 = (n + 1) + 1
        BY <1>1
      <4>5. (h # 0 => q[h].kind = "heading") /\ \A j \in h + 1 .. (n + 2) - 1 : q[j].kind # "heading"
        BY <1>1, <1>5, <4>1, <4>2, <4>3
      <4> QED
        BY <1>1, <4>4, <4>5 DEF Section
    <3>2. TrackAt(q, h) = TrackAt(p, h)
      BY <1>1 DEF TrackAt
    <3>3. SubSeq(q, h + 1, n + 1) = Append(SubSeq(p, h + 1, n), l)
      <4>1. SubSeq(p, h + 1, n) = [j \in 1 .. n - h |-> p[h + j]]
        <5>1. n - (h + 1) + 1 = n - h /\ \A j \in 1 .. n - h : (h + 1) + j - 1 = h + j
          BY <1>1
        <5>2. SubSeq(p, h + 1, n) = [j \in 1 .. n - (h + 1) + 1 |-> p[(h + 1) + j - 1]]
          BY <1>1 DEF n
        <5> QED
          BY <5>1, <5>2
      <4>2. SubSeq(q, h + 1, n + 1) = [j \in 1 .. (n - h) + 1 |-> q[h + j]]
        <5>1. (n + 1) - (h + 1) + 1 = (n - h) + 1 /\ \A j \in 1 .. (n - h) + 1 : (h + 1) + j - 1 = h + j
          BY <1>1
        <5>2. SubSeq(q, h + 1, n + 1) = [j \in 1 .. (n + 1) - (h + 1) + 1 |-> q[(h + 1) + j - 1]]
          BY <1>1
        <5> QED
          BY <5>1, <5>2
      <4> DEFINE x == SubSeq(p, h + 1, n)
                 m == n - h
      <4>3. m \in Nat /\ x \in Seq(Lines) /\ Len(x) = m
        BY <1>1, <4>1
      <4>4. \A j \in 1 .. m + 1 : q[h + j] = IF j = m + 1 THEN l ELSE x[j]
        <5>1. \A j \in 1 .. m + 1 : j = m + 1 \/ (j \in 1 .. m /\ h + j \in 1 .. n)
          BY <1>1
        <5>2. h + (m + 1) = n + 1
          BY <1>1
        <5> HIDE DEF m
        <5> QED
          BY <1>1, <4>1, <5>1, <5>2 DEF m
      <4> HIDE DEF x, m
      <4>5. Append(x, l) = [j \in 1 .. m + 1 |-> IF j = m + 1 THEN l ELSE x[j]]
        <5>1. /\ Append(x, l) \in Seq(Lines) /\ Len(Append(x, l)) = m + 1
              /\ \A j \in 1 .. m + 1 : Append(x, l)[j] = IF j = m + 1 THEN l ELSE x[j]
          BY <4>3
        <5> DEFINE y == Append(x, l)
        <5>2. y = [j \in 1 .. m + 1 |-> y[j]]
          <6> HIDE DEF y
          <6>1. y \in Seq(Lines) /\ Len(y) = m + 1
            BY <5>1 DEF y
          <6> QED
            BY <4>3, <6>1
        <5> QED
          BY <5>1, <5>2
      <4>6. SubSeq(q, h + 1, n + 1) = [j \in 1 .. m + 1 |-> q[h + j]]
        BY <4>2 DEF m
      <4> QED
        BY <4>4, <4>5, <4>6 DEF x
    <3> QED
      BY <1>3, <2>2, <3>1, <3>2, <3>3
  <2>6. h \in 0 .. Len(q) /\ Len(q) + 1 = n + 2
    BY <1>1
  <2>7. u \in ConfigStates
    BY DEF u
  <2>8. ConfigKnows(q, u)
    BY <1>1, <2>4, <2>5, <2>6, <2>7 DEF ConfigKnows
  <2> QED
    BY <2>8 DEF q, u
<1> QED
  BY <1>4, <1>5

\* What the loops of _ParseConfig know when they have read a whole file.
LEMMA ConfigKnown ==
  ASSUME NEW lines \in Seq(Lines), WellFormed(lines)
  PROVE  /\ Kept(lines) \in Seq(Lines) /\ WellFormed(Kept(lines))
         /\ ConfigKnows(Kept(lines), Loop(ConfigStep, ConfigInitial, lines))
<1> DEFINE n == Len(lines)
           D == {x \in Seq(Lines) : WellFormed(x)}
<1>1. n \in Nat /\ DOMAIN lines = 1 .. n
  OBVIOUS
<1>2. PICK f \in [0 .. n -> ConfigStates] :
        /\ f[0] = ConfigInitial
        /\ \A i \in 1 .. n : f[i] = ConfigStep(f[i - 1], lines[i])
        /\ Loop(ConfigStep, ConfigInitial, lines) = f[n]
  BY ConfigLoop, Zenon
<1>3. PICK p \in [0 .. n -> D] :
        /\ p[0] = <<>>
        /\ \A i \in 1 .. n :
             p[i] = IF lines[i].kind \in {"blank", "empty"} THEN p[i - 1] ELSE Append(p[i - 1], lines[i])
        /\ Kept(lines) = p[n]
  BY KeptLoop, Zenon
<1> DEFINE T == {i \in 0 .. n : ConfigKnows(p[i], f[i])}
<1> HIDE DEF n, D
<1>4. 0 \in T
  <2>1. ConfigKnows(<<>>, ConfigInitial)
    <3>1. Len(<<>>) = 0 /\ SubSeq(<<>>, 1, 0) = <<>>
      OBVIOUS
    <3>2. Section(<<>>, 0, 1) /\ \A a \in 0 .. 0, b \in 1 .. 0 : ~ Section(<<>>, a, b)
      BY <3>1 DEF Section
    <3>3. ConfigInitial \in ConfigStates
      BY <1>1, <1>2
    <3>4. \A t \in Tracks \cup {NoTrack} : LastSays(<<>>, 0, t, ConfigInitial.dict[t])
      BY <3>1, <3>2 DEF ConfigInitial, LastSays
    <3>5. ConfigInitial.track = TrackAt(<<>>, 0) /\ ConfigInitial.lines = <<>>
      BY DEF ConfigInitial, TrackAt
    <3> QED
      BY <3>1, <3>2, <3>3, <3>4, <3>5 DEF ConfigKnows
  <2> QED
    BY <1>1, <1>2, <1>3, <2>1
<1>5. \A i \in 0 .. n : i \in T /\ i < n => i + 1 \in T
  <2> SUFFICES ASSUME NEW i \in 0 .. n, ConfigKnows(p[i], f[i]), i < n
               PROVE  ConfigKnows(p[i + 1], f[i + 1])
    BY <1>1
  <2> DEFINE l == lines[i + 1]
  <2>1. i + 1 \in 1 .. n /\ (i + 1) - 1 = i /\ i + 1 \in 0 .. n /\ l \in Lines
    BY <1>1
  <2>2. f[i + 1] = ConfigStep(f[i], l) /\ f[i + 1] \in ConfigStates
    BY <1>2, <2>1
  <2>3. p[i + 1] = (IF l.kind \in {"blank", "empty"} THEN p[i] ELSE Append(p[i], l)) /\ p[i] \in Seq(Lines)
    BY <1>3, <2>1 DEF D
  <2> HIDE DEF l
  <2>4. CASE l.kind \in {"blank", "empty"}
    <3>1. ConfigStep(f[i], l) = f[i]
      BY <2>4 DEF ConfigStep
    <3> QED
      BY <2>2, <2>3, <2>4, <3>1
  <2>5. CASE l.kind \notin {"blank", "empty"}
    <3>1. ConfigKnows(Append(p[i], l), ConfigStep(f[i], l))
      BY <2>1, <2>2, <2>3, <2>5, ConfigLearns
    <3> QED
      BY <2>2, <2>3, <2>5, <3>1
  <2> QED
    BY <2>4, <2>5
<1>6. n \in T
  <2> HIDE DEF T
  <2>1. \A i \in 0 .. n : i \in T
    BY <1>1, <1>4, <1>5, BoundedInduction
  <2> QED
    BY <1>1, <2>1
<1>7. p[n] \in D
  BY <1>1
<1> QED
  BY <1>2, <1>3, <1>6, <1>7 DEF D

\* Every heading begins a section, and so does the text.
LEMMA SectionExists ==
  ASSUME NEW p \in Seq(Lines), NEW a \in 0 .. Len(p), a # 0 => p[a].kind = "heading"
  PROVE  \E b \in 1 .. Len(p) + 1 : Section(p, a, b)
<1> DEFINE n == Len(p)
           S == {b \in 0 .. n + 1 : a < b /\ (b # n + 1 => p[b].kind = "heading")}
<1>1. n \in Nat /\ n + 1 \in Nat
  OBVIOUS
<1> HIDE DEF n
<1>2. S \in SUBSET (0 .. n + 1) /\ S # {}
  <2>1. n + 1 \in S
    BY <1>1 DEF n
  <2> QED
    BY <2>1
<1>3. PICK b \in S : \A c \in S : b <= c
  <2> HIDE DEF S
  <2> QED
    BY <1>1, <1>2, BoundedSetHasMinimum
<1>4. b \in 1 .. n + 1 /\ a < b /\ (b # n + 1 => p[b].kind = "heading")
  BY <1>1 DEF n
<1>5. ASSUME NEW j \in a + 1 .. b - 1
      PROVE  p[j].kind # "heading"
  <2>1. j \in 0 .. n + 1 /\ a < j /\ j # n + 1 /\ ~ b <= j
    BY <1>1, <1>4 DEF n
  <2>2. j \notin S
    BY <1>3, <2>1
  <2> QED
    BY <2>1, <2>2
<1>6. Section(p, a, b)
  BY <1>4, <1>5 DEF Section, n
<1> QED
  BY <1>4, <1>6 DEF n

\* A number of lines that continue line a is the only one.
LEMMA FoldsUnique ==
  ASSUME NEW lines, NEW n \in Nat, NEW a \in 1 .. n, NEW c, NEW d,
         Folds(lines, n, a, c), Folds(lines, n, a, d)
  PROVE  c = d
<1>1. c \in Nat /\ d \in Nat /\ a + c <= n /\ a + d <= n
  BY DEF Folds
<1>2. ~ c < d
  <2> SUFFICES ASSUME c < d PROVE FALSE
    OBVIOUS
  <2>1. a + c + 1 \in a + 1 .. a + d /\ a + c < n
    BY <1>1
  <2> QED
    BY <2>1 DEF Folds
<1>3. ~ d < c
  <2> SUFFICES ASSUME d < c PROVE FALSE
    OBVIOUS
  <2>1. a + d + 1 \in a + 1 .. a + c /\ a + d < n
    BY <1>1
  <2> QED
    BY <2>1 DEF Folds
<1> QED
  BY <1>1, <1>2, <1>3

\* A section parsed by itself says what its lines say in the whole text: the
\* heading that ends it continues nothing.
LEMMA SectionMeaning ==
  ASSUME NEW p \in Seq(Lines), WellFormed(p), NEW a \in 0 .. Len(p), NEW b \in 1 .. Len(p) + 1,
         Section(p, a, b), NEW k \in Keys
  PROVE  ParseAttributes(SubSeq(p, a + 1, b - 1))[k] = Meaning(p, a, b, k)
<1> DEFINE n == Len(p)
           x == SubSeq(p, a + 1, b - 1)
           m == b - 1 - a
<1>1. /\ n \in Nat /\ DOMAIN p = 1 .. n /\ a < b /\ m \in Nat /\ a + m <= n /\ a + m + 1 = b
      /\ b # n + 1 => p[b].kind = "heading"
  BY DEF Section
<1>2. x \in Seq(Lines) /\ Len(x) = m /\ DOMAIN x = 1 .. m /\ \A j \in 1 .. m : x[j] = p[a + j]
  <2>1. x = [j \in 1 .. (b - 1) - (a + 1) + 1 |-> p[(a + 1) + j - 1]]
    BY <1>1
  <2>2. (b - 1) - (a + 1) + 1 = m /\ \A j \in 1 .. m : (a + 1) + j - 1 = a + j /\ a + j \in 1 .. n
    BY <1>1
  <2>3. x = [j \in 1 .. m |-> p[a + j]]
    BY <2>1, <2>2
  <2>4. \A j \in 1 .. m : p[a + j] \in Lines
    BY <1>1, <2>2
  <2> HIDE DEF x, m
  <2> QED
    BY <1>1, <2>3, <2>4
<1> HIDE DEF n, x, m
<1>3. \A j \in 1 .. m : a + j \in 1 .. n
  BY <1>1
<1>4. WellFormed(x)
  <2> SUFFICES ASSUME NEW j \in 1 .. m
               PROVE  /\ x[j].kind \in {"attribute", "hash", "key"} => x[j].key \in Keys
                      /\ x[j].kind \in {"attribute", "hash", "folded"} => x[j].parts # <<>>
                      /\ x[j].kind = "heading" => x[j].track \in Tracks
    BY <1>2 DEF WellFormed
  <2>1. a + j \in DOMAIN p /\ x[j] = p[a + j]
    BY <1>1, <1>2, <1>3
  <2> QED
    BY <2>1, Zenon DEF WellFormed
<1>5. ParseAttributes(x)[k] = Meaning(x, 0, m + 1, k)
  BY <1>2, <1>4, ParseAttributesExact
<1>6. \A j \in 1 .. m : Assigns(x, j, k) <=> Assigns(p, a + j, k)
  BY <1>2 DEF Assigns
<1>7. ASSUME NEW i \in 1 .. m
      PROVE  i \in Assigning(x, 0, m + 1, k) <=> a + i \in Assigning(p, a, b, k)
  <2>1. i \in Assigning(x, 0, m + 1, k) <=> Assigns(x, i, k) /\ \A j \in 1 .. m : i < j => ~ Assigns(x, j, k)
    BY <1>1, <1>2 DEF Assigning
  <2>2. a + i \in Assigning(p, a, b, k) <=>
          Assigns(p, a + i, k) /\ \A j \in 1 .. n : a + i < j /\ j < b => ~ Assigns(p, j, k)
    BY <1>1, <1>3 DEF Assigning
  <2>3. (\A j \in 1 .. m : i < j => ~ Assigns(p, a + j, k)) <=>
          \A j \in 1 .. n : a + i < j /\ j < b => ~ Assigns(p, j, k)
    <3>1. ASSUME \A j \in 1 .. m : i < j => ~ Assigns(p, a + j, k), NEW j \in 1 .. n, a + i < j, j < b
          PROVE  ~ Assigns(p, j, k)
      <4>1. j - a \in 1 .. m /\ i < j - a /\ a + (j - a) = j
        BY <1>1, <3>1
      <4> QED
        BY <3>1, <4>1
    <3>2. ASSUME \A j \in 1 .. n : a + i < j /\ j < b => ~ Assigns(p, j, k), NEW j \in 1 .. m, i < j
          PROVE  ~ Assigns(p, a + j, k)
      <4>1. a + j \in 1 .. n /\ a + i < a + j /\ a + j < b
        BY <1>1, <3>2
      <4> QED
        BY <3>2, <4>1
    <3> QED
      BY <3>1, <3>2
  <2> QED
    BY <1>6, <2>1, <2>2, <2>3
<1>8. \A i \in Assigning(p, a, b, k) : i - a \in 1 .. m /\ a + (i - a) = i
  BY <1>1 DEF Assigning
<1>9. CASE Assigning(x, 0, m + 1, k) = {}
  <2>1. Assigning(p, a, b, k) = {}
    BY <1>7, <1>8, <1>9
  <2> QED
    BY <1>5, <1>9, <2>1 DEF Meaning, x
<1>10. CASE Assigning(x, 0, m + 1, k) # {}
  <2>1. PICK i : i \in Assigning(x, 0, m + 1, k)
    BY <1>10
  <2>2. i \in 1 .. m /\ a + i \in 1 .. n
    BY <1>2, <1>3, <2>1 DEF Assigning
  <2>3. a + i \in Assigning(p, a, b, k)
    BY <1>7, <2>1, <2>2
  <2>4. Assigning(x, 0, m + 1, k) = {i}
    <3>1. ASSUME NEW j \in Assigning(x, 0, m + 1, k)
          PROVE  j = i
      <4>1. j \in 1 .. m /\ i \in 1 .. m /\ ~ i < j /\ ~ j < i
        BY <1>1, <1>2, <2>1, <3>1 DEF Assigning
      <4> QED
        BY <1>1, <4>1
    <3> QED
      BY <2>1, <3>1
  <2>5. Assigning(p, a, b, k) = {a + i}
    <3>1. ASSUME NEW j \in Assigning(p, a, b, k)
          PROVE  j = a + i
      <4>1. j - a \in Assigning(x, 0, m + 1, k)
        BY <1>7, <1>8
      <4> QED
        BY <1>8, <2>4, <4>1
    <3> QED
      BY <2>3, <3>1
  <2>6. PICK c \in Nat : Folds(x, m, i, c) /\ Cardinality(Continuing(x, i)) = c
    BY <1>2, <2>2, FoldsExist
  <2>7. PICK d \in Nat : Folds(p, n, a + i, d) /\ Cardinality(Continuing(p, a + i)) = d
    BY <2>2, FoldsExist DEF n
  <2>8. i + c <= m /\ \A j \in 1 .. c : i + j \in 1 .. m /\ x[i + j] = p[(a + i) + j]
    <3>1. i + c <= m
      BY <2>6 DEF Folds
    <3>2. \A j \in 1 .. c : i + j \in 1 .. m /\ a + (i + j) = (a + i) + j
      BY <1>1, <2>2, <3>1
    <3> QED
      BY <1>2, <3>1, <3>2
  <2>9. Folds(p, n, a + i, c)
    <3>1. (a + i) + c <= n
      BY <1>1, <2>2, <2>8
    <3>2. ASSUME NEW j \in (a + i) + 1 .. (a + i) + c
          PROVE  p[j].kind = "folded"
      <4>1. j - a \in i + 1 .. i + c /\ j - a \in 1 .. m /\ a + (j - a) = j
        BY <1>1, <2>2, <2>8
      <4>2. x[j - a].kind = "folded"
        BY <2>6, <4>1 DEF Folds
      <4> QED
        BY <1>2, <4>1, <4>2
    <3>3. ASSUME (a + i) + c < n
          PROVE  p[(a + i) + c + 1].kind # "folded"
      <4>1. CASE i + c < m
        <5>1. i + c + 1 \in 1 .. m /\ a + (i + c + 1) = (a + i) + c + 1
          BY <1>1, <2>2, <4>1
        <5>2. x[i + c + 1].kind # "folded"
          BY <2>6, <4>1 DEF Folds
        <5> QED
          BY <1>2, <5>1, <5>2
      <4>2. CASE ~ i + c < m
        <5>1. (a + i) + c + 1 = b /\ b # n + 1
          BY <1>1, <2>2, <2>8, <3>3, <4>2
        <5> QED
          BY <1>1, <5>1
      <4> QED
        BY <4>1, <4>2
    <3> QED
      BY <3>1, <3>2, <3>3 DEF Folds
  <2>10. c = d
    BY <1>1, <2>2, <2>7, <2>9, FoldsUnique
  <2>11. Meaning(x, 0, m + 1, k) = ValueOf(x, i, c) /\ Meaning(p, a, b, k) = ValueOf(p, a + i, c)
    BY <2>4, <2>5, <2>6, <2>7, <2>10, MeaningIs
  <2>12. ValueOf(x, i, c) = ValueOf(p, a + i, c)
    <3>1. x[i] = p[a + i]
      BY <1>2, <2>2
    <3>2. More(x, i, c) = More(p, a + i, c)
      BY <2>8 DEF More
    <3> QED
      BY <3>1, <3>2 DEF ValueOf
  <2> QED
    BY <1>5, <2>11, <2>12 DEF x
<1> QED
  BY <1>9, <1>10

\* The dictionary of a track says what the track's last section says.
LEMMA OwnSettingExact ==
  ASSUME NEW p \in Seq(Lines), WellFormed(p), NEW t \in Tracks \cup {NoTrack}, NEW d,
         LastSays(p, Len(p) + 1, t, d), NEW k \in Keys
  PROVE  d[k] = OwnSetting(p, t, k)
<1> DEFINE n == Len(p)
           headings == {i \in DOMAIN p : p[i].kind = "heading"}
           sections == {i \in headings : p[i].track = t}
           last == {i \in sections : \A j \in sections : j <= i}
           start == IF t = NoTrack THEN 0 ELSE CHOOSE i \in last : TRUE
           after == {j \in headings \cup {Len(p) + 1} : start < j}
           end == CHOOSE j \in after : \A m \in after : j <= m
<1>1. n \in Nat /\ DOMAIN p = 1 .. n /\ NoTrack \notin Tracks
  BY FilesAssumption
<1>2. OwnSetting(p, t, k) = IF t # NoTrack /\ last = {} THEN Missing ELSE Meaning(p, start, end, k)
  BY Zenon DEF OwnSetting
<1> HIDE DEF n, end, start
<1>3. ASSUME NEW i \in sections
      PROVE  i \in 1 .. n /\ TrackAt(p, i) = t /\ t # NoTrack /\ \E b \in 1 .. n + 1 : Section(p, i, b)
  <2>1. i \in 1 .. n /\ p[i].kind = "heading" /\ p[i].track = t /\ p[i].track \in Tracks
    BY <1>1 DEF WellFormed
  <2>2. i \in 0 .. n /\ i # 0
    BY <1>1, <2>1
  <2>3. \E b \in 1 .. n + 1 : Section(p, i, b)
    BY <2>1, <2>2, SectionExists DEF n
  <2> QED
    BY <1>1, <2>1, <2>2, <2>3 DEF TrackAt
<1>4. CASE /\ d = Nothing
           /\ \A a \in 0 .. n, b \in 1 .. n + 1 : Section(p, a, b) => TrackAt(p, a) # t
  <2>1. t # NoTrack
    <3>1. \E b \in 1 .. n + 1 : Section(p, 0, b)
      BY <1>1, SectionExists DEF n
    <3> QED
      BY <1>1, <1>4, <3>1 DEF TrackAt
  <2>2. sections = {}
    <3>1. ASSUME NEW i \in sections
          PROVE  FALSE
      <4>1. i \in 0 .. n
        BY <1>1, <1>3
      <4> QED
        BY <1>3, <1>4, <4>1
    <3> QED
      BY <3>1
  <2>3. last = {}
    BY <2>2
  <2> QED
    BY <1>2, <1>4, <2>1, <2>3 DEF Nothing
<1>5. CASE \E a \in 0 .. n, b \in 1 .. n + 1 :
             /\ Section(p, a, b) /\ TrackAt(p, a) = t
             /\ d = ParseAttributes(SubSeq(p, a + 1, b - 1))
             /\ \A c \in 0 .. n, e \in 1 .. n + 1 : Section(p, c, e) /\ TrackAt(p, c) = t => c <= a
  <2>1. PICK a \in 0 .. n, b \in 1 .. n + 1 :
          /\ Section(p, a, b) /\ TrackAt(p, a) = t
          /\ d = ParseAttributes(SubSeq(p, a + 1, b - 1))
          /\ \A c \in 0 .. n, e \in 1 .. n + 1 : Section(p, c, e) /\ TrackAt(p, c) = t => c <= a
    BY <1>5
  <2>2. a # 0 => a \in sections /\ t # NoTrack
    <3>1. a # 0 => a \in 1 .. n /\ p[a].kind = "heading" /\ p[a].track = t
      BY <1>1, <2>1 DEF Section, TrackAt
    <3>2. a # 0 => a \in sections
      BY <1>1, <3>1
    <3> QED
      BY <1>3, <3>2
  <2>3. a = 0 => t = NoTrack
    BY <2>1 DEF TrackAt
  <2>4. \A i \in sections : i <= a
    <3> SUFFICES ASSUME NEW i \in sections PROVE i <= a
      OBVIOUS
    <3>1. i \in 0 .. n
      BY <1>1, <1>3
    <3> HIDE DEF sections
    <3> QED
      BY <1>3, <2>1, <3>1
  <2>5. start = a /\ ~ (t # NoTrack /\ last = {})
    <3>1. CASE a = 0
      BY <2>3, <3>1 DEF start
    <3>2. CASE a # 0
      <4>1. a \in last
        BY <2>2, <2>4, <3>2
      <4>2. \A i \in last : i = a
        <5> SUFFICES ASSUME NEW i \in last PROVE i = a
          OBVIOUS
        <5>1. i \in 1 .. n /\ i <= a /\ a <= i
          <6>1. i \in sections
            OBVIOUS
          <6>2. a \in sections
            BY <2>2, <3>2
          <6>3. a <= i
            BY <6>2
          <6> HIDE DEF sections
          <6> QED
            BY <1>3, <2>4, <6>1, <6>3
        <5> HIDE DEF last
        <5> QED
          BY <1>1, <2>1, <5>1
      <4> HIDE DEF last
      <4>3. (CHOOSE i \in last : TRUE) = a
        BY <4>1, <4>2
      <4> QED
        BY <2>2, <3>2, <4>1, <4>3 DEF start
    <3> QED
      BY <3>1, <3>2
  <2>6. end = b
    <3>1. b \in after
      <4>1. b \in headings \cup {Len(p) + 1}
        BY <1>1, <2>1 DEF Section, n
      <4>2. a < b
        BY <2>1 DEF Section
      <4> QED
        BY <2>5, <4>1, <4>2
    <3>2. \A j \in after : b <= j
      <4> SUFFICES ASSUME NEW j \in after PROVE b <= j
        OBVIOUS
      <4>1. CASE j = n + 1
        BY <1>1, <2>1, <4>1
      <4>2. CASE j # n + 1
        <5>1. j \in 1 .. n /\ p[j].kind = "heading" /\ a < j
          BY <1>1, <2>5, <4>2 DEF n
        <5>2. j \notin a + 1 .. b - 1
          BY <2>1, <5>1 DEF Section
        <5> QED
          BY <1>1, <2>1, <5>1, <5>2
      <4> QED
        BY <4>1, <4>2
    <3>3. \A j \in after : j \in Int
      BY <1>1 DEF n
    <3>4. \A j \in after : (\A m \in after : j <= m) => j = b
      <4> HIDE DEF after
      <4> SUFFICES ASSUME NEW j \in after, \A m \in after : j <= m PROVE j = b
        OBVIOUS
      <4>1. j <= b /\ b <= j /\ j \in Int /\ b \in Int
        BY <3>1, <3>2, <3>3
      <4> QED
        BY <4>1
    <3> HIDE DEF after
    <3> QED
      BY <3>1, <3>2, <3>4, Zenon DEF end
  <2>7. Meaning(p, a, b, k) = d[k]
    BY <2>1, SectionMeaning DEF n
  <2> HIDE DEF last
  <2> QED
    BY <1>2, <2>5, <2>6, <2>7
<1>6. \/ /\ d = Nothing
         /\ \A a \in 0 .. n, b \in 1 .. n + 1 : Section(p, a, b) => TrackAt(p, a) # t
      \/ \E a \in 0 .. n, b \in 1 .. n + 1 :
             /\ Section(p, a, b) /\ TrackAt(p, a) = t
             /\ d = ParseAttributes(SubSeq(p, a + 1, b - 1))
             /\ \A c \in 0 .. n, e \in 1 .. n + 1 : Section(p, c, e) /\ TrackAt(p, c) = t => c <= a
  BY DEF LastSays, n
<1> QED
  BY <1>4, <1>5, <1>6

\* What ParseConfig returns: the dictionaries of the last sections, and two
\* defaults at the top level.
LEMMA ParseConfigExact ==
  ASSUME NEW lines \in Seq(Lines), WellFormed(lines)
  PROVE  /\ DOMAIN ParseConfig(lines) = Tracks \cup {NoTrack}
         /\ \A t \in Tracks \cup {NoTrack}, k \in Keys \ {"Component", "Architectures"} :
              ParseConfig(lines)[t][k] = OwnSetting(Kept(lines), t, k)
<1> DEFINE s == Loop(ConfigStep, ConfigInitial, lines)
           p == Kept(lines)
           all == [s.dict EXCEPT ![s.track] = ParseAttributes(s.lines)]
           local == << << <<"local">> >> >>
           i386 == << << <<"i386">> >> >>
           top == Default(Default(all[NoTrack], "Component", local), "Architectures", i386)
<1>1. p \in Seq(Lines) /\ WellFormed(p) /\ ConfigKnows(p, s)
  BY ConfigKnown
<1>2. /\ s.dict \in [Tracks \cup {NoTrack} -> Dictionaries] /\ s.track \in Tracks \cup {NoTrack}
      /\ s.lines \in Seq(Lines) /\ WellFormed(s.lines)
  BY <1>1 DEF ConfigKnows, ConfigStates
<1>3. ParseAttributes(s.lines) \in Dictionaries
  BY <1>2, ParseAttributesExact DEF Dictionaries
<1>4. \A t \in Tracks \cup {NoTrack} : LastSays(p, Len(p) + 1, t, all[t])
  BY <1>1, SectionCloses
<1>5. ParseConfig(lines) = [all EXCEPT ![NoTrack] = top]
  BY DEF ParseConfig, ConfigInitial
<1> HIDE DEF s, p
<1>6. all \in [Tracks \cup {NoTrack} -> Dictionaries]
  BY <1>2, <1>3
<1> HIDE DEF all
<1> DEFINE W == Values \cup {Missing, local, i386}
<1>7. ASSUME NEW dict \in [Keys -> W], NEW key, NEW value \in W
      PROVE  /\ Default(dict, key, value) \in [Keys -> W]
             /\ \A k \in Keys : k # key => Default(dict, key, value)[k] = dict[k]
  <2> HIDE DEF W
  <2> QED
    BY DEF Default
<1>8. local \in W /\ i386 \in W /\ \A dict \in Dictionaries : dict \in [Keys -> W]
  BY DEF Dictionaries
<1> HIDE DEF local, i386, W
<1>9. /\ top \in [Keys -> W]
      /\ \A k \in Keys \ {"Component", "Architectures"} : top[k] = all[NoTrack][k]
  <2> DEFINE inner == Default(all[NoTrack], "Component", local)
  <2>1. all[NoTrack] \in [Keys -> W]
    BY <1>6, <1>8
  <2>2. inner \in [Keys -> W] /\ \A k \in Keys : k # "Component" => inner[k] = all[NoTrack][k]
    BY <1>7, <1>8, <2>1
  <2> HIDE DEF inner
  <2>3. /\ Default(inner, "Architectures", i386) \in [Keys -> W]
        /\ \A k \in Keys : k # "Architectures" => Default(inner, "Architectures", i386)[k] = inner[k]
    BY <1>7, <1>8, <2>2
  <2> QED
    BY <2>2, <2>3 DEF inner
<1> HIDE DEF top
<1>10. DOMAIN ParseConfig(lines) = Tracks \cup {NoTrack}
  BY <1>5, <1>6
<1>11. ASSUME NEW t \in Tracks \cup {NoTrack}, NEW k \in Keys \ {"Component", "Architectures"}
       PROVE  ParseConfig(lines)[t][k] = OwnSetting(p, t, k)
  <2>1. ParseConfig(lines)[t][k] = all[t][k]
    BY <1>5, <1>6, <1>9
  <2>2. all[t][k] = OwnSetting(p, t, k)
    BY <1>1, <1>4, OwnSettingExact
  <2> QED
    BY <2>1, <2>2
<1> QED
  BY <1>10, <1>11 DEF p

\* Nothing but LoadSettings brings a configuration file to its end, and nothing
\* changes the settings afterwards.
LEMMA SettingsCorrect == Spec => []ConfigInv
<1>1. Init => ConfigInv
  BY DEF Init, ConfigInv
<1>2. ASSUME ReadingInv, ConfigInv, [Next]_vars
      PROVE  ConfigInv'
  <2> SUFFICES ASSUME file'.kind = "config", pc' = "done"
               PROVE  settings' = ParseConfig(file'.lines)
    BY DEF ConfigInv
  <2>1. file' = file
    BY <1>2 DEF Next, Child, Parent, ChildWrites, ChildExits, Start, Wait, Unpack, Strip, Parse,
       LoadSettings, ParseControl, Record, Fail, vars
  <2>2. pc \in {"start", "config", "done"}
    BY <1>2, <2>1 DEF ReadingInv, StagesInv, Binary
  <2>3. CASE pc = "done"
    <3>1. pc' = pc /\ settings' = settings
      BY <1>2, <2>3 DEF Next, Child, Parent, ChildWrites, ChildExits, Start, Wait, Unpack, Strip, Parse,
         LoadSettings, ParseControl, Record, Fail, vars, parsed
    <3> QED
      BY <1>2, <2>1, <2>3, <3>1 DEF ConfigInv
  <2>4. CASE pc # "done"
    <3>1. LoadSettings
      BY <1>2, <2>1, <2>2, <2>4 DEF Next, Child, Parent, ChildWrites, ChildExits, Start, Wait, Unpack, Strip,
         Parse, LoadSettings, ParseControl, Record, Fail, vars, Run
    <3> QED
      BY <2>1, <3>1 DEF LoadSettings
  <2> QED
    BY <2>3, <2>4
<1> QED
  BY <1>1, <1>2, ReadingCorrect, PTL DEF Spec

\* A setting of a track is what its last section says, or else what the top
\* level says, whatever sections the file has in which order (_ParseConfig,
\* GetSetting).
THEOREM SettingsAreExact == Spec => []SettingsExact
<1>1. ReadingInv /\ ConfigInv => SettingsExact
  <2>1. SUFFICES ASSUME ReadingInv, ConfigInv, file.kind = "config", pc = "done"
                 PROVE  SettingsExact
    BY DEF SettingsExact
  <2> DEFINE own(t, k) == OwnSetting(Kept(file.lines), t, k)
  <2>2. settings = ParseConfig(file.lines)
    BY <2>1 DEF ConfigInv
  <2>3. file.lines \in Seq(Lines) /\ WellFormed(file.lines)
    BY <2>1, FileFacts DEF ReadingInv, StagesInv
  <2>4. \A t \in Tracks \cup {NoTrack}, k \in Keys \ {"Component", "Architectures"} :
          settings[t][k] = own(t, k)
    BY <2>2, <2>3, ParseConfigExact
  <2> HIDE DEF own
  <2>5. ASSUME NEW t \in Tracks \cup {NoTrack}, NEW k \in Keys \ {"Component", "Architectures"}
        PROVE  GetSetting(settings, t, k) =
                 IF own(t, k) # Missing THEN FlattenSeq(own(t, k))
                 ELSE IF own(NoTrack, k) # Missing THEN FlattenSeq(own(NoTrack, k)) ELSE Missing
    <3>1. settings[t][k] = own(t, k) /\ settings[NoTrack][k] = own(NoTrack, k)
      BY <2>4
    <3> QED
      BY <3>1 DEF GetSetting, Value
  <2> QED
    BY <2>5, Zenon DEF SettingsExact, own
<1> QED
  BY <1>1, ReadingCorrect, SettingsCorrect, PTL
-----------------------------------------------------------------------------
(* The process, the pipe and the temporary directory. *)

\* A program is started when the pipe is empty and the parent waits.
LEMMA RunStarts ==
  ASSUME ProcessInv, pc # "wait", NEW name, Run(name)
  PROVE  /\ program' = name /\ pipe' = 0 /\ 0 \in 0 .. Capacity
         /\ child' \in [running : BOOLEAN, left : 0 .. MaxOutput, status : {0, 1}]
         /\ pipe' + child'.left \in 0 .. MaxOutput /\ child'.running
<1>1. pipe = 0 /\ pipe' = pipe /\ program' = name
  BY DEF ProcessInv, Run
<1>2. PICK n \in 0 .. MaxOutput, status \in {0, 1} : child' = [running |-> TRUE, left |-> n, status |-> status]
  <2>1. Statuses(name) \subseteq {0, 1}
    BY DEF Statuses
  <2> QED
    BY <2>1 DEF Run
<1> QED
  BY <1>1, <1>2, BoundAssumption

\* Every step keeps the types, and leaves neither output nor a directory.
LEMMA ProcessKept ==
  ASSUME ReadingInv, ProcessInv, [Next]_vars
  PROVE  ProcessInv'
<1>1. /\ file.kind \in {"changes", "dsc", "deb", "udeb", "config"}
      /\ file.lines \in Seq(Lines) /\ WellFormed(file.lines)
  BY FileFacts DEF ReadingInv, StagesInv
<1>2. TypeOK /\ MaxOutput \in Nat /\ Capacity \in Nat
  BY BoundAssumption DEF ProcessInv
<1>3. /\ child \in [running : BOOLEAN, left : 0 .. MaxOutput, status : {0, 1}]
      /\ pipe + child.left \in 0 .. MaxOutput
      /\ DOMAIN attrs = Keys /\ DOMAIN settings = Tracks \cup {NoTrack} /\ DOMAIN records = {"info", "deps"}
  BY <1>2 DEF TypeOK
<1>4. CASE ChildWrites
  <2>1. /\ child.running /\ child.left > 0 /\ child' = [child EXCEPT !.left = @ - 1] /\ pipe' = pipe + 1
        /\ UNCHANGED <<file, pc, program, tempdir, text, attrs, settings, records>>
    BY <1>4 DEF ChildWrites, parsed
  <2> HIDE DEF ProcessInv
  <2>2. pipe \in 0 .. Capacity /\ pipe < Capacity
    BY <1>2, <1>4 DEF TypeOK, ChildWrites
  <2> QED
    BY <1>2, <1>3, <2>1, <2>2 DEF ProcessInv, TypeOK
<1>5. CASE ChildExits
  <2>1. /\ child.running /\ child.left = 0 /\ child' = [child EXCEPT !.running = FALSE]
        /\ UNCHANGED <<file, pc, program, pipe, tempdir, text, attrs, settings, records>>
    BY <1>5 DEF ChildExits, parsed
  <2> QED
    BY <1>2, <1>3, <2>1 DEF ProcessInv, TypeOK
<1>6. CASE Start
  <2>1. pc = "start" /\ ~ child.running /\ ~ tempdir /\ UNCHANGED <<file, attrs, settings, records>>
    BY <1>6 DEF Start, ProcessInv, parsed
  <2>2. CASE file.kind = "changes"
    <3>1. pc' = "wait" /\ Run("gpgv") /\ tempdir' = tempdir
      BY <1>6, <2>2 DEF Start
    <3> QED
      BY <1>2, <1>3, <2>1, <3>1, RunStarts DEF ProcessInv, TypeOK
  <2>3. CASE file.kind \in {"deb", "udeb"}
    <3>1. pc' = "wait" /\ Run("ar") /\ tempdir' = TRUE
      BY <1>6, <2>3 DEF Start
    <3> QED
      BY <1>2, <1>3, <2>1, <3>1, RunStarts DEF ProcessInv, TypeOK
  <2>4. CASE file.kind \in {"dsc", "config"}
    <3>1. pc' \in {"strip", "config"} /\ UNCHANGED <<program, child, pipe, tempdir>>
      BY <1>6, <2>4 DEF Start, process
    <3> QED
      BY <1>2, <1>3, <2>1, <3>1 DEF ProcessInv, TypeOK
  <2> QED
    BY <1>1, <2>2, <2>3, <2>4
<1>7. CASE Wait
  <2>1. /\ pc = "wait" /\ ~ child.running /\ child.left = 0 /\ pc' = AfterProgram /\ pipe' = 0
        /\ UNCHANGED <<file, program, child, tempdir, attrs, settings, records>>
    BY <1>7 DEF Wait, ProcessInv, parsed
  <2>2. program \in {"gpgv", "ar", "lzma", "md5sum"}
    BY <1>1, <2>1 DEF ReadingInv, StagesInv, Binary
  <2>3. /\ pc' \in {"strip", "failing", "unpack", "control", "record"}
        /\ pc' = "record" => program = "md5sum"
        /\ pc' = "strip" => program = "gpgv"
    BY <2>1, <2>2 DEF AfterProgram
  <2>4. tempdir => program # "md5sum" /\ program # "gpgv"
    BY <2>1 DEF ProcessInv
  <2> QED
    BY <1>2, <1>3, <2>1, <2>3, <2>4 DEF ProcessInv, TypeOK
<1>8. CASE Unpack
  <2>1. pc = "unpack" /\ ~ child.running /\ UNCHANGED <<file, tempdir, attrs, settings, records>>
    BY <1>8 DEF Unpack, ProcessInv, parsed
  <2>2. \/ pc' = "wait" /\ Run("lzma")
        \/ pc' \in {"control", "failing"} /\ UNCHANGED <<program, child, pipe>>
    <3>1. file.archive \in {"lzma", "gz", "none"}
      <4>1. file \in Files /\ file.kind \in {"deb", "udeb"}
        BY <1>1, <2>1 DEF ReadingInv, StagesInv, Binary
      <4> QED
        BY <4>1, FilesAssumption
    <3> QED
      BY <1>8, <3>1 DEF Unpack, process
  <2>3. CASE pc' = "wait" /\ Run("lzma")
    BY <1>2, <1>3, <2>1, <2>3, RunStarts DEF ProcessInv, TypeOK
  <2>4. CASE pc' \in {"control", "failing"} /\ UNCHANGED <<program, child, pipe>>
    BY <1>2, <1>3, <2>1, <2>4 DEF ProcessInv, TypeOK
  <2> QED
    BY <2>2, <2>3, <2>4
<1>9. CASE Strip
  <2>1. /\ pc = "strip" /\ ~ child.running /\ pc' \in {"failing", "parse"}
        /\ UNCHANGED <<file, program, child, pipe, tempdir, attrs, settings, records>>
    BY <1>9 DEF Strip, ProcessInv, process
  <2> QED
    BY <1>2, <1>3, <2>1 DEF ProcessInv, TypeOK
<1>10. CASE Parse
  <2>1. /\ pc = "parse" /\ ~ child.running /\ pc' = "done" /\ attrs' = ParseAttributes(text)
        /\ UNCHANGED <<file, program, child, pipe, tempdir, settings, records>>
    BY <1>10 DEF Parse, ProcessInv, process
  <2>2. text \in Seq(Lines) /\ WellFormed(text)
    BY <1>1, <2>1 DEF ReadingInv, StagesInv, TextInv, Binary
  <2>3. DOMAIN attrs' = Keys
    BY <2>1, <2>2, ParseAttributesExact
  <2> QED
    BY <1>2, <1>3, <2>1, <2>3 DEF ProcessInv, TypeOK
<1>11. CASE LoadSettings
  <2>1. /\ pc = "config" /\ ~ child.running /\ pc' = "done" /\ settings' = ParseConfig(file.lines)
        /\ UNCHANGED <<file, program, child, pipe, tempdir, attrs, records>>
    BY <1>11 DEF LoadSettings, ProcessInv, process
  <2>2. DOMAIN settings' = Tracks \cup {NoTrack}
    BY <1>1, <2>1, ParseConfigExact
  <2> QED
    BY <1>2, <1>3, <2>1, <2>2 DEF ProcessInv, TypeOK
<1>12. CASE ParseControl
  <2>1. /\ pc = "control" /\ ~ child.running /\ tempdir' = FALSE /\ attrs' = ParseAttributes(file.lines)
        /\ UNCHANGED <<file, settings, records>>
        /\ \/ pc' = "wait" /\ Run("md5sum")
           \/ pc' = "failing" /\ UNCHANGED <<program, child, pipe>>
    BY <1>12 DEF ParseControl, ProcessInv, process
  <2>2. DOMAIN attrs' = Keys
    BY <1>1, <2>1, ParseAttributesExact
  <2>3. CASE pc' = "wait" /\ Run("md5sum")
    BY <1>2, <1>3, <2>1, <2>2, <2>3, RunStarts DEF ProcessInv, TypeOK
  <2>4. CASE pc' = "failing" /\ UNCHANGED <<program, child, pipe>>
    BY <1>2, <1>3, <2>1, <2>2, <2>4 DEF ProcessInv, TypeOK
  <2> QED
    BY <2>1, <2>3, <2>4
<1>13. CASE Record
  <2>1. /\ pc = "record" /\ ~ child.running /\ pc' \in {"failing", "done"}
        /\ UNCHANGED <<file, program, child, pipe, tempdir, attrs, settings>>
    BY <1>13 DEF Record, ProcessInv, process
  <2>2. DOMAIN records' = {"info", "deps"}
    BY <1>3, <1>13 DEF Record
  <2> QED
    BY <1>2, <1>3, <2>1, <2>2 DEF ProcessInv, TypeOK
<1>14. CASE Fail
  <2>1. /\ pc = "failing" /\ ~ child.running /\ pc' = "failed" /\ tempdir' = FALSE
        /\ UNCHANGED <<file, program, child, pipe, attrs, settings, records>>
    BY <1>14 DEF Fail, ProcessInv, process, parsed
  <2> QED
    BY <1>2, <1>3, <2>1 DEF ProcessInv, TypeOK
<1>15. CASE UNCHANGED vars
  BY <1>15 DEF vars, process, parsed, ProcessInv, TypeOK
<1> QED
  BY <1>4, <1>5, <1>6, <1>7, <1>8, <1>9, <1>10, <1>11, <1>12, <1>13, <1>14, <1>15 DEF Next, Child, Parent

\* The invariant of the processes holds in every state.
LEMMA ProcessCorrect == Spec => []ProcessInv
<1>1. Init => ProcessInv
  <2> SUFFICES ASSUME Init PROVE ProcessInv
    OBVIOUS
  <2>1. /\ pc = "start" /\ program = "none" /\ child = [running |-> FALSE, left |-> 0, status |-> 0]
        /\ pipe = 0 /\ tempdir = FALSE
    BY DEF Init
  <2>2. DOMAIN attrs = Keys /\ DOMAIN settings = Tracks \cup {NoTrack} /\ DOMAIN records = {"info", "deps"}
    BY DEF Init, Nothing, NoRecords
  <2>3. /\ child \in [running : BOOLEAN, left : 0 .. MaxOutput, status : {0, 1}]
        /\ 0 \in 0 .. Capacity /\ pipe + child.left \in 0 .. MaxOutput
        /\ ~ child.running /\ child.left = 0
    BY <2>1, BoundAssumption
  <2> QED
    BY <2>1, <2>2, <2>3, Zenon DEF ProcessInv, TypeOK
<1> QED
  BY <1>1, ProcessKept, ReadingCorrect, PTL DEF Spec

\* The types hold in every state, however much more than a pipe holds a program
\* prints and however it ends.
THEOREM TypesHold == Spec => []TypeOK
BY ProcessCorrect, PTL DEF ProcessInv

\* The temporary directory is removed on every way out (SetDebInfo's finally).
THEOREM NoDirectoryLeft == Spec => []Cleaned
<1>1. ProcessInv => Cleaned
  BY DEF ProcessInv, Cleaned
<1> QED
  BY <1>1, ProcessCorrect, PTL
\* gpgv keeps to what it can see of a file (VerifySignature).
LEMMA GpgvCorrect == Spec => []GpgvInv
<1>1. Init => GpgvInv
  BY DEF Init, GpgvInv
<1>2. ASSUME ReadingInv, ProcessInv, GpgvInv, [Next]_vars
      PROVE  GpgvInv'
  <2>1. child \in [running : BOOLEAN, left : 0 .. MaxOutput, status : {0, 1}]
    BY <1>2 DEF ProcessInv, TypeOK
  <2>2. file' = file
    BY <1>2 DEF Next, Child, Parent, ChildWrites, ChildExits, Start, Wait, Unpack, Strip, Parse,
       LoadSettings, ParseControl, Record, Fail, vars
  <2>3. ASSUME NEW name, Run(name)
        PROVE  GpgvInv'
    <3>1. program' = name
      BY <2>3 DEF Run
    <3>2. child'.status \in Statuses(name)
      BY <2>3 DEF Run
    <3> QED
      BY <2>2, <3>1, <3>2 DEF GpgvInv, Statuses, MayAccept
  <2>4. ASSUME program' = program, child'.status = child.status
        PROVE  GpgvInv'
    BY <1>2, <2>2, <2>4 DEF GpgvInv, MayAccept
  <2>5. CASE ChildWrites \/ ChildExits
    <3>1. program' = program /\ child'.status = child.status
      BY <2>1, <2>5 DEF ChildWrites, ChildExits
    <3> QED
      BY <2>4, <3>1
  <2>6. CASE Start
    <3>1. file.kind \in {"changes", "dsc", "deb", "udeb", "config"}
      BY <1>2, FileFacts DEF ReadingInv, StagesInv
    <3>2. CASE file.kind \in {"changes", "deb", "udeb"}
      <4>1. \E name : Run(name)
        BY <2>6, <3>2 DEF Start
      <4> QED
        BY <2>3, <4>1
    <3>3. CASE file.kind \in {"dsc", "config"}
      <4>1. program' = program /\ child' = child
        BY <2>6, <3>3 DEF Start, process
      <4> QED
        BY <2>4, <4>1
    <3> QED
      BY <3>1, <3>2, <3>3
  <2>7. CASE Unpack
    <3>1. file \in Files /\ Binary /\ pc = "unpack"
      BY <1>2, <2>7, FileFacts DEF Unpack, ReadingInv, StagesInv, Binary
    <3>2. file.archive \in {"lzma", "gz", "none"}
      BY <3>1, FilesAssumption DEF Binary
    <3>3. CASE file.archive = "lzma"
      <4>1. Run("lzma")
        BY <2>7, <3>3 DEF Unpack
      <4> QED
        BY <2>3, <4>1
    <3>4. CASE file.archive \in {"gz", "none"}
      <4>1. program' = program /\ child' = child
        BY <2>7, <3>4 DEF Unpack, process
      <4> QED
        BY <2>4, <4>1
    <3> QED
      BY <3>2, <3>3, <3>4
  <2>8. CASE ParseControl
    <3>1. Run("md5sum") \/ (program' = program /\ child' = child)
      BY <2>8 DEF ParseControl, process
    <3> QED
      BY <2>3, <2>4, <3>1
  <2>9. CASE Wait \/ Strip \/ Parse \/ LoadSettings \/ Record \/ Fail \/ UNCHANGED vars
    <3>1. program' = program /\ child' = child
      BY <2>9 DEF Wait, Strip, Parse, LoadSettings, Record, Fail, vars, process
    <3> QED
      BY <2>4, <3>1
  <2> QED
    BY <1>2, <2>5, <2>6, <2>7, <2>8, <2>9 DEF Next, Child, Parent
<1> QED
  BY <1>1, <1>2, ReadingCorrect, ProcessCorrect, PTL DEF Spec

\* Where a header of a message is found, what is parsed of a .changes or .dsc
\* file is all that its frames enclose and nothing else; the whole file is
\* parsed of an unsigned .dsc, or where gpgv alone finds the header of the
\* .changes file that it has accepted (StripSignature, VerifySignature).
THEOREM SignedTextHolds == Spec => []SignedTextOnly
<1>1. ReadingInv /\ GpgvInv => SignedTextOnly
  <2>1. SUFFICES ASSUME ReadingInv, GpgvInv, file.kind \in {"changes", "dsc"}, pc \in {"parse", "done"}
                 PROVE  SignedTextOnly
    BY DEF SignedTextOnly
  <2> DEFINE some(kind) == \E i \in DOMAIN file.lines : file.lines[i].kind = kind
             enclosed == \E header, empty, signature, end \in DOMAIN file.lines :
                           /\ Framed(file.lines, header, empty, signature, end)
                           /\ text = [i \in 1 .. signature - empty - 1 |-> Unescape(file.lines[empty + i])]
  <2>2. SignedText(file.lines, text)
    BY <2>1 DEF ReadingInv, TextInv
  <2>3. file.kind = "changes" => program = "gpgv" /\ ~ child.running /\ child.status = 0
    BY <2>1 DEF ReadingInv, StagesInv, Binary
  <2>4. IF \A i \in DOMAIN file.lines : file.lines[i].kind # "message" THEN text = file.lines ELSE enclosed
    BY <2>2, Zenon DEF SignedText
  <2>5. file.kind = "changes" => some("message") \/ some("header")
    BY <2>1, <2>3 DEF GpgvInv, MayAccept
  <2> HIDE DEF enclosed
  <2>6. IF ~ some("message")
        THEN text = file.lines /\ (file.kind = "changes" => some("header"))
        ELSE enclosed
    BY <2>4, <2>5
  <2> HIDE DEF some
  <2> QED
    BY <2>3, <2>6, Zenon DEF SignedTextOnly, some, enclosed
<1> QED
  BY <1>1, ReadingCorrect, GpgvCorrect, PTL

-----------------------------------------------------------------------------
(* Packages files. *)

\* What is known of a Packages file, when the values in it are in V.
UpstreamStates(V) == [name : V, arch : V, found : SUBSET (V \X V \X V)]
ReadUpstream(s, lines) == Loop(UpstreamStep, s, lines)

LinesIn(S, V) == \A l \in S : l.parts \in V
Neutral(l) == l.kind # "attribute" \/ l.key \notin {"Package", "Architecture", "Version"}

\* A line leaves a state.
LEMMA UpstreamStepType ==
  ASSUME NEW V, NEW s \in UpstreamStates(V), NEW l, l.parts \in V
  PROVE  UpstreamStep(s, l) \in UpstreamStates(V)
<1>1. s.name \in V /\ s.arch \in V /\ s.found \in SUBSET (V \X V \X V)
  BY DEF UpstreamStates
<1>2. CASE l.kind = "attribute" /\ l.key = "Package"
  <2>1. UpstreamStep(s, l) = [s EXCEPT !.name = l.parts]
    BY <1>2 DEF UpstreamStep
  <2> QED
    BY <2>1 DEF UpstreamStates
<1>3. CASE l.kind = "attribute" /\ l.key = "Architecture"
  <2>1. UpstreamStep(s, l) = [s EXCEPT !.arch = l.parts]
    BY <1>3 DEF UpstreamStep
  <2> QED
    BY <2>1 DEF UpstreamStates
<1>4. CASE l.kind = "attribute" /\ l.key = "Version"
  <2> DEFINE more == s.found \cup {<<s.name, l.parts, s.arch>>}
  <2>1. UpstreamStep(s, l) = [s EXCEPT !.found = more]
    BY <1>4 DEF UpstreamStep
  <2>2. more \in SUBSET (V \X V \X V)
    BY <1>1
  <2> HIDE DEF more
  <2> QED
    BY <2>1, <2>2 DEF UpstreamStates
<1>5. CASE ~ (l.kind = "attribute" /\ l.key \in {"Package", "Architecture", "Version"})
  <2>1. UpstreamStep(s, l) = s
    BY <1>5 DEF UpstreamStep
  <2> QED
    BY <2>1
<1> QED
  BY <1>2, <1>3, <1>4, <1>5

\* f lists what the lines make of s, one after the other.
UpstreamRun(f, s, lines) ==
  /\ f[0] = s
  /\ \A i \in 1 .. Len(lines) : f[i] = UpstreamStep(f[i - 1], lines[i])
  /\ ReadUpstream(s, lines) = f[Len(lines)]

\* What the loop over a Packages file goes through.
LEMMA UpstreamLoop ==
  ASSUME NEW V, NEW S, LinesIn(S, V), NEW s \in UpstreamStates(V), NEW lines \in Seq(S)
  PROVE  /\ ReadUpstream(s, lines) \in UpstreamStates(V)
         /\ \E f : UpstreamRun(f, s, lines)
<1> DEFINE n == Len(lines)
           D == UpstreamStates(V)
           step(a, i) == CHOOSE r \in {UpstreamStep(before, lines[i]) : before \in {a[i - 1]}} : TRUE
           Loops(a) == a = [i \in 0 .. Len(lines) |-> IF i = 0 THEN s ELSE step(a, i)]
           after == CHOOSE a : Loops(a)
           g == [i \in 1 .. n |-> [r \in D |-> UpstreamStep(r, lines[i])]]
<1>1. n \in Nat /\ \A i \in 1 .. n : lines[i] \in S /\ lines[i].parts \in V
  BY DEF LinesIn
<1>2. \A a, i : step(a, i) = UpstreamStep(a[i - 1], lines[i])
  OBVIOUS
<1>3. ReadUpstream(s, lines) = after[n]
  BY Zenon DEF ReadUpstream, Loop
<1> HIDE DEF step, n
<1>4. g \in [1 .. n -> [D -> D]]
  BY <1>1, UpstreamStepType
<1>5. PICK f \in [0 .. n -> D] : Steps(f, n, s, g)
  <2> HIDE DEF g, D
  <2>1. s \in D
    BY DEF D
  <2> QED
    BY <1>1, <1>4, <2>1, StepsExist
<1> HIDE DEF D
<1>6. \A i \in 1 .. n : i - 1 \in 0 .. n /\ f[i - 1] \in D
  BY <1>1
<1>7. \A i \in 1 .. n : f[i] = UpstreamStep(f[i - 1], lines[i])
  BY <1>5, <1>6 DEF Steps
<1>8. Loops(f)
  <2>1. \A i \in 0 .. n : f[i] = IF i = 0 THEN s ELSE step(f, i)
    <3>1. \A i \in 0 .. n : i = 0 \/ i \in 1 .. n
      BY <1>1
    <3> QED
      BY <1>2, <1>5, <1>7, <3>1 DEF Steps
  <2>2. f = [i \in 0 .. n |-> f[i]]
    OBVIOUS
  <2> QED
    BY <2>1, <2>2 DEF n
<1>9. Loops(after)
  <2> HIDE DEF Loops
  <2> QED
    BY <1>8, Zenon
<1>10. /\ after[0] = s
       /\ \A i \in 1 .. n : after[i] = UpstreamStep(after[i - 1], lines[i])
  <2> HIDE DEF after
  <2>1. \A i \in 1 .. n : i \in 0 .. n /\ i # 0
    BY <1>1
  <2>2. 0 \in 0 .. n
    BY <1>1
  <2>3. \A i \in 0 .. n : after[i] = IF i = 0 THEN s ELSE step(after, i)
    BY <1>9 DEF n
  <2> QED
    BY <1>2, <2>1, <2>2, <2>3
<1>11. after \in [0 .. n -> D]
  <2> HIDE DEF after
  <2> DEFINE T == {i \in 0 .. n : after[i] \in D}
  <2>1. 0 \in T
    BY <1>1, <1>10 DEF D
  <2>2. \A i \in 0 .. n : i \in T /\ i < n => i + 1 \in T
    <3> SUFFICES ASSUME NEW i \in 0 .. n, after[i] \in D, i < n PROVE i + 1 \in T
      OBVIOUS
    <3>1. i + 1 \in 1 .. n /\ (i + 1) - 1 = i /\ i + 1 \in 0 .. n
      BY <1>1
    <3>2. after[i + 1] = UpstreamStep(after[i], lines[i + 1])
      BY <1>10, <3>1
    <3>3. lines[i + 1].parts \in V
      BY <1>1, <3>1
    <3> QED
      BY <3>1, <3>2, <3>3, UpstreamStepType DEF D
  <2>3. \A i \in 0 .. n : i \in T
    <3> HIDE DEF T
    <3> QED
      BY <1>1, <2>1, <2>2, BoundedInduction
  <2>4. after = [i \in 0 .. n |-> after[i]]
    BY <1>9 DEF n
  <2> QED
    BY <2>3, <2>4
<1>12. after[n] \in D
  BY <1>1, <1>11
<1>13. UpstreamRun(after, s, lines)
  BY <1>3, <1>10 DEF n, UpstreamRun
<1> HIDE DEF after
<1> QED
  BY <1>3, <1>12, <1>13 DEF D

\* Two texts, one after the other.
LEMMA Joined ==
  ASSUME NEW S, NEW x \in Seq(S), NEW y \in Seq(S)
  PROVE  /\ Len(x) \in Nat /\ Len(y) \in Nat /\ x \o y \in Seq(S) /\ Len(x \o y) = Len(x) + Len(y)
         /\ (\A i \in 1 .. Len(x) : (x \o y)[i] = x[i])
         /\ \A i \in 1 .. Len(y) : (x \o y)[Len(x) + i] = y[i]
OBVIOUS

\* One text after another is read from where the first one leads.
LEMMA UpstreamConcat ==
  ASSUME NEW V, NEW S, LinesIn(S, V), NEW s \in UpstreamStates(V),
         NEW x \in Seq(S), NEW y \in Seq(S)
  PROVE  /\ ReadUpstream(s, x) \in UpstreamStates(V)
         /\ ReadUpstream(s, x \o y) = ReadUpstream(ReadUpstream(s, x), y)
<1> DEFINE m == Len(x)
           n == Len(y)
           z == x \o y
<1>1. /\ m \in Nat /\ n \in Nat /\ z \in Seq(S) /\ Len(z) = m + n
      /\ (\A i \in 1 .. m : z[i] = x[i]) /\ \A i \in 1 .. n : z[m + i] = y[i]
  BY Joined
<1> DEFINE r == ReadUpstream(s, x)
<1> HIDE DEF z
<1>2. r \in UpstreamStates(V)
  BY UpstreamLoop
<1> HIDE DEF r
<1>3. /\ \E f : UpstreamRun(f, s, x)
      /\ \E g : UpstreamRun(g, r, y)
      /\ \E h : UpstreamRun(h, s, z)
  BY <1>1, <1>2, UpstreamLoop
<1>4. PICK f, g, h : UpstreamRun(f, s, x) /\ UpstreamRun(g, r, y) /\ UpstreamRun(h, s, z)
  BY <1>3
<1>5. /\ f[0] = s /\ (\A i \in 1 .. m : f[i] = UpstreamStep(f[i - 1], x[i])) /\ r = f[m]
      /\ g[0] = f[m] /\ (\A i \in 1 .. n : g[i] = UpstreamStep(g[i - 1], y[i])) /\ ReadUpstream(r, y) = g[n]
      /\ h[0] = s /\ (\A i \in 1 .. m + n : h[i] = UpstreamStep(h[i - 1], z[i]))
      /\ ReadUpstream(s, z) = h[m + n]
  BY <1>1, <1>4 DEF UpstreamRun, r
<1> HIDE DEF m, n
<1>6. \A i \in 0 .. m : h[i] = f[i]
  <2> DEFINE T == {i \in 0 .. m : h[i] = f[i]}
  <2>1. 0 \in T
    BY <1>1, <1>5
  <2>2. \A i \in 0 .. m : i \in T /\ i < m => i + 1 \in T
    <3> SUFFICES ASSUME NEW i \in 0 .. m, h[i] = f[i], i < m PROVE i + 1 \in T
      OBVIOUS
    <3>1. i + 1 \in 1 .. m /\ i + 1 \in 1 .. m + n /\ (i + 1) - 1 = i /\ i + 1 \in 0 .. m
      BY <1>1
    <3>2. h[i + 1] = UpstreamStep(h[i], z[i + 1]) /\ f[i + 1] = UpstreamStep(f[i], x[i + 1])
      BY <1>5, <3>1
    <3> QED
      BY <1>1, <3>1, <3>2
  <2> HIDE DEF T
  <2>3. \A i \in 0 .. m : i \in T
    BY <1>1, <2>1, <2>2, BoundedInduction
  <2> QED
    BY <2>3 DEF T
<1>7. \A i \in 0 .. n : h[m + i] = g[i]
  <2> DEFINE T == {i \in 0 .. n : h[m + i] = g[i]}
  <2>1. 0 \in T
    BY <1>1, <1>5, <1>6
  <2>2. \A i \in 0 .. n : i \in T /\ i < n => i + 1 \in T
    <3> SUFFICES ASSUME NEW i \in 0 .. n, h[m + i] = g[i], i < n PROVE i + 1 \in T
      OBVIOUS
    <3>1. /\ i + 1 \in 1 .. n /\ m + (i + 1) \in 1 .. m + n /\ (i + 1) - 1 = i /\ i + 1 \in 0 .. n
          /\ (m + (i + 1)) - 1 = m + i
      BY <1>1
    <3>2. h[m + (i + 1)] = UpstreamStep(h[m + i], z[m + (i + 1)]) /\ g[i + 1] = UpstreamStep(g[i], y[i + 1])
      BY <1>5, <3>1
    <3> QED
      BY <1>1, <3>1, <3>2
  <2> HIDE DEF T
  <2>3. \A i \in 0 .. n : i \in T
    BY <1>1, <2>1, <2>2, BoundedInduction
  <2> QED
    BY <2>3 DEF T
<1>8. h[m + n] = g[n]
  BY <1>1, <1>7
<1> QED
  BY <1>2, <1>5, <1>8 DEF r, z

\* One line is one step.
LEMMA UpstreamOne ==
  ASSUME NEW V, NEW S, LinesIn(S, V), NEW s \in UpstreamStates(V), NEW l \in S
  PROVE  ReadUpstream(s, <<l>>) = UpstreamStep(s, l)
<1>1. <<l>> \in Seq(S) /\ Len(<<l>>) = 1 /\ <<l>>[1] = l /\ 1 \in 1 .. 1 /\ 1 - 1 = 0
  OBVIOUS
<1>2. PICK f : UpstreamRun(f, s, <<l>>)
  BY <1>1, UpstreamLoop
<1> QED
  BY <1>1, <1>2 DEF UpstreamRun

\* Lines without a name, a version or an architecture are none.
LEMMA UpstreamNeutral ==
  ASSUME NEW V, NEW S, LinesIn(S, V), NEW s \in UpstreamStates(V), NEW x \in Seq(S),
         \A i \in 1 .. Len(x) : Neutral(x[i])
  PROVE  ReadUpstream(s, x) = s
<1> DEFINE n == Len(x)
<1>1. n \in Nat
  OBVIOUS
<1>2. PICK f : UpstreamRun(f, s, x)
  BY UpstreamLoop
<1>3. \A i \in 1 .. n : Neutral(x[i])
  OBVIOUS
<1>7. f[0] = s /\ (\A i \in 1 .. n : f[i] = UpstreamStep(f[i - 1], x[i])) /\ ReadUpstream(s, x) = f[n]
  BY <1>2 DEF UpstreamRun
<1> HIDE DEF n
<1> DEFINE T == {i \in 0 .. n : f[i] = s}
<1>4. 0 \in T
  BY <1>1, <1>7
<1>5. \A i \in 0 .. n : i \in T /\ i < n => i + 1 \in T
  <2> SUFFICES ASSUME NEW i \in 0 .. n, f[i] = s, i < n PROVE i + 1 \in T
    OBVIOUS
  <2>1. i + 1 \in 1 .. n /\ (i + 1) - 1 = i /\ i + 1 \in 0 .. n
    BY <1>1
  <2>2. f[i + 1] = UpstreamStep(s, x[i + 1])
    BY <1>7, <2>1
  <2>3. UpstreamStep(s, x[i + 1]) = s
    <3>1. Neutral(x[i + 1])
      BY <1>3, <2>1
    <3> QED
      BY <3>1 DEF UpstreamStep, Neutral
  <2> QED
    BY <2>1, <2>2, <2>3
<1> HIDE DEF T
<1>6. \A i \in 0 .. n : i \in T
  BY <1>1, <1>4, <1>5, BoundedInduction
<1> QED
  BY <1>1, <1>6, <1>7 DEF T

\* A value of one line is this line.
LEMMA FlattenOne ==
  ASSUME NEW x
  PROVE  FlattenSeq(<<x>>) = x
<1> DEFINE q == <<x>>
           Flattens(f) == f = [i \in 1 .. Len(q) |-> IF i = 1 THEN q[i] ELSE f[i - 1] \o q[i]]
           flatten == CHOOSE f : Flattens(f)
           g == [i \in 1 .. 1 |-> x]
<1>1. Len(q) = 1 /\ Len(q) # 0 /\ q[1] = x
  OBVIOUS
<1>2. FlattenSeq(q) = flatten[1]
  BY <1>1, Zenon DEF FlattenSeq
<1>3. Flattens(g)
  BY <1>1
<1>4. Flattens(flatten)
  <2> HIDE DEF Flattens, g
  <2> QED
    BY <1>3, Zenon
<1>5. flatten[1] = x
  <2> HIDE DEF flatten
  <2> QED
    BY <1>1, <1>4
<1> QED
  BY <1>2, <1>5

\* The lines that matter.
LEMMA UpstreamAttribute ==
  ASSUME NEW s, NEW v
  PROVE  /\ UpstreamStep(s, Attribute("Package", v)) = [s EXCEPT !.name = v]
         /\ UpstreamStep(s, Attribute("Architecture", v)) = [s EXCEPT !.arch = v]
         /\ UpstreamStep(s, Attribute("Version", v)) = [s EXCEPT !.found = @ \cup {<<s.name, v, s.arch>>}]
         /\ UpstreamStep(s, Attribute("Description", v)) = s
         /\ UpstreamStep(s, [kind |-> "empty", key |-> Missing, parts |-> <<>>]) = s
BY DEF UpstreamStep, Attribute

\* A stanza of a single package adds this package to what was found, whatever
\* came before.
LEMMA StanzaRead ==
  ASSUME NEW V, NEW S, LinesIn(S, V), NEW s \in UpstreamStates(V),
         NEW name, NEW version, NEW arch, Stanza(name, version, arch) \in Seq(S)
  PROVE  /\ ReadUpstream(s, Stanza(name, version, arch)) \in UpstreamStates(V)
         /\ ReadUpstream(s, Stanza(name, version, arch)).found
              = s.found \cup {<< << <<name>> >>, << <<version>> >>, << <<arch>> >> >>}
<1> DEFINE x == Stanza(name, version, arch)
<1>1. /\ Len(x) = 5
      /\ x[1] = Attribute("Package", << <<name>> >>) /\ x[2] = Attribute("Architecture", << <<arch>> >>)
      /\ x[3] = Attribute("Version", << <<version>> >>) /\ x[4] = Attribute("Description", << <<"text">> >>)
      /\ x[5] = [kind |-> "empty", key |-> Missing, parts |-> <<>>]
  BY DEF Stanza
<1> HIDE DEF x
<1>2. PICK f : UpstreamRun(f, s, x)
  BY UpstreamLoop DEF x
<1>3. /\ f[0] = s /\ f[1] = UpstreamStep(f[0], x[1]) /\ f[2] = UpstreamStep(f[1], x[2])
      /\ f[3] = UpstreamStep(f[2], x[3]) /\ f[4] = UpstreamStep(f[3], x[4])
      /\ f[5] = UpstreamStep(f[4], x[5]) /\ ReadUpstream(s, x) = f[5]
  BY <1>1, <1>2 DEF UpstreamRun
<1>4. f[1] = [s EXCEPT !.name = << <<name>> >>]
  BY <1>1, <1>3, UpstreamAttribute
<1>5. f[2] = [f[1] EXCEPT !.arch = << <<arch>> >>]
  BY <1>1, <1>3, UpstreamAttribute
<1>6. f[3] = [f[2] EXCEPT !.found = @ \cup {<<f[2].name, << <<version>> >>, f[2].arch>>}]
  <2> DEFINE v == << <<version>> >>
             r == f[2]
  <2>1. f[3] = UpstreamStep(r, Attribute("Version", v))
    BY <1>1, <1>3
  <2> HIDE DEF v, r
  <2>2. UpstreamStep(r, Attribute("Version", v)) = [r EXCEPT !.found = @ \cup {<<r.name, v, r.arch>>}]
    BY UpstreamAttribute
  <2> QED
    BY <2>1, <2>2 DEF v, r
<1>7. f[4] = f[3] /\ f[5] = f[4]
  BY <1>1, <1>3, UpstreamAttribute
<1>8. s = [name |-> s.name, arch |-> s.arch, found |-> s.found]
  BY DEF UpstreamStates
<1>9. f[5].found = s.found \cup {<< << <<name>> >>, << <<version>> >>, << <<arch>> >> >>}
  BY <1>4, <1>5, <1>6, <1>7, <1>8
<1>10. ReadUpstream(s, x) \in UpstreamStates(V)
  BY UpstreamLoop DEF x
<1> QED
  BY <1>3, <1>9, <1>10 DEF x

\* The line of an attribute, if the package has it.
Given(dict, key) == IF Present(dict, key) THEN <<Attribute(key, Value(dict, key))>> ELSE <<>>

\* The lines that a stanza may have.
InfoLines(dict) ==
  LET description == dict["Description"]
  IN  {Attribute(k, Value(dict, k)) : k \in {"Package", "Essential", "Architecture", "Source", "Version",
         "Replaces", "Provides", "Depends", "Pre-Depends", "Conflicts"}}
      \cup {Attribute("Description", IF description = <<>> THEN <<>> ELSE description[1])}
      \cup {Folded(description[i]) : i \in DOMAIN description}

\* The stanza that is written for a package adds this package.
LEMMA InfoRead ==
  ASSUME NEW V, NEW S, LinesIn(S, V), NEW s \in UpstreamStates(V),
         NEW dict, Identified(dict), dict["Description"] \in Values, InfoLines(dict) \subseteq S
  PROVE  /\ BuildDebInfoText(dict) \in Seq(S)
         /\ ReadUpstream(s, BuildDebInfoText(dict)) \in UpstreamStates(V)
         /\ ReadUpstream(s, BuildDebInfoText(dict)).found
              = s.found \cup {<<Value(dict, "Package"), Value(dict, "Version"), Value(dict, "Architecture")>>}
<1> DEFINE others == {"Essential", "Source", "Replaces", "Provides", "Depends", "Pre-Depends", "Conflicts"}
           d == dict["Description"]
           about == <<Attribute("Description", IF d = <<>> THEN <<>> ELSE d[1])>>
           more == [i \in 1 .. Len(d) - 1 |-> Folded(d[i + 1])]
           x1 == Given(dict, "Package")
           x2 == x1 \o Given(dict, "Essential")
           x3 == x2 \o Given(dict, "Architecture")
           x4 == x3 \o Given(dict, "Source")
           x5 == x4 \o Given(dict, "Version")
           x6 == x5 \o Given(dict, "Replaces")
           x7 == x6 \o Given(dict, "Provides")
           x8 == x7 \o Given(dict, "Depends")
           x9 == x8 \o Given(dict, "Pre-Depends")
           x10 == x9 \o Given(dict, "Conflicts")
           x11 == x10 \o about
           x12 == x11 \o more
           Rest(y) == y \in Seq(S) /\ \A r \in UpstreamStates(V) : ReadUpstream(r, y) = r
<1>1. BuildDebInfoText(dict) = x12
  BY Zenon DEF BuildDebInfoText, Given
<1>2. \A k \in others \cup {"Package", "Architecture", "Version"} : Given(dict, k) \in Seq(S)
  <2>1. \A k \in others \cup {"Package", "Architecture", "Version"} : Attribute(k, Value(dict, k)) \in S
    BY DEF InfoLines
  <2> HIDE DEF others
  <2> QED
    BY <2>1 DEF Given
<1>3. ASSUME NEW y \in Seq(S), \A i \in 1 .. Len(y) : Neutral(y[i])
      PROVE  Rest(y)
  BY <1>3, UpstreamNeutral
<1> HIDE DEF Rest
<1>4. \A k \in others : Rest(Given(dict, k))
  <2> SUFFICES ASSUME NEW k \in others PROVE Rest(Given(dict, k))
    OBVIOUS
  <2>1. Given(dict, k) \in Seq(S)
    BY <1>2
  <2>2. \A i \in 1 .. Len(Given(dict, k)) : Given(dict, k)[i].key = k
    BY DEF Given, Attribute
  <2>3. k \notin {"Package", "Architecture", "Version"}
    OBVIOUS
  <2> HIDE DEF others
  <2> QED
    BY <1>3, <2>1, <2>2, <2>3 DEF Neutral
<1>5. Rest(about)
  <2>1. about \in Seq(S) /\ Len(about) = 1 /\ about[1].key = "Description"
    <3>1. Attribute("Description", IF d = <<>> THEN <<>> ELSE d[1]) \in S
      BY DEF InfoLines
    <3> QED
      BY <3>1 DEF Attribute
  <2> HIDE DEF about
  <2>2. \A i \in 1 .. Len(about) : about[i].key = "Description"
    BY <2>1
  <2> QED
    BY <1>3, <2>1, <2>2 DEF Neutral
<1>6. Rest(more)
  <2>1. Len(d) \in Nat /\ DOMAIN d = 1 .. Len(d)
    BY DEF Values
  <2> HIDE DEF d
  <2>2. \A i \in 1 .. Len(d) - 1 : i + 1 \in DOMAIN d
    BY <2>1
  <2>3. \A i \in 1 .. Len(d) - 1 : more[i] = Folded(d[i + 1]) /\ more[i] \in S /\ more[i].kind = "folded"
    <3>1. \A i \in DOMAIN d : Folded(d[i]) \in S
      BY DEF InfoLines, d
    <3> QED
      BY <2>2, <3>1 DEF Folded
  <2>4. more \in Seq(S) /\ Len(more) \in Nat /\ 1 .. Len(more) = 1 .. Len(d) - 1
    <3>1. CASE Len(d) = 0
      <4>1. more = <<>>
        BY <3>1
      <4> QED
        BY <3>1, <4>1
    <3>2. CASE Len(d) # 0
      <4>1. Len(d) - 1 \in Nat
        BY <2>1, <3>2
      <4>2. \A i \in 1 .. Len(d) - 1 : Folded(d[i + 1]) \in S
        BY <2>3
      <4> QED
        BY <4>1, <4>2
    <3> QED
      BY <3>1, <3>2
  <2> HIDE DEF more
  <2> QED
    BY <1>3, <2>3, <2>4 DEF Neutral
<1> DEFINE s1 == [s EXCEPT !.name = Value(dict, "Package")]
           s3 == [s1 EXCEPT !.arch = Value(dict, "Architecture")]
           s5 == [s3 EXCEPT !.found = @ \cup {<<s3.name, Value(dict, "Version"), s3.arch>>}]
<1>7. ASSUME NEW r \in UpstreamStates(V), NEW k \in {"Package", "Architecture", "Version"}
      PROVE  /\ ReadUpstream(r, Given(dict, k)) = UpstreamStep(r, Attribute(k, Value(dict, k)))
             /\ ReadUpstream(r, Given(dict, k)) \in UpstreamStates(V)
  <2>1. Given(dict, k) = <<Attribute(k, Value(dict, k))>> /\ Attribute(k, Value(dict, k)) \in S
    BY DEF Given, Identified, InfoLines
  <2>2. ReadUpstream(r, Given(dict, k)) \in UpstreamStates(V)
    BY <1>2, UpstreamLoop
  <2>3. \A l \in S : ReadUpstream(r, <<l>>) = UpstreamStep(r, l)
    BY UpstreamOne
  <2> QED
    BY <2>1, <2>2, <2>3
<1> HIDE DEF others, about, more, d
<1>8. x1 \in Seq(S) /\ s1 \in UpstreamStates(V) /\ ReadUpstream(s, x1) = s1
  <2>1. ReadUpstream(s, x1) = s1
    BY <1>7 DEF UpstreamStep, Attribute
  <2> QED
    BY <1>2, <1>7, <2>1
<1> HIDE DEF x1
<1>9. ASSUME NEW x \in Seq(S), NEW r \in UpstreamStates(V), ReadUpstream(s, x) = r, NEW y, Rest(y)
      PROVE  x \o y \in Seq(S) /\ ReadUpstream(s, x \o y) = r
  <2>1. y \in Seq(S) /\ ReadUpstream(r, y) = r
    BY <1>9 DEF Rest
  <2>2. ReadUpstream(s, x \o y) = ReadUpstream(ReadUpstream(s, x), y)
    BY <2>1, UpstreamConcat
  <2> QED
    BY <1>9, <2>1, <2>2
<1>10. ASSUME NEW x \in Seq(S), NEW r \in UpstreamStates(V), ReadUpstream(s, x) = r,
              NEW k \in {"Package", "Architecture", "Version"}
       PROVE  /\ x \o Given(dict, k) \in Seq(S)
              /\ ReadUpstream(s, x \o Given(dict, k)) = UpstreamStep(r, Attribute(k, Value(dict, k)))
              /\ UpstreamStep(r, Attribute(k, Value(dict, k))) \in UpstreamStates(V)
  <2>1. Given(dict, k) \in Seq(S)
    BY <1>2
  <2>2. ReadUpstream(s, x \o Given(dict, k)) = ReadUpstream(ReadUpstream(s, x), Given(dict, k))
    BY <2>1, UpstreamConcat
  <2> QED
    BY <1>7, <1>10, <2>1, <2>2
<1>11. x2 \in Seq(S) /\ ReadUpstream(s, x2) = s1
  BY <1>4, <1>8, <1>9 DEF others
<1> HIDE DEF x2
<1>12. x3 \in Seq(S) /\ s3 \in UpstreamStates(V) /\ ReadUpstream(s, x3) = s3
  <2>1. UpstreamStep(s1, Attribute("Architecture", Value(dict, "Architecture"))) = s3
    BY DEF UpstreamStep, Attribute
  <2> HIDE DEF s1, s3
  <2> QED
    BY <1>8, <1>10, <1>11, <2>1
<1> HIDE DEF x3
<1>13. x4 \in Seq(S) /\ ReadUpstream(s, x4) = s3
  <2> HIDE DEF s3
  <2> QED
    BY <1>4, <1>9, <1>12 DEF others
<1> HIDE DEF x4
<1>14. x5 \in Seq(S) /\ s5 \in UpstreamStates(V) /\ ReadUpstream(s, x5) = s5
  <2>1. UpstreamStep(s3, Attribute("Version", Value(dict, "Version"))) = s5
    BY DEF UpstreamStep, Attribute
  <2> HIDE DEF s3, s5
  <2> QED
    BY <1>10, <1>12, <1>13, <2>1
<1>15. s5.found = s.found \cup {<<Value(dict, "Package"), Value(dict, "Version"), Value(dict, "Architecture")>>}
  BY DEF UpstreamStates
<1> HIDE DEF x5, s5, s3, s1
<1>16. x6 \in Seq(S) /\ ReadUpstream(s, x6) = s5
  BY <1>4, <1>9, <1>14 DEF others
<1> HIDE DEF x6
<1>17. x7 \in Seq(S) /\ ReadUpstream(s, x7) = s5
  BY <1>4, <1>9, <1>14, <1>16 DEF others
<1> HIDE DEF x7
<1>18. x8 \in Seq(S) /\ ReadUpstream(s, x8) = s5
  BY <1>4, <1>9, <1>14, <1>17 DEF others
<1> HIDE DEF x8
<1>19. x9 \in Seq(S) /\ ReadUpstream(s, x9) = s5
  BY <1>4, <1>9, <1>14, <1>18 DEF others
<1> HIDE DEF x9
<1>20. x10 \in Seq(S) /\ ReadUpstream(s, x10) = s5
  BY <1>4, <1>9, <1>14, <1>19 DEF others
<1> HIDE DEF x10
<1>21. x11 \in Seq(S) /\ ReadUpstream(s, x11) = s5
  BY <1>5, <1>9, <1>14, <1>20
<1> HIDE DEF x11
<1>22. x12 \in Seq(S) /\ ReadUpstream(s, x12) = s5
  BY <1>6, <1>9, <1>14, <1>21
<1> HIDE DEF x12
<1> QED
  BY <1>1, <1>14, <1>15, <1>22

\* A Packages file with the stanza of a package between two others is read back
\* as these three packages (BuildDebInfoText, GetUpstreamReleaseList).
THEOREM UpstreamIsReadBack == Spec => []UpstreamReadsBack
<1>1. ReadingInv => UpstreamReadsBack
  <2>1. SUFFICES ASSUME ReadingInv, Binary, pc = "done",
                        \A k \in {"Package", "Version", "Architecture"} : Len(attrs[k]) = 1
                 PROVE  GetUpstreamReleaseList(Stanza("before", "1", "any") \o records.info
                                               \o Stanza("after", "2", "all"))
                        = {<< << <<"before">> >>, << <<"1">> >>, << <<"any">> >> >>, GetPackageID(attrs),
                           << << <<"after">> >>, << <<"2">> >>, << <<"all">> >> >>}
    BY DEF UpstreamReadsBack
  <2>2. /\ attrs = ParseAttributes(text) /\ Identified(attrs) /\ attrs["Description"] # Missing
        /\ records.info = BuildDebInfoText(attrs)
        /\ text \in Seq(Lines) /\ WellFormed(text)
    BY <2>1, FileFacts DEF ReadingInv, EntriesInv, StagesInv
  <2>3. attrs \in [Keys -> Values \cup {Missing}]
    BY <2>2, ParseAttributesExact
  <2>4. attrs["Description"] \in Values
    BY <2>2, <2>3, FilesAssumption
  <2> DEFINE x == Stanza("before", "1", "any")
             y == BuildDebInfoText(attrs)
             z == Stanza("after", "2", "all")
             X == {x[i] : i \in 1 .. 5}
             Z == {z[i] : i \in 1 .. 5}
             S == InfoLines(attrs) \cup X \cup Z
             V == {<<>>} \cup {l.parts : l \in S}
             s == [name |-> <<>>, arch |-> <<>>, found |-> {}]
  <2>5. x \in Seq(S) /\ z \in Seq(S)
    <3>1. Len(x) = 5 /\ Len(z) = 5 /\ x \in Seq({x[i] : i \in 1 .. 5}) /\ z \in Seq({z[i] : i \in 1 .. 5})
      BY DEF Stanza
    <3> HIDE DEF x, z
    <3> QED
      BY <3>1
  <2>6. LinesIn(S, V) /\ InfoLines(attrs) \subseteq S /\ <<>> \in V
    <3> HIDE DEF X, Z
    <3> QED
      BY DEF LinesIn
  <2> HIDE DEF S, V
  <2>7. s \in UpstreamStates(V)
    BY <2>6 DEF UpstreamStates
  <2>8. s.found = {}
    OBVIOUS
  <2> HIDE DEF s
  <2> DEFINE r == ReadUpstream(s, x)
             t == ReadUpstream(r, y)
  <2>9. r \in UpstreamStates(V) /\ r.found = {<< << <<"before">> >>, << <<"1">> >>, << <<"any">> >> >>}
    BY <2>5, <2>6, <2>7, <2>8, StanzaRead
  <2>10. /\ y \in Seq(S) /\ t \in UpstreamStates(V)
         /\ t.found = r.found \cup {<<Value(attrs, "Package"), Value(attrs, "Version"), Value(attrs, "Architecture")>>}
    <3> HIDE DEF r
    <3>1. /\ LinesIn(S, V)
          /\ r \in UpstreamStates(V) /\ Identified(attrs) /\ attrs["Description"] \in Values
          /\ InfoLines(attrs) \subseteq S
      BY <2>2, <2>4, <2>6, <2>9
    <3> DEFINE Adds(dict) ==
                 /\ BuildDebInfoText(dict) \in Seq(S)
                 /\ ReadUpstream(r, BuildDebInfoText(dict)) \in UpstreamStates(V)
                 /\ ReadUpstream(r, BuildDebInfoText(dict)).found
                      = r.found \cup {<<Value(dict, "Package"), Value(dict, "Version"), Value(dict, "Architecture")>>}
    <3>2. \A dict : Identified(dict) /\ dict["Description"] \in Values /\ InfoLines(dict) \subseteq S => Adds(dict)
      BY <3>1, InfoRead
    <3> QED
      BY <3>1, <3>2, Zenon
  <2> HIDE DEF x, y, z
  <2> DEFINE w == x \o y
  <2>11. w \in Seq(S) /\ ReadUpstream(s, w) = t
    BY <2>5, <2>6, <2>7, <2>10, UpstreamConcat
  <2> HIDE DEF w
  <2>12. ReadUpstream(s, w \o z) = ReadUpstream(ReadUpstream(s, w), z)
    BY <2>5, <2>6, <2>7, <2>11, UpstreamConcat
  <2>13. ReadUpstream(s, w \o z) = ReadUpstream(t, z)
    BY <2>11, <2>12
  <2>14. ReadUpstream(t, z).found = t.found \cup {<< << <<"after">> >>, << <<"2">> >>, << <<"all">> >> >>}
    <3> HIDE DEF t
    <3> QED
      BY <2>5, <2>6, <2>10, StanzaRead DEF z
  <2>15. GetUpstreamReleaseList(w \o z) = ReadUpstream(t, z).found
    BY <2>13, Zenon DEF GetUpstreamReleaseList, ReadUpstream, s
  <2>16. \A k \in {"Package", "Version", "Architecture"} : Value(attrs, k) = First(attrs, k)
    <3> SUFFICES ASSUME NEW k \in {"Package", "Version", "Architecture"} PROVE Value(attrs, k) = First(attrs, k)
      OBVIOUS
    <3>1. k \in Keys /\ attrs[k] # Missing /\ Len(attrs[k]) = 1
      BY <2>1, <2>2, FilesAssumption DEF Identified, Present
    <3>2. attrs[k] \in Values
      BY <2>3, <3>1
    <3>3. attrs[k] = <<attrs[k][1]>>
      BY <3>1, <3>2 DEF Values
    <3>4. FlattenSeq(attrs[k]) = attrs[k][1]
      BY <3>3, FlattenOne
    <3> QED
      BY <3>1, <3>4 DEF Value, First
  <2>17. GetPackageID(attrs) = <<Value(attrs, "Package"), Value(attrs, "Version"), Value(attrs, "Architecture")>>
    BY <2>16 DEF GetPackageID
  <2> HIDE DEF r, t
  <2> QED
    BY <2>2, <2>9, <2>10, <2>14, <2>15, <2>17 DEF w, x, y, z
<1> QED
  BY <1>1, ReadingCorrect, PTL
=============================================================================
