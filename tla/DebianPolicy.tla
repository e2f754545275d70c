---------------------------- MODULE DebianPolicy ----------------------------
(***************************************************************************)
(* The order of versions that Debian Policy 5.6.12 defines, with the tilde *)
(* before everything, even the end of a part: a reference for              *)
(* VersionOrder that compares keys and splits nothing step by step.        *)
(*                                                                         *)
(* The key of a part lists the weights of its characters, a 0 at the end   *)
(* of each run of non-digits and then the number that follows, and goes    *)
(* on with zeros for ever.  Of two keys the lexicographically smaller one  *)
(* comes first.                                                            *)
(***************************************************************************)
EXTENDS Integers, Sequences

Numerals == <<"0", "1", "2">>
Alphabet == <<"A", "a", "b">>
Signs == <<"+", "-", ".", ":">>
First(S) == CHOOSE i \in S : \A j \in S : i <= j
Last(S) == CHOOSE i \in S : \A j \in S : i >= j
Position(s, c) == CHOOSE i \in DOMAIN s : s[i] = c
Is(s, c) == \E i \in DOMAIN s : s[i] = c

Weight(c) ==
  IF c = "~" THEN -1 ELSE IF Is(Alphabet, c) THEN Position(Alphabet, c) ELSE 100 + Position(Signs, c)

\* The tokens up to position i and, if i is in a number, its value so far.
Token(acc, c) ==
  IF Is(Numerals, c)
  THEN LET digit == Position(Numerals, c) - 1
       IN  IF acc.digits THEN [acc EXCEPT !.value = 10 * @ + digit]
           ELSE [key |-> acc.key \o <<0>>, digits |-> TRUE, value |-> digit]
  ELSE [key |-> (IF acc.digits THEN Append(acc.key, acc.value) ELSE acc.key) \o <<Weight(c)>>,
        digits |-> FALSE, value |-> 0]

PartKey(s) ==
  LET tokens[i \in 0 .. Len(s)] ==
        IF i = 0 THEN [key |-> <<>>, digits |-> FALSE, value |-> 0] ELSE Token(tokens[i - 1], s[i])
      end == tokens[Len(s)]
  IN  IF end.digits THEN Append(end.key, end.value) ELSE end.key

CompareKeys(k, l) ==
  LET at(key, i) == IF i <= Len(key) THEN key[i] ELSE 0
      differ == {i \in 1 .. Len(k) + Len(l) : at(k, i) # at(l, i)}
      less(i) == at(k, i) < at(l, i)
  IN  IF differ = {} THEN 0 ELSE IF less(First(differ)) THEN -1 ELSE 1

Hyphens(s) == {i \in DOMAIN s : s[i] = "-"}
Colons(s) == {i \in DOMAIN s : s[i] = ":"}
EpochEnd(s) == IF Colons(s) = {} THEN 0 ELSE First(Colons(s))
UpstreamEnd(s) == IF Hyphens(s) = {} THEN Len(s) + 1 ELSE Last(Hyphens(s))

\* Positions that a hyphen or a colon of the version gives the parts.
PartKeys(s) ==
  LET e == EpochEnd(s)
      u == UpstreamEnd(s)
      ends == << <<1, e - 1>>, <<e + 1, u - 1>>, <<u + 1, Len(s)>> >>
  IN  [i \in 1 .. 3 |-> PartKey(SubSeq(s, ends[i][1], ends[i][2]))]

CompareAll(k, l) ==
  LET differ == {i \in 1 .. 3 : CompareKeys(k[i], l[i]) # 0}
      compare(i) == CompareKeys(k[i], l[i])
  IN  IF differ = {} THEN 0 ELSE compare(First(differ))

PolicyCompare(v, w) == CompareAll(PartKeys(v), PartKeys(w))

\* The versions that Policy allows: an epoch is a number, no part is empty.
Legal(s) ==
  /\ EpochEnd(s) # 1 /\ EpochEnd(s) + 1 < UpstreamEnd(s) /\ UpstreamEnd(s) # Len(s)
  /\ \A i \in 1 .. EpochEnd(s) - 1 : Is(Numerals, s[i])
=============================================================================
