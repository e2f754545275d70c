---------------------------- MODULE VersionOrder ----------------------------
(***************************************************************************)
(* CompareVersion of release_utils: an order of Debian version strings.    *)
(* A version is a sequence of characters.                                  *)
(***************************************************************************)
EXTENDS Integers, Sequences

\* The characters of a version in ASCII order, after the blank that pads.
Ascii == <<" ", "+", "-", ".", "0", "1", "2", ":", "A", "a", "b", "~">>
Chars == {Ascii[i] : i \in DOMAIN Ascii}
Digits == {"0", "1", "2"}
Letters == {"A", "a", "b"}
Code(c) == CHOOSE i \in DOMAIN Ascii : Ascii[i] = c

Sign(i) == IF i < 0 THEN -1 ELSE IF i > 0 THEN 1 ELSE 0
Larger(i, j) == IF i < j THEN j ELSE i

\* The number of leading characters of s that belong to C.
Leading(s, C) ==
  CHOOSE n \in 0 .. Len(s) :
    /\ \A i \in 1 .. n : s[i] \in C
    /\ n < Len(s) => s[n + 1] \notin C

\* int(): the value of a string of digits, 0 for the empty one.
Number(s) ==
  LET value[i \in 0 .. Len(s)] ==
        IF i = 0 THEN 0 ELSE 10 * value[i - 1] + Code(s[i]) - Code("0")
  IN  value[Len(s)]

\* The first h characters, the number that the next n stand for, and the rest.
CutAfter(s, h, n) ==
  <<SubSeq(s, 1, h), Number(SubSeq(s, h + 1, h + n)), SubSeq(s, h + n + 1, Len(s))>>

\* Mutant of SplitSubVersion: only the first digit is taken.
SplitSubVersionOneDigit(s) ==
  LET h == Leading(s, Chars \ Digits)
  IN  CutAfter(s, h, IF h < Len(s) THEN 1 ELSE 0)

\* The leading non-digits, the number after them, and the rest.
SplitSubVersion(s) ==
  LET h == Leading(s, Chars \ Digits)
  IN  CutAfter(s, h, Leading(SubSeq(s, h + 1, Len(s)), Digits))

\* Epoch, upstream version and Debian revision: cut at the first colon and at
\* the last hyphen.
SplitVersion(s) ==
  LET at(c)  == {i \in DOMAIN s : s[i] = c}
      colon  == IF at(":") = {} THEN 0 ELSE CHOOSE i \in at(":") : \A j \in at(":") : i <= j
      hyphen == IF at("-") = {} THEN 0 ELSE CHOOSE i \in at("-") : \A j \in at("-") : i >= j
  IN  << SubSeq(s, 1, colon - 1),
         SubSeq(s, colon + 1, IF hyphen = 0 THEN Len(s) ELSE hyphen - 1),
         IF hyphen = 0 THEN <<>> ELSE SubSeq(s, hyphen + 1, Len(s)) >>

\* A tilde comes before the padding, that before letters, these before the rest.
Class(c) == IF c = "~" THEN 1 ELSE IF c = " " THEN 2 ELSE IF c \in Letters THEN 3 ELSE 4

CompareChar(c, d) ==
  Sign(IF Class(c) # Class(d) THEN Class(c) - Class(d) ELSE Code(c) - Code(d))

\* The first of the differences that are not 0, or 0.
FirstOf(d) ==
  LET found == {i \in DOMAIN d : d[i] # 0}
  IN  IF found = {} THEN 0 ELSE d[CHOOSE i \in found : \A j \in found : i <= j]

\* The first position in which the padded strings differ decides.
CompareString(s, t) ==
  LET at(r, i) == IF i <= Len(r) THEN r[i] ELSE " "
  IN  FirstOf([i \in 1 .. Larger(Len(s), Len(t)) |-> CompareChar(at(s, i), at(t, i))])

\* One round: non-digit parts, then numbers.
CompareHeads(r) ==
  LET a == SplitSubVersion(r.v)
      b == SplitSubVersion(r.w)
  IN  [result |-> FirstOf(<<CompareString(a[1], b[1]), Sign(a[2] - b[2])>>), v |-> a[3], w |-> b[3]]

\* Rounds until the strings differ or both are used up: every round takes a
\* character of one of them at least.
CompareSubVersion(v, w) ==
  LET round[i \in 0 .. Len(v) + Len(w)] ==
        IF i = 0 THEN [result |-> 0, v |-> v, w |-> w]
        ELSE LET before == round[i - 1]
             IN  IF before.result # 0 THEN before ELSE CompareHeads(before)
  IN  round[Len(v) + Len(w)].result

\* Epoch before upstream version before Debian revision.
CompareVersion(v, w) ==
  LET a == SplitVersion(v)
      b == SplitVersion(w)
  IN  FirstOf([i \in 1 .. 3 |-> CompareSubVersion(a[i], b[i])])
=============================================================================
