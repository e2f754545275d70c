------------------------- MODULE MakeReleasePolicy -------------------------
(***************************************************************************)
(* What make_release selects, with versions that are strings, compared by  *)
(* CompareVersion, and judged by the order of Debian Policy.               *)
(***************************************************************************)
EXTENDS MakeReleaseProps, VersionOrder, DebianPolicy

CONSTANT Text  \* Text[v]: the string of version v

\* A string of the characters in versions; the blank only pads.
TextChars == Chars \ {" "}

ASSUME TextAssumption == Text \in [Versions -> Seq(TextChars)]

ASSUME CompareAssumption ==
  \A v, w \in Versions : Compare[v][w] = CompareVersion(Text[v], Text[w])

\* The table of the order by Policy.
ByPolicy == [v \in Versions |-> [w \in Versions |-> PolicyCompare(Text[v], Text[w])]]

AtMostByPolicy(v, w) == ByPolicy[v][w] <= 0
AskedByPolicy(x) == \E y \in packages : Key(y) = Key(x) /\ AtMostByPolicy(x[2], y[2])

\* A condition that x does not meet, or a ban of the package.
Rejects(r, x) ==
  LET c == ByPolicy[x[2]][r.version]
  IN  /\ r.name = x[1]
      /\ \/ r.kind = "!"
         \/ /\ r.kind = "condition"
            /\ \/ r.op = "<<" /\ c # -1
               \/ r.op \in {"<", "<="} /\ c = 1
               \/ r.op = "=" /\ c # 0
               \/ r.op \in {">", ">="} /\ c = -1
               \/ r.op = ">>" /\ c # 1
               \/ r.op = "!=" /\ c = 0

\* Some line takes the package in and none before it rejects it.
AllowedByPolicy(x) ==
  options.filtered =>
    \E i \in DOMAIN options.spec :
      /\ options.spec[i].kind = "+" \/ (options.spec[i].kind = "name" /\ options.spec[i].name = x[1])
      /\ \A j \in 1 .. i : ~ Rejects(options.spec[j], x)

\* The selected version is the one that Debian Policy calls the latest of all
\* that were asked for and allowed, whatever strings the versions are.
LatestByPolicy ==
  Settled => \A x \in selected :
    /\ AskedByPolicy(x) /\ AllowedByPolicy(x)
    /\ \A y \in known : Key(y) = Key(x) /\ AskedByPolicy(y) /\ AllowedByPolicy(y)
                          => AtMostByPolicy(y[2], x[2])
=============================================================================
