--------------------------- MODULE ControlFilesMC ---------------------------
(***************************************************************************)
(* Texts with every combination of what may be around, in and missing from *)
(* a signed message, a control file and a configuration file.              *)
(***************************************************************************)
EXTENDS ControlFilesProps

CONSTANTS lenny, sid

Line(kind) == [kind |-> kind, key |-> Missing, parts |-> <<>>, track |-> NoTrack]
Attr(key, parts) == [Line("attribute") EXCEPT !.key = key, !.parts = parts]
Key(key) == [Line("key") EXCEPT !.key = key]
Heading(t) == [Line("heading") EXCEPT !.track = t]
Fold(word) == [Line("folded") EXCEPT !.parts = << <<word>> >>]
Hash == [Line("hash") EXCEPT !.key = "Hash", !.parts = << <<"SHA1">> >>]

\* Lists of at most n elements of S.
UpTo(S, n) == UNION {[1 .. i -> S] : i \in 0 .. n}
File(kind, lines, archive) == [kind |-> kind, lines |-> lines, archive |-> archive]

Body == {Attr("Source", << <<"foo">> >>), Fold("word"), Line("escaped"), Line("dash"), Line("empty"), Line("message")}
Signed ==
  {before \o message \o hash \o empty \o body \o signature \o end \o after :
     before \in {<<>>, <<Line("garbage")>>, <<Line("end")>>},
     message \in {<<>>, <<Line("message")>>, <<Line("header")>>}, hash \in {<<>>, <<Hash>>},
     empty \in {<<>>, <<Line("empty")>>}, body \in UpTo(Body, 2),
     signature \in {<<>>, <<Line("signature")>>}, end \in {<<>>, <<Line("end")>>},
     after \in {<<>>, <<Attr("Version", << <<"9">> >>)>>}}

Identity == <<Attr("Package", << <<"foo">> >>), Attr("Version", << <<"1">> >>), Attr("Architecture", << <<"i386">> >>)>>
Extra == {Attr("Depends", << <<"a">> >>), Attr("Depends", << <<"b">>, <<"c">> >>), Fold("word"), Key("Depends"),
          Attr("Source", << <<"src">> >>), Attr("Source", << <<"src", "2">> >>), Attr("Essential", << <<"yes">> >>),
          Key("Source"), Line("garbage")}
Described == <<Attr("Description", << <<"about">> >>), Fold("more")>>
Control ==
  {Identity \o extra \o description : extra \in UpTo(Extra, 3), description \in {<<>>, Described}}
  \cup {Described \o extra \o SubSeq(Identity, 1, n) : extra \in UpTo(Extra, 1), n \in 0 .. 3}

Config ==
  UpTo({Attr("Origin", << <<"one">> >>), Attr("Origin", << <<"two">>, <<"three">> >>), Fold("word"),
        Heading(lenny), Heading(sid), Line("garbage"), Line("blank")}, 5)

MCFiles ==
  {File(kind, lines, "none") : kind \in {"changes", "dsc"}, lines \in Signed}
  \cup {File("deb", lines, "gz") : lines \in Control}
  \cup {File("udeb", Identity \o Described, archive) : archive \in {"gz", "lzma", "none"}}
  \cup {File("config", lines, "none") : lines \in Config}
=============================================================================
