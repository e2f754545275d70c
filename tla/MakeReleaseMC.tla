--------------------------- MODULE MakeReleaseMC ---------------------------
(***************************************************************************)
(* Two families of scenarios: any two short legal versions of a package in *)
(* a snapshot, and a few versions of two packages in every kind of release.*)
(***************************************************************************)
EXTENDS MakeReleasePolicy, TLC

CONSTANTS foo, bar, i386, latest

\* A version is a number that stands for the text Texts[number]: all texts of
\* one to three of the symbols, those of one symbol and a revision of one, and
\* some longer ones with a name.
Symbol(i) == <<"0", "1", "a", "~">>[(i % 4) + 1]
Short ==
  [n \in 1 .. 100 |->
     IF n <= 4 THEN <<Symbol(n)>>
     ELSE IF n <= 20 THEN <<Symbol(n \div 4), Symbol(n)>>
     ELSE IF n <= 84 THEN <<Symbol(n \div 16), Symbol(n \div 4), Symbol(n)>>
     ELSE <<Symbol(n \div 4), "-", Symbol(n)>>]
Named ==
  << <<"1", ".", "2", "-", "1">>, <<"1", ".", "0", "2", "-", "1">>, <<"1", ".", "1", "0", "-", "1">>,
     <<"2", ".", "0", "~", "a", "1", "-", "1">>, <<"2", ".", "0", "-", "1">>, <<"1", ":", "0", "-", "1">> >>
Texts == (<<>> \o Short) \o Named
Old     == 101
Same    == 102
Next2   == 103
Rc      == 104
Release == 105
Epoch   == 106

Numbers == DOMAIN Texts
\* A table of the order; the concatenation makes a function a tuple.
ByCode ==
  <<>> \o [v \in Numbers |-> <<>> \o [w \in Numbers |-> CompareVersion(Texts[v], Texts[w])]]
FilesOfNames == foo :> {"f"} @@ bar :> {"f", "g"}

Line(kind, name, op, version) == [kind |-> kind, name |-> name, op |-> op, version |-> version]
Everything == Line("+", foo, "=", Old)
Specs ==
  {<<>>,
   <<Everything>>,
   <<Line("!", foo, "=", Old), Everything>>,
   <<Line("condition", foo, "<", Next2), Line("condition", foo, "!=", Next2), Line("name", foo, "=", Old)>>,
   <<Line("condition", foo, "<<", Release), Line("malformed", bar, "=", Old), Everything>>,
   <<Line("condition", bar, ">", Old), Line("condition", foo, "<>", Old), Line("condition", foo, ">>", Old),
     Line("name", bar, "=", Old), Everything>>,
   <<Line("condition", foo, "<=", Rc), Line("condition", foo, ">=", Rc), Line("condition", bar, "=", Old), Everything>>}

Command(snapshot, lists, release, spec, filtered, command) ==
  [snapshot |-> snapshot, lists |-> lists, release |-> release, spec |-> spec,
   filtered |-> filtered, command |-> command]
\* Tables with the packages of S.
Table(S) ==
  LET owners(p) == {x \in S : p \in FilesOfNames[x[1]]}
      listing(T) == CHOOSE f \in [1 .. Cardinality(T) -> T] : {f[i] : i \in DOMAIN f} = T
  IN  [indexed |-> S, files |-> [p \in {"f", "g"} |-> listing(owners(p))]]
Scenario(table, arriving, command, repositories) ==
  [indexed |-> table.indexed, files |-> table.files, pool |-> arriving, options |-> command,
   bases |-> repositories]

Pairs ==
  {Scenario(Table({<<foo, v, i386>>, <<foo, w, i386>>}), {},
            Command(TRUE, {}, NoAlias, <<>>, FALSE, "list"), {}) : v, w \in DOMAIN Short}

Tables ==
  {Table({}),
   Table({<<foo, Old, i386>>, <<foo, Next2, i386>>, <<foo, Rc, i386>>, <<bar, Old, all>>}),
   Table({<<foo, Old, i386>>, <<foo, Same, i386>>, <<foo, Next2, i386>>, <<bar, Old, all>>, <<bar, Epoch, all>>})}
Known == Table({<<foo, Old, i386>>, <<foo, Next2, i386>>, <<bar, Old, all>>})
Lists == {{}, {<<foo, Rc, i386>>, <<bar, Epoch, all>>}, {<<foo, Same, i386>>, <<foo, Old, i386>>}}
Arriving == <<foo, Release, i386>>

\* Each filter on each table; the other options one at a time.
Mixed ==
  LET scenario(table, arriving, snapshot, lists, release, spec, command) ==
        Scenario(table, arriving, Command(snapshot, lists, release, spec, TRUE, command), {})
  IN  {scenario(table, {}, TRUE, lists, NoAlias, spec, "commit") :
         table \in Tables, lists \in Lists, spec \in Specs}
      \cup {scenario(table, {Arriving}, snapshot, lists, NoAlias, <<Everything>>, command) :
              table \in Tables, snapshot \in BOOLEAN, lists \in Lists, command \in {"diff", "commit"}}
      \cup {scenario(table, {Arriving}, snapshot, {}, latest, <<Everything>>, "commit") :
              table \in Tables, snapshot \in BOOLEAN}
      \cup {scenario(Known, {Arriving}, TRUE, {}, NoAlias, spec, "commit") : spec \in Specs}
      \cup {scenario(Table({}), {Arriving, <<bar, Same, all>>}, TRUE, {}, NoAlias, <<Everything>>, "commit")}

\* Another repository with later versions, or the same ones, of both packages.
Repositories ==
  LET with(S, f, g) == [release |-> S, pkg_deps |-> S, file_pkg |-> [p \in {"f", "g"} |-> IF p = "f" THEN f ELSE g]]
      x == <<foo, Next2, i386>>
      y == <<bar, Epoch, all>>
      z == <<foo, Epoch, i386>>
  IN  [same |-> with({x, y}, <<x, y>>, <<y>>),
       more |-> [with({z, y}, <<y, z>>, <<y>>) EXCEPT !.release = {z}],
       cut  |-> with({x, y}, <<x>>, <<>>)]

\* Tables, and another repository, that an interrupted index_pool has left.
CutTable == [Table({<<foo, Old, i386>>}) EXCEPT !.files = [p \in {"f", "g"} |-> <<>>]]

Based ==
  LET scenario(table, repositories) ==
        Scenario(table, {Arriving}, Command(TRUE, {}, NoAlias, <<>>, FALSE, "verify"), repositories)
  IN  {scenario(Known, {}), scenario(Known, {Repositories.same}), scenario(Table({}), {Repositories.same}),
       scenario(Known, {Repositories.same, Repositories.more}),
       scenario(Known, {Repositories.cut}), scenario(CutTable, {Repositories.more})}

AllScenarios == Pairs \cup Mixed \cup Based
\* TLC keeps the value of a definition, but not of one that stands for a constant.
MCVersions == Numbers
MCCompare == ByCode
MCText == Texts
MCFilesOf == FilesOfNames
MCScenarios == AllScenarios
=============================================================================
