---------------------------- MODULE ControlFiles ----------------------------
(***************************************************************************)
(* How one text file becomes records: a .changes file is verified and its  *)
(* signed text parsed, a .dsc file is parsed, a .deb file is unpacked in a *)
(* temporary directory and described in pkg_info and pkg_deps, and         *)
(* config/repository is cut into sections.  External programs run as child *)
(* processes whose output goes through a pipe.                             *)
(*                                                                         *)
(* A text cut at its ", " is a sequence of parts; a part is a tuple of the *)
(* words that an opening parenthesis or an underscore separates.           *)
(***************************************************************************)
EXTENDS Integers, Sequences, SequencesExt

CONSTANTS
  Keys,     \* attribute names
  Files,    \* the files that may be read: kind, lines, archive
  Tracks, NoTrack,
  Missing,  \* the value of a key that is not in a dictionary
  Capacity, \* what a pipe holds
  MaxOutput \* bound: lines that a program prints; may be more than the pipe holds

ASSUME BoundAssumption == Capacity \in Nat /\ MaxOutput \in Nat

\* A line: how it starts, the name of its attribute, the parts of its value,
\* and the track that it is the heading of.  A "message" is exactly the header of
\* a signed message; a "header" has blanks behind it, which gpgv leaves out and
\* StripSignature does not.
Lines ==
  [kind : {"message", "header", "hash", "empty", "dash", "escaped", "signature", "end", "attribute", "key",
           "folded", "blank", "heading", "garbage"},
   key : Keys \cup {Missing}, parts : Seq(Seq(STRING)), track : Tracks \cup {NoTrack}]

ASSUME FilesAssumption ==
  /\ Missing \notin Keys /\ NoTrack \notin Tracks
  /\ {"Package", "Version", "Architecture", "Source", "Essential", "Depends", "Pre-Depends",
      "Conflicts", "Provides", "Replaces", "Description"} \subseteq Keys
  /\ \A f \in Files :
       /\ f.kind \in {"changes", "dsc", "deb", "udeb", "config"}
       /\ f.kind \in {"deb", "udeb"} => f.archive \in {"lzma", "gz", "none"}
       /\ f.lines \in Seq(Lines)
       /\ \A i \in DOMAIN f.lines :
            /\ f.lines[i].kind \in {"attribute", "hash", "key"} => f.lines[i].key \in Keys
            /\ f.lines[i].kind \in {"attribute", "hash", "folded"} => f.lines[i].parts # <<>>
            /\ f.lines[i].kind = "heading" => f.lines[i].track \in Tracks

VARIABLES
  file,     \* the file that is read
  pc,
  program,  \* the last program that was started
  child,    \* the process that runs it
  pipe,     \* its lines that have not been read
  tempdir,  \* the temporary directory exists
  text,     \* the lines that count
  attrs,    \* the dictionary parsed from them
  settings, \* the dictionaries of a configuration file
  records   \* the entries of the package in pkg_info and pkg_deps

process == <<program, child, pipe>>
parsed == <<text, attrs, settings, records>>
vars == <<file, pc, process, tempdir, parsed>>

\* A loop over lines that changes a record in every step.  The bound variable
\* makes TLC evaluate each step once.
Loop(step(_, _), initial, lines) ==
  LET after[i \in 0 .. Len(lines)] ==
        IF i = 0 THEN initial
        ELSE CHOOSE s \in {step(before, lines[i]) : before \in {after[i - 1]}} : TRUE
  IN  after[Len(lines)]

\* No attribute at all.
Nothing == [k \in Keys |-> Missing]
NoRecords == [info |-> <<>>, deps |-> <<>>]
-----------------------------------------------------------------------------
(* OpenPGP framing. *)

StartsWithDash(line) == line.kind \in {"message", "header", "signature", "end", "dash", "escaped"}
\* The text of an escaped line starts with a dash.
Unescape(line) == IF line.kind = "escaped" THEN [line EXCEPT !.kind = "dash"] ELSE line

\* Mutant of SignatureStep: lines after the signature are taken as well.
SignatureStepGoesOn(s, line) ==
  CASE s.stage = 1 /\ line.kind = "message" -> [s EXCEPT !.stage = 2]
    [] s.stage = 2 /\ line.kind = "empty" -> [s EXCEPT !.stage = 3]
    [] s.stage \in {3, 5} /\ ~ StartsWithDash(line) -> [s EXCEPT !.lines = Append(@, line)]
    [] s.stage = 3 /\ line.kind = "signature" -> [s EXCEPT !.stage = 4]
    [] s.stage = 4 /\ line.kind = "end" -> [s EXCEPT !.stage = 5]
    [] OTHER -> s

\* Stages: text before the message, its headers, its text, the signature, after.
SignatureStep(s, line) ==
  IF s.broken \/ s.stage = 5 THEN s
  ELSE CASE s.stage = 1 -> [s EXCEPT !.stage = IF line.kind = "message" THEN 2 ELSE 1]
         [] s.stage = 2 /\ line.kind = "hash" -> s
         [] s.stage = 2 /\ line.kind = "empty" -> [s EXCEPT !.stage = 3]
         [] s.stage = 3 /\ line.kind = "signature" -> [s EXCEPT !.stage = 4]
         [] s.stage = 3 /\ (line.kind = "escaped" \/ ~ StartsWithDash(line)) ->
              [s EXCEPT !.lines = Append(@, Unescape(line))]
         [] s.stage = 4 -> [s EXCEPT !.stage = IF line.kind = "end" THEN 5 ELSE 4]
         [] OTHER -> [s EXCEPT !.broken = TRUE]

\* The signed text, the whole text without a signature, or nothing at all.
StripSignature(lines) ==
  LET s == Loop(SignatureStep, [stage |-> 1, lines |-> <<>>, broken |-> FALSE], lines)
  IN  CASE s.stage = 5 -> s.lines
        [] s.stage = 1 -> lines
        [] OTHER -> Missing
-----------------------------------------------------------------------------
(* Attributes. *)

IsAttribute(line) == line.kind \in {"attribute", "hash"}

\* Mutant of AttributeStep: a line that is none of these ends no attribute.
AttributeStepGoesOn(s, line) ==
  CASE IsAttribute(line) ->
         [dict |-> [s.dict EXCEPT ![line.key] = [i \in DOMAIN line.parts |-> <<line.parts[i]>>]],
          key |-> line.key, single |-> TRUE]
    [] line.kind = "folded" /\ s.key # Missing ->
         [s EXCEPT !.dict[s.key] = Append(IF s.single THEN <<FlattenSeq(@)>> ELSE @, line.parts),
                   !.single = FALSE]
    [] line.kind = "key" -> [dict |-> [s.dict EXCEPT ![line.key] = <<>>], key |-> line.key, single |-> FALSE]
    [] OTHER -> s

\* An attribute with a value, one without, a continuation, or anything else.
AttributeStep(s, line) ==
  CASE IsAttribute(line) ->
         [dict |-> [s.dict EXCEPT ![line.key] = [i \in DOMAIN line.parts |-> <<line.parts[i]>>]],
          key |-> line.key, single |-> TRUE]
    [] line.kind = "key" ->
         [dict |-> [s.dict EXCEPT ![line.key] = <<>>], key |-> line.key, single |-> FALSE]
    [] line.kind = "folded" ->
         IF s.key = Missing THEN s
         ELSE [s EXCEPT !.dict[s.key] = Append(IF s.single THEN <<FlattenSeq(@)>> ELSE @, line.parts),
                        !.single = FALSE]
    [] OTHER -> [s EXCEPT !.key = Missing]

ParseAttributes(lines) ==
  Loop(AttributeStep, [dict |-> Nothing, key |-> Missing, single |-> FALSE], lines).dict

\* Mutant of Value: only the line of the attribute itself.
ValueFirst(dict, key) == IF dict[key] \in {Missing, <<>>} THEN <<>> ELSE dict[key][1]

\* ', '.join(attr_dict.get(key, [])), cut again at its ", ".
Value(dict, key) == IF dict[key] = Missing THEN <<>> ELSE FlattenSeq(dict[key])
First(dict, key) == dict[key][1]
Present(dict, key) == dict[key] # Missing /\ dict[key] # <<>>
-----------------------------------------------------------------------------
(* Settings. *)

\* Mutant of ConfigStep: the last section is added to, not replaced.
ConfigStepTopLevel(s, line) ==
  CASE line.kind \in {"blank", "empty"} -> s
    [] line.kind = "heading" ->
         [dict |-> [s.dict EXCEPT ![NoTrack] = ParseAttributes(s.lines)], track |-> line.track, lines |-> <<>>]
    [] OTHER -> [s EXCEPT !.lines = Append(@, line)]

\* A heading closes the section before it; comments and blank lines are left
\* out.  A heading with a comment behind it is not taken for one.
ConfigStep(s, line) ==
  CASE line.kind \in {"blank", "empty"} -> s
    [] line.kind = "heading" ->
         [dict |-> [s.dict EXCEPT ![s.track] = ParseAttributes(s.lines)],
          track |-> line.track, lines |-> <<>>]
    [] OTHER -> [s EXCEPT !.lines = Append(@, line)]

Default(dict, key, value) == IF dict[key] = Missing THEN [dict EXCEPT ![key] = value] ELSE dict

ParseConfig(lines) ==
  LET s == Loop(ConfigStep, [dict |-> [t \in Tracks \cup {NoTrack} |-> Nothing],
                                 track |-> NoTrack, lines |-> <<>>], lines)
      all == [s.dict EXCEPT ![s.track] = ParseAttributes(s.lines)]
  IN  [all EXCEPT ![NoTrack] =
         Default(Default(@, "Component", << << <<"local">> >> >>), "Architectures", << << <<"i386">> >> >>)]

\* The setting of the track, or else of the top level.
GetSetting(dicts, track, key) ==
  IF dicts[track][key] # Missing THEN Value(dicts[track], key)
  ELSE IF dicts[NoTrack][key] # Missing THEN Value(dicts[NoTrack], key) ELSE Missing
-----------------------------------------------------------------------------
(* Records of a binary package. *)

DepKeys == <<"Component", "Essential", "Source", "Depends", "Pre-Depends", "Conflicts",
             "Provides", "Replaces">>
Identified(dict) == \A k \in {"Package", "Version", "Architecture"} : Present(dict, k)

GetPackageID(dict) == <<First(dict, "Package"), First(dict, "Version"), First(dict, "Architecture")>>

\* The source package and its version, where they differ from the binary's.
SourceEntry(dict) ==
  LET source == IF Present(dict, "Source") THEN First(dict, "Source")[1] ELSE First(dict, "Package")[1]
  IN  IF Len(source) = 2 THEN source ELSE <<source[1], First(dict, "Version")[1][1]>>

\* One line for each of DepKeys.
BuildDependencyString(kind, dict) ==
  [i \in DOMAIN DepKeys |->
     CASE DepKeys[i] = "Component" ->
            << IF kind = "udeb" THEN <<"local", "debian-installer">> ELSE <<"local">> >>
       [] DepKeys[i] = "Essential" -> IF Present(dict, "Essential") THEN First(dict, "Essential") ELSE << <<"no">> >>
       [] DepKeys[i] = "Source" -> <<SourceEntry(dict)>>
       [] OTHER -> Value(dict, DepKeys[i])]

\* The dictionary that the verifier reads from an entry.
ParseDependencyString(lines) ==
  [k \in {DepKeys[i] : i \in DOMAIN DepKeys} |->
     LET line == lines[CHOOSE i \in DOMAIN DepKeys : DepKeys[i] = k]
     IN  [i \in DOMAIN line |-> <<line[i]>>]]

Attribute(key, parts) == [kind |-> "attribute", key |-> key, parts |-> parts]
Folded(parts) == [kind |-> "folded", key |-> Missing, parts |-> parts]

\* The stanza of Packages: the attributes that there are, in a fixed order,
\* then the description.
BuildDebInfoText(dict) ==
  LET given(key) == IF Present(dict, key) THEN <<Attribute(key, Value(dict, key))>> ELSE <<>>
      description == dict["Description"]
  IN  given("Package") \o given("Essential") \o given("Architecture") \o given("Source")
      \o given("Version") \o given("Replaces") \o given("Provides") \o given("Depends")
      \o given("Pre-Depends") \o given("Conflicts")
      \o <<Attribute("Description", IF description = <<>> THEN <<>> ELSE description[1])>>
      \o [i \in 1 .. Len(description) - 1 |-> Folded(description[i + 1])]

\* Mutant of UpstreamStep: names are forgotten between stanzas, and a package
\* is complete when its architecture is read.
UpstreamStepArch(s, line) ==
  CASE line.kind = "attribute" /\ line.key = "Package" -> [s EXCEPT !.name = line.parts]
    [] line.kind = "attribute" /\ line.key = "Version" -> [s EXCEPT !.arch = line.parts]
    [] line.kind = "attribute" /\ line.key = "Architecture" ->
         [s EXCEPT !.found = @ \cup {<<s.name, s.arch, line.parts>>}]
    [] OTHER -> s

\* A package is complete when its version is read.
UpstreamStep(s, line) ==
  CASE line.kind = "attribute" /\ line.key = "Package" -> [s EXCEPT !.name = line.parts]
    [] line.kind = "attribute" /\ line.key = "Architecture" -> [s EXCEPT !.arch = line.parts]
    [] line.kind = "attribute" /\ line.key = "Version" ->
         [s EXCEPT !.found = @ \cup {<<s.name, line.parts, s.arch>>}]
    [] OTHER -> s

GetUpstreamReleaseList(lines) ==
  Loop(UpstreamStep, [name |-> <<>>, arch |-> <<>>, found |-> {}], lines).found
-----------------------------------------------------------------------------
(* Child processes. *)

Init ==
  /\ file \in Files
  /\ pc = "start"
  /\ program = "none" /\ child = [running |-> FALSE, left |-> 0, status |-> 0] /\ pipe = 0
  /\ tempdir = FALSE
  /\ text = <<>> /\ attrs = Nothing /\ records = NoRecords
  /\ settings = [t \in Tracks \cup {NoTrack} |-> Nothing]

\* gpgv finds no message where there is no header: it may accept other files.
MayAccept == \E i \in DOMAIN file.lines : file.lines[i].kind \in {"message", "header"}
Statuses(name) == IF name = "gpgv" /\ ~ MayAccept THEN {1} ELSE {0, 1}

\* What the program prints and how it ends is its own affair.
Run(name) ==
  /\ program' = name
  /\ \E n \in 0 .. MaxOutput, status \in Statuses(name) :
       child' = [running |-> TRUE, left |-> n, status |-> status]
  /\ UNCHANGED pipe

\* The child, with its own end of a new pipe, blocks while the pipe is full.
ChildWrites ==
  /\ child.running /\ child.left > 0 /\ pipe < Capacity
  /\ child' = [child EXCEPT !.left = @ - 1]
  /\ pipe' = pipe + 1
  /\ UNCHANGED <<file, pc, program, tempdir, parsed>>

ChildExits ==
  /\ child.running /\ child.left = 0
  /\ child' = [child EXCEPT !.running = FALSE]
  /\ UNCHANGED <<file, pc, program, pipe, tempdir, parsed>>
-----------------------------------------------------------------------------
(* The steps of a file. *)

\* gpgv, a temporary directory and ar, or nothing.
Start ==
  /\ pc = "start"
  /\ CASE file.kind = "changes" -> pc' = "wait" /\ Run("gpgv") /\ UNCHANGED tempdir
       [] file.kind \in {"deb", "udeb"} -> pc' = "wait" /\ Run("ar") /\ tempdir' = TRUE
       [] file.kind = "dsc" -> pc' = "strip" /\ UNCHANGED <<process, tempdir>>
       [] file.kind = "config" -> pc' = "config" /\ UNCHANGED <<process, tempdir>>
  /\ UNCHANGED <<file, parsed>>

\* Mutant of AfterProgram: a program that fails is started again.
AfterProgramRetry ==
  CASE program = "gpgv" -> IF child.status = 0 THEN "strip" ELSE "start"
    [] program = "ar" -> "unpack"
    [] program = "lzma" -> IF child.status = 0 THEN "control" ELSE "unpack"
    [] program = "md5sum" -> IF pipe > 0 THEN "record" ELSE "control"

\* Only gpgv's status is looked at; lzma and md5sum fail by what they leave out.
AfterProgram ==
  CASE program = "gpgv" -> IF child.status = 0 THEN "strip" ELSE "failing"
    [] program = "ar" -> "unpack"
    [] program = "lzma" -> IF child.status = 0 THEN "control" ELSE "failing"
    [] program = "md5sum" -> IF pipe > 0 THEN "record" ELSE "failing"

\* The parent waits for the exit first and reads the pipe then.
Wait ==
  /\ pc = "wait" /\ ~ child.running
  /\ pc' = AfterProgram
  /\ pipe' = 0
  /\ UNCHANGED <<file, program, child, tempdir, parsed>>

\* data.tar: unpacked with lzma, opened, or not there.
Unpack ==
  /\ pc = "unpack"
  /\ CASE file.archive = "lzma" -> pc' = "wait" /\ Run("lzma")
       [] file.archive = "gz" -> pc' = "control" /\ UNCHANGED process
       [] file.archive = "none" -> pc' = "failing" /\ UNCHANGED process
  /\ UNCHANGED <<file, tempdir, parsed>>

\* A malformed signature leaves nothing to parse: a TypeError.
Strip ==
  /\ pc = "strip"
  /\ IF StripSignature(file.lines) = Missing
     THEN pc' = "failing" /\ UNCHANGED text
     ELSE pc' = "parse" /\ text' = StripSignature(file.lines)
  /\ UNCHANGED <<file, process, tempdir, attrs, settings, records>>

Parse ==
  /\ pc = "parse"
  /\ pc' = "done"
  /\ attrs' = ParseAttributes(text)
  /\ UNCHANGED <<file, process, tempdir, text, settings, records>>

LoadSettings ==
  /\ pc = "config"
  /\ pc' = "done"
  /\ settings' = ParseConfig(file.lines)
  /\ UNCHANGED <<file, process, tempdir, text, attrs, records>>

\* The control file is read and the temporary directory removed; the size and
\* the hash of the package come next.
ParseControl ==
  /\ pc = "control"
  /\ text' = file.lines
  /\ attrs' = ParseAttributes(file.lines)
  /\ tempdir' = FALSE
  /\ IF Identified(attrs') THEN pc' = "wait" /\ Run("md5sum") ELSE pc' = "failing" /\ UNCHANGED process
  /\ UNCHANGED <<file, settings, records>>

\* First the entry in pkg_info, then the one in pkg_deps: an empty field leaves
\* the first without the second.
Record ==
  /\ pc = "record"
  /\ IF attrs["Description"] = Missing
     THEN pc' = "failing" /\ UNCHANGED records
     ELSE IF <<>> \in {attrs["Essential"], attrs["Source"]}
     THEN pc' = "failing" /\ records' = [records EXCEPT !.info = BuildDebInfoText(attrs)]
     ELSE /\ pc' = "done"
          /\ records' = [info |-> BuildDebInfoText(attrs),
                         deps |-> BuildDependencyString(file.kind, attrs)]
  /\ UNCHANGED <<file, process, tempdir, text, attrs, settings>>

\* An exception passes through finally on its way out.
Fail ==
  /\ pc = "failing"
  /\ pc' = "failed"
  /\ tempdir' = FALSE
  /\ UNCHANGED <<file, process, parsed>>

Child == ChildWrites \/ ChildExits
Parent == Start \/ Wait \/ Unpack \/ Strip \/ Parse \/ LoadSettings \/ ParseControl \/ Record \/ Fail

Next == Child \/ Parent

\* The scheduler runs both processes.
Spec == Init /\ [][Next]_vars /\ WF_vars(Child) /\ WF_vars(Parent)
=============================================================================
