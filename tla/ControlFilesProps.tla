------------------------- MODULE ControlFilesProps -------------------------
(***************************************************************************)
(* Properties of ControlFiles.  The loops over lines are compared with     *)
(* what they mean, said of positions in the whole text.                    *)
(***************************************************************************)
EXTENDS ControlFiles

Binary == file.kind \in {"deb", "udeb"}

\* The types of the process, the pipe and the results.
TypeOK ==
  /\ pc \in {"start", "wait", "unpack", "strip", "parse", "config", "control", "record",
             "failing", "failed", "done"}
  /\ program \in {"none", "gpgv", "ar", "lzma", "md5sum"}
  /\ child \in [running : BOOLEAN, left : 0 .. MaxOutput, status : {0, 1}]
  /\ pipe \in 0 .. Capacity /\ pipe + child.left \in 0 .. MaxOutput
  /\ tempdir \in BOOLEAN
  /\ DOMAIN attrs = Keys /\ DOMAIN settings = Tracks \cup {NoTrack}
  /\ DOMAIN records = {"info", "deps"}

\* A framed message: the first header, its empty line, and the lines that begin
\* and end the signature; no line in between starts with a bare dash.
Framed(lines, header, empty, signature, end) ==
  /\ header < empty /\ empty < signature /\ signature < end
  /\ \A i \in DOMAIN lines :
       /\ i < header => lines[i].kind # "message"
       /\ header < i /\ i < empty => lines[i].kind = "hash"
       /\ empty < i /\ i < signature => lines[i].kind = "escaped" \/ ~ StartsWithDash(lines[i])
       /\ signature < i /\ i < end => lines[i].kind # "end"
  /\ lines[header].kind = "message" /\ lines[empty].kind = "empty"
  /\ lines[signature].kind = "signature" /\ lines[end].kind = "end"

\* What is parsed of a .changes file that gpgv has accepted, and of a .dsc file:
\* where some line is exactly the header, all of what is between the frames of
\* the first message and nothing else, so that missing, repeated or misplaced
\* frames never let a line from outside through.  A file is parsed as a whole,
\* what was signed in it and what was not, in two cases only: it is a .dsc file
\* that is not signed, or a .changes file in which every header has blanks
\* behind it, so that gpgv sees a message and StripSignature none.
SignedTextOnly ==
  file.kind \in {"changes", "dsc"} /\ pc \in {"parse", "done"} =>
    LET lines == file.lines
        some(kind) == \E i \in DOMAIN lines : lines[i].kind = kind
    IN  /\ file.kind = "changes" => program = "gpgv" /\ ~ child.running /\ child.status = 0
        /\ IF ~ some("message")
           THEN text = lines /\ (file.kind = "changes" => some("header"))
           ELSE \E header, empty, signature, end \in DOMAIN lines :
                  /\ Framed(lines, header, empty, signature, end)
                  /\ text = [i \in 1 .. signature - empty - 1 |-> Unescape(lines[empty + i])]

\* The line that gives k its value: the last of that attribute after position
\* start, if there is one before position end.
Assigns(lines, i, k) == (IsAttribute(lines[i]) \/ lines[i].kind = "key") /\ lines[i].key = k
Assigning(lines, start, end, k) ==
  {i \in DOMAIN lines :
     /\ start < i /\ i < end /\ Assigns(lines, i, k)
     /\ \A j \in DOMAIN lines : i < j /\ j < end => ~ Assigns(lines, j, k)}

\* The lines that continue line i.
Continuing(lines, i) ==
  {j \in DOMAIN lines : i < j /\ \A n \in (i + 1) .. j : lines[n].kind = "folded"}

\* Values that an attribute has in lines start + 1 .. end - 1: the parts of its
\* line, or this line in one piece and the lines that continue it.
Meaning(lines, start, end, k) ==
  IF Assigning(lines, start, end, k) = {} THEN Missing
  ELSE LET i == CHOOSE i \in Assigning(lines, start, end, k) : TRUE
           more == [n \in 1 .. Cardinality(Continuing(lines, i)) |-> lines[i + n].parts]
       IN  IF lines[i].kind = "key" THEN more
           ELSE IF more = <<>> THEN [n \in DOMAIN lines[i].parts |-> <<lines[i].parts[n]>>]
           ELSE <<lines[i].parts>> \o more

\* A dictionary has exactly the attributes of the text, the last of each name,
\* with all lines that continue it and none that follow something malformed.
AttributesExact ==
  attrs # Nothing => \A k \in Keys : attrs[k] = Meaning(text, 0, Len(text) + 1, k)

\* The lines that are not left out.
Kept(lines) ==
  LET kept[i \in 0 .. Len(lines)] ==
        IF i = 0 THEN <<>>
        ELSE IF lines[i].kind \in {"blank", "empty"} THEN kept[i - 1] ELSE Append(kept[i - 1], lines[i])
  IN  kept[Len(lines)]

\* What the last section of track t says of k, or the lines before the first
\* heading, which are the top level.
OwnSetting(lines, t, k) ==
  LET headings == {i \in DOMAIN lines : lines[i].kind = "heading"}
      sections == {i \in headings : lines[i].track = t}
      last == {i \in sections : \A j \in sections : j <= i}
      start == IF t = NoTrack THEN 0 ELSE CHOOSE i \in last : TRUE
      after == {j \in headings \cup {Len(lines) + 1} : start < j}
      end == CHOOSE j \in after : \A n \in after : j <= n
  IN  IF t # NoTrack /\ last = {} THEN Missing ELSE Meaning(lines, start, end, k)

\* The settings of a track are those of its last section; what is not set there
\* is looked up at the top level, before the first heading.
SettingsExact ==
  file.kind = "config" /\ pc = "done" =>
    LET own(t, k) == OwnSetting(Kept(file.lines), t, k)
    IN  \A t \in Tracks \cup {NoTrack}, k \in Keys \ {"Component", "Architectures"} :
          GetSetting(settings, t, k) =
            IF own(t, k) # Missing THEN FlattenSeq(own(t, k))
            ELSE IF own(NoTrack, k) # Missing THEN FlattenSeq(own(NoTrack, k)) ELSE Missing

\* The relations that the verifier reads of a package are all of those of its
\* control file; it is essential, and has a source, by the first line of the
\* field, and its source is the one of Policy 5.6.1: the package of the same
\* name and version where none is given, the same version where no other is.
DependenciesKept ==
  Binary /\ pc = "done" =>
    LET entry == ParseDependencyString(records.deps)
        field(k) == Meaning(text, 0, Len(text) + 1, k)
        pieces(parts) == [i \in DOMAIN parts |-> <<parts[i]>>]
        source == IF field("Source") = Missing THEN field("Package")[1][1] ELSE field("Source")[1][1]
    IN  /\ \A k \in {"Depends", "Pre-Depends", "Conflicts", "Provides", "Replaces"} :
             entry[k] = IF field(k) = Missing THEN <<>> ELSE pieces(FlattenSeq(field(k)))
        /\ entry["Essential"] = pieces(IF field("Essential") = Missing THEN << <<"no">> >> ELSE field("Essential")[1])
        /\ entry["Source"] = << << <<source[1], IF Len(source) = 2 THEN source[2]
                                                ELSE field("Version")[1][1][1]>> >> >>

Stanza(name, version, arch) ==
  <<Attribute("Package", << <<name>> >>), Attribute("Architecture", << <<arch>> >>),
    Attribute("Version", << <<version>> >>), Attribute("Description", << <<"text">> >>),
    [kind |-> "empty", key |-> Missing, parts |-> <<>>]>>

\* A Packages file that has the package between two others is read back as
\* these three packages: none takes over the name or architecture of another.
\* (Fields of a name that are continued are written in one piece.)
UpstreamReadsBack ==
  /\ Binary /\ pc = "done"
  /\ \A k \in {"Package", "Version", "Architecture"} : Len(attrs[k]) = 1
  =>
    GetUpstreamReleaseList(Stanza("before", "1", "any") \o records.info \o Stanza("after", "2", "all"))
    = {<< << <<"before">> >>, << <<"1">> >>, << <<"any">> >> >>, GetPackageID(attrs),
       << << <<"after">> >>, << <<"2">> >>, << <<"all">> >> >>}

\* Whatever a file leads to, no temporary directory is left behind.
Cleaned == pc \in {"done", "failed"} => ~ tempdir

\* The pipe is full and the program has more to print: it waits for the parent
\* to read, and the parent waits for it to exit.
Stuck == pc = "wait" /\ child.running /\ pipe = Capacity /\ child.left > 0

\* Nothing but a program that prints more than a pipe holds keeps a file from
\* being dealt with: either it ends, done or failed, and no temporary directory
\* is left whatever failed, or SpawnProgram and the program wait for each other
\* for ever.  No other wait is without end, and nothing is tried again and again.
Ends == <>(pc \in {"done", "failed"} /\ ~ tempdir) \/ <>[]Stuck
-----------------------------------------------------------------------------
(* The inductive invariant from which ControlFilesProofs derives the         *)
(* properties of one text.                                                   *)

\* The text that counts is the whole text where no message begins, and what is
\* between the frames of the first message otherwise.
SignedText(lines, signed) ==
  IF \A i \in DOMAIN lines : lines[i].kind # "message" THEN signed = lines
  ELSE \E header, empty, signature, end \in DOMAIN lines :
         /\ Framed(lines, header, empty, signature, end)
         /\ signed = [i \in 1 .. signature - empty - 1 |-> Unescape(lines[empty + i])]

\* Every attribute has a name, every value at least one part, every heading a
\* track.
WellFormed(lines) ==
  \A i \in DOMAIN lines :
    /\ lines[i].kind \in {"attribute", "hash", "key"} => lines[i].key \in Keys
    /\ lines[i].kind \in {"attribute", "hash", "folded"} => lines[i].parts # <<>>
    /\ lines[i].kind = "heading" => lines[i].track \in Tracks

\* Each kind of file goes through stages of its own, with programs of its own.
\* A .changes file comes as far as its text only when gpgv has accepted it.
StagesInv ==
  /\ file \in Files
  /\ CASE file.kind = "changes" ->
            /\ pc \in {"start", "wait", "strip", "parse", "done", "failing", "failed"}
            /\ pc = "wait" => program = "gpgv"
            /\ pc \in {"strip", "parse", "done"} => program = "gpgv" /\ ~ child.running /\ child.status = 0
       [] file.kind = "dsc" -> pc \in {"start", "strip", "parse", "done", "failing", "failed"}
       [] file.kind = "config" -> pc \in {"start", "config", "done"}
       [] Binary ->
            /\ pc \in {"start", "wait", "unpack", "control", "record", "done", "failing", "failed"}
            /\ pc = "wait" => program \in {"ar", "lzma", "md5sum"}

\* gpgv has accepted nothing without a header.
GpgvInv == program = "gpgv" /\ child.status = 0 => MayAccept

\* The text is what was signed; what is parsed is this text, and nothing else
\* becomes the text afterwards.
TextInv ==
  /\ file.kind \in {"changes", "dsc"} /\ pc \in {"parse", "done"} =>
       SignedText(file.lines, text) /\ text \in Seq(Lines) /\ WellFormed(text)
  /\ attrs # Nothing =>
       /\ pc \in {"record", "done", "failing", "failed"} \/ (pc = "wait" /\ program = "md5sum")
       /\ attrs = ParseAttributes(text) /\ text \in Seq(Lines) /\ WellFormed(text)

\* A package has its entries when it is done, and they are made of what was
\* read of it.
EntriesInv ==
  Binary =>
    /\ pc \in {"record", "done"} \/ (pc = "wait" /\ program = "md5sum") =>
         text = file.lines /\ attrs = ParseAttributes(text) /\ Identified(attrs)
    /\ pc = "done" =>
         /\ records.info = BuildDebInfoText(attrs) /\ attrs["Description"] # Missing
         /\ records.deps = BuildDependencyString(file.kind, attrs)
         /\ <<>> \notin {attrs["Essential"], attrs["Source"]}

\* The parent waits as long as the child runs, and what it has waited for has
\* been written and read; the temporary directory is there until the control
\* file has been read from it.
ProcessInv ==
  /\ TypeOK
  /\ child.running => pc = "wait"
  /\ ~ child.running => child.left = 0
  /\ pc # "wait" => pipe = 0
  /\ tempdir => pc \in {"unpack", "control", "failing"} \/ (pc = "wait" /\ program \in {"ar", "lzma"})

\* The settings are those of the file.
ConfigInv == file.kind = "config" /\ pc = "done" => settings = ParseConfig(file.lines)

ReadingInv == StagesInv /\ TextInv /\ EntriesInv
=============================================================================
