------------------------------ MODULE PromptFile ------------------------------
(***************************************************************************)
(* core/src/prompt.ts serializePrompt and parsePrompt: a prompt is a markdown  *)
(* file, written after every change and read back on every start.  What a  *)
(* person, a document or a build said is put into it line by line and may  *)
(* itself look like a part of the format.  A line is its kind, its name    *)
(* and its value: a rule `---`, a frontmatter key, a heading of one to     *)
(* three marks, a list item, the provenance of a doc, a field of a build,  *)
(* or prose.  The fields within an item are left out.                      *)
(***************************************************************************)
EXTENDS Naturals, SequencesExt, FiniteSetsExt, PromptLadder

CONSTANTS MaxSaid,     \* lines said into one prompt
          MaxTexts,    \* texts they make up
          NotScrapped  \* scrappedFrom is undefined

VARIABLES pfPrompt,    \* the prompt in memory
          pfFile       \* its file
promptFileVars == <<pfPrompt, pfFile>>

Line(is, of, val) == [is |-> is, of |-> of, val |-> val]
Blank        == Line("blank", "", "")
Rule         == Line("rule", "", "")
H(marks, of) == Line(<<"h1", "h2", "h3">>[marks], of, "")
Item(of)     == Line("item", of, "")
Prose(of)    == Line("prose", of, "")
NoRequirement == Prose("no requirement written yet")
NoneGiven     == Item("none given")

\* What someone may say.
SayLines == {Prose("word"), Blank, Rule, H(1, "Requirement"), H(2, "Notes"), H(3, "Notes"),
             H(3, "Build b9"), Line("key", "state", "built"), Line("field", "started", "never"),
             Line("doc", "d9", "")}
ReadLines == SayLines \cup {Line("doc", "d1", "")}

Prompts == [state : PromptStates, scrappedFrom : PromptStates \cup {NotScrapped},
            requirement : Seq(ReadLines), acceptance : Seq({"a1", "a2"}),
            docs : Seq([of : {"d1", "d9"}, text : Seq(ReadLines)]),
            builds : Seq([id : {"b1", "b2", "b9"}, started : {"then", "never", ""}, summary : Seq(ReadLines)])]

PromptFileTypeOK == pfPrompt \in Prompts

----------------------------------------------------------------------------
(* serializePrompt *)

Under(heading, body) == <<Blank, heading, Blank>> \o body

\* The last blank is popped.
NoTrailingBlank(lines) == IF lines # <<>> /\ Last(lines) = Blank THEN Front(lines) ELSE lines

contextLines(docs) ==
  IF docs = <<>> THEN <<Prose("nothing surveyed yet")>>
  ELSE <<H(3, "Docs"), Blank>> \o NoTrailingBlank(FlattenSeq(
         [n \in DOMAIN docs |-> <<Line("doc", docs[n].of, "")>> \o docs[n].text \o <<Blank>>]))

BuildHeading(id) == H(3, IF id = "b1" THEN "Build b1" ELSE IF id = "b2" THEN "Build b2" ELSE "Build b9")

buildLogLines(builds) ==
  NoTrailingBlank(FlattenSeq([n \in DOMAIN builds |->
    <<BuildHeading(builds[n].id), Blank, Line("field", "started", builds[n].started),
      Line("field", "files touched", "none")>>
    \o (IF builds[n].summary = <<>> THEN <<>> ELSE <<Blank>> \o builds[n].summary) \o <<Blank>>]))

frontmatter(p) ==
  <<Rule, Line("key", "state", p.state)>>
  \o (IF p.scrappedFrom = NotScrapped THEN <<>> ELSE <<Line("key", "scrappedFrom", p.scrappedFrom)>>)
  \o <<Rule>>

promptBody(p) ==
  <<H(1, "Requirement"), Blank>> \o (IF p.requirement = <<>> THEN <<NoRequirement>> ELSE p.requirement)
  \o Under(H(2, "Acceptance"), IF p.acceptance = <<>> THEN <<NoneGiven>>
                               ELSE [n \in DOMAIN p.acceptance |-> Item(p.acceptance[n])])
  \o Under(H(2, "Context"), contextLines(p.docs))
  \o Under(H(2, "Rules"), <<Item("work in this repo only")>>)

serializePrompt(p) ==
  frontmatter(p) \o <<Blank>> \o promptBody(p)
  \o (IF p.builds = <<>> THEN <<>> ELSE Under(H(2, "Builds"), buildLogLines(p.builds))) \o <<Blank>>

----------------------------------------------------------------------------
(* parsePrompt *)

\* Places of a file from its top to its end, and the lines there.
PlacesInOrder(places) ==
  [n \in 1 .. Cardinality(places) |->
     CHOOSE i \in places : Cardinality({j \in places : j <= i}) = n]
LinesAt(lines, places) == [n \in 1 .. Cardinality(places) |-> lines[PlacesInOrder(places)[n]]]

trim(lines) ==
  LET said == {i \in DOMAIN lines : lines[i] # Blank}
  IN IF said = {} THEN <<>> ELSE SubSeq(lines, Min(said), Max(said))

\* Mutant: the frontmatter runs to the last rule of the file.
LastRule(file) == Max({i \in DOMAIN file : file[i] = Rule})

\* The frontmatter ends at the first rule after its own.
EndOfFrontmatter(file) == Min({i \in DOMAIN file : i > 1 /\ file[i] = Rule})

\* fm[key]: a later line of the same key wins.
FrontmatterKey(file, key, otherwise) ==
  LET at == {i \in 1 .. EndOfFrontmatter(file) : file[i].is = "key" /\ file[i].of = key}
  IN IF at = {} THEN otherwise ELSE file[Max(at)].val

SectionHeads(body) == {i \in DOMAIN body : body[i].is \in {"h2", "h3"}}

Until(body, from, heads) ==
  LET next == {i \in heads : i > from}
  IN SubSeq(body, from + 1, IF next = {} THEN Len(body) ELSE Min(next) - 1)

\* The section map: a heading met again starts its section anew.
Section(body, of) ==
  LET at == {i \in SectionHeads(body) : body[i].of = of}
  IN IF at = {} THEN <<>> ELSE Until(body, Max(at), SectionHeads(body))

\* Mutant: any heading but the first ends the requirement.
UntilAnyHeading(body, from) == Until(body, from, {i \in DOMAIN body : body[i].is \in {"h1", "h2", "h3"}})

\* Only a `##` ends the requirement.
UntilSection(body, from) == Until(body, from, {i \in DOMAIN body : body[i].is = "h2"})

requirementOf(body) ==
  LET at == {i \in DOMAIN body : body[i] = H(1, "Requirement")}
      said == IF at = {} THEN <<>> ELSE trim(UntilSection(body, Min(at)))
  IN IF said = <<NoRequirement>> THEN <<>> ELSE said

stripListMarkers(lines) ==
  LET kept == LinesAt(lines, {i \in DOMAIN lines : lines[i] # Blank})
  IN [n \in DOMAIN kept |-> kept[n].of]

\* Mutant: the line that stands for no criteria is read as one.
PlaceholderKept(body) == stripListMarkers(Section(body, "Acceptance"))

acceptanceOf(body) ==
  LET raw == stripListMarkers(Section(body, "Acceptance"))
  IN IF raw = <<NoneGiven.of>> THEN <<>> ELSE raw

\* Mutant: a document keeps the blank lines written around it.
DocsUntrimmed(body) ==
  LET lines == Section(body, "Docs")
      heads == {i \in DOMAIN lines : lines[i].is = "doc"}
      nth   == PlacesInOrder(heads)
  IN [n \in DOMAIN nth |-> [of |-> lines[nth[n]].of, text |-> Until(lines, nth[n], heads)]]

parseContextSection(body) ==
  LET lines == Section(body, "Docs")
      heads == {i \in DOMAIN lines : lines[i].is = "doc"}
      nth   == PlacesInOrder(heads)
  IN [n \in DOMAIN nth |-> [of |-> lines[nth[n]].of, text |-> trim(Until(lines, nth[n], heads))]]

\* Mutant: a line of the summary that looks like a field is read as one.
AnyField(lines) == {i \in DOMAIN lines : lines[i].is = "field" /\ lines[i].of = "started"}

\* The fields end with "files touched"; what follows is the summary, whatever it looks like.
StartedLines(lines) ==
  LET files == {i \in DOMAIN lines : lines[i].is = "field" /\ lines[i].of = "files touched"}
  IN {i \in AnyField(lines) : files = {} \/ i < Min(files)}

BuildIdOf == [of \in {"Build b1", "Build b2", "Build b9"} |->
                IF of = "Build b1" THEN "b1" ELSE IF of = "Build b2" THEN "b2" ELSE "b9"]

parseBuild(of, lines) ==
  LET starts == StartedLines(lines)
      prose  == {i \in DOMAIN lines \ starts : ~(lines[i].is = "field" /\ lines[i].of = "files touched")}
  IN [id |-> BuildIdOf[of], started |-> IF starts = {} THEN "" ELSE lines[Max(starts)].val,
      summary |-> trim(LinesAt(lines, prose))]

\* In the order in which the headings first appeared.
parseBuildLog(body) ==
  LET heads == {i \in SectionHeads(body) : body[i].of \in DOMAIN BuildIdOf}
      firsts == PlacesInOrder({i \in heads : \A j \in heads : body[j].of = body[i].of => i <= j})
  IN [n \in DOMAIN firsts |-> parseBuild(body[firsts[n]].of, Section(body, body[firsts[n]].of))]

parsePrompt(file) ==
  LET body == SubSeq(file, EndOfFrontmatter(file) + 1, Len(file)) IN
  [state |-> FrontmatterKey(file, "state", ""), scrappedFrom |-> FrontmatterKey(file, "scrappedFrom", NotScrapped),
   requirement |-> requirementOf(body), acceptance |-> acceptanceOf(body),
   docs |-> parseContextSection(body), builds |-> parseBuildLog(body)]

----------------------------------------------------------------------------
(* A prompt's life, as far as its file is concerned *)

FreshPrompt == [state |-> "draft", scrappedFrom |-> NotScrapped, requirement |-> <<>>,
          acceptance |-> <<>>, docs |-> <<>>, builds |-> <<>>]

\* How much has been said already.
SaidLines(p) ==
  LET sum(lens) == FoldSeq(LAMBDA n, m : n + m, 0, lens)
  IN Len(p.requirement) + Len(p.acceptance) + sum([n \in DOMAIN p.docs |-> Len(p.docs[n].text)])
     + sum([n \in DOMAIN p.builds |-> Len(p.builds[n].summary)])

TextsIn(p) == (IF p.requirement = <<>> THEN 0 ELSE 1) + Len(p.acceptance) + Len(p.docs) + Len(p.builds)

PromptFileInit == pfPrompt = FreshPrompt /\ pfFile = serializePrompt(FreshPrompt)

Texts == UNION {[1 .. n -> SayLines] : n \in 1 .. 2}

\* A prompt changes and is written: its words, an answer to accept, a document, a build's end.
Change(p) ==
  \/ \E text \in Texts : p.requirement = <<>> /\ pfPrompt' = [p EXCEPT !.requirement = text]
  \/ \E a \in {"a1", "a2"} : pfPrompt' = [p EXCEPT !.acceptance = Append(@, a)]
  \/ \E text \in Texts : pfPrompt' = [p EXCEPT !.docs = Append(@, [of |-> "d1", text |-> text])]
  \/ \E text \in Texts :
       /\ Len(p.builds) < 2
       /\ pfPrompt' = [p EXCEPT !.builds =
            Append(@, [id |-> <<"b1", "b2">>[Len(@) + 1], started |-> "then", summary |-> text])]

Write ==
  /\ pfPrompt.state = "draft" /\ TextsIn(pfPrompt) < MaxTexts
  /\ Change(pfPrompt) /\ SaidLines(pfPrompt') <= MaxSaid
  /\ pfFile' = serializePrompt(pfPrompt')

Scrap ==
  /\ pfPrompt.state = "draft"
  /\ pfPrompt' = [pfPrompt EXCEPT !.state = "scrapped", !.scrappedFrom = pfPrompt.state]
  /\ pfFile' = serializePrompt(pfPrompt')

\* A start: only the file is left.
ReloadPrompt ==
  /\ pfPrompt' = parsePrompt(pfFile)
  /\ UNCHANGED pfFile

PromptFileNext == Write \/ Scrap \/ ReloadPrompt

----------------------------------------------------------------------------
(* Properties *)

Read == parsePrompt(pfFile)
SaysLine(kind, text) == \E n \in DOMAIN text : text[n].is = kind
Said(p) == {p.requirement} \cup {p.docs[n].text : n \in DOMAIN p.docs}
           \cup {p.builds[n].summary : n \in DOMAIN p.builds}

\* Whatever anyone says in a prompt, a document or a build's summary, a line that looks like
\* the frontmatter or ends it included, the file gives back the state the prompt was written
\* in and the state it was scrapped from (core/src/prompt.ts).
StateSurvivesWords ==
  pfFile = serializePrompt(pfPrompt) =>
    Read.state = pfPrompt.state /\ Read.scrappedFrom = pfPrompt.scrappedFrom

\* A requirement without a `##` line comes back as it was, the blank lines around it apart,
\* whatever documents and builds put into the same file.
RequirementSurvives ==
  (pfFile = serializePrompt(pfPrompt) /\ ~SaysLine("h2", pfPrompt.requirement))
    => Read.requirement = trim(pfPrompt.requirement)

\* As long as nobody says a `##` or `###` line, the history of builds comes back: every
\* build, in order, with its own fields and its summary, even one that reads like fields.
HistorySurvives ==
  (/\ pfFile = serializePrompt(pfPrompt)
   /\ \A text \in Said(pfPrompt) : ~SaysLine("h2", text) /\ ~SaysLine("h3", text))
    => /\ Len(Read.builds) = Len(pfPrompt.builds)
       /\ \A n \in DOMAIN pfPrompt.builds :
            Read.builds[n] = [pfPrompt.builds[n] EXCEPT !.summary = trim(@)]

\* What a start may lose it loses at once: written again and read again, nothing changes.
SecondReadingAgrees == parsePrompt(serializePrompt(Read)) = Read
=============================================================================
