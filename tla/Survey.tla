------------------------------- MODULE Survey -------------------------------
(***************************************************************************)
(* The survey of a repo, and what is looked up in it.                      *)
(*                                                                         *)
(* Making it (survey/run.ts, survey/merge.ts, survey/registry.ts): every   *)
(* adapter that knows the repo reads it, what they say is merged, the      *)
(* gauges are read from the app's styles once more, and survey.json,       *)
(* gauges.json and a file of each adapter are written one after the other. *)
(* The repo changes meanwhile.  The bench surveys a repo it clamps, and    *)
(* `jigbench survey` may do so at the same time.                           *)
(*                                                                         *)
(* What it says of a pick: the shop face of a work order                   *)
(* (orders/shop-face.ts), the context of a prompt (prompts/context.ts) and *)
(* the request to the drafter (orders/drafters/ollama.ts) each look the    *)
(* picked component up for themselves.  A file is a component's class or   *)
(* one derived from it; an endpoint answers to the nouns in its path.      *)
(***************************************************************************)
EXTENDS Naturals, SequencesExt

CONSTANTS SmRuns,   \* surveys, one use each
          SmRefs,   \* names of schemas
          SmGauges, \* names of gauges
          NoSurvey  \* no such file, nothing read

VARIABLES smRepo,    \* what each adapter would read in the repo now
          smRun,     \* the surveys under way
          smSurvey,  \* survey.json; `by` is the run that wrote it
          smGauges,  \* gauges.json
          smOwn,     \* <adapter>.json
          smMixed    \* since the last run that had the files to itself: two wrote at once,
                     \* or one stopped between its two writes (history)
surveyVars == <<smRepo, smRun, smSurvey, smGauges, smOwn, smMixed>>

\* web matches almost anything and is asked last.
SURVEY_ADAPTERS == <<"angular", "dotnet", "web">>
Adapters == ToSet(SURVEY_ADAPTERS)

\* The schemas an adapter finds; two classes of an app may have the same name.
Schemas == [name : SmRefs, nth : 1 .. 2]

\* What an adapter that detects the repo reads in it: dotnet has no gauges, web no schemas.
AdapterSays(a) ==
  [schemas : IF a = "web" THEN {{}} ELSE SUBSET Schemas,
   gauges : IF a = "dotnet" THEN {{}} ELSE SUBSET SmGauges]

\* The packages that expose a reader of gauges, in the order they are asked.
GAUGE_READERS == <<"angular", "web">>
Gauges == [by : {"angular", "web"}, name : SmGauges]

\* What gauges.json holds once it was written.
GaugesFiles == [by : SmRuns, of : SUBSET Gauges]
ASSUME NoSurveyIsNone == NoSurvey \notin GaugesFiles

NotRun == [at |-> "unused", next |-> 1, read |-> <<>>, gauges |-> {}]

SurveyInit ==
  /\ smRepo \in [Adapters -> (UNION {AdapterSays(a) : a \in Adapters}) \cup {NoSurvey}]
  /\ \A a \in Adapters : smRepo[a] \in AdapterSays(a) \cup {NoSurvey}
  /\ smRun = [r \in SmRuns |-> NotRun]
  /\ smSurvey = NoSurvey /\ smGauges = NoSurvey
  /\ smOwn = [a \in Adapters |-> NoSurvey]
  /\ smMixed = FALSE

----------------------------------------------------------------------------
(* mergeSurveys; `read` is the sequence of [name, survey] of the adapters that ran *)

\* web yields to any adapter of a real stack.
Contributes(read, i) == ~ (read[i].name = "web" /\ \E j \in DOMAIN read : read[j].name # "web")

Contributors(read) == {read[i] : i \in {j \in DOMAIN read : Contributes(read, j)}}

\* Mutant: a name that several adapters found is kept as it is.
Unqualified(results) ==
  UNION {{[by |-> x.name, ref |-> <<s.name>>, of |-> s] : s \in x.survey.schemas} : x \in results}

\* A name that more than one schema has carries the name of the adapter; two of one adapter
\* still share it.
Collides(results, x, s) ==
  \E y \in results : \E t \in y.survey.schemas : t.name = s.name /\ (y # x \/ t # s)
mergeSchemas(results) ==
  UNION {{[by |-> x.name, of |-> s,
           ref |-> IF Collides(results, x, s) THEN <<x.name, s.name>> ELSE <<s.name>>] :
          s \in x.survey.schemas} : x \in results}

mergeSurveys(read) ==
  [stack |-> {x.name : x \in Contributors(read)},
   schemas |-> mergeSchemas(Contributors(read)),
   adapters |-> {read[i].name : i \in DOMAIN read}]

----------------------------------------------------------------------------
(* runSurveyAndWrite *)

StartSurvey(r) ==
  /\ smRun[r].at = "unused"
  /\ smRun' = [smRun EXCEPT ![r].at = "reading"]
  /\ UNCHANGED <<smRepo, smSurvey, smGauges, smOwn, smMixed>>

\* detect(), and survey() where it says yes; a survey has no gauges in it.
AskAdapter(r) ==
  /\ smRun[r].at = "reading" /\ smRun[r].next <= Len(SURVEY_ADAPTERS)
  /\ LET a == SURVEY_ADAPTERS[smRun[r].next]
     IN smRun' = [smRun EXCEPT ![r].next = @ + 1,
                    ![r].read = IF smRepo[a] = NoSurvey THEN @
                                ELSE Append(@, [name |-> a, survey |-> [smRepo[a] EXCEPT !.gauges = {}]])]
  /\ UNCHANGED <<smRepo, smSurvey, smGauges, smOwn, smMixed>>

\* mergeSurveys, and on to the gauges.
Merged(r) ==
  /\ smRun[r].at = "reading" /\ smRun[r].next > Len(SURVEY_ADAPTERS)
  /\ smRun' = [smRun EXCEPT ![r].at = "collecting", ![r].next = 1]
  /\ UNCHANGED <<smRepo, smSurvey, smGauges, smOwn, smMixed>>

RanIn(r, a) == \E x \in ToSet(smRun[r].read) : x.name = a

\* What the styles hold by now, whatever the survey read before.
GaugesNow(a) == IF smRepo[a] = NoSurvey THEN {} ELSE smRepo[a].gauges

\* collectGauges: an adapter that ran is asked once more; web adds what angular did not see.
CollectGauges(r) ==
  /\ smRun[r].at = "collecting" /\ smRun[r].next <= Len(GAUGE_READERS)
  /\ LET a     == GAUGE_READERS[smRun[r].next]
         known == {g.name : g \in smRun[r].gauges}
         fresh == IF RanIn(r, a) THEN GaugesNow(a) \ known ELSE {}
     IN smRun' = [smRun EXCEPT ![r].next = @ + 1,
                    ![r].gauges = @ \cup {[by |-> a, name |-> g] : g \in fresh}]
  /\ UNCHANGED <<smRepo, smSurvey, smGauges, smOwn, smMixed>>

\* A run that finds no other between its two writes has the files to itself.
WriteSurvey(r) ==
  /\ smRun[r].at = "collecting" /\ smRun[r].next > Len(GAUGE_READERS)
  /\ smSurvey' = [by |-> r, of |-> mergeSurveys(smRun[r].read)]
  /\ smRun' = [smRun EXCEPT ![r].at = "gauges"]
  /\ smMixed' = (\E q \in SmRuns : smRun[q].at = "gauges")
  /\ UNCHANGED <<smRepo, smGauges, smOwn>>

\* Mutant: gauges.json is left as it is where no adapter read any.
KeepsOldGauges(r, new) == IF new = {} /\ smGauges # NoSurvey THEN smGauges ELSE [by |-> r, of |-> new]

\* An empty set of gauges is written too.
GaugesFile(r, new) == [by |-> r, of |-> new]

WriteGauges(r) ==
  /\ smRun[r].at = "gauges"
  /\ smGauges' = GaugesFile(r, smRun[r].gauges)
  /\ smRun' = [smRun EXCEPT ![r].at = "own", ![r].next = 1]
  /\ UNCHANGED <<smRepo, smSurvey, smOwn, smMixed>>

\* The adapters' own files; the file of one that no longer knows the repo stays.
WriteOwn(r) ==
  /\ smRun[r].at = "own"
  /\ smOwn' = [a \in Adapters |-> IF RanIn(r, a) THEN r ELSE smOwn[a]]
  /\ smRun' = [smRun EXCEPT ![r] = [NotRun EXCEPT !.at = "done"]]
  /\ UNCHANGED <<smRepo, smSurvey, smGauges, smMixed>>

\* A write is refused, or the process stops.
Aborted(r) ==
  /\ smRun[r].at \in {"reading", "collecting", "gauges", "own"}
  /\ smRun' = [smRun EXCEPT ![r] = [NotRun EXCEPT !.at = "done"]]
  /\ smMixed' = (smMixed \/ smRun[r].at = "gauges")
  /\ UNCHANGED <<smRepo, smSurvey, smGauges, smOwn>>

\* External: the repo changes until an adapter no longer knows it.
RepoLoses(a) ==
  /\ smRepo[a] # NoSurvey
  /\ smRepo' = [smRepo EXCEPT ![a] = NoSurvey]
  /\ UNCHANGED <<smRun, smSurvey, smGauges, smOwn, smMixed>>

\* External: a person edits the styles of the app.
StylesEdited(a, gauges) ==
  /\ smRepo[a] # NoSurvey /\ [smRepo[a] EXCEPT !.gauges = gauges] \in AdapterSays(a)
  /\ smRepo' = [smRepo EXCEPT ![a].gauges = gauges]
  /\ UNCHANGED <<smRun, smSurvey, smGauges, smOwn, smMixed>>

SurveyNext ==
  \/ \E r \in SmRuns : \/ StartSurvey(r) \/ AskAdapter(r) \/ Merged(r) \/ CollectGauges(r)
                       \/ WriteSurvey(r) \/ WriteGauges(r) \/ WriteOwn(r) \/ Aborted(r)
  \/ \E a \in Adapters : RepoLoses(a) \/ \E gauges \in SUBSET SmGauges : StylesEdited(a, gauges)

----------------------------------------------------------------------------

SurveyTypeOK ==
  /\ \A a \in Adapters : smRepo[a] \in AdapterSays(a) \cup {NoSurvey} /\ smOwn[a] \in SmRuns \cup {NoSurvey}
  /\ \A r \in SmRuns : /\ smRun[r].at \in {"unused", "reading", "collecting", "gauges", "own", "done"}
                       /\ smRun[r].next \in 1 .. Len(SURVEY_ADAPTERS) + 1
                       /\ smRun[r].gauges \subseteq Gauges
                       /\ \A i \in DOMAIN smRun[r].read : smRun[r].read[i].survey \in AdapterSays(smRun[r].read[i].name)
  /\ smMixed \in BOOLEAN

\* In the merged survey no name is shared by schemas of two adapters, whichever ran; a name
\* that carries no adapter belongs to one schema only (two of one adapter share theirs, with
\* its name: survey/merge.ts); and web is part of the stack only by itself.
MergedApart ==
  smSurvey # NoSurvey =>
    /\ \A s, t \in smSurvey.of.schemas : s.ref = t.ref => s.by = t.by /\ (Len(s.ref) = 1 => s = t)
    /\ "web" \in smSurvey.of.stack => smSurvey.of.adapters = {"web"}

\* survey.json and gauges.json are written one after the other, and nothing keeps bench and
\* command line apart: two runs may leave the survey of one with the gauges of the other, and
\* so may a run that stops between its two writes.  However they were mixed, the next run that
\* has the files to itself from its first write to its second puts them right; until another
\* disturbs them, both files are of one run.  What gauges.json holds is nevertheless read later
\* than what survey.json does (survey/run.ts).
SurveyAndGaugesAgree ==
  (~ smMixed /\ smSurvey # NoSurvey /\ ~ \E r \in SmRuns : smRun[r].at = "gauges")
    => smGauges # NoSurvey /\ smGauges.by = smSurvey.by

----------------------------------------------------------------------------
(* What the survey says of a pick *)

CONSTANTS ScNames,  \* class names of components
          ScFiles,  \* files of components
          ScNouns,  \* words that a request may use and an endpoint may answer to
          Unnamed,  \* a pick without a component, or without a file; no component found
          NotYet    \* nothing was looked up

VARIABLES scSurvey,  \* the survey: components in its order, routed ones, endpoints, gauges
          scPick,    \* the pick: what component and file the loupe claims
          scWords,   \* the request: the nouns in it, and whether it speaks of navigation
          scFace,    \* buildShopFace()'s
          scContext, \* buildPromptContext()'s
          scDraft    \* what the drafter is told
surveyContextVars == <<scSurvey, scPick, scWords, scFace, scContext, scDraft>>

ComponentShapes == {"inline", "styled"}   \* an inline template; one of its own, with styles
Components == [name : ScNames, file : ScFiles, shape : ComponentShapes]
Of(what, f) == [what |-> what, of |-> f]

\* Angular's dev build puts an underscore before the name of a class.
Decorated(n) == <<"_", n>>
stripDecoration(n) == IF n \in {Decorated(m) : m \in ScNames} THEN n[2] ELSE n
PickedNames == ScNames \cup {Decorated(n) : n \in ScNames} \cup {Unnamed}

NotMade == [component |-> NotYet, files |-> {}, tests |-> {}, routes |-> {}, endpoints |-> {}, gauges |-> {}]

NothingSurveyed == [components |-> <<>>, routed |-> {}, endpoints |-> {}]

SurveyContextInit ==
  /\ scSurvey = NothingSurveyed
  /\ scPick = [component |-> Unnamed, file |-> Unnamed, text |-> {}]
  /\ scWords = [nouns |-> {}, navigates |-> FALSE]
  /\ scFace = NotMade /\ scContext = NotMade /\ scDraft = NotMade

\* External: the repo was surveyed, and a person picks an element and says what they want.  A
\* class is declared once, and the survey lists it once.
PersonPicks(components, routed, pick, words) ==
  /\ scSurvey = NothingSurveyed
  /\ \A i, j \in DOMAIN components : components[i].name = components[j].name => i = j
  /\ scSurvey' = [components |-> components, routed |-> routed, endpoints |-> ScNouns]
  /\ scPick' = pick /\ scWords' = words
  /\ UNCHANGED <<scFace, scContext, scDraft>>

----------------------------------------------------------------------------
(* Looking the component up *)

\* Array.find: the component at the first of these places of the survey.
FirstAt(places) ==
  IF places = {} THEN Unnamed
  ELSE scSurvey.components[CHOOSE i \in places : \A j \in places : i <= j]
PlacesOf(name) == {i \in DOMAIN scSurvey.components : scSurvey.components[i].name = name}
PlacesIn(file) == {i \in DOMAIN scSurvey.components : scSurvey.components[i].file = file}

ByName == FirstAt(PlacesOf(scPick.component))
ByFile == FirstAt(PlacesIn(scPick.file))
ByStrippedName ==
  IF scPick.component = Unnamed THEN Unnamed ELSE FirstAt(PlacesOf(stripDecoration(scPick.component)))

\* shop-face.ts: the name decides, then the file.
findComponent == IF ByName # Unnamed THEN ByName ELSE ByFile

\* Mutant: the decoration is stripped before the file is asked.
StrippedFirst == IF ByStrippedName # Unnamed THEN ByStrippedName ELSE ByFile

\* prompts/context.ts: and last, the name the dev build decorated.
findTarget == IF ByName # Unnamed THEN ByName ELSE IF ByFile # Unnamed THEN ByFile ELSE ByStrippedName

\* ollama.ts: the first that has the name or the file.
DrafterFinds == FirstAt(PlacesOf(scPick.component) \cup PlacesIn(scPick.file))

----------------------------------------------------------------------------

\* The class, and its template and styles unless they are inline.
OwnFiles(c) ==
  {Of("class", c.file)} \cup (IF c.shape = "inline" THEN {} ELSE {Of("template", c.file), Of("style", c.file)})

\* The nouns of a component's own name and selector count with those of the request.
nounsFrom(c) == scWords.nouns \cup (IF c = Unnamed THEN {} ELSE {c.name} \cap ScNouns)
matchingEndpoints(c) == scSurvey.endpoints \cap nounsFrom(c)

\* The file the pick claims, which nothing in the survey stands for.
ClaimedFile == IF scPick.file = Unnamed THEN {} ELSE {Of("class", scPick.file)}

\* In a shop face an unmatched pick adds no file.  (Mutant: it adds ClaimedFile.)
FilesOfNone == {}

buildShopFace ==
  LET c     == findComponent
      eps   == matchingEndpoints(c)
      route == IF c # Unnamed /\ c.name \in scSurvey.routed /\ scWords.navigates
               THEN {Of("route", c.name)} ELSE {}
      own   == IF c = Unnamed THEN FilesOfNone ELSE OwnFiles(c) \cup {Of("spec", c.file)} \cup route
  IN [component |-> c, files |-> own \cup {Of("endpoint", n) : n \in eps},
      tests |-> (IF c = Unnamed THEN {} ELSE {Of("spec", c.file)}) \cup {Of("test", n) : n \in eps},
      routes |-> route, endpoints |-> eps, gauges |-> {}]

RoutesOf(c) == IF c = Unnamed THEN {} ELSE {Of("route", n) : n \in {c.name} \cap scSurvey.routed}

\* Every file of styles uses a gauge of its own; the context has those its files use.  Where
\* the survey knows nothing, what the pick claims is good enough.
buildPromptContext ==
  LET c   == findTarget
      own == IF c = Unnamed THEN ClaimedFile ELSE OwnFiles(c)
  IN [component |-> c, files |-> own, tests |-> {}, routes |-> RoutesOf(c),
      endpoints |-> matchingEndpoints(c), gauges |-> {f \in own : f.what = "style"}]

\* The drafter's nouns are those of the pick: its component's name and the text on the page.
nounsFor == scPick.text \cup (IF scPick.component = Unnamed THEN {} ELSE {stripDecoration(scPick.component)})
relatedEndpoints == scSurvey.endpoints \cap nounsFor

buildPrompt ==
  [component |-> DrafterFinds, files |-> {}, tests |-> {}, routes |-> RoutesOf(DrafterFinds),
   endpoints |-> relatedEndpoints, gauges |-> {}]

\* draft(), then release(); and ready(), of the same pick: each looks it up for itself.
ReleaseOrder ==
  /\ scDraft # NotMade /\ scFace = NotMade /\ scFace' = buildShopFace
  /\ UNCHANGED <<scSurvey, scPick, scWords, scContext, scDraft>>

ReadyPrompt ==
  /\ scSurvey # NothingSurveyed /\ scContext = NotMade /\ scContext' = buildPromptContext
  /\ UNCHANGED <<scSurvey, scPick, scWords, scFace, scDraft>>

DraftOrder ==
  /\ scSurvey # NothingSurveyed /\ scDraft = NotMade /\ scDraft' = buildPrompt
  /\ UNCHANGED <<scSurvey, scPick, scWords, scFace, scContext>>

SurveyContextNext ==
  \/ scSurvey = NothingSurveyed /\ \E components \in BoundedSeq(Components, 2), routed \in {{}, ScNames},
        name \in PickedNames, file \in ScFiles \cup {Unnamed}, text \in {{}, ScNouns},
        nouns \in SUBSET ScNouns, navigates \in BOOLEAN :
          PersonPicks(components, routed, [component |-> name, file |-> file, text |-> text],
                      [nouns |-> nouns, navigates |-> navigates])
  \/ ReleaseOrder \/ ReadyPrompt \/ DraftOrder

----------------------------------------------------------------------------

FilesNamed == [what : {"class", "template", "style", "spec", "route", "endpoint", "test"},
               of : ScFiles \cup ScNames \cup ScNouns]
Made == [component : Components \cup {Unnamed, NotYet}, files : SUBSET FilesNamed,
         tests : SUBSET FilesNamed, routes : SUBSET FilesNamed, endpoints : SUBSET ScNouns, gauges : SUBSET FilesNamed]

SurveyContextTypeOK == {scFace, scContext, scDraft} \subseteq Made

\* What a file of the survey belongs to: a component, one of its routes, an endpoint.
Surveyed ==
  (UNION {OwnFiles(c) \cup {Of("spec", c.file)} : c \in ToSet(scSurvey.components)})
    \cup {Of("route", n) : n \in scSurvey.routed} \cup {Of("endpoint", n) : n \in scSurvey.endpoints}

\* A work order sends the shop only to files that follow from the survey; a file that only the
\* pick claims is never among them.  shop-face.ts: "this layer never writes down a file it
\* hasn't proven belongs to the app".  The context of a prompt does name such a file, but alone
\* and only if no component was found by name, file or stripped name (prompts/context.ts).
FilesProven ==
  /\ scFace.files \subseteq Surveyed
  /\ scContext.files \subseteq Surveyed \/ (scContext.component = Unnamed /\ scContext.files = ClaimedFile)

\* A pick that becomes a work order and one that becomes a prompt are about the same component
\* wherever both find one, and the work order then has every file of the prompt: prompts/
\* context.ts copies the look-up of shop-face.ts, and the copies must not come apart.
FaceAndContextAgree ==
  {scFace.component, scContext.component} \cap {Unnamed, NotYet} = {} =>
    /\ scFace.component = scContext.component
    /\ scContext.files \subseteq scFace.files /\ scContext.endpoints = scFace.endpoints
=============================================================================
