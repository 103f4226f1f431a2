----------------------------- MODULE SketchDesk ------------------------------
(***************************************************************************)
(* bench/src/sketch/sketchWorkspace.ts, SketchSheet.tsx and                *)
(* SketchProperties.tsx: the page's own copy of one sketch, its unsaved    *)
(* edits and its scrap bin.  Requests are answered in any order, and every *)
(* answer replaces the sheet with what the server then had.  The store     *)
(* under it is SheetStore's; here each request is served at once.          *)
(***************************************************************************)
EXTENDS Naturals, Sequences, FiniteSets

CONSTANTS
  MaxSketches, \* bound: sketches made; the server numbers them from 1
  MaxElements, \* bound: elements ever drawn
  MaxSketchCalls, \* bound: requests made
  NoSketch

ASSUME SketchAssumption ==
  {MaxSketches, MaxElements, MaxSketchCalls} \subseteq Nat \ {0}

VARIABLES
  sketchFiles,    \* the server's sketches: elements, links, scrapped
  activeSketch,   \* the sheet, with unsaved edits
  savedSketch,    \* what `printed` goes back to
  selectedElement, \* selectedElementId, 0 is null
  scrapBin,
  elementSeq,     \* the page's counter of element ids
  drawn,          \* elements ever drawn (history): names them apart
  sketchAsked,    \* requests made so far
  sketchCalls     \* requests on their way, or answered and not yet landed

sheetCopy == <<activeSketch, savedSketch, selectedElement, scrapBin>>
sketchVars == <<sketchFiles, sheetCopy, elementSeq, drawn, sketchAsked, sketchCalls>>

\* An element: its id, where it is (or how it is styled, labelled, sized), and, for
\* the properties only, which of all the elements drawn it is and on which sketch.
Element == [id : 1..MaxElements, at : {0, 1}, born : 1..MaxElements, on : 1..MaxSketches]
Sketch == [id : 1..MaxSketches, elements : SUBSET Element, links : SUBSET (1..MaxElements)]
ASSUME NoSketchIsNone == NoSketch \notin Sketch
CallKinds == {"new", "open", "save", "scrap", "restore"}

\* The values the workspace ranges over.
SketchTypeOK ==
  /\ {activeSketch, savedSketch} \subseteq Sketch \cup {NoSketch}
  /\ \A i \in DOMAIN sketchFiles : sketchFiles[i].sketch \in Sketch /\ sketchFiles[i].scrapped \in BOOLEAN
  /\ selectedElement \in 0..MaxElements
  /\ scrapBin \subseteq Element
  /\ elementSeq \in 0..MaxElements /\ drawn \in 0..MaxElements /\ sketchAsked \in 0..MaxSketchCalls
  /\ \A c \in sketchCalls : c.kind \in CallKinds /\ c.body \in Sketch \cup {NoSketch} /\ c.served \in BOOLEAN

SketchInit ==
  /\ sketchFiles = <<>> /\ sketchCalls = {} /\ sketchAsked = 0
  /\ activeSketch = NoSketch /\ savedSketch = NoSketch
  /\ selectedElement = 0 /\ scrapBin = {} /\ elementSeq = 0 /\ drawn = 0

----------------------------------------------------------------------------
(* Drawing on the sheet *)

Opened == activeSketch # NoSketch
Ids == {e.id : e \in activeSketch.elements}
ElementSelected == Opened /\ selectedElement \in Ids
dirty == activeSketch # savedSketch

\* The page counts its own elements, whatever ids the sketch it opened has.
addElement ==
  /\ Opened /\ drawn < MaxElements /\ elementSeq < MaxElements
  /\ elementSeq' = elementSeq + 1 /\ drawn' = drawn + 1
  /\ activeSketch' = [activeSketch EXCEPT !.elements = @ \cup
       {[id |-> elementSeq + 1, at |-> 0, born |-> drawn + 1, on |-> activeSketch.id]}]
  /\ selectedElement' = elementSeq + 1
  /\ UNCHANGED <<sketchFiles, savedSketch, scrapBin, sketchAsked, sketchCalls>>

selectElement(id) ==
  /\ selectedElement # id
  /\ selectedElement' = id
  /\ UNCHANGED <<sketchFiles, activeSketch, savedSketch, scrapBin, elementSeq, drawn, sketchAsked, sketchCalls>>

\* moveElement, placeElementAt, resizeElement, setElementGauge, setElementText: every
\* element of the id is changed.
Changed(id) ==
  /\ activeSketch' = [activeSketch EXCEPT !.elements =
       {IF e.id = id THEN [e EXCEPT !.at = 1] ELSE e : e \in @}]
  /\ UNCHANGED <<sketchFiles, savedSketch, selectedElement, scrapBin, elementSeq, drawn, sketchAsked, sketchCalls>>

\* A drag goes on with the id it began with, whatever is selected or opened meanwhile.
DragElement(id) == Changed(id)

\* The properties column edits what is selected.
EditSelected == ElementSelected /\ Changed(selectedElement)

setElementLink ==
  /\ ElementSelected
  /\ activeSketch' = [activeSketch EXCEPT !.links = @ \cup {selectedElement}]
  /\ UNCHANGED <<sketchFiles, savedSketch, selectedElement, scrapBin, elementSeq, drawn, sketchAsked, sketchCalls>>

clearElementLink ==
  /\ ElementSelected /\ selectedElement \in activeSketch.links
  /\ activeSketch' = [activeSketch EXCEPT !.links = @ \ {selectedElement}]
  /\ UNCHANGED <<sketchFiles, savedSketch, selectedElement, scrapBin, elementSeq, drawn, sketchAsked, sketchCalls>>

\* Mutant: the scrapped element's links stay.
LinksKept(id) == activeSketch.links

LinksWithout(id) == activeSketch.links \ {id}

\* `find` takes the first element of the id, `filter` drops every one.
scrapSelected ==
  /\ ElementSelected
  /\ \E e \in activeSketch.elements :
       /\ e.id = selectedElement
       /\ \A other \in activeSketch.elements : other.id = e.id => e.born <= other.born
       /\ scrapBin' = scrapBin \cup {e}
  /\ activeSketch' = [activeSketch EXCEPT !.elements = {e \in @ : e.id # selectedElement},
                                          !.links = LinksWithout(selectedElement)]
  /\ selectedElement' = 0
  /\ UNCHANGED <<sketchFiles, savedSketch, elementSeq, drawn, sketchAsked, sketchCalls>>

\* Delete or Backspace, outside of a text field.
PressDelete == selectedElement # 0 /\ scrapSelected

restoreScrapped(element) ==
  /\ Opened
  /\ activeSketch' = [activeSketch EXCEPT !.elements = @ \cup {element}]
  /\ scrapBin' = {e \in scrapBin : e.id # element.id}
  /\ UNCHANGED <<sketchFiles, savedSketch, selectedElement, elementSeq, drawn, sketchAsked, sketchCalls>>

printed ==
  /\ Opened /\ dirty
  /\ activeSketch' = savedSketch /\ scrapBin' = {} /\ selectedElement' = 0
  /\ UNCHANGED <<sketchFiles, savedSketch, elementSeq, drawn, sketchAsked, sketchCalls>>

----------------------------------------------------------------------------
(* Requests *)

AskSketch(kind, body) ==
  /\ sketchAsked < MaxSketchCalls /\ sketchAsked' = sketchAsked + 1
  /\ sketchCalls' = sketchCalls \cup {[kind |-> kind, body |-> body, served |-> FALSE, n |-> sketchAsked]}
  /\ UNCHANGED <<sketchFiles, sheetCopy, elementSeq, drawn>>

\* The sheets to open, scrap and restore are listed while none is open.
BrowserShows == ~Opened

newSketch == BrowserShows /\ Len(sketchFiles) < MaxSketches /\ AskSketch("new", NoSketch)
openSketch(i) == BrowserShows /\ AskSketch("open", sketchFiles[i].sketch)
scrapSketch(i) == BrowserShows /\ ~sketchFiles[i].scrapped /\ AskSketch("scrap", sketchFiles[i].sketch)
restoreSketch(i) == BrowserShows /\ sketchFiles[i].scrapped /\ AskSketch("restore", sketchFiles[i].sketch)
save == Opened /\ dirty /\ AskSketch("save", activeSketch)

\* The server serves a request; the answer is the sketch as it then is.
SketchServed(c) ==
  /\ ~c.served
  /\ LET fresh == [id |-> Len(sketchFiles) + 1, elements |-> {}, links |-> {}]
         i == IF c.kind = "new" THEN Len(sketchFiles) + 1 ELSE c.body.id
     IN /\ c.kind = "new" => Len(sketchFiles) < MaxSketches
        /\ \/ c.kind = "new" /\ sketchFiles' = Append(sketchFiles, [sketch |-> fresh, scrapped |-> FALSE])
           \/ c.kind = "open" /\ UNCHANGED sketchFiles
           \/ c.kind = "save" /\ sketchFiles' = [sketchFiles EXCEPT ![i].sketch = c.body]
           \/ c.kind \in {"scrap", "restore"} /\ sketchFiles' = [sketchFiles EXCEPT ![i].scrapped = (c.kind = "scrap")]
        /\ sketchCalls' = (sketchCalls \ {c}) \cup {[c EXCEPT !.body = sketchFiles'[i].sketch, !.served = TRUE]}
  /\ UNCHANGED <<sheetCopy, elementSeq, drawn, sketchAsked>>

\* Mutant: a sketch that is opened leaves the bin as it was.
BinKept(c) == scrapBin

\* An answer that puts a sketch on the sheet empties the bin.
BinAfter(c) == {}

\* Mutant: only the sheet is replaced.
SavedKept(c) == savedSketch

SavedAfter(c) == c.body

\* newSketch, openSketch and save all put the answer on the sheet.
SheetReplaced(c) ==
  /\ activeSketch' = c.body /\ savedSketch' = SavedAfter(c) /\ scrapBin' = BinAfter(c)
  /\ selectedElement' = IF c.kind = "save" THEN selectedElement ELSE 0

\* The sketch that was scrapped is closed, if it is the one on the sheet by then.
SheetClosed(c) ==
  IF Opened /\ activeSketch.id = c.body.id
  THEN activeSketch' = NoSketch /\ savedSketch' = NoSketch /\ selectedElement' = 0 /\ scrapBin' = {}
  ELSE UNCHANGED sheetCopy

SketchLands(c) ==
  /\ c.served
  /\ sketchCalls' = sketchCalls \ {c}
  /\ \/ c.kind = "scrap" /\ SheetClosed(c)
     \/ c.kind = "restore" /\ UNCHANGED sheetCopy
     \/ c.kind \in {"new", "open", "save"} /\ SheetReplaced(c)
  /\ UNCHANGED <<sketchFiles, elementSeq, drawn, sketchAsked>>

\* An answer with an error, or none: the sheet stays, with a message, except that
\* scrapSketch does not look at its answer.
SketchRefused(c) ==
  /\ sketchCalls' = sketchCalls \ {c}
  /\ UNCHANGED sheetCopy \/ (c.kind = "scrap" /\ SheetClosed(c))
  /\ UNCHANGED <<sketchFiles, elementSeq, drawn, sketchAsked>>

\* The page is loaded again: all that is not on the server is gone, the counter too.
SketchReload ==
  /\ activeSketch' = NoSketch /\ savedSketch' = NoSketch
  /\ selectedElement' = 0 /\ scrapBin' = {} /\ elementSeq' = 0
  /\ sketchCalls' = {}
  /\ UNCHANGED <<sketchFiles, drawn, sketchAsked>>

SketchNext ==
  \/ addElement
  \/ Opened /\ \E id \in Ids : selectElement(id) \/ DragElement(id)
  \/ EditSelected \/ setElementLink \/ clearElementLink \/ PressDelete
  \/ \E e \in scrapBin : restoreScrapped(e)
  \/ printed \/ newSketch \/ save
  \/ \E i \in DOMAIN sketchFiles : openSketch(i) \/ scrapSketch(i) \/ restoreSketch(i)
  \/ \E c \in sketchCalls : SketchServed(c) \/ SketchLands(c) \/ SketchRefused(c)
  \/ SketchReload

SketchSpec == SketchInit /\ [][SketchNext]_sketchVars

----------------------------------------------------------------------------
(* Properties *)

\* `printed` never turns the sheet into another sketch: the sheet and its saved
\* state are of one sketch, or neither is there, however the answers to new, open,
\* save and scrap overtake each other (sketchWorkspace.ts 314-317).
PrintedIsThisSheet ==
  /\ Opened <=> savedSketch # NoSketch
  /\ Opened => activeSketch.id = savedSketch.id

\* What was drawn on a sketch stays on it: neither the sheet, nor the bin that may
\* be put back on it, nor a file the server keeps has an element of another sketch
\* (sketchWorkspace.ts 33-34, "Cleared on save/printed/opening a different sketch").
DrawnWhereItStands ==
  /\ Opened => \A e \in activeSketch.elements \cup scrapBin : e.on = activeSketch.id
  /\ \A i \in DOMAIN sketchFiles : \A e \in sketchFiles[i].sketch.elements : e.on = i

\* Every hotspot starts at an element that is on the sheet, also on the sheets the
\* server keeps (sketchWorkspace.ts 254-265, 280-287).
HotspotsHaveElements ==
  LET Sound(s) == s.links \subseteq {e.id : e \in s.elements}
  IN /\ Opened => Sound(activeSketch)
     /\ \A i \in DOMAIN sketchFiles : Sound(sketchFiles[i].sketch)

=============================================================================
