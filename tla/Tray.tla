-------------------------------- MODULE Tray ---------------------------------
(***************************************************************************)
(* bench/src/orders/TrayRegion.tsx: the work order tray, a component that  *)
(* App.tsx no longer mounts and that is kept compiling.  The orders change *)
(* under it (a broadcast), the selection follows them, and a pick of the   *)
(* plate opens its prompt, while a field is being typed in or the release  *)
(* button is held.                                                         *)
(***************************************************************************)
EXTENDS Naturals, Sequences

CONSTANTS
  MaxOrders,    \* bound: work orders there are; the server numbers them from 1
  MaxTrayPicks, \* bound: loupe picks; each is an object of its own, numbered from 1
  TrayOath      \* --t-oath, in ticks

ASSUME TrayAssumption == {MaxOrders, MaxTrayPicks, TrayOath} \subseteq Nat \ {0}

VARIABLES
  trayOrders,  \* the workOrders prop: state and `what` of order 1, 2, ...
  selectedId,  \* 0 is null
  expanded,    \* the spine is open
  trayTool,    \* useTool()'s tool
  trayPick,    \* the lastPick prop
  handledPick, \* handledPick.current
  prompt,      \* promptOpen, and the pick promptValue was typed for
  field,       \* the `what` field's draft
  release,     \* ReleaseControl: the timer's age and the order of its closure
  pointer,     \* the pointer on the button: the order it went down on, and for how long
  posted       \* the request the last step sent: the verb and the order, 0 for a mark

traySheetVars == <<trayOrders, selectedId, expanded, trayTool, trayPick, handledPick, prompt>>
trayHold == <<release, pointer>>
trayVars == <<traySheetVars, field, trayHold, posted>>

\* The rungs after "released" are one to the tray: the order is no longer edited.
TrayRungs == {"marked", "drafted", "released", "scrapped"}
Whats == {"blank", "typed"}
OrderIds == 1..MaxOrders
NoTimer == [on |-> FALSE, of |-> 0, age |-> 0]
NoPointer == [of |-> 0, age |-> 0]
Request(verb, id) == [verb |-> verb, id |-> id]
NoTrayRequest == Request("none", 0)
SendsNothing == posted' = NoTrayRequest

\* The values the tray's state ranges over.
TrayTypeOK ==
  /\ trayOrders \in Seq([rung : TrayRungs, what : Whats]) /\ Len(trayOrders) <= MaxOrders
  /\ selectedId \in 0..MaxOrders
  /\ expanded \in BOOLEAN
  /\ trayTool \in {"hand", "point"}
  /\ {trayPick, handledPick} \subseteq 0..MaxTrayPicks
  /\ prompt \in [open : BOOLEAN, typedFor : 0..MaxTrayPicks]
  /\ field \in Whats
  /\ release \in [on : BOOLEAN, of : 0..MaxOrders, age : 0..TrayOath]
  /\ pointer \in [of : 0..MaxOrders, age : 0..TrayOath]

TrayInit ==
  /\ trayOrders = <<>> /\ selectedId = 0
  /\ expanded = FALSE
  /\ trayTool = "hand" /\ trayPick = 0 /\ handledPick = 0
  /\ prompt = [open |-> FALSE, typedFor |-> 0]
  /\ field = "blank" /\ release = NoTimer /\ pointer = NoPointer
  /\ posted = NoTrayRequest

----------------------------------------------------------------------------
(* What the tray shows *)

\* `selected`: the order selected, or the newest one.
SelectedOf(os, id) == IF id \in DOMAIN os THEN id ELSE Len(os)
Selected == SelectedOf(trayOrders, selectedId)
Rung == trayOrders[Selected].rung

PromptShows == prompt.open /\ trayPick # 0
SheetShows == ~PromptShows /\ trayOrders # <<>> /\ ~expanded
editable == Rung \in {"marked", "drafted"}

\* ReleaseControl's unmount effect.
ButtonGoes == release' = NoTimer

\* The effects of a render: a field is set again when the value under it changed;
\* a sheet that goes takes draft, timer and hold with it and comes back fresh.
Rendered ==
  /\ field' = IF ~SheetShows' THEN "blank"
              ELSE IF SheetShows /\ trayOrders[Selected].what = trayOrders'[Selected'].what THEN field
              ELSE trayOrders'[Selected'].what
  /\ IF SheetShows /\ SheetShows' THEN UNCHANGED trayHold
     ELSE ButtonGoes /\ pointer' = NoPointer
  /\ SendsNothing

----------------------------------------------------------------------------
(* Broadcasts: a mark, a draft, an edit, a release or a scrap, here or elsewhere. *)

OrderMarked ==
  /\ Len(trayOrders) < MaxOrders
  /\ trayOrders' = Append(trayOrders, [rung |-> "marked", what |-> "blank"])
  /\ UNCHANGED <<selectedId, expanded, trayTool, trayPick, handledPick, prompt>>
  /\ Rendered

TrayMoves == {<<"marked", "drafted">>, <<"drafted", "released">>, <<"scrapped", "marked">>}
           \cup {<<r, "scrapped">> : r \in TrayRungs}

TrayOrderMoves(i, rung, what) ==
  /\ <<trayOrders[i].rung, rung>> \in TrayMoves
  /\ trayOrders' = [trayOrders EXCEPT ![i] = [rung |-> rung, what |-> what]]
  /\ UNCHANGED <<selectedId, expanded, trayTool, trayPick, handledPick, prompt>>
  /\ Rendered

----------------------------------------------------------------------------
(* Picks and the prompt *)

\* Mutant: the prompt keeps the words typed for the pick before.
OpenAsItWas == [prompt EXCEPT !.open = TRUE]

\* setPromptOpen(true), setPromptValue('')
OpenEmpty == [open |-> TRUE, typedFor |-> 0]

\* The effect on [tool, lastPick].
PickEffect ==
  prompt' = IF trayTool' = "point" /\ trayPick' \notin {0, handledPick} THEN OpenEmpty ELSE prompt

\* A pick posted in loupe mode may still arrive under the hand.
PickArrives ==
  /\ trayPick < MaxTrayPicks /\ trayPick' = trayPick + 1
  /\ UNCHANGED <<trayOrders, selectedId, expanded, trayTool, handledPick>>
  /\ PickEffect
  /\ Rendered

ToolTurns ==
  /\ trayTool' = IF trayTool = "hand" THEN "point" ELSE "hand"
  /\ UNCHANGED <<trayOrders, selectedId, expanded, trayPick, handledPick>>
  /\ PickEffect
  /\ Rendered

TypePrompt ==
  /\ PromptShows
  /\ prompt' = [prompt EXCEPT !.typedFor = trayPick]
  /\ UNCHANGED <<trayOrders, selectedId, expanded, trayTool, trayPick, handledPick, field, trayHold>>
  /\ SendsNothing

PromptShuts ==
  /\ PromptShows
  /\ prompt' = [prompt EXCEPT !.open = FALSE] /\ handledPick' = trayPick
  /\ UNCHANGED <<trayOrders, selectedId, expanded, trayTool, trayPick, trayHold>>
  /\ field' = IF SheetShows' THEN trayOrders[Selected].what ELSE "blank"

\* The order that is made is selected when the answer comes: MarkAnswers.
submitMark ==
  /\ prompt.typedFor # 0
  /\ PromptShuts
  /\ posted' = Request("mark", 0)

cancelMark == PromptShuts /\ SendsNothing

----------------------------------------------------------------------------
(* The selection, the spine and the sheet *)

\* 'jig:select-order', or a card of the spine.
SelectOrder(id) ==
  /\ selectedId' = id /\ expanded' = FALSE
  /\ UNCHANGED <<trayOrders, trayTool, trayPick, handledPick, prompt>>
  /\ Rendered

\* The order a mark made is selected, whatever is open by then.
MarkAnswers(id) ==
  /\ handledPick # 0
  /\ selectedId' = id
  /\ UNCHANGED <<trayOrders, expanded, trayTool, trayPick, handledPick, prompt>>
  /\ Rendered

Expand ==
  /\ SheetShows
  /\ expanded' = TRUE
  /\ UNCHANGED <<trayOrders, selectedId, trayTool, trayPick, handledPick, prompt>>
  /\ Rendered

Send(request) == posted' = request /\ UNCHANGED <<traySheetVars, field, trayHold>>

doScrap == SheetShows /\ Send(Request("scrap", Selected))

doRestore(i) ==
  /\ expanded /\ ~PromptShows /\ trayOrders[i].rung = "scrapped"
  /\ Send(Request("restore", i))

TypeField ==
  /\ SheetShows /\ editable
  /\ field' = "typed"
  /\ UNCHANGED <<traySheetVars, trayHold>> /\ SendsNothing

\* onBlur: the draft goes to the order that is selected now.
BlurField == SheetShows /\ editable /\ Send(Request("patch", Selected))

----------------------------------------------------------------------------
(* ReleaseControl *)

StartRelease ==
  /\ SheetShows /\ Rung = "drafted" /\ pointer = NoPointer
  /\ release' = [on |-> TRUE, of |-> Selected, age |-> 0]
  /\ pointer' = [of |-> Selected, age |-> 0]
  /\ UNCHANGED <<traySheetVars, field>> /\ SendsNothing

\* Time passes for the timer and for the pointer alike.
TrayTick ==
  /\ release.on /\ release.age < TrayOath
  /\ release' = [release EXCEPT !.age = @ + 1]
  /\ pointer' = IF pointer = NoPointer THEN pointer ELSE [pointer EXCEPT !.age = @ + 1]
  /\ UNCHANGED <<traySheetVars, field>> /\ SendsNothing

\* Mutant: the callback reads the selection when the timer fires.
SelectedNow == Selected

\* onRelease is the closure of the render in which the hold began.
SwornOrder == release.of

ReleaseFires ==
  /\ release.on /\ release.age = TrayOath
  /\ release' = NoTimer
  /\ posted' = Request("release", SwornOrder)
  /\ UNCHANGED <<traySheetVars, field, pointer>>

\* pointerup, pointercancel, pointerleave
StopRelease ==
  /\ pointer # NoPointer
  /\ pointer' = NoPointer /\ release' = NoTimer
  /\ UNCHANGED <<traySheetVars, field>> /\ SendsNothing

TrayNext ==
  \/ OrderMarked
  \/ \E i \in DOMAIN trayOrders, rung \in TrayRungs, what \in Whats : TrayOrderMoves(i, rung, what)
  \/ PickArrives \/ ToolTurns
  \/ TypePrompt \/ submitMark \/ cancelMark
  \/ \E i \in DOMAIN trayOrders : SelectOrder(i) \/ MarkAnswers(i) \/ doRestore(i)
  \/ Expand \/ doScrap \/ TypeField \/ BlurField
  \/ StartRelease \/ TrayTick \/ ReleaseFires \/ StopRelease

----------------------------------------------------------------------------
(* Properties *)

\* While the tool is Point, the words in the open prompt were typed for the pick
\* they would be sent with, also when the pick arrived under the hand
\* (TrayRegion.tsx 317-325, 347-362).
WordsForThePick ==
  trayTool = "point" /\ PromptShows => prompt.typedFor \in {0, trayPick}

\* "Hold ~800 ms; let go early and nothing happens" (TrayRegion.tsx 218): a
\* release is sent only for the order the pointer went down on, and only after the
\* pointer stayed down for the whole oath, whatever was broadcast, selected,
\* expanded or picked meanwhile.
SwornRelease ==
  posted' # posted /\ posted'.verb = "release" => pointer = [of |-> posted'.id, age |-> TrayOath]

=============================================================================
