---------------------------- MODULE LoupeBridge ----------------------------
(***************************************************************************)
(* The bench and the loupe (plate/loupe.js, bench usePlateBridge.ts,       *)
(* usePlatePoll.ts, PlateBench.tsx, PlateFrame.tsx): two pages that only   *)
(* have postMessage between them.  The loupe lives in the user's app and   *)
(* starts over in hand mode, with no survey, on every load of the frame;   *)
(* what is posted to a frame that is gone, or still loading, is lost.      *)
(***************************************************************************)
EXTENDS Naturals, Sequences

CONSTANTS MaxQueue,   \* messages on their way in one direction when a person acts
          MaxTurns,   \* loads, polls that change the status and new surveys
          MaxSurvey,  \* surveys, numbered from 1; 0 is none yet
          NoPick

ASSUME BridgeAssumption == {MaxQueue, MaxTurns, MaxSurvey} \subseteq Nat

VARIABLES lbStatus,  \* what the poll of GET /api/plate last said
          lbPage,    \* the frame's document: "absent", "loading", "booted" or "loaded"
          lbBench,   \* the bridge's mode, survey and last pick
          lbLoupe,   \* the loupe's mode and survey, what it paints
          lbDown,    \* messages on their way to the plate
          lbBack,    \* and to the bench
          lbMarked,  \* the bench has highlighted something since it last let go
          lbTurns
bridgeVars == <<lbStatus, lbPage, lbBench, lbLoupe, lbDown, lbBack, lbMarked, lbTurns>>

Modes == {"hand", "loupe"}
Asks == [type : {"mode"}, mode : Modes] \cup [type : {"survey"}, survey : 1 .. MaxSurvey]
        \cup [type : {"highlight", "clear", "navigate", "click", "fill", "query"}]
Replies == [type : {"ready", "event", "reply"}]
           \cup [type : {"pick"}, survey : 0 .. MaxSurvey]
BootedLoupe == [mode |-> "hand", survey |-> 0, outline |-> FALSE, boxes |-> FALSE]

BridgeTypeOK ==
  /\ lbStatus \in {"none", "down", "up"}
  /\ lbPage \in {"absent", "loading", "booted", "loaded"}
  /\ lbBench \in [mode : Modes, survey : 0 .. MaxSurvey, pick : 0 .. MaxSurvey \cup {NoPick}]
  /\ lbLoupe \in [mode : Modes, survey : 0 .. MaxSurvey, outline : BOOLEAN, boxes : BOOLEAN]
  /\ lbDown \in Seq(Asks)
  /\ lbBack \in Seq(Replies)
  /\ lbMarked \in BOOLEAN /\ lbTurns \in 0 .. MaxTurns

BridgeInit ==
  /\ lbStatus = "none" /\ lbPage = "absent"
  /\ lbBench = [mode |-> "hand", survey |-> 0, pick |-> NoPick]
  /\ lbLoupe = BootedLoupe
  /\ lbDown = <<>> /\ lbBack = <<>> /\ lbMarked = FALSE /\ lbTurns = 0

Alive == lbPage \in {"booted", "loaded"}

----------------------------------------------------------------------------
(* The bench *)

\* postToPlate: nothing without a plate to post to; lost on a document that is not there.
Posted(messages) == IF lbStatus = "up" /\ Alive THEN lbDown \o messages ELSE lbDown

\* Mutant: the table the page first heard of is sent.
FirstTable(v) == IF v = 0 THEN <<>> ELSE <<[type |-> "survey", survey |-> 1]>>

\* postSurvey: the latest table, if there is one.
postSurvey(v) == IF v = 0 THEN <<>> ELSE <<[type |-> "survey", survey |-> v]>>

\* The frame shows a page while the plate is up, and none otherwise (PlateFrame.tsx).
PollAnswers(status) ==
  /\ lbTurns < MaxTurns /\ lbTurns' = lbTurns + 1
  /\ status # lbStatus /\ lbStatus' = status
  /\ lbPage' = IF status = "up" THEN "loading" ELSE "absent"
  /\ lbDown' = <<>> /\ lbBack' = <<>> /\ lbLoupe' = BootedLoupe
  /\ UNCHANGED <<lbBench, lbMarked>>

\* A poll that failed after the plate was known to be there: usePlatePoll says it is down.
PollFails ==
  /\ lbStatus = "up" /\ PollAnswers("down")

SurveyChanges ==
  /\ lbTurns < MaxTurns /\ lbTurns' = lbTurns + 1
  /\ lbBench.survey < MaxSurvey
  /\ LET v == lbBench.survey + 1 IN
     /\ lbBench' = [lbBench EXCEPT !.survey = v]
     /\ lbDown' = Posted(postSurvey(v))
  /\ UNCHANGED <<lbStatus, lbPage, lbLoupe, lbBack, lbMarked>>

\* Mutant: the mode is set and nothing is let go of.
SetModeOnly(mode) ==
  /\ Len(lbDown) < MaxQueue
  /\ lbBench' = [lbBench EXCEPT !.mode = mode, !.pick = IF mode = "hand" THEN NoPick ELSE @]
  /\ lbDown' = Posted(<<[type |-> "mode", mode |-> mode]>>)
  /\ lbMarked' = (mode = "loupe" /\ lbMarked)
  /\ UNCHANGED <<lbStatus, lbPage, lbLoupe, lbBack, lbTurns>>

\* setMode, which every way of disengaging funnels through.
SetMode(mode) ==
  /\ Len(lbDown) < MaxQueue
  /\ lbBench' = [lbBench EXCEPT !.mode = mode, !.pick = IF mode = "hand" THEN NoPick ELSE @]
  /\ lbDown' = Posted(<<[type |-> "mode", mode |-> mode]>> \o
                      (IF mode = "hand" THEN <<[type |-> "clear"]>> ELSE <<>>))
  /\ lbMarked' = (mode = "loupe" /\ lbMarked)
  /\ UNCHANGED <<lbStatus, lbPage, lbLoupe, lbBack, lbTurns>>

\* highlight, clearHighlight, navigate and the posts of the fixture panel, the toolpath
\* bar and the trial fit.
Ask(type) ==
  /\ Len(lbDown) < MaxQueue /\ Len(lbBack) < MaxQueue
  /\ lbDown' = Posted(<<[type |-> type]>>)
  /\ lbMarked' = (lbMarked \/ type = "highlight")
  /\ UNCHANGED <<lbStatus, lbPage, lbBench, lbLoupe, lbBack, lbTurns>>

\* onMessage: a pick, an event, or the loupe saying it is there.
BenchReceives ==
  /\ lbBack # <<>>
  /\ LET m == Head(lbBack) IN
     /\ lbBench' = IF m.type = "pick" THEN [lbBench EXCEPT !.pick = m.survey] ELSE lbBench
     /\ lbDown' = IF m.type = "ready" THEN Posted(postSurvey(lbBench.survey)) ELSE lbDown
  /\ lbBack' = Tail(lbBack)
  /\ UNCHANGED <<lbStatus, lbPage, lbLoupe, lbMarked, lbTurns>>

\* The frame's load event, which every navigation of it fires.
FrameLoads ==
  /\ lbPage = "booted"
  /\ lbPage' = "loaded"
  /\ lbDown' = Posted(postSurvey(lbBench.survey))
  /\ UNCHANGED <<lbStatus, lbBench, lbLoupe, lbBack, lbMarked, lbTurns>>

----------------------------------------------------------------------------
(* The loupe *)

\* The script boots at the end of the page's body and says so.
LoupeBoots ==
  /\ lbPage = "loading"
  /\ lbPage' = "booted" /\ lbLoupe' = BootedLoupe
  /\ lbBack' = <<[type |-> "ready"]>> /\ lbDown' = <<>>
  /\ UNCHANGED <<lbStatus, lbBench, lbMarked, lbTurns>>

\* The app, its dev server's reload, or location.assign: a new document.
Reloaded ==
  /\ lbPage' = "loading" /\ lbDown' = <<>> /\ lbBack' = <<>> /\ lbLoupe' = BootedLoupe

AppReloads ==
  /\ Alive /\ lbTurns < MaxTurns /\ lbTurns' = lbTurns + 1
  /\ Reloaded
  /\ UNCHANGED <<lbStatus, lbBench, lbMarked>>

\* describeElement: the survey's name and file for the element, if it has been told them.
postPick == [type |-> "pick", survey |-> lbLoupe.survey]

\* What a click in the page is: a pick in loupe mode, which the app never sees; else the
\* app's, and an event for the log.
Clicked == IF lbLoupe.mode = "loupe" THEN postPick ELSE [type |-> "event"]

UserClicks ==
  /\ Alive /\ Len(lbBack) < MaxQueue
  /\ lbBack' = Append(lbBack, Clicked)
  /\ UNCHANGED <<lbStatus, lbPage, lbBench, lbLoupe, lbDown, lbMarked, lbTurns>>

UserTypes ==
  /\ Alive /\ Len(lbBack) < MaxQueue
  /\ lbLoupe.mode = "hand"
  /\ lbBack' = Append(lbBack, [type |-> "event"])
  /\ UNCHANGED <<lbStatus, lbPage, lbBench, lbLoupe, lbDown, lbMarked, lbTurns>>

UserHovers ==
  /\ Alive /\ lbLoupe.mode = "loupe"
  /\ lbLoupe' = [lbLoupe EXCEPT !.outline = TRUE]
  /\ UNCHANGED <<lbStatus, lbPage, lbBench, lbDown, lbBack, lbMarked, lbTurns>>

\* A "query" is a fill-probe or a snapshot; a "reply" is fill-fields, snapshotted, filled
\* or clicked, which the bridge leaves to whoever asked.

\* What the loupe does with a message from the bench's own origin.
Painted(m) ==
  IF m.type = "mode" THEN [lbLoupe EXCEPT !.mode = m.mode, !.outline = @ /\ m.mode = "loupe"]
  ELSE IF m.type = "survey" THEN [lbLoupe EXCEPT !.survey = m.survey]
  ELSE IF m.type = "highlight" THEN [lbLoupe EXCEPT !.boxes = TRUE]
  ELSE IF m.type = "clear" THEN [lbLoupe EXCEPT !.boxes = FALSE, !.outline = FALSE]
  ELSE lbLoupe

\* A replayed click is a real one, so it goes the way of a user's; so is the input a
\* filled field dispatches, which loupe mode does not report.
Answer(m) ==
  IF m.type = "click" THEN <<Clicked, [type |-> "reply"]>>
  ELSE IF m.type = "fill" /\ lbLoupe.mode = "hand" THEN <<[type |-> "event"], [type |-> "reply"]>>
  ELSE IF m.type \in {"fill", "query"} THEN <<[type |-> "reply"]>>
  ELSE <<>>

PlateReceives ==
  /\ Alive /\ lbDown # <<>>
  /\ LET m == Head(lbDown) IN
     /\ m.type # "navigate"
     /\ lbLoupe' = Painted(m)
     /\ lbBack' = lbBack \o Answer(m)
  /\ lbDown' = Tail(lbDown)
  /\ UNCHANGED <<lbStatus, lbPage, lbBench, lbMarked, lbTurns>>

\* jig:navigate: another origin is refused, the same one is a new document.
PlateNavigates(sameOrigin) ==
  /\ Alive /\ lbDown # <<>> /\ Head(lbDown).type = "navigate"
  /\ IF sameOrigin /\ lbTurns < MaxTurns
     THEN Reloaded /\ lbTurns' = lbTurns + 1
     ELSE /\ lbDown' = Tail(lbDown)
          /\ UNCHANGED <<lbPage, lbBack, lbLoupe, lbTurns>>
  /\ UNCHANGED <<lbStatus, lbBench, lbMarked>>

BridgeDelivers ==
  \/ BenchReceives
  \/ FrameLoads
  \/ LoupeBoots
  \/ PlateReceives
  \/ \E sameOrigin \in BOOLEAN : PlateNavigates(sameOrigin)

BridgeUser ==
  \/ \E status \in {"none", "down", "up"} : PollAnswers(status)
  \/ PollFails
  \/ SurveyChanges
  \/ \E mode \in Modes : SetMode(mode)
  \/ \E type \in {"highlight", "clear", "navigate", "click", "fill", "query"} : Ask(type)
  \/ AppReloads
  \/ UserClicks
  \/ UserTypes
  \/ UserHovers

BridgeNext == BridgeDelivers \/ BridgeUser

\* The browser delivers messages in order and frames finish loading.
BridgeFairness ==
  /\ WF_bridgeVars(BenchReceives)
  /\ WF_bridgeVars(FrameLoads)
  /\ WF_bridgeVars(LoupeBoots)
  /\ WF_bridgeVars(PlateReceives \/ \E sameOrigin \in BOOLEAN : PlateNavigates(sameOrigin))

BridgeSpec == BridgeInit /\ [][BridgeNext]_bridgeVars /\ BridgeFairness

----------------------------------------------------------------------------
BridgeQuiet == lbDown = <<>> /\ lbBack = <<>>

\* Back in hand mode, once the messages have arrived, the loupe is in hand mode too and
\* paints neither its outline nor a highlight from before, across reloads and plates that
\* went down (usePlateBridge.ts:134-142, "Disengaging to hand has to clear all three").
HandLetsGo ==
  BridgeQuiet /\ lbBench.mode = "hand" /\ ~lbMarked =>
    lbLoupe.mode = "hand" /\ ~lbLoupe.outline /\ ~lbLoupe.boxes

\* The survey reaches the loupe that is there in the end, whichever of the survey, the
\* frame and its reloads came first (usePlateBridge.ts:90-96).
SurveyArrives ==
  <>[](lbPage = "loaded" /\ lbBench.survey # 0 => lbLoupe.survey = lbBench.survey)
=============================================================================
