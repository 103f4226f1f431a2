---------------------------- MODULE ToolpathPlay ----------------------------
(***************************************************************************)
(* The toolpath bar (bench toolpath/ToolpathBar.tsx, useToolpathRecorder,  *)
(* useToolpathReplay): clicks and inputs of the plate are recorded while   *)
(* recording is on, saved, and replayed by timers that post each step back.*)
(* Replay starts after two awaited reads; saving resets the recorder after *)
(* its await.  React renders the latest event only.                        *)
(***************************************************************************)
EXTENDS Naturals, Sequences

CONSTANTS MaxEvents,   \* events of the plate
          MaxPlays,    \* replays started
          PathLength   \* steps of a saved toolpath that has any

ASSUME ToolpathAssumption == MaxEvents \in Nat /\ MaxPlays \in Nat /\ PathLength \in Nat \ {0}

VARIABLES tpLog,       \* events the bridge has received, by number
          tpShown,     \* the one the bar was last rendered with, 0 for none
          tpRec,       \* recorder: recording, the event last seen, its steps
          tpSaving,    \* save() awaits its answer
          tpFetching,  \* replayToolpath() calls awaiting the toolpath
          tpTimers,    \* pending timers, in the order they fire
          tpPlay,      \* playing and currentStepIndex
          tpPosted,    \* the last step posted to the plate
          tpPlays
toolpathVars == <<tpLog, tpShown, tpRec, tpSaving, tpFetching, tpTimers, tpPlay, tpPosted, tpPlays>>

Steps == [run : 1 .. MaxPlays, index : 1 .. PathLength]
NotPosted == [run |-> 0, index |-> 0]

ToolpathTypeOK ==
  /\ tpLog \in 0 .. MaxEvents /\ tpShown \in 0 .. MaxEvents
  /\ tpRec \in [on : BOOLEAN, seen : 0 .. MaxEvents, steps : Seq(1 .. MaxEvents)]
  /\ tpSaving \in BOOLEAN
  /\ tpFetching \in 0 .. MaxPlays
  /\ tpTimers \in Seq(Steps)
  /\ tpPlay \in [playing : BOOLEAN, at : 0 .. PathLength]
  /\ tpPosted \in Steps \cup {NotPosted}
  /\ tpPlays \in 0 .. MaxPlays

ToolpathInit ==
  /\ tpLog = 0 /\ tpShown = 0
  /\ tpRec = [on |-> FALSE, seen |-> 0, steps |-> <<>>]
  /\ tpSaving = FALSE /\ tpFetching = 0 /\ tpTimers = <<>>
  /\ tpPlay = [playing |-> FALSE, at |-> 0] /\ tpPosted = NotPosted /\ tpPlays = 0

----------------------------------------------------------------------------
(* Recording *)

\* The recorder's effect, after a render with this event.
See(rec, event) ==
  IF rec.on /\ event # 0 /\ event # rec.seen
  THEN [rec EXCEPT !.seen = event, !.steps = Append(@, event)]
  ELSE rec

PlateEventArrives ==
  /\ tpLog < MaxEvents /\ tpLog' = tpLog + 1
  /\ UNCHANGED <<tpShown, tpRec, tpSaving, tpFetching, tpTimers, tpPlay, tpPosted, tpPlays>>

\* A render passes down the last event of the log, whatever came between; one that
\* changes neither the event nor the recording flag does not run the effect.
Render ==
  /\ tpShown # tpLog
  /\ tpShown' = tpLog /\ tpRec' = See(tpRec, tpLog)
  /\ UNCHANGED <<tpLog, tpSaving, tpFetching, tpTimers, tpPlay, tpPosted, tpPlays>>

\* Mutant: a recording starts over the one there is.
StartOnTop ==
  /\ ~tpRec.on
  /\ tpRec' = See([on |-> TRUE, seen |-> 0, steps |-> tpRec.steps], tpShown)
  /\ UNCHANGED <<tpLog, tpShown, tpSaving, tpFetching, tpTimers, tpPlay, tpPosted, tpPlays>>

\* start(): the render that follows runs the effect with the event that is there already.
StartRecording ==
  /\ ~tpRec.on
  /\ tpRec' = See([on |-> TRUE, seen |-> 0, steps |-> <<>>], tpShown)
  /\ UNCHANGED <<tpLog, tpShown, tpSaving, tpFetching, tpTimers, tpPlay, tpPosted, tpPlays>>

StopRecording ==
  /\ tpRec.on /\ tpRec' = [tpRec EXCEPT !.on = FALSE]
  /\ UNCHANGED <<tpLog, tpShown, tpSaving, tpFetching, tpTimers, tpPlay, tpPosted, tpPlays>>

\* save(): the form is there only when recording is off and there are steps.
Save ==
  /\ ~tpRec.on /\ tpRec.steps # <<>> /\ ~tpSaving
  /\ tpSaving' = TRUE
  /\ UNCHANGED <<tpLog, tpShown, tpRec, tpFetching, tpTimers, tpPlay, tpPosted, tpPlays>>

\* The answer: on success the recorder is reset, whatever it holds by then.
SaveAnswers(ok) ==
  /\ tpSaving /\ tpSaving' = FALSE
  /\ tpRec' = IF ok THEN [tpRec EXCEPT !.steps = <<>>] ELSE tpRec
  /\ UNCHANGED <<tpLog, tpShown, tpFetching, tpTimers, tpPlay, tpPosted, tpPlays>>

----------------------------------------------------------------------------
(* Replaying *)

\* The replay button, which is disabled only while something plays.
AskReplay ==
  /\ ~tpPlay.playing /\ tpPlays + tpFetching < MaxPlays
  /\ tpFetching' = tpFetching + 1
  /\ UNCHANGED <<tpLog, tpShown, tpRec, tpSaving, tpTimers, tpPlay, tpPosted, tpPlays>>

TimersFor(run) == [i \in 1 .. PathLength |-> [run |-> run, index |-> i]]

\* Mutant: the timers of an earlier play run on.
PlayOnTop(empty) ==
  /\ tpFetching > 0 /\ tpFetching' = tpFetching - 1 /\ tpPlays' = tpPlays + 1
  /\ tpTimers' = IF empty THEN tpTimers ELSE tpTimers \o TimersFor(tpPlays + 1)
  /\ tpPlay' = [playing |-> ~empty, at |-> 0]
  /\ UNCHANGED <<tpLog, tpShown, tpRec, tpSaving, tpPosted>>

\* play(): the timers of an earlier play are cleared first; a toolpath without steps only
\* navigates.
Play(empty) ==
  /\ tpFetching > 0 /\ tpFetching' = tpFetching - 1 /\ tpPlays' = tpPlays + 1
  /\ tpTimers' = IF empty THEN <<>> ELSE TimersFor(tpPlays + 1)
  /\ tpPlay' = [playing |-> ~empty, at |-> 0]
  /\ UNCHANGED <<tpLog, tpShown, tpRec, tpSaving, tpPosted>>

TimerFires ==
  /\ tpTimers # <<>>
  /\ LET step == Head(tpTimers) IN
     /\ tpPosted' = step
     /\ tpPlay' = [playing |-> step.index # PathLength, at |-> step.index]
  /\ tpTimers' = Tail(tpTimers)
  /\ UNCHANGED <<tpLog, tpShown, tpRec, tpSaving, tpFetching, tpPlays>>

\* printed(): stop() clears what is left.
Printed ==
  /\ tpTimers' = <<>> /\ tpPlay' = [playing |-> FALSE, at |-> 0]
  /\ UNCHANGED <<tpLog, tpShown, tpRec, tpSaving, tpFetching, tpPosted, tpPlays>>

ToolpathNext ==
  \/ PlateEventArrives
  \/ Render
  \/ StartRecording
  \/ StopRecording
  \/ Save
  \/ \E ok \in BOOLEAN : SaveAnswers(ok)
  \/ AskReplay
  \/ \E empty \in BOOLEAN : Play(empty)
  \/ TimerFires
  \/ Printed

ToolpathFairness == WF_toolpathVars(TimerFires) /\ WF_toolpathVars(Render)
ToolpathSpec == ToolpathInit /\ [][ToolpathNext]_toolpathVars /\ ToolpathFairness

----------------------------------------------------------------------------
\* The plate is never driven by two replays at once, although replay can be asked for
\* again while a toolpath is being read: each step posted is a first step or follows the
\* one before it, and the bar says it is playing exactly while steps are to come
\* (useToolpathReplay.ts:50-77).
OneReplayAtATime ==
  /\ tpPosted' # tpPosted =>
       \/ tpPosted'.index = 1
       \/ tpPosted'.run = tpPosted.run /\ tpPosted'.index = tpPosted.index + 1
  /\ tpPlay'.playing = (tpTimers' # <<>>)

\* No event becomes two steps and steps keep the order of the events, through renders
\* that skip events, recordings that start and stop and saves that fail (useToolpathRecorder.ts:43-55).
RecordedOnce ==
  \A i, j \in DOMAIN tpRec.steps : i < j => tpRec.steps[i] < tpRec.steps[j]
=============================================================================
