----------------------------- MODULE BuildRunner -----------------------------
(***************************************************************************)
(* packages/server/src/build/runner.ts: the one `claude -p` child process  *)
(* a bench runs at a time, and git-diff.ts, the git snapshots taken before *)
(* and after it.                                                           *)
(*                                                                         *)
(* JavaScript runs one handler at a time: a step is the code between two   *)
(* awaits (or one event callback).  pc[b] says at which await the call     *)
(* start(b) is suspended.  Since `finish` also runs for a call whose       *)
(* promise is already settled (the 'close' that follows a spawn 'error'),  *)
(* pc and outcome advance separately.                                      *)
(***************************************************************************)
EXTENDS Naturals, BuildOutcome

CONSTANTS
  Prompts,       \* prompt ids
  Builds,        \* build ids: one start() call each
  None,          \* null / undefined
  SpawnMayFail   \* may the OS refuse a spawn asynchronously ('error' event)?

ASSUME NoneAssumption == None \notin Builds \cup Prompts \cup Outcomes
ASSUME SpawnAssumption == SpawnMayFail \in BOOLEAN

VARIABLES
  current,          \* this.current: the build that holds the slot, or None
  lastBuilt,        \* this.lastBuilt: the prompt behind the "built" badge
  pc,               \* where start(b) is suspended
  promptOf,         \* input.promptId
  child,            \* running.child: "none", "alive", "killed", "gone"
  cancelRequested,  \* running.cancelRequested
  before,           \* was the before-snapshot of the working tree taken?
  notices,          \* 'notice' events this build has put on the stream
  result,           \* last 'result' event: "none", "ok", "error"
  exit,             \* the code 'close' carried
  cancelled,        \* finish()'s own copy of cancelRequested
  outcome           \* what start(b)'s promise settled with

ownVars   == <<current, lastBuilt>>
dataVars  == <<before, notices, result>>
closeVars == <<exit, cancelled>>
runnerVars == <<current, lastBuilt, pc, promptOf, child, cancelRequested,
                before, notices, result, exit, cancelled, outcome>>

PCs == {"unused", "mkdir", "before", "running", "errored", "ending", "after",
        "done"}
Children == {"none", "alive", "killed", "gone"}
Results  == {"none", "ok", "error"}

\* The awaits of start() and finish() at which the child is still wanted.
Live == {"mkdir", "before", "running", "ending", "after"}

\* b's start() has neither settled nor thrown: it owns the slot if anyone does.
Holding(b) == pc[b] \in Live /\ outcome[b] = None

ChildAlive(b) == child[b] \in {"alive", "killed"}

Succeeded(b) == outcome[b] # None /\ Success(outcome[b])

RunnerInit ==
  /\ current = None
  /\ lastBuilt = None
  /\ pc = [b \in Builds |-> "unused"]
  /\ promptOf = [b \in Builds |-> None]
  /\ child = [b \in Builds |-> "none"]
  /\ cancelRequested = [b \in Builds |-> FALSE]
  /\ before = [b \in Builds |-> FALSE]
  /\ notices = [b \in Builds |-> 0]
  /\ result = [b \in Builds |-> "none"]
  /\ exit = [b \in Builds |-> None]
  /\ cancelled = [b \in Builds |-> FALSE]
  /\ outcome = [b \in Builds |-> None]

-----------------------------------------------------------------------------
(* start(): the synchronous claim.  A second call finds the slot taken and  *)
(* throws; the first claims it before its first await.                      *)

StartRejected(b, p) ==
  /\ pc[b] = "unused"
  /\ current # None
  /\ pc' = [pc EXCEPT ![b] = "done"]
  /\ promptOf' = [promptOf EXCEPT ![b] = p]
  /\ outcome' = [outcome EXCEPT ![b] = Failed]
  /\ UNCHANGED <<ownVars, child, cancelRequested, dataVars, closeVars>>

\* Mutant: the 409 guard is dropped.
StartClaimsUnguarded(b, p) ==
  /\ pc[b] = "unused"
  /\ current' = b
  /\ lastBuilt' = None
  /\ pc' = [pc EXCEPT ![b] = "mkdir"]
  /\ promptOf' = [promptOf EXCEPT ![b] = p]
  /\ UNCHANGED <<child, cancelRequested, dataVars, closeVars, outcome>>

\* Mutant: the badge of the previous build survives the claim.
StartClaimsKeepsBadge(b, p) ==
  /\ pc[b] = "unused"
  /\ current = None
  /\ current' = b
  /\ pc' = [pc EXCEPT ![b] = "mkdir"]
  /\ promptOf' = [promptOf EXCEPT ![b] = p]
  /\ UNCHANGED <<lastBuilt, child, cancelRequested, dataVars, closeVars, outcome>>

StartClaims(b, p) ==
  /\ pc[b] = "unused"
  /\ current = None
  /\ current' = b
  /\ lastBuilt' = None
  /\ pc' = [pc EXCEPT ![b] = "mkdir"]
  /\ promptOf' = [promptOf EXCEPT ![b] = p]
  /\ UNCHANGED <<child, cancelRequested, dataVars, closeVars, outcome>>

Start(b, p) == StartRejected(b, p) \/ StartClaims(b, p)

\* The transcript directory: created, or the slot is given back.
MkdirDone(b) ==
  /\ pc[b] = "mkdir"
  /\ pc' = [pc EXCEPT ![b] = "before"]
  /\ UNCHANGED <<ownVars, promptOf, child, cancelRequested, dataVars,
                 closeVars, outcome>>

\* Mutant: the failed mkdir settles without giving the slot back.
MkdirFailsKeepsSlot(b) ==
  /\ pc[b] = "mkdir"
  /\ pc' = [pc EXCEPT ![b] = "done"]
  /\ outcome' = [outcome EXCEPT ![b] = Failed]
  /\ UNCHANGED <<ownVars, promptOf, child, cancelRequested, dataVars,
                 closeVars>>

MkdirFails(b) ==
  /\ pc[b] = "mkdir"
  /\ current' = None
  /\ pc' = [pc EXCEPT ![b] = "done"]
  /\ outcome' = [outcome EXCEPT ![b] = Failed]
  /\ UNCHANGED <<lastBuilt, promptOf, child, cancelRequested, dataVars,
                 closeVars>>

\* gitStatusSnapshot: taken, or unavailable for one of its five reasons, each
\* of which puts one notice on the build stream.
TakeSnapshot(b, taken) ==
  notices' = IF taken THEN notices ELSE [notices EXCEPT ![b] = @ + 1]

\* The continuation of the before-snapshot spawns the child.  A cancel that
\* arrived earlier is honoured now that there is a process to kill.
Spawns(b, taken) ==
  /\ pc[b] = "before"
  /\ TakeSnapshot(b, taken)
  /\ before' = [before EXCEPT ![b] = taken]
  /\ pc' = [pc EXCEPT ![b] = "running"]
  /\ child' = [child EXCEPT ![b] = IF cancelRequested[b] THEN "killed"
                                                         ELSE "alive"]
  /\ UNCHANGED <<ownVars, promptOf, cancelRequested, result, closeVars,
                 outcome>>

SpawnThrows(b, taken) ==
  /\ pc[b] = "before"
  /\ TakeSnapshot(b, taken)
  /\ before' = [before EXCEPT ![b] = taken]
  /\ current' = None
  /\ pc' = [pc EXCEPT ![b] = "done"]
  /\ outcome' = [outcome EXCEPT ![b] = Failed]
  /\ UNCHANGED <<lastBuilt, promptOf, child, cancelRequested, result,
                 closeVars>>

\* spawn() returned but the process never came to be: the 'error' listener
\* frees the slot and settles.  Node still emits 'close' for such a child.
SpawnErrors(b, taken) ==
  /\ SpawnMayFail
  /\ pc[b] = "before"
  /\ TakeSnapshot(b, taken)
  /\ before' = [before EXCEPT ![b] = taken]
  /\ current' = None
  /\ pc' = [pc EXCEPT ![b] = "errored"]
  /\ outcome' = [outcome EXCEPT ![b] =
                   [exit |-> "null", cancelled |-> cancelRequested[b]]]
  /\ UNCHANGED <<lastBuilt, promptOf, child, cancelRequested, result,
                 closeVars>>

-----------------------------------------------------------------------------
(* While the child runs.                                                    *)

\* A stream-json 'result' line; the last one wins.
StreamResult(b, r) ==
  /\ pc[b] = "running"
  /\ r \in {"ok", "error"}
  /\ result' = [result EXCEPT ![b] = r]
  /\ UNCHANGED <<ownVars, pc, promptOf, child, cancelRequested, before,
                 notices, closeVars, outcome>>

\* Mutant: the timer flags the build and forgets the SIGTERM.
TimeoutWithoutKill(b) ==
  /\ pc[b] = "running"
  /\ child[b] = "alive"
  /\ cancelRequested' = [cancelRequested EXCEPT ![b] = TRUE]
  /\ UNCHANGED <<ownVars, pc, promptOf, child, dataVars, closeVars, outcome>>

\* The wall-clock cap: flagged as cancelled and killed.
Timeout(b) ==
  /\ pc[b] = "running"
  /\ child[b] = "alive"
  /\ cancelRequested' = [cancelRequested EXCEPT ![b] = TRUE]
  /\ child' = [child EXCEPT ![b] = "killed"]
  /\ UNCHANGED <<ownVars, pc, promptOf, dataVars, closeVars, outcome>>

\* cancel(): only the prompt that holds the slot; the flag is set even when
\* there is no process to signal (not yet spawned, or already closed).
Cancel(p) ==
  /\ current # None
  /\ promptOf[current] = p
  /\ cancelRequested' = [cancelRequested EXCEPT ![current] = TRUE]
  /\ child' = [child EXCEPT ![current] = IF @ = "alive" THEN "killed" ELSE @]
  /\ UNCHANGED <<ownVars, pc, promptOf, dataVars, closeVars, outcome>>

-----------------------------------------------------------------------------
(* 'close', then finish(): wait for the transcript to flush, copy the       *)
(* cancel flag, take the after-snapshot when no FILES: line was seen and    *)
(* there is a before-snapshot to compare with, free the slot, settle.       *)

Closes(b, code) ==
  /\ pc[b] = "running"
  /\ ChildAlive(b)
  /\ code \in Codes
  /\ pc' = [pc EXCEPT ![b] = "ending"]
  /\ child' = [child EXCEPT ![b] = "gone"]
  /\ exit' = [exit EXCEPT ![b] = code]
  /\ UNCHANGED <<ownVars, promptOf, cancelRequested, dataVars, cancelled,
                 outcome>>

\* The 'close' of a child that never spawned carries a negative errno.
ClosesAfterError(b) ==
  /\ pc[b] = "errored"
  /\ pc' = [pc EXCEPT ![b] = "ending"]
  /\ exit' = [exit EXCEPT ![b] = "nonzero"]
  /\ UNCHANGED <<ownVars, promptOf, child, cancelRequested, dataVars,
                 cancelled, outcome>>

\* Mutant: the badge remembers the build instead of its prompt.
ConcludeWrongBadge(b, wasCancelled) ==
  /\ current' = None
  /\ lastBuilt' = IF ~wasCancelled /\ exit[b] = "zero" THEN b ELSE lastBuilt
  /\ pc' = [pc EXCEPT ![b] = "done"]
  /\ outcome' = [outcome EXCEPT ![b] =
                   IF @ = None
                   THEN [exit |-> exit[b], cancelled |-> wasCancelled]
                   ELSE @]

\* The tail of finish().  Note `this.current = null` without looking at whose
\* slot it is, and resolve() without effect on a settled promise.
Conclude(b, wasCancelled) ==
  /\ current' = None
  /\ lastBuilt' = IF ~wasCancelled /\ exit[b] = "zero" /\ result[b] # "error"
                  THEN promptOf[b] ELSE lastBuilt
  /\ pc' = [pc EXCEPT ![b] = "done"]
  /\ outcome' = [outcome EXCEPT ![b] =
                   IF @ = None
                   THEN [exit |-> exit[b], cancelled |-> wasCancelled]
                   ELSE @]

\* Mutant: the exit code alone decides.
FinishNowIgnoresCancel(b) ==
  /\ pc[b] = "ending"
  /\ cancelled' = [cancelled EXCEPT ![b] = cancelRequested[b]]
  /\ Conclude(b, FALSE)
  /\ UNCHANGED <<promptOf, child, cancelRequested, dataVars, exit>>

FinishNow(b) ==
  /\ pc[b] = "ending"
  /\ cancelled' = [cancelled EXCEPT ![b] = cancelRequested[b]]
  /\ Conclude(b, cancelRequested[b])
  /\ UNCHANGED <<promptOf, child, cancelRequested, dataVars, exit>>

\* Mutant: the after-snapshot is taken with nothing to compare it to.
FinishAlwaysDiffs(b) ==
  /\ pc[b] = "ending"
  /\ cancelled' = [cancelled EXCEPT ![b] = cancelRequested[b]]
  /\ pc' = [pc EXCEPT ![b] = "after"]
  /\ UNCHANGED <<ownVars, promptOf, child, cancelRequested, dataVars, exit,
                 outcome>>

FinishNeedsDiff(b) ==
  /\ pc[b] = "ending"
  /\ before[b]
  /\ cancelled' = [cancelled EXCEPT ![b] = cancelRequested[b]]
  /\ pc' = [pc EXCEPT ![b] = "after"]
  /\ UNCHANGED <<ownVars, promptOf, child, cancelRequested, dataVars, exit,
                 outcome>>

FinishAfterDiff(b, taken) ==
  /\ pc[b] = "after"
  /\ TakeSnapshot(b, taken)
  /\ Conclude(b, cancelled[b])
  /\ UNCHANGED <<promptOf, child, cancelRequested, before, result, closeVars>>

-----------------------------------------------------------------------------
Progress(b) ==
  \/ MkdirDone(b)
  \/ \E taken \in BOOLEAN : Spawns(b, taken)
  \/ \E code \in Codes : Closes(b, code)
  \/ ClosesAfterError(b)
  \/ FinishNow(b)
  \/ FinishNeedsDiff(b)
  \/ \E taken \in BOOLEAN : FinishAfterDiff(b, taken)

RunnerStep(b) ==
  \/ Progress(b)
  \/ MkdirFails(b)
  \/ \E taken \in BOOLEAN : SpawnThrows(b, taken)
  \/ \E taken \in BOOLEAN : SpawnErrors(b, taken)
  \/ \E r \in Results : StreamResult(b, r)
  \/ Timeout(b)

RunnerNext ==
  \/ \E b \in Builds, p \in Prompts : Start(b, p)
  \/ \E b \in Builds : RunnerStep(b)
  \/ \E p \in Prompts : Cancel(p)

\* What the event loop and the OS owe a build: mkdir, git (it has a budget)
\* and the transcript flush answer, and the wall-clock timer fires.  Nothing
\* owes it an end of its child: SIGTERM may be ignored, a grandchild may hold
\* the pipes that 'close' waits for, and no SIGKILL and no bounded wait follow.
RunnerFairness ==
  \A b \in Builds :
    /\ WF_runnerVars(MkdirDone(b) \/ MkdirFails(b))
    /\ WF_runnerVars(\E taken \in BOOLEAN : Spawns(b, taken)
                        \/ SpawnThrows(b, taken) \/ SpawnErrors(b, taken))
    /\ WF_runnerVars(Timeout(b))
    /\ WF_runnerVars(FinishNow(b) \/ FinishNeedsDiff(b))
    /\ WF_runnerVars(\E taken \in BOOLEAN : FinishAfterDiff(b, taken))

RunnerSpec     == RunnerInit /\ [][RunnerNext]_runnerVars
FairRunnerSpec == RunnerSpec /\ RunnerFairness
-----------------------------------------------------------------------------
\* Type invariant.
RunnerTypeOK ==
  /\ current \in Builds \cup {None}
  /\ lastBuilt \in Prompts \cup {None}
  /\ pc \in [Builds -> PCs]
  /\ promptOf \in [Builds -> Prompts \cup {None}]
  /\ child \in [Builds -> Children]
  /\ cancelRequested \in [Builds -> BOOLEAN]
  /\ before \in [Builds -> BOOLEAN]
  /\ notices \in [Builds -> Nat]
  /\ result \in [Builds -> Results]
  /\ exit \in [Builds -> Codes \cup {None}]
  /\ cancelled \in [Builds -> BOOLEAN]
  /\ outcome \in [Builds -> Outcomes \cup {None}]

\* "only ONE build at a time per repo" (prompts/errors.ts): two claude
\* processes never edit the repository at the same time.
OneBuildAtATime ==
  \A a, b \in Builds : ChildAlive(a) /\ ChildAlive(b) => a = b

\* currentBuild(), status() and cancel() speak of a build that is really under
\* way, and while one is under way the "built" badge of an earlier one is gone.
SlotIsHonest ==
  current # None => /\ Holding(current)
                    /\ promptOf[current] \in Prompts
                    /\ lastBuilt = None

\* "At most one notice per build": the two snapshots never both complain.
AtMostOneNotice == \A b \in Builds : notices[b] <= 1

\* A cancel accepted before finish() copies the flag is final: whatever the
\* child exits with, the build never counts as a success, not even when it
\* was accepted before there was a process to kill.
CancelSticks ==
  \A b \in Builds :
    [](cancelRequested[b] /\ pc[b] \in {"mkdir", "before", "running", "ending"}
         => []~Succeeded(b))

\* What the runner itself owes a build, whatever fails: a claimed build settles or has its
\* child signalled, by a cancel or by the wall-clock timer (a wedged git or a full disk never
\* keeps it from getting there), and once 'close' has come it settles and gives the slot back.
\* That a signalled child does close is the operating system's, and nothing here assumes it.
BuildSettles ==
  \A b \in Builds :
    /\ pc[b] = "mkdir" ~> outcome[b] # None \/ child[b] = "killed"
    /\ child[b] = "gone" ~> outcome[b] # None /\ current # b

\* The promise the runner keeps: see BuildSlot.  Its callers see who holds the slot, for
\* which prompt, and what each start() settled with; all the rest is the runner's own.
Slot == INSTANCE BuildSlot WITH current <- current, promptOf <- promptOf, outcome <- outcome

\* Every step of the runner begins, refuses or ends one build, or leaves what
\* its callers see alone.
ImplementsSlot == Slot!SlotSpec
=============================================================================
