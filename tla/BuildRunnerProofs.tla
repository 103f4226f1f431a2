-------------------------- MODULE BuildRunnerProofs --------------------------
(***************************************************************************)
(* Proofs about BuildRunner for any set of builds and prompts.             *)
(*                                                                         *)
(* Three inductive invariants, each resting on the one before it:          *)
(*   Bookkeeping  what the local state of a start() call implies;          *)
(*   HonestInv    Bookkeeping and SlotIsHonest: holds of every run;        *)
(*   OwnerInv     the converse of SlotIsHonest, a call under way owns the  *)
(*                slot.  It needs ~SpawnMayFail: the 'close' that follows  *)
(*                a spawn 'error' takes the slot from its owner.           *)
(***************************************************************************)
EXTENDS BuildRunner, TLAPS

\* What pc[b] says about the other variables of the call start(b).
Bookkeeping ==
  \A b \in Builds :
    /\ pc[b] = "unused" => outcome[b] = None /\ promptOf[b] = None
    /\ pc[b] # "unused" => promptOf[b] \in Prompts
    /\ pc[b] \in {"ending", "after"} => exit[b] \in Codes
    /\ ChildAlive(b) => pc[b] = "running"

\* Why the two snapshots cannot both complain: the second one is taken only
\* when the first one did not.
NoticeInv ==
  \A b \in Builds :
    /\ pc[b] \in {"unused", "mkdir", "before", "after"} => notices[b] = 0
    /\ pc[b] \in {"running", "errored", "ending"} /\ before[b] => notices[b] = 0
    /\ notices[b] <= 1

HonestInv == RunnerTypeOK /\ Bookkeeping /\ SlotIsHonest /\ NoticeInv

\* A call that is suspended anywhere between its claim and its end owns the
\* slot and has not settled.
OwnerInv ==
  \A b \in Builds :
    /\ pc[b] \in Live => current = b /\ outcome[b] = None
    /\ pc[b] # "errored"

-----------------------------------------------------------------------------
LEMMA OutcomeTypes ==
  /\ Failed \in Outcomes
  /\ \A c \in Codes, k \in BOOLEAN : [exit |-> c, cancelled |-> k] \in Outcomes
BY DEF Failed, Outcomes, Codes

LEMMA InitHonest == RunnerInit => HonestInv
BY NoneAssumption DEF RunnerInit, HonestInv, RunnerTypeOK, Bookkeeping,
   SlotIsHonest, NoticeInv, ChildAlive, PCs, Children, Results

\* Every step keeps the variables in their types.
LEMMA TypeStep == RunnerTypeOK /\ Bookkeeping /\ [RunnerNext]_runnerVars => RunnerTypeOK'
<1> SUFFICES ASSUME RunnerTypeOK, Bookkeeping, [RunnerNext]_runnerVars
             PROVE  RunnerTypeOK'
  OBVIOUS
<1> USE NoneAssumption, OutcomeTypes
    DEF RunnerTypeOK, PCs, Children, Results, ownVars, dataVars, closeVars
<1>1. ASSUME NEW b \in Builds, NEW p \in Prompts, Start(b, p)
      PROVE  RunnerTypeOK'
  <2>1. CASE StartRejected(b, p)
    BY <2>1 DEF StartRejected
  <2>2. CASE StartClaims(b, p)
    BY <2>2 DEF StartClaims
  <2> QED BY <1>1, <2>1, <2>2 DEF Start
<1>2. ASSUME NEW b \in Builds, RunnerStep(b)
      PROVE  RunnerTypeOK'
  <2>1. CASE MkdirDone(b)
    BY <2>1 DEF MkdirDone
  <2>2. CASE MkdirFails(b)
    BY <2>2 DEF MkdirFails
  <2>3. ASSUME NEW taken \in BOOLEAN, Spawns(b, taken)
        PROVE  RunnerTypeOK'
    BY <2>3 DEF Spawns, TakeSnapshot
  <2>4. ASSUME NEW taken \in BOOLEAN, SpawnThrows(b, taken)
        PROVE  RunnerTypeOK'
    BY <2>4 DEF SpawnThrows, TakeSnapshot
  <2>5. ASSUME NEW taken \in BOOLEAN, SpawnErrors(b, taken)
        PROVE  RunnerTypeOK'
    <3>1. [exit |-> "null", cancelled |-> cancelRequested[b]] \in Outcomes
      BY DEF Codes
    <3> QED BY <2>5, <3>1 DEF SpawnErrors, TakeSnapshot
  <2>6. ASSUME NEW r \in Results, StreamResult(b, r)
        PROVE  RunnerTypeOK'
    BY <2>6 DEF StreamResult
  <2>7. CASE Timeout(b)
    BY <2>7 DEF Timeout
  <2>8. ASSUME NEW code \in Codes, Closes(b, code)
        PROVE  RunnerTypeOK'
    BY <2>8 DEF Closes
  <2>9. CASE ClosesAfterError(b)
    BY <2>9 DEF ClosesAfterError, Codes
  <2>10. ASSUME NEW k \in BOOLEAN, Conclude(b, k), pc[b] \in {"ending", "after"}
         PROVE  /\ current' \in Builds \cup {None}
                /\ lastBuilt' \in Prompts \cup {None}
                /\ pc' \in [Builds -> PCs]
                /\ outcome' \in [Builds -> Outcomes \cup {None}]
    <3>1. promptOf[b] \in Prompts /\ exit[b] \in Codes
      BY <2>10 DEF Bookkeeping
    <3>2. [exit |-> exit[b], cancelled |-> k] \in Outcomes
      BY <3>1
    <3> QED BY <2>10, <3>1, <3>2 DEF Conclude
  <2>11. CASE FinishNow(b)
    BY <2>11, <2>10 DEF FinishNow
  <2>12. CASE FinishNeedsDiff(b)
    BY <2>12 DEF FinishNeedsDiff
  <2>13. ASSUME NEW taken \in BOOLEAN, FinishAfterDiff(b, taken)
         PROVE  RunnerTypeOK'
    BY <2>13, <2>10 DEF FinishAfterDiff, TakeSnapshot
  <2> QED BY <1>2, <2>1, <2>2, <2>3, <2>4, <2>5, <2>6, <2>7, <2>8, <2>9,
             <2>11, <2>12, <2>13 DEF RunnerStep, Progress
<1>3. ASSUME NEW p \in Prompts, Cancel(p)
      PROVE  RunnerTypeOK'
  BY <1>3 DEF Cancel
<1>4. CASE UNCHANGED runnerVars
  BY <1>4 DEF runnerVars
<1> QED BY <1>1, <1>2, <1>3, <1>4 DEF RunnerNext

\* One lemma for everything a step does to the calls and to the slot: the
\* local facts about every call, who holds the slot, and the notices.
LEMMA HonestStep == HonestInv /\ [RunnerNext]_runnerVars => HonestInv'
<1> SUFFICES ASSUME HonestInv, [RunnerNext]_runnerVars
             PROVE  Bookkeeping' /\ SlotIsHonest' /\ NoticeInv'
  BY TypeStep DEF HonestInv
<1> USE NoneAssumption DEF HonestInv, RunnerTypeOK, PCs, Children, Results,
        Bookkeeping, SlotIsHonest, NoticeInv, Holding, Live, ChildAlive,
        ownVars, dataVars, closeVars
<1>1. ASSUME NEW b \in Builds, NEW p \in Prompts, StartRejected(b, p)
      PROVE  Bookkeeping' /\ SlotIsHonest' /\ NoticeInv'
  BY <1>1, OutcomeTypes DEF StartRejected
<1>2. ASSUME NEW b \in Builds, NEW p \in Prompts, StartClaims(b, p)
      PROVE  Bookkeeping' /\ SlotIsHonest' /\ NoticeInv'
  BY <1>2 DEF StartClaims
<1>3. ASSUME NEW b \in Builds, RunnerStep(b)
      PROVE  Bookkeeping' /\ SlotIsHonest' /\ NoticeInv'
  <2>1. CASE MkdirDone(b)
    BY <2>1 DEF MkdirDone
  <2>2. CASE MkdirFails(b)
    BY <2>2 DEF MkdirFails
  <2>3. ASSUME NEW taken \in BOOLEAN, Spawns(b, taken)
        PROVE  Bookkeeping' /\ SlotIsHonest' /\ NoticeInv'
    BY <2>3 DEF Spawns, TakeSnapshot
  <2>4. ASSUME NEW taken \in BOOLEAN, SpawnThrows(b, taken)
        PROVE  Bookkeeping' /\ SlotIsHonest' /\ NoticeInv'
    BY <2>4 DEF SpawnThrows, TakeSnapshot
  <2>5. ASSUME NEW taken \in BOOLEAN, SpawnErrors(b, taken)
        PROVE  Bookkeeping' /\ SlotIsHonest' /\ NoticeInv'
    BY <2>5 DEF SpawnErrors, TakeSnapshot
  <2>6. ASSUME NEW r \in Results, StreamResult(b, r)
        PROVE  Bookkeeping' /\ SlotIsHonest' /\ NoticeInv'
    BY <2>6 DEF StreamResult
  <2>7. CASE Timeout(b)
    BY <2>7 DEF Timeout
  <2>8. ASSUME NEW code \in Codes, Closes(b, code)
        PROVE  Bookkeeping' /\ SlotIsHonest' /\ NoticeInv'
    BY <2>8 DEF Closes
  <2>9. CASE ClosesAfterError(b)
    BY <2>9 DEF ClosesAfterError, Codes
  <2>10. CASE FinishNow(b)
    BY <2>10 DEF FinishNow, Conclude
  <2>11. CASE FinishNeedsDiff(b)
    BY <2>11 DEF FinishNeedsDiff
  <2>12. ASSUME NEW taken \in BOOLEAN, FinishAfterDiff(b, taken)
         PROVE  Bookkeeping' /\ SlotIsHonest' /\ NoticeInv'
    BY <2>12 DEF FinishAfterDiff, Conclude, TakeSnapshot
  <2> QED BY <1>3, <2>1, <2>2, <2>3, <2>4, <2>5, <2>6, <2>7, <2>8, <2>9,
             <2>10, <2>11, <2>12 DEF RunnerStep, Progress
<1>4. ASSUME NEW p \in Prompts, Cancel(p)
      PROVE  Bookkeeping' /\ SlotIsHonest' /\ NoticeInv'
  BY <1>4 DEF Cancel
<1>5. CASE UNCHANGED runnerVars
  BY <1>5 DEF runnerVars
<1> QED BY <1>1, <1>2, <1>3, <1>4, <1>5 DEF RunnerNext, Start

LEMMA AlwaysHonest == RunnerSpec => []HonestInv
BY InitHonest, HonestStep, PTL DEF RunnerSpec

\* Every variable of the runner keeps its type: start() never settles with
\* anything but an outcome, and the badge never names anything but a prompt.
THEOREM RunnerTypeCorrect == RunnerSpec => []RunnerTypeOK
<1>1. HonestInv => RunnerTypeOK
  BY DEF HonestInv
<1> QED BY <1>1, AlwaysHonest, PTL

\* currentBuild() never names a build that has settled, and never stands next
\* to a stale "built" badge: not even when a spawn fails.
THEOREM SlotAlwaysHonest == RunnerSpec => []SlotIsHonest
<1>1. HonestInv => SlotIsHonest
  BY DEF HonestInv
<1> QED BY <1>1, AlwaysHonest, PTL

\* "At most one notice per build", however the two git snapshots end.
THEOREM NoticesBounded == RunnerSpec => []AtMostOneNotice
<1>1. HonestInv => AtMostOneNotice
  BY DEF HonestInv, NoticeInv, AtMostOneNotice
<1> QED BY <1>1, AlwaysHonest, PTL

-----------------------------------------------------------------------------
(* From here on: no spawn fails asynchronously.                             *)

LEMMA InitOwner == RunnerInit => OwnerInv
BY DEF RunnerInit, OwnerInv, Live

LEMMA OwnerStep ==
  ASSUME ~SpawnMayFail
  PROVE  HonestInv /\ OwnerInv /\ [RunnerNext]_runnerVars => OwnerInv'
<1> SUFFICES ASSUME HonestInv, OwnerInv, [RunnerNext]_runnerVars
             PROVE  OwnerInv'
  OBVIOUS
<1> USE NoneAssumption DEF HonestInv, RunnerTypeOK, PCs, Bookkeeping,
        OwnerInv, Live, ownVars
<1>1. ASSUME NEW b \in Builds, NEW p \in Prompts, StartRejected(b, p)
      PROVE  OwnerInv'
  BY <1>1 DEF StartRejected
<1>2. ASSUME NEW b \in Builds, NEW p \in Prompts, StartClaims(b, p)
      PROVE  OwnerInv'
  BY <1>2 DEF StartClaims
<1>3. ASSUME NEW b \in Builds, RunnerStep(b)
      PROVE  OwnerInv'
  <2>1. CASE MkdirDone(b)
    BY <2>1 DEF MkdirDone
  <2>2. CASE MkdirFails(b)
    BY <2>2 DEF MkdirFails
  <2>3. ASSUME NEW taken \in BOOLEAN, Spawns(b, taken)
        PROVE  OwnerInv'
    BY <2>3 DEF Spawns
  <2>4. ASSUME NEW taken \in BOOLEAN, SpawnThrows(b, taken)
        PROVE  OwnerInv'
    BY <2>4 DEF SpawnThrows
  <2>5. ASSUME NEW taken \in BOOLEAN, SpawnErrors(b, taken)
        PROVE  OwnerInv'
    BY <2>5 DEF SpawnErrors
  <2>6. ASSUME NEW r \in Results, StreamResult(b, r)
        PROVE  OwnerInv'
    BY <2>6 DEF StreamResult
  <2>7. CASE Timeout(b)
    BY <2>7 DEF Timeout
  <2>8. ASSUME NEW code \in Codes, Closes(b, code)
        PROVE  OwnerInv'
    BY <2>8 DEF Closes
  <2>9. CASE ClosesAfterError(b)
    BY <2>9 DEF ClosesAfterError
  <2>10. CASE FinishNow(b)
    BY <2>10 DEF FinishNow, Conclude
  <2>11. CASE FinishNeedsDiff(b)
    BY <2>11 DEF FinishNeedsDiff
  <2>12. ASSUME NEW taken \in BOOLEAN, FinishAfterDiff(b, taken)
         PROVE  OwnerInv'
    BY <2>12 DEF FinishAfterDiff, Conclude
  <2> QED BY <1>3, <2>1, <2>2, <2>3, <2>4, <2>5, <2>6, <2>7, <2>8, <2>9,
             <2>10, <2>11, <2>12 DEF RunnerStep, Progress
<1>4. ASSUME NEW p \in Prompts, Cancel(p)
      PROVE  OwnerInv'
  BY <1>4 DEF Cancel
<1>5. CASE UNCHANGED runnerVars
  BY <1>5 DEF runnerVars
<1> QED BY <1>1, <1>2, <1>3, <1>4, <1>5 DEF RunnerNext, Start

\* As long as no spawn fails after the fact, two claude processes never edit
\* the repository at once, whatever the number of builds and prompts.
THEOREM OneBuildProved ==
  ASSUME ~SpawnMayFail
  PROVE  RunnerSpec => []OneBuildAtATime
<1>1. HonestInv /\ OwnerInv => OneBuildAtATime
  BY DEF HonestInv, Bookkeeping, OwnerInv, OneBuildAtATime, ChildAlive, Live
<1>2. HonestInv /\ OwnerInv /\ [RunnerNext]_runnerVars => OwnerInv'
  BY OwnerStep
<1> QED BY <1>1, <1>2, InitOwner, AlwaysHonest, PTL DEF RunnerSpec

\* What a step of the runner is to its callers: the beginning, the refusal or
\* the end of one build, or nothing.
LEMMA SlotStep ==
  ASSUME ~SpawnMayFail
  PROVE  HonestInv /\ OwnerInv /\ [RunnerNext]_runnerVars
           => [Slot!SlotNext]_(Slot!slotVars)
<1> SUFFICES ASSUME HonestInv, OwnerInv, [RunnerNext]_runnerVars
             PROVE  [Slot!SlotNext]_(Slot!slotVars)
  OBVIOUS
<1> USE NoneAssumption DEF HonestInv, RunnerTypeOK, Bookkeeping, OwnerInv,
        Live, ownVars
<1>0. ASSUME NEW b \in Builds, NEW o \in Outcomes, current = b,
             current' = None, outcome' = [outcome EXCEPT ![b] = o],
             promptOf' = promptOf
      PROVE  Slot!SlotNext
  <2>1. o \in Slot!Outcomes
    BY DEF Outcomes, Codes, Slot!Outcomes, Slot!Codes
  <2> QED BY <1>0, <2>1 DEF Slot!SlotNext, Slot!End
<1>1. ASSUME NEW b \in Builds, NEW p \in Prompts, StartRejected(b, p)
      PROVE  Slot!SlotNext
  BY <1>1 DEF StartRejected, Slot!SlotNext, Slot!Refuse, Failed, Slot!Failed
<1>2. ASSUME NEW b \in Builds, NEW p \in Prompts, StartClaims(b, p)
      PROVE  Slot!SlotNext
  BY <1>2 DEF StartClaims, Slot!SlotNext, Slot!Begin
<1>3. ASSUME NEW b \in Builds, RunnerStep(b)
      PROVE  [Slot!SlotNext]_(Slot!slotVars)
  <2>1. CASE MkdirDone(b)
    BY <2>1 DEF MkdirDone, Slot!slotVars
  <2>2. CASE MkdirFails(b)
    BY <2>2, <1>0, OutcomeTypes DEF MkdirFails
  <2>3. ASSUME NEW taken \in BOOLEAN, Spawns(b, taken)
        PROVE  UNCHANGED Slot!slotVars
    BY <2>3 DEF Spawns, Slot!slotVars
  <2>4. ASSUME NEW taken \in BOOLEAN, SpawnThrows(b, taken)
        PROVE  Slot!SlotNext
    BY <2>4, <1>0, OutcomeTypes DEF SpawnThrows
  <2>5. ASSUME NEW taken \in BOOLEAN, SpawnErrors(b, taken)
        PROVE  FALSE
    BY <2>5 DEF SpawnErrors
  <2>6. ASSUME NEW r \in Results, StreamResult(b, r)
        PROVE  UNCHANGED Slot!slotVars
    BY <2>6 DEF StreamResult, Slot!slotVars
  <2>7. CASE Timeout(b)
    BY <2>7 DEF Timeout, Slot!slotVars
  <2>8. ASSUME NEW code \in Codes, Closes(b, code)
        PROVE  UNCHANGED Slot!slotVars
    BY <2>8 DEF Closes, Slot!slotVars
  <2>9. CASE ClosesAfterError(b)
    BY <2>9 DEF ClosesAfterError
  <2>10. ASSUME NEW k \in BOOLEAN, Conclude(b, k), promptOf' = promptOf,
                pc[b] \in {"ending", "after"}
         PROVE  Slot!SlotNext
    <3>1. [exit |-> exit[b], cancelled |-> k] \in Outcomes
      BY <2>10, OutcomeTypes
    <3>2. outcome' = [outcome EXCEPT ![b] = [exit |-> exit[b], cancelled |-> k]]
      BY <2>10 DEF Conclude
    <3> QED BY <2>10, <3>1, <3>2, <1>0 DEF Conclude
  <2>11. CASE FinishNow(b)
    BY <2>11, <2>10 DEF FinishNow
  <2>12. CASE FinishNeedsDiff(b)
    BY <2>12 DEF FinishNeedsDiff, Slot!slotVars
  <2>13. ASSUME NEW taken \in BOOLEAN, FinishAfterDiff(b, taken)
         PROVE  Slot!SlotNext
    BY <2>13, <2>10 DEF FinishAfterDiff
  <2> QED BY <1>3, <2>1, <2>2, <2>3, <2>4, <2>5, <2>6, <2>7, <2>8, <2>9,
             <2>11, <2>12, <2>13 DEF RunnerStep, Progress
<1>4. ASSUME NEW p \in Prompts, Cancel(p)
      PROVE  UNCHANGED Slot!slotVars
  BY <1>4 DEF Cancel, Slot!slotVars
<1>5. CASE UNCHANGED runnerVars
  BY <1>5 DEF runnerVars, Slot!slotVars
<1> QED BY <1>1, <1>2, <1>3, <1>4, <1>5 DEF RunnerNext, Start

\* The runner keeps the promise PromptService is written against: one build
\* at a time, refused at once otherwise, settled at most once.
THEOREM RunnerImplementsSlot ==
  ASSUME ~SpawnMayFail
  PROVE  RunnerSpec => ImplementsSlot
<1>1. RunnerInit => Slot!SlotInit
  BY DEF RunnerInit, Slot!SlotInit
<1>2. HonestInv /\ OwnerInv /\ [RunnerNext]_runnerVars => OwnerInv'
  BY OwnerStep
<1>3. HonestInv /\ OwnerInv /\ [RunnerNext]_runnerVars
        => [Slot!SlotNext]_(Slot!slotVars)
  BY SlotStep
<1> QED BY <1>1, <1>2, <1>3, InitOwner, AlwaysHonest, PTL
        DEF RunnerSpec, ImplementsSlot, Slot!SlotSpec
=============================================================================
