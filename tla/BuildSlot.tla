------------------------------ MODULE BuildSlot ------------------------------
(***************************************************************************)
(* What the build runner promises PromptService (BuildRunnerLike in        *)
(* build/types.ts): currentBuild() names the one build under way, start()  *)
(* is refused at once while there is one, and every start() settles at     *)
(* most once, with an outcome.  BuildRunner is shown to implement this.    *)
(***************************************************************************)
EXTENDS BuildOutcome

CONSTANTS Prompts, Builds, None

ASSUME NoneAssumption == None \notin Builds \cup Prompts \cup Outcomes

VARIABLES current,   \* currentBuild(): the build under way, or None
          promptOf,  \* the prompt each start() was called for
          outcome    \* what each start() settled with, or None

slotVars == <<current, promptOf, outcome>>

SlotInit ==
  /\ current = None
  /\ promptOf = [b \in Builds |-> None]
  /\ outcome = [b \in Builds |-> None]

Begin(b, p) ==
  /\ current = None
  /\ promptOf[b] = None
  /\ current' = b
  /\ promptOf' = [promptOf EXCEPT ![b] = p]
  /\ UNCHANGED outcome

Refuse(b, p) ==
  /\ current # None
  /\ promptOf[b] = None
  /\ promptOf' = [promptOf EXCEPT ![b] = p]
  /\ outcome' = [outcome EXCEPT ![b] = Failed]
  /\ UNCHANGED current

End(b, o) ==
  /\ current = b
  /\ current' = None
  /\ outcome' = [outcome EXCEPT ![b] = o]
  /\ UNCHANGED promptOf

SlotNext ==
  \E b \in Builds : \/ \E p \in Prompts : Begin(b, p) \/ Refuse(b, p)
                    \/ \E o \in Outcomes : End(b, o)

SlotSpec == SlotInit /\ [][SlotNext]_slotVars
=============================================================================
