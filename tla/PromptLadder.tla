---------------------------- MODULE PromptLadder -----------------------------
(* packages/core/src/prompt.ts: the states of a prompt, the moves between   *)
(* them, and where the six rungs of the old work-order ladder land.         *)

PromptStates == {"draft", "ready", "building", "built", "scrapped"}
PromptEvents == {"ready", "build", "built", "fail", "scrap"}

\* promptTransition's null.
Illegal == "illegal"

\* PROMPT_TRANSITIONS as a relation: <<from, event, to>>.
Moves ==
  { <<"draft", "ready", "ready">>,
    <<"ready", "build", "building">>,
    <<"building", "built", "built">>,
    <<"building", "fail", "ready">> }
  \cup { <<s, "scrap", "scrapped">> : s \in PromptStates \ {"scrapped"} }

promptTransition(state, event) ==
  IF \E to \in PromptStates : <<state, event, to>> \in Moves
  THEN CHOOSE to \in PromptStates : <<state, event, to>> \in Moves
  ELSE Illegal

\* scrappedFrom may be missing (any value that is not a state): then `draft`.
restorePromptState(scrappedFrom) ==
  IF scrappedFrom \in PromptStates \ {"scrapped"} THEN scrappedFrom ELSE "draft"
=============================================================================
