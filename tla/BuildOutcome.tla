---------------------------- MODULE BuildOutcome -----------------------------
(* build/types.ts: what one run of `claude -p` reports, reduced to what its *)
(* callers look at.                                                         *)

\* exitCode: 0, another code, or null (never spawned, or killed by a signal).
Codes == {"zero", "nonzero", "null"}

\* BuildOutcome.
Outcomes == [exit : Codes, cancelled : BOOLEAN]

\* A start() that rejects and a spawn() that throws report the same thing: the
\* .catch of PromptService.build makes exactly this record of the former.
Failed == [exit |-> "null", cancelled |-> FALSE]

\* PromptService.finishBuild: exit 0 and not cancelled makes a prompt `built`.
Success(o) == o.exit = "zero" /\ ~o.cancelled
=============================================================================
