---------------------------- MODULE MCBuildRunner ----------------------------
(* Model checking of BuildRunner on three builds of two prompts.            *)
EXTENDS BuildRunner, TLC
CONSTANTS b1, b2, b3, p1, p2
MCBuilds  == {b1, b2, b3}
MCTwoBuilds == {b1, b2}
MCPrompts == {p1, p2}
MCOnePrompt == {p1}
Symmetry  == Permutations(MCBuilds) \cup Permutations(MCPrompts)
=============================================================================
