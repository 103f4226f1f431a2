--------------------------- MODULE MCPromptService ---------------------------
(* Model checking of PromptService.                                         *)
EXTENDS PromptService, TLC
CONSTANTS b1, b2, p1, p2, r1, r2, m1, t1, t2

OneBuild    == {b1}
TwoBuilds   == {b1, b2}
OnePrompt   == {p1}
TwoPrompts  == {p1, p2}
OneRequest  == {r1}
TwoRequests == {r1, r2}
NoRequest   == {}
OneMark     == {m1}
OneText     == {t1}
TwoTexts    == {t1, t2}

\* Every text survives its file (PromptFile says which do).
AllKept == [t \in TwoTexts |-> t]
OneKept == [t \in OneText |-> t]

\* PromptsPane offers scrap on these two only; the route takes any.
FromThePane == {"draft", "ready"}
FromAnyone  == PromptStates

BuildSymmetry == Permutations(TwoBuilds)
=============================================================================
