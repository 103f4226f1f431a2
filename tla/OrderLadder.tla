----------------------------- MODULE OrderLadder -----------------------------
(* packages/core/src/ladder.ts: the six rungs of a work order.              *)

LadderStates ==
  {"marked", "drafted", "released", "in-the-shop", "trial-fit", "scrapped"}
LadderEvents == {"draft", "release", "claim", "report", "scrap"}

\* transition's null.
NoMove == "illegal"

\* TRANSITIONS as a relation: <<from, event, to>>.
Rungs ==
  { <<"marked", "draft", "drafted">>,
    <<"drafted", "release", "released">>,
    <<"released", "claim", "in-the-shop">>,
    <<"in-the-shop", "report", "trial-fit">> }
  \cup { <<s, "scrap", "scrapped">> : s \in LadderStates \ {"scrapped"} }

transition(state, event) ==
  IF \E to \in LadderStates : <<state, event, to>> \in Rungs
  THEN CHOOSE to \in LadderStates : <<state, event, to>> \in Rungs
  ELSE NoMove
=============================================================================
