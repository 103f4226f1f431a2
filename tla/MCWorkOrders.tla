---------------------------- MODULE MCWorkOrders -----------------------------
(* Model checking of WorkOrders.                                            *)
EXTENDS WorkOrders, TLC
CONSTANTS o1, o2, c1, c2, c3, m1, l1

TwoOrders  == {o1, o2}
ThreeCalls == {c1, c2, c3}
TwoCalls   == {c1, c2}
OneTool    == {m1}
OneReload  == {l1}

Marked   == [rung |-> "marked", face |-> "asked", shop |-> "none"]
Released == [rung |-> "released", face |-> "written", shop |-> "brief"]

\* Two fresh marks, or one beside an order that waits for the shop.
FreshMarks == { [o \in TwoOrders |-> Marked],
                (o1 :> Marked @@ o2 :> Released) }
=============================================================================
