-------------------------- MODULE WorkOrdersProofs ---------------------------
(* Proofs about WorkOrders.                                                 *)
EXTENDS WorkOrders, TLAPS, FiniteSetTheorems, SequenceTheorems

(* What transition() answers, rung by rung.                                 *)

LEMMA RungReached ==
  ASSUME NEW s \in LadderStates, NEW e \in LadderEvents, NEW t \in LadderStates,
         <<s, e, t>> \in Rungs,
         \A u \in LadderStates : <<s, e, u>> \in Rungs => u = t
  PROVE  transition(s, e) = t
BY DEF transition

LEMMA RungRefused ==
  ASSUME NEW s, NEW e, \A u \in LadderStates : <<s, e, u>> \notin Rungs
  PROVE  transition(s, e) = NoMove
BY DEF transition

LEMMA RungsNamed ==
  /\ transition("marked", "draft") = "drafted"
  /\ transition("drafted", "release") = "released"
  /\ transition("released", "claim") = "in-the-shop"
  /\ transition("in-the-shop", "report") = "trial-fit"
BY RungReached DEF Rungs, LadderStates, LadderEvents

LEMMA ReleaseMove ==
  ASSUME NEW s \in LadderStates, transition(s, "release") # NoMove
  PROVE  s = "drafted" /\ transition(s, "release") = "released"
<1>1. s = "drafted"
  BY RungRefused DEF Rungs, LadderStates
<1> QED BY <1>1, RungsNamed

LEMMA ClaimMove ==
  ASSUME NEW s \in LadderStates, transition(s, "claim") # NoMove
  PROVE  s = "released" /\ transition(s, "claim") = "in-the-shop"
<1>1. s = "released"
  BY RungRefused DEF Rungs, LadderStates
<1> QED BY <1>1, RungsNamed

LEMMA ReportMove ==
  ASSUME NEW s \in LadderStates, transition(s, "report") # NoMove
  PROVE  s = "in-the-shop" /\ transition(s, "report") = "trial-fit"
<1>1. s = "in-the-shop"
  BY RungRefused DEF Rungs, LadderStates
<1> QED BY <1>1, RungsNamed

LEMMA ScrapMove ==
  ASSUME NEW s \in LadderStates, transition(s, "scrap") # NoMove
  PROVE  s # "scrapped" /\ transition(s, "scrap") = "scrapped"
<1>1. s # "scrapped"
  BY RungRefused DEF Rungs, LadderStates
<1>2. transition(s, "scrap") = "scrapped"
  BY <1>1, RungReached DEF Rungs, LadderStates, LadderEvents
<1> QED BY <1>1, <1>2

-----------------------------------------------------------------------------
(* The records: what is true of every copy of an order, and what an         *)
(* operation makes of it.                                                   *)

\* A file whose rung has its shop face.
FullFiles == {f \in Files : Filled(f.rung, f.shop)}

\* A record whose rung, and the rung it was scrapped from, have the shop
\* face.  An order on the first two rungs was never scrapped from a later
\* one, so that release() may replace the shop face it carries.
Sturdy(rec) ==
  /\ Filled(rec.rung, rec.shop) /\ Filled(rec.prev, rec.shop)
  /\ rec.rung \in {"marked", "drafted"} => rec.prev \in {None, "marked", "drafted"}
SturdyRecords == {rec \in Records : Sturdy(rec)}

\* The rung an operation that was accepted started from.
Begun(op, rec) ==
  /\ op = "edit" => rec.rung \in {"marked", "drafted"}
  /\ op = "release" => rec.rung = "drafted"
  /\ op = "scrap" => rec.rung # "scrapped" /\ transition(rec.rung, "scrap") # NoMove
  /\ op = "restore" => rec.rung = "scrapped"
  /\ op = "claim" => rec.rung = "released"
  /\ op = "report" => rec.rung = "in-the-shop"
  /\ op \in DraftOps \cup {"agent", None} => rec.rung = "marked"

LEMMA RecordFields ==
  ASSUME NEW rec \in SturdyRecords
  PROVE  /\ rec \in Records /\ rec.rung \in LadderStates
         /\ rec.face \in {"asked", "written"} /\ rec.shop \in {"none", "brief", "fit"}
         /\ rec.prev \in LadderStates \cup {None}
BY DEF SturdyRecords, Records

LEMMA BuiltSturdy ==
  ASSUME NEW rec \in Records, NEW r \in LadderStates, NEW f \in {"asked", "written"},
         NEW s \in {"none", "brief", "fit"}, NEW p \in LadderStates \cup {None},
         rec = [rung |-> r, face |-> f, shop |-> s, prev |-> p],
         Filled(r, s), Filled(p, s),
         r \in {"marked", "drafted"} => p \in {None, "marked", "drafted"}
  PROVE  rec \in SturdyRecords
BY DEF SturdyRecords, Sturdy

LEMMA ResultSturdy ==
  ASSUME NEW rec \in SturdyRecords, NEW op \in Ops, Begun(op, rec)
  PROVE  Result(op, rec) \in SturdyRecords
<1> DEFINE next == Result(op, rec)
<1>0. /\ rec = [rung |-> rec.rung, face |-> rec.face, shop |-> rec.shop, prev |-> rec.prev]
      /\ rec.rung \in LadderStates /\ rec.face \in {"asked", "written"}
      /\ rec.shop \in {"none", "brief", "fit"} /\ rec.prev \in LadderStates \cup {None}
      /\ Sturdy(rec) /\ None \notin LadderStates
  BY NoneIsNoRecord DEF SturdyRecords, Records
<1>1. CASE op = "edit"
  <2>1. next = [rung |-> rec.rung, face |-> "written", shop |-> rec.shop, prev |-> rec.prev]
    BY <1>0, <1>1 DEF Result
  <2> QED BY <1>0, <2>1 DEF SturdyRecords, Sturdy, Records
<1>2. CASE op = "release"
  <2>0. next = [rec EXCEPT !.rung = transition(rec.rung, "release"), !.shop = "brief"]
    BY <1>2 DEF Result
  <2>1. next = [rung |-> "released", face |-> rec.face, shop |-> "brief", prev |-> rec.prev]
    BY <1>0, <1>2, <2>0, RungsNamed DEF Begun
  <2>2. rec.prev \in {None, "marked", "drafted"}
    BY <1>0, <1>2 DEF Begun, Sturdy
  <2> QED BY <1>0, <2>1, <2>2 DEF SturdyRecords, Sturdy, Records, Filled, LadderStates
<1>3. CASE op = "scrap"
  <2>1. next = [rung |-> "scrapped", face |-> rec.face, shop |-> rec.shop, prev |-> rec.rung]
    BY <1>0, <1>3, ScrapMove DEF Result, Begun
  <2> QED BY <1>0, <2>1 DEF SturdyRecords, Sturdy, Records, Filled, LadderStates
<1>4. CASE op = "restore"
  <2>1. next = [rung |-> IF rec.prev = None THEN "marked" ELSE rec.prev,
                face |-> rec.face, shop |-> rec.shop, prev |-> rec.prev]
    BY <1>0, <1>4 DEF Result, Restored
  <2>2. CASE rec.prev = None
    BY <1>0, <2>1, <2>2 DEF SturdyRecords, Sturdy, Records, Filled, LadderStates
  <2>3. CASE rec.prev # None
    BY <1>0, <2>1, <2>3 DEF SturdyRecords, Sturdy, Records, Filled, LadderStates
  <2> QED BY <2>2, <2>3
<1>5. CASE op = "claim"
  <2>0. next = [rec EXCEPT !.rung = transition(rec.rung, "claim")]
    BY <1>5 DEF Result
  <2>1. next = [rung |-> "in-the-shop", face |-> rec.face, shop |-> rec.shop, prev |-> rec.prev]
    BY <1>0, <1>5, <2>0, RungsNamed DEF Begun
  <2>2. rec.shop # "none"
    BY <1>0, <1>5 DEF Begun, Sturdy, Filled
  <2> QED BY <1>0, <2>1, <2>2 DEF SturdyRecords, Sturdy, Records, Filled, LadderStates
<1>6. CASE op = "report"
  <2>0. next = [rec EXCEPT !.rung = transition(rec.rung, "report"), !.shop = "fit"]
    BY <1>6 DEF Result
  <2>1. next = [rung |-> "trial-fit", face |-> rec.face, shop |-> "fit", prev |-> rec.prev]
    BY <1>0, <1>6, <2>0, RungsNamed DEF Begun
  <2> QED BY <1>0, <2>1 DEF SturdyRecords, Sturdy, Records, Filled, LadderStates
<1>7. CASE op = "shop"
  <2>1. next = [rung |-> rec.rung, face |-> "asked", shop |-> rec.shop, prev |-> rec.prev]
    BY <1>0, <1>7 DEF Result
  <2> QED BY <1>0, <2>1 DEF SturdyRecords, Sturdy, Records
<1>8. CASE op \in {"person", "model", "agent"}
  <2>1. /\ rec.rung = "marked"
        /\ next = [rung |-> "drafted", face |-> IF op = "person" THEN "asked" ELSE "written",
                   shop |-> rec.shop, prev |-> rec.prev]
    BY <1>0, <1>8, RungsNamed DEF Result, Begun, DraftOps
  <2> QED BY <1>0, <2>1 DEF SturdyRecords, Sturdy, Records, Filled, LadderStates
<1>9. CASE op = "failed"
  BY <1>9 DEF Result
<1> QED BY <1>1, <1>2, <1>3, <1>4, <1>5, <1>6, <1>7, <1>8, <1>9 DEF Ops

\* Writing a record out and reading it back in keep it sturdy.
LEMMA SerializeFull ==
  ASSUME NEW rec \in SturdyRecords
  PROVE  serializeWorkOrder(rec) \in FullFiles
BY DEF SturdyRecords, Sturdy, Records, FullFiles, Files, serializeWorkOrder

LEMMA ParseSturdy ==
  ASSUME NEW f \in FullFiles
  PROVE  /\ parseWorkOrder(f) \in SturdyRecords
         /\ serializeWorkOrder(parseWorkOrder(f)) = f
BY NoneIsNoRecord
   DEF SturdyRecords, Sturdy, Records, FullFiles, Files, Filled, LadderStates,
       serializeWorkOrder, parseWorkOrder

-----------------------------------------------------------------------------
(* The invariants.                                                          *)

Over == {NoCall("unused"), NoCall("done")}

UnderWay == [pc : PCs \ {"unused", "done"}, op : Ops \cup {None}, order : Orders,
             base : SturdyRecords, slot : BOOLEAN]

\* What the record k of the call c holds: which operation is at which await,
\* on a record that allowed it.  Only the bench drafts, only a draft that
\* asked the model holds a slot.
CallOK(c, k) ==
  \/ k \in Over
  \/ /\ k \in UnderWay
     /\ Begun(k.op, k.base)
     /\ k.op = None <=> k.pc = "select"
     /\ k.pc \in {"queued", "model"} => k.op = "model"
     /\ k.pc = "polish" => k.op = "release"
     /\ k.op \in DraftOps \cup {"failed", None} => c \in BenchCalls
     /\ k.slot => k.op \in {"model", "failed"} /\ k.pc \in {"model", "write", "renamed"}
     /\ k.pc = "model" => k.slot

\* Every copy of an order is sturdy and every call as it should be.
CopiesInv ==
  /\ file \in [Orders -> FullFiles]
  /\ index \in [Procs -> [Orders -> SturdyRecords]]
  /\ call \in [Calls -> Over \cup UnderWay]
  /\ \A c \in Calls : CallOK(c, call[c])
  /\ changed \in BOOLEAN
  /\ loading \in [Reloads -> [Orders -> SturdyRecords \cup {None}] \cup {None}]

\* The calls that hold a model slot.
Holders == {c \in Calls : call[c].slot}

\* The semaphore: its queue names queued calls, each once.
QueueOK ==
  /\ queue \in Seq(BenchCalls)
  /\ \A i \in 1..Len(queue) : call[queue[i]].pc = "queued"
  /\ \A i, j \in 1..Len(queue) : queue[i] = queue[j] => i = j

SlotInv ==
  /\ free \in 0..MaxModelCalls
  /\ free = MaxModelCalls - Cardinality(Holders)
  /\ queue # << >> => free = 0
  /\ QueueOK

\* The watcher: what has been read or shown since the last change is what the
\* files hold, and the bench's own renames are still to be noticed.
Fresh(l) ==
  \A o \in Orders : loading[l][o] # None => serializeWorkOrder(loading[l][o]) = file[o]

WatchInv ==
  /\ \A c \in BenchCalls : call[c].pc = "renamed" => changed
  /\ ~changed => \A l \in Reloads : loading[l] # None => Fresh(l)
  /\ ~changed /\ (\A l \in Reloads : loading[l] = None) =>
       \A o \in Orders : serializeWorkOrder(index["bench"][o]) = file[o]

-----------------------------------------------------------------------------
(* The calls.                                                               *)

LEMMA CallUnderWay ==
  ASSUME NEW c, NEW k, CallOK(c, k), k.pc \notin {"unused", "done"}
  PROVE  /\ k \in UnderWay /\ k \notin Over
         /\ k.pc \in PCs /\ k.op \in Ops \cup {None} /\ k.order \in Orders
         /\ k.base \in SturdyRecords /\ k.slot \in BOOLEAN
         /\ k = [pc |-> k.pc, op |-> k.op, order |-> k.order, base |-> k.base, slot |-> k.slot]
         /\ Begun(k.op, k.base)
         /\ k.op = None <=> k.pc = "select"
         /\ k.pc \in {"queued", "model"} => k.op = "model"
         /\ k.pc = "polish" => k.op = "release"
         /\ k.op \in DraftOps \cup {"failed", None} => c \in BenchCalls
         /\ k.slot => k.op \in {"model", "failed"} /\ k.pc \in {"model", "write", "renamed"}
         /\ k.pc = "model" => k.slot
<1>1. \A m \in Over : m.pc \in {"unused", "done"}
  BY DEF Over, NoCall
<1>2. k \notin Over
  BY <1>1
<1> QED BY <1>2 DEF CallOK, UnderWay

LEMMA CallOver ==
  ASSUME NEW c, NEW k, CallOK(c, k), k.pc \in {"unused", "done"}
  PROVE  k \in Over /\ k.op = None /\ k.slot = FALSE /\ k.base = None
<1>1. k \notin UnderWay
  BY DEF UnderWay
<1>2. k \in Over
  BY <1>1 DEF CallOK
<1> QED BY <1>2 DEF Over, NoCall

LEMMA ProcTyped == ASSUME NEW c PROVE Proc(c) \in Procs
BY DEF Proc, Procs

\* One call changes and nothing the bench keeps does.
LEMMA CopiesOneCall ==
  ASSUME CopiesInv, NEW c \in Calls, NEW k, CallOK(c, k),
         call' = [call EXCEPT ![c] = k]
  PROVE  /\ call' \in [Calls -> Over \cup UnderWay]
         /\ \A d \in Calls : CallOK(d, call'[d])
<1>1. k \in Over \cup UnderWay
  BY DEF CallOK
<1>2. \A d \in Calls : call'[d] = IF d = c THEN k ELSE call[d]
  BY DEF CopiesInv
<1> QED BY <1>1, <1>2 DEF CopiesInv

\* A request that is accepted.
Asked(c, pc, op, o) ==
  [pc |-> pc, op |-> op, order |-> o, base |-> index[Proc(c)][o], slot |-> FALSE]

LEMMA AskedOK ==
  ASSUME CopiesInv, NEW c \in Calls, NEW o \in Orders, NEW op \in Ops \cup {None},
         NEW pc \in {"select", "write", "polish"},
         Begun(op, index[Proc(c)][o]),
         op = None <=> pc = "select", pc = "polish" => op = "release",
         op \in DraftOps \cup {"failed", None} => c \in BenchCalls
  PROVE  CallOK(c, Asked(c, pc, op, o))
<1>1. index[Proc(c)][o] \in SturdyRecords
  BY ProcTyped DEF CopiesInv
<1> DEFINE k == Asked(c, pc, op, o)
<1>2. /\ k.pc = pc /\ k.op = op /\ k.base = index[Proc(c)][o] /\ k.slot = FALSE
      /\ k \in UnderWay
  BY <1>1 DEF Asked, UnderWay, PCs
<1> HIDE DEF k
<1>3. CallOK(c, k)
  BY <1>2 DEF CallOK
<1> QED BY <1>3 DEF k

\* The operation that each request begins, and at which await.
LEMMA RequestAsks ==
  ASSUME CopiesInv, NEW c \in Calls, NEW o \in Orders,
         \/ c \in BenchCalls /\ (Edit(c, o) \/ Release(c, o) \/ Scrap(c, o) \/ Restore(c, o))
         \/ c \in McpCalls /\ DraftByAgent(c, o)
         \/ Claim(c, o) \/ Report(c, o)
  PROVE  \E pc \in {"write", "polish"}, op \in Ops \ (DraftOps \cup {"failed"}) :
           /\ CallOK(c, Asked(c, pc, op, o))
           /\ Accept(c, pc, op, o)
           /\ UNCHANGED draftVars
<1> DEFINE rec == index[Proc(c)][o]
<1>0. /\ rec.rung \in LadderStates /\ Rung(c, o) = rec.rung /\ None \notin Ops
  BY ProcTyped, RecordFields, NoneIsNoOp DEF CopiesInv, Rung
<1>1. CASE Edit(c, o)
  <2>1. Begun("edit", rec)
    BY <1>0, <1>1, NoneIsNoOp DEF Begun, Edit, DraftOps, Ops
  <2> QED BY <1>0, <1>1, <2>1, AskedOK DEF Edit, Ops, DraftOps
<1>2. CASE Release(c, o)
  <2>1. Begun("release", rec)
    BY <1>0, <1>2, ReleaseMove DEF Begun, Release, DraftOps, Ops
  <2> QED BY <1>0, <1>2, <2>1, AskedOK DEF Release, Ops, DraftOps
<1>3. CASE Scrap(c, o)
  <2>1. Begun("scrap", rec)
    BY <1>0, <1>3, ScrapMove DEF Begun, Scrap, DraftOps, Ops
  <2> QED BY <1>0, <1>3, <2>1, AskedOK DEF Scrap, Ops, DraftOps
<1>4. CASE Restore(c, o)
  <2>1. Begun("restore", rec)
    BY <1>0, <1>4 DEF Begun, Restore, DraftOps, Ops
  <2> QED BY <1>0, <1>4, <2>1, AskedOK DEF Restore, Ops, DraftOps
<1>5. CASE DraftByAgent(c, o)
  <2>1. Begun("agent", rec)
    BY <1>0, <1>5 DEF Begun, DraftByAgent, DraftOps, Ops
  <2> QED BY <1>0, <1>5, <2>1, AskedOK DEF DraftByAgent, Ops, DraftOps
<1>6. CASE Claim(c, o)
  <2>1. Begun("claim", rec)
    BY <1>0, <1>6, ClaimMove DEF Begun, Claim, DraftOps, Ops
  <2> QED BY <1>0, <1>6, <2>1, AskedOK DEF Claim, Ops, DraftOps
<1>7. CASE Report(c, o)
  <2>1. Begun("report", rec)
    BY <1>0, <1>7, ReportMove DEF Begun, Report, DraftOps, Ops
  <2> QED BY <1>0, <1>7, <2>1, AskedOK DEF Report, Ops, DraftOps
<1> QED BY <1>1, <1>2, <1>3, <1>4, <1>5, <1>6, <1>7

LEMMA DraftAsks ==
  ASSUME CopiesInv, NEW c \in BenchCalls, NEW o \in Orders, Draft(c, o)
  PROVE  CallOK(c, Asked(c, "select", None, o)) /\ Accept(c, "select", None, o)
<1>1. Begun(None, index[Proc(c)][o])
  BY NoneIsNoOp DEF Draft, Rung, Begun, Ops
<1> QED BY <1>1, AskedOK DEF Draft, Calls

\* The next await of a call under way: the operation may get its name, the
\* call may get its slot; nothing else changes.
On(c, pc, op, slot) ==
  [pc |-> pc, op |-> op, order |-> call[c].order, base |-> call[c].base, slot |-> slot]

LEMMA OnFields ==
  ASSUME NEW c, NEW pc, NEW op, NEW slot
  PROVE  /\ On(c, pc, op, slot).pc = pc /\ On(c, pc, op, slot).op = op
         /\ On(c, pc, op, slot).order = call[c].order
         /\ On(c, pc, op, slot).base = call[c].base /\ On(c, pc, op, slot).slot = slot
BY DEF On

\* Replacing fields of a call's record, one after the other.
LEMMA PcExcept ==
  ASSUME NEW k \in UnderWay, NEW pc
  PROVE  [k EXCEPT !.pc = pc] = [pc |-> pc, op |-> k.op, order |-> k.order, base |-> k.base, slot |-> k.slot]
BY DEF UnderWay

LEMMA OpExcept ==
  ASSUME NEW k \in UnderWay, NEW op
  PROVE  [k EXCEPT !.op = op] = [pc |-> k.pc, op |-> op, order |-> k.order, base |-> k.base, slot |-> k.slot]
BY DEF UnderWay

LEMMA PcOpExcept ==
  ASSUME NEW k \in UnderWay, NEW pc, NEW op
  PROVE  [k EXCEPT !.pc = pc, !.op = op] =
           [pc |-> pc, op |-> op, order |-> k.order, base |-> k.base, slot |-> k.slot]
<1> DEFINE m == [k EXCEPT !.pc = pc]
<1>1. m = [pc |-> pc, op |-> k.op, order |-> k.order, base |-> k.base, slot |-> k.slot]
  BY PcExcept
<1>2. [k EXCEPT !.pc = pc, !.op = op] = [m EXCEPT !.op = op]
  OBVIOUS
<1> HIDE DEF m
<1>3. [m EXCEPT !.op = op] =
        [pc |-> pc, op |-> op, order |-> k.order, base |-> k.base, slot |-> k.slot]
  BY <1>1
<1> QED BY <1>2, <1>3

LEMMA PcSlotExcept ==
  ASSUME NEW k \in UnderWay, NEW pc, NEW slot
  PROVE  [k EXCEPT !.pc = pc, !.slot = slot] =
           [pc |-> pc, op |-> k.op, order |-> k.order, base |-> k.base, slot |-> slot]
<1> DEFINE m == [k EXCEPT !.pc = pc]
<1>1. m = [pc |-> pc, op |-> k.op, order |-> k.order, base |-> k.base, slot |-> k.slot]
  BY PcExcept
<1>2. [k EXCEPT !.pc = pc, !.slot = slot] = [m EXCEPT !.slot = slot]
  OBVIOUS
<1> HIDE DEF m
<1>3. [m EXCEPT !.slot = slot] =
        [pc |-> pc, op |-> k.op, order |-> k.order, base |-> k.base, slot |-> slot]
  BY <1>1
<1> QED BY <1>2, <1>3

LEMMA PcOpSlotExcept ==
  ASSUME NEW k \in UnderWay, NEW pc, NEW op, NEW slot
  PROVE  [k EXCEPT !.pc = pc, !.op = op, !.slot = slot] =
           [pc |-> pc, op |-> op, order |-> k.order, base |-> k.base, slot |-> slot]
<1> DEFINE m == [k EXCEPT !.pc = pc, !.op = op]
<1>1. m = [pc |-> pc, op |-> op, order |-> k.order, base |-> k.base, slot |-> k.slot]
  BY PcOpExcept
<1>2. [k EXCEPT !.pc = pc, !.op = op, !.slot = slot] = [m EXCEPT !.slot = slot]
  OBVIOUS
<1> HIDE DEF m
<1>3. [m EXCEPT !.slot = slot] =
        [pc |-> pc, op |-> op, order |-> k.order, base |-> k.base, slot |-> slot]
  BY <1>1
<1> QED BY <1>2, <1>3

LEMMA SetPc ==
  ASSUME NEW c \in Calls, call \in [Calls -> Over \cup UnderWay], call[c] \in UnderWay,
         NEW pc
  PROVE  [call EXCEPT ![c].pc = pc] =
           [call EXCEPT ![c] = On(c, pc, call[c].op, call[c].slot)]
<1> DEFINE k == [call[c] EXCEPT !.pc = pc]
<1>1. k = On(c, pc, call[c].op, call[c].slot)
  BY PcExcept, Zenon DEF On
<1>2. [call EXCEPT ![c].pc = pc] = [call EXCEPT ![c] = k]
  OBVIOUS
<1> HIDE DEF k
<1> QED BY <1>1, <1>2

LEMMA SetOp ==
  ASSUME NEW c \in Calls, call \in [Calls -> Over \cup UnderWay], call[c] \in UnderWay,
         NEW op
  PROVE  [call EXCEPT ![c].op = op] =
           [call EXCEPT ![c] = On(c, call[c].pc, op, call[c].slot)]
<1> DEFINE k == [call[c] EXCEPT !.op = op]
<1>1. k = On(c, call[c].pc, op, call[c].slot)
  BY OpExcept, Zenon DEF On
<1>2. [call EXCEPT ![c].op = op] = [call EXCEPT ![c] = k]
  OBVIOUS
<1> HIDE DEF k
<1> QED BY <1>1, <1>2

LEMMA SetPcOp ==
  ASSUME NEW c \in Calls, call \in [Calls -> Over \cup UnderWay], call[c] \in UnderWay,
         NEW pc, NEW op
  PROVE  [call EXCEPT ![c].pc = pc, ![c].op = op] =
           [call EXCEPT ![c] = On(c, pc, op, call[c].slot)]
<1> DEFINE k == [call[c] EXCEPT !.pc = pc, !.op = op]
<1>1. k = On(c, pc, op, call[c].slot)
  BY PcOpExcept, Zenon DEF On
<1>2. [call EXCEPT ![c].pc = pc, ![c].op = op] = [call EXCEPT ![c] = k]
  OBVIOUS
<1> HIDE DEF k
<1> QED BY <1>1, <1>2

LEMMA OnOK ==
  ASSUME CopiesInv, NEW c \in Calls, call[c].pc \notin {"unused", "done"},
         NEW pc \in PCs \ {"unused", "done", "select"}, NEW op \in Ops, NEW slot \in BOOLEAN,
         Begun(op, call[c].base),
         pc \in {"queued", "model"} => op = "model",
         pc = "polish" => op = "release",
         op \in DraftOps \cup {"failed"} => c \in BenchCalls,
         slot => op \in {"model", "failed"} /\ pc \in {"model", "write", "renamed"},
         pc = "model" => slot
  PROVE  CallOK(c, On(c, pc, op, slot))
<1> DEFINE k == On(c, pc, op, slot)
<1>1. call[c].order \in Orders /\ call[c].base \in SturdyRecords
  BY CallUnderWay DEF CopiesInv
<1>2. k \in UnderWay
  BY <1>1 DEF On, UnderWay
<1>3. k.pc = pc /\ k.op = op /\ k.base = call[c].base /\ k.slot = slot /\ op # None
  BY OnFields, NoneIsNoOp
<1> HIDE DEF k
<1>4. CallOK(c, k)
  BY <1>2, <1>3 DEF CallOK
<1> QED BY <1>4 DEF k

\* The steps of a call that keep its slot as it was.
LEMMA CallGoesOn ==
  ASSUME CopiesInv, NEW c \in Calls,
         \/ \E op \in DraftOps : SelectOther(c, op)
         \/ \E op \in Ops : Answers(c, op)
         \/ Renames(c)
         \/ WriteFails(c) /\ call[c].op \in DraftOps
  PROVE  /\ call[c].pc \notin {"unused", "done", "queued"}
         /\ UNCHANGED draftVars
         /\ \E pc \in {"write", "renamed"}, op \in Ops :
              /\ CallOK(c, On(c, pc, op, call[c].slot))
              /\ call' = [call EXCEPT ![c] = On(c, pc, op, call[c].slot)]
              /\ op \in DraftOps \cup {"failed"} <=>
                   call[c].op \in DraftOps \cup {"failed", None}
              /\ pc = "renamed" => Renames(c)
<1>0. CallOK(c, call[c]) /\ call \in [Calls -> Over \cup UnderWay] /\ None \notin Ops
  BY NoneIsNoOp DEF CopiesInv
<1>1. CASE \E op \in DraftOps : SelectOther(c, op)
  <2> PICK op \in DraftOps : SelectOther(c, op)  BY <1>1
  <2>1. call[c].pc = "select" /\ UNCHANGED draftVars /\ op \in Ops
    BY DEF SelectOther, DraftOps, Ops
  <2>2. call' = [call EXCEPT ![c] = On(c, "write", op, call[c].slot)]
    <3>1. call[c] \in UnderWay
      BY <1>0, <2>1, CallUnderWay
    <3>2. call' = [call EXCEPT ![c].pc = "write", ![c].op = op]
      BY DEF SelectOther
    <3> QED BY <1>0, <3>1, <3>2, SetPcOp, Zenon
  <2>3. /\ call[c].op = None /\ ~call[c].slot /\ Begun(None, call[c].base)
        /\ c \in BenchCalls /\ call[c].slot \in BOOLEAN
    BY <1>0, <2>1, CallUnderWay
  <2>4. Begun(op, call[c].base)
    BY <1>0, <2>3 DEF Begun, DraftOps, Ops
  <2>5. CallOK(c, On(c, "write", op, call[c].slot))
    BY <2>1, <2>3, <2>4, OnOK DEF DraftOps, PCs
  <2> QED BY <2>1, <2>2, <2>3, <2>5
<1>2. CASE \E op \in Ops : Answers(c, op)
  <2> PICK op \in Ops : Answers(c, op)  BY <1>2
  <2>1. /\ \/ call[c].pc = "model" /\ op \in {"model", "failed"}
           \/ call[c].pc = "polish" /\ op = "release"
        /\ UNCHANGED draftVars
    BY DEF Answers
  <2>2. call' = [call EXCEPT ![c] = On(c, "write", op, call[c].slot)]
    <3>1. call[c] \in UnderWay
      BY <1>0, <2>1, CallUnderWay
    <3>2. call' = [call EXCEPT ![c].pc = "write", ![c].op = op]
      BY DEF Answers
    <3> QED BY <1>0, <3>1, <3>2, SetPcOp, Zenon
  <2>3. /\ call[c].pc = "model" => call[c].op = "model" /\ call[c].slot /\ c \in BenchCalls
        /\ call[c].pc = "polish" => call[c].op = "release" /\ ~call[c].slot
        /\ Begun(call[c].op, call[c].base) /\ call[c].slot \in BOOLEAN
    BY <1>0, <2>1, CallUnderWay DEF DraftOps
  <2>4. Begun(op, call[c].base)
    BY <1>0, <2>1, <2>3 DEF Begun, DraftOps, Ops
  <2>5. CallOK(c, On(c, "write", op, call[c].slot))
    BY <2>1, <2>3, <2>4, OnOK DEF DraftOps, PCs
  <2> QED BY <1>0, <2>1, <2>2, <2>3, <2>5 DEF DraftOps, Ops
<1>3. CASE Renames(c)
  <2>1. call[c].pc = "write" /\ UNCHANGED draftVars
    BY <1>3 DEF Renames
  <2>3. /\ call[c] \in UnderWay
        /\ call[c].op \in Ops /\ Begun(call[c].op, call[c].base) /\ call[c].slot \in BOOLEAN
        /\ call[c].op \in DraftOps \cup {"failed"} => c \in BenchCalls
        /\ call[c].slot => call[c].op \in {"model", "failed"}
    BY <1>0, <2>1, CallUnderWay
  <2>2. call' = [call EXCEPT ![c] = On(c, "renamed", call[c].op, call[c].slot)]
    <3>1. call' = [call EXCEPT ![c].pc = "renamed"]
      BY <1>3 DEF Renames
    <3> QED BY <1>0, <2>3, <3>1, SetPc, Zenon
  <2>5. CallOK(c, On(c, "renamed", call[c].op, call[c].slot))
    BY <2>1, <2>3, OnOK DEF PCs
  <2> QED BY <1>0, <1>3, <2>1, <2>2, <2>3, <2>5
<1>4. CASE WriteFails(c) /\ call[c].op \in DraftOps
  <2>1. call[c].pc = "write" /\ UNCHANGED draftVars
    BY <1>4 DEF WriteFails
  <2>3. /\ call[c] \in UnderWay
        /\ call[c].slot \in BOOLEAN /\ c \in BenchCalls
    BY <1>0, <1>4, <2>1, CallUnderWay
  <2>2. call' = [call EXCEPT ![c] = On(c, "write", "failed", call[c].slot)]
    <3>1. call' = [call EXCEPT ![c].op = "failed"]
      BY <1>4 DEF WriteFails
    <3> QED BY <1>0, <2>1, <2>3, <3>1, SetOp, Zenon
  <2>4. Begun("failed", call[c].base)
    BY <1>0 DEF Begun, DraftOps, Ops
  <2>5. CallOK(c, On(c, "write", "failed", call[c].slot))
    BY <2>1, <2>3, <2>4, OnOK DEF PCs, Ops, DraftOps
  <2> QED BY <1>4, <2>1, <2>2, <2>5 DEF Ops
<1> QED BY <1>1, <1>2, <1>3, <1>4

LEMMA AcquireGoesOn ==
  ASSUME CopiesInv, NEW c \in Calls, Acquire(c)
  PROVE  /\ call[c].pc = "select" /\ call[c].op = None /\ ~call[c].slot /\ c \in BenchCalls
         /\ UNCHANGED <<file, index, drafting, watchVars>>
         /\ \/ /\ free > 0 /\ free' = free - 1 /\ UNCHANGED queue
               /\ CallOK(c, On(c, "model", "model", TRUE))
               /\ call' = [call EXCEPT ![c] = On(c, "model", "model", TRUE)]
            \/ /\ ~(free > 0) /\ queue' = Append(queue, c) /\ UNCHANGED free
               /\ CallOK(c, On(c, "queued", "model", FALSE))
               /\ call' = [call EXCEPT ![c] = On(c, "queued", "model", FALSE)]
<1>0. /\ call[c].pc = "select" /\ CallOK(c, call[c]) /\ UNCHANGED <<file, index, drafting, watchVars>>
      /\ call \in [Calls -> Over \cup UnderWay] /\ None \notin Ops
  BY NoneIsNoOp DEF CopiesInv, Acquire
<1>1. /\ call[c].op = None /\ call[c].slot = FALSE /\ Begun(None, call[c].base)
      /\ c \in BenchCalls /\ call[c] \in UnderWay
  BY <1>0, CallUnderWay
<1>2. Begun("model", call[c].base) /\ "model" \in Ops
  BY <1>0, <1>1 DEF Begun, DraftOps, Ops
<1>3. /\ CallOK(c, On(c, "model", "model", TRUE))
      /\ CallOK(c, On(c, "queued", "model", FALSE))
  BY <1>0, <1>1, <1>2, OnOK DEF PCs, DraftOps
<1>4. CASE free > 0
  <2>1. /\ free' = free - 1 /\ UNCHANGED queue
        /\ call' = [call EXCEPT ![c].pc = "model", ![c].op = "model", ![c].slot = TRUE]
    BY <1>4 DEF Acquire
  <2>2. call' = [call EXCEPT ![c] = On(c, "model", "model", TRUE)]
    <3>1. call \in [Calls -> Over \cup UnderWay] /\ call[c] \in UnderWay
      BY <1>0, <1>1
    <3> DEFINE k == [call[c] EXCEPT !.pc = "model", !.op = "model", !.slot = TRUE]
    <3>2. k = On(c, "model", "model", TRUE)
      BY <3>1, PcOpSlotExcept, Zenon DEF On
    <3>3. [call EXCEPT ![c].pc = "model", ![c].op = "model", ![c].slot = TRUE]
            = [call EXCEPT ![c] = k]
      BY <3>1
    <3> HIDE DEF k
    <3> QED BY <2>1, <3>2, <3>3
  <2> QED BY <1>0, <1>1, <1>3, <1>4, <2>1, <2>2
<1>5. CASE ~(free > 0)
  <2>1. /\ queue' = Append(queue, c) /\ UNCHANGED free
        /\ call' = [call EXCEPT ![c].pc = "queued", ![c].op = "model"]
    BY <1>5 DEF Acquire
  <2>2. call' = [call EXCEPT ![c] = On(c, "queued", "model", call[c].slot)]
    BY <1>0, <1>1, <2>1, SetPcOp, Zenon
  <2> QED BY <1>0, <1>1, <1>3, <1>5, <2>1, <2>2
<1> QED BY <1>4, <1>5

\* A call that ends, and the one that may get its slot.
LEMMA DoneOK == ASSUME NEW c PROVE CallOK(c, NoCall("done"))
BY DEF CallOK, Over

LEMMA FirstWaits ==
  ASSUME QueueOK, queue # << >>
  PROVE  /\ Head(queue) \in BenchCalls /\ Head(queue) = queue[1] /\ 1 \in 1..Len(queue)
         /\ call[Head(queue)].pc = "queued"
<1>1. Len(queue) # 0 /\ Len(queue) \in Nat
  BY EmptySeq, LenProperties DEF QueueOK
<1>2. 1 \in 1..Len(queue)
  BY <1>1
<1>3. Head(queue) = queue[1]
  BY HeadTailProperties DEF QueueOK
<1>4. queue[1] \in BenchCalls
  BY <1>2, ElementOfSeq DEF QueueOK
<1> QED BY <1>2, <1>3, <1>4 DEF QueueOK

LEMMA EndsNormal ==
  ASSUME CopiesInv, QueueOK, NEW c \in Calls, call[c].pc \in {"write", "renamed"}, CallEnds(c)
  PROVE  /\ drafting' = IF call[c].op \in DraftOps \cup {"failed"}
                        THEN drafting \ {call[c].order} ELSE drafting
         /\ call' \in [Calls -> Over \cup UnderWay]
         /\ \A d \in Calls : CallOK(d, call'[d])
         /\ call'[c] = NoCall("done")
         /\ \/ /\ call[c].slot /\ queue # << >> /\ queue' = Tail(queue) /\ UNCHANGED free
               /\ call'[Head(queue)] = On(Head(queue), "model", "model", TRUE)
               /\ \A d \in Calls \ {c, Head(queue)} : call'[d] = call[d]
            \/ /\ ~(call[c].slot /\ queue # << >>) /\ UNCHANGED queue
               /\ free' = IF call[c].slot THEN free + 1 ELSE free
               /\ \A d \in Calls \ {c} : call'[d] = call[d]
<1> DEFINE ended == [call EXCEPT ![c] = NoCall("done")]
<1>0. call \in [Calls -> Over \cup UnderWay] /\ \A d \in Calls : CallOK(d, call[d])
  BY DEF CopiesInv
<1>1. /\ ended \in [Calls -> Over \cup UnderWay] /\ ended[c] = NoCall("done")
      /\ \A d \in Calls \ {c} : ended[d] = call[d]
  BY <1>0 DEF Over
<1>2. drafting' = IF call[c].op \in DraftOps \cup {"failed"}
                  THEN drafting \ {call[c].order} ELSE drafting
  BY DEF CallEnds
<1>3. CASE call[c].slot /\ queue # << >>
  <2> DEFINE w == Head(queue)
  <2>1. w \in Calls /\ w # c /\ call[w].pc = "queued" /\ w \in BenchCalls
    BY <1>3, FirstWaits DEF Calls
  <2>2. /\ queue' = Tail(queue) /\ UNCHANGED free
        /\ call' = [ended EXCEPT ![w].pc = "model", ![w].slot = TRUE]
    BY <1>3 DEF CallEnds
  <2>3. /\ call[w] \in UnderWay /\ call[w].op = "model" /\ Begun("model", call[w].base)
        /\ ended[w] = call[w]
    BY <1>0, <1>1, <2>1, CallUnderWay
  <2> DEFINE m == [call[w] EXCEPT !.pc = "model", !.slot = TRUE]
  <2>4. m = On(w, "model", "model", TRUE)
    <3>1. m = [pc |-> "model", op |-> call[w].op, order |-> call[w].order,
               base |-> call[w].base, slot |-> TRUE]
      BY <2>3, PcSlotExcept, Zenon
    <3> HIDE DEF m
    <3> QED BY <2>3, <3>1 DEF On
  <2>5. call' = [ended EXCEPT ![w] = m]
    <3>1. [ended EXCEPT ![w].pc = "model", ![w].slot = TRUE]
            = [ended EXCEPT ![w] = [ended[w] EXCEPT !.pc = "model", !.slot = TRUE]]
      <4> HIDE DEF ended, w
      <4> QED BY <1>1, <2>1
    <3> QED BY <2>2, <2>3, <3>1, Zenon
  <2> HIDE DEF m, ended, w
  <2>6. CallOK(w, m)
    <3>1. CallOK(w, On(w, "model", "model", TRUE))
      BY <2>1, <2>3, OnOK DEF PCs, Ops
    <3> QED BY <2>4, <3>1
  <2>7. m \in Over \cup UnderWay
    BY <2>6 DEF CallOK
  <2>8. /\ call' \in [Calls -> Over \cup UnderWay] /\ call'[w] = m
        /\ \A d \in Calls \ {w} : call'[d] = ended[d]
    BY <1>1, <2>1, <2>5, <2>7
  <2>9. \A d \in Calls : CallOK(d, call'[d])
    BY <1>0, <1>1, <2>6, <2>8, DoneOK
  <2>10. w = Head(queue)
    BY DEF w
  <2> QED BY <1>1, <1>2, <1>3, <2>1, <2>2, <2>4, <2>8, <2>9, <2>10
<1>4. CASE ~(call[c].slot /\ queue # << >>)
  <2>1. /\ UNCHANGED queue /\ call' = ended
        /\ free' = IF call[c].slot THEN free + 1 ELSE free
    BY <1>4 DEF CallEnds
  <2> HIDE DEF ended
  <2>2. \A d \in Calls : CallOK(d, call'[d])
    BY <1>0, <1>1, <2>1, DoneOK
  <2> QED BY <1>1, <1>2, <1>4, <2>1, <2>2
<1> QED BY <1>3, <1>4

LEMMA DroppedOK ==
  ASSUME CopiesInv, NEW cs, call' = Dropped(cs)
  PROVE  /\ call' \in [Calls -> Over \cup UnderWay]
         /\ \A c \in Calls : CallOK(c, call'[c])
         /\ \A c \in Calls : call'[c] = call[c] \/ call'[c] = NoCall("done")
         /\ \A c \in Calls \cap cs : call'[c].pc \in {"unused", "done"}
         /\ \A c \in Calls \ cs : call'[c] = call[c]
<1>1. \A c \in Calls : call'[c] = IF c \in cs /\ call[c].pc # "unused" THEN NoCall("done")
                                                                   ELSE call[c]
  BY DEF Dropped
<1>2. call' = [c \in Calls |-> call'[c]]
  BY <1>1 DEF Dropped
<1>3. \A c \in Calls : CallOK(c, call'[c])
  BY <1>1, DoneOK DEF CopiesInv
<1>4. \A c \in Calls : call'[c] \in Over \cup UnderWay
  BY <1>3 DEF CallOK
<1>5. NoCall("done").pc = "done"
  BY DEF NoCall
<1> QED BY <1>1, <1>2, <1>3, <1>4, <1>5

LEMMA LoadedOK == CopiesInv => Loaded \in [Orders -> SturdyRecords]
BY ParseSturdy DEF CopiesInv, Loaded

\* What a call under way is about to write.
LEMMA ResultOfCall ==
  ASSUME CopiesInv, NEW c \in Calls, call[c].pc \in {"write", "renamed"}
  PROVE  /\ call[c].order \in Orders
         /\ Result(call[c].op, call[c].base) \in SturdyRecords
         /\ serializeWorkOrder(Result(call[c].op, call[c].base)) \in FullFiles
<1>1. /\ call[c].order \in Orders /\ call[c].base \in SturdyRecords
      /\ call[c].op \in Ops /\ Begun(call[c].op, call[c].base)
  BY CallUnderWay DEF CopiesInv
<1> QED BY <1>1, ResultSturdy, SerializeFull

-----------------------------------------------------------------------------
(* The first invariant: copies.                                             *)

LEMMA CopiesInit == OrdersInit => CopiesInv
<1> SUFFICES ASSUME OrdersInit PROVE CopiesInv
  OBVIOUS
<1>1. file \in [Orders -> FullFiles]
  BY StartAssumption DEF OrdersInit, FullFiles
<1>2. index \in [Procs -> [Orders -> SturdyRecords]]
  BY <1>1, ParseSturdy DEF OrdersInit
<1>3. \A c \in Calls : call[c] = NoCall("unused")
  BY DEF OrdersInit
<1>4. \A c \in Calls : CallOK(c, call[c]) /\ call[c] \in Over \cup UnderWay
  BY <1>3 DEF CallOK, Over
<1>5. call \in [Calls -> Over \cup UnderWay]
  BY <1>4 DEF OrdersInit
<1>6. loading \in [Reloads -> [Orders -> SturdyRecords \cup {None}] \cup {None}]
  BY DEF OrdersInit
<1> QED BY <1>1, <1>2, <1>4, <1>5, <1>6 DEF CopiesInv, OrdersInit

LEMMA CopiesStep == CopiesInv /\ QueueOK /\ [OrdersNext]_orderVars => CopiesInv'
<1> SUFFICES ASSUME CopiesInv, QueueOK, [OrdersNext]_orderVars PROVE CopiesInv'
  OBVIOUS
<1>0. /\ file \in [Orders -> FullFiles]
      /\ index \in [Procs -> [Orders -> SturdyRecords]]
      /\ call \in [Calls -> Over \cup UnderWay]
      /\ \A c \in Calls : CallOK(c, call[c])
      /\ changed \in BOOLEAN
      /\ loading \in [Reloads -> [Orders -> SturdyRecords \cup {None}] \cup {None}]
  BY DEF CopiesInv
<1> DEFINE CallsFine == /\ call' \in [Calls -> Over \cup UnderWay]
                       /\ \A c \in Calls : CallOK(c, call'[c])
<1>1. ASSUME NEW o \in Orders, NEW c \in Calls,
             \/ c \in BenchCalls /\ (Edit(c, o) \/ Release(c, o) \/ Scrap(c, o) \/ Restore(c, o))
             \/ c \in McpCalls /\ DraftByAgent(c, o)
             \/ Claim(c, o) \/ Report(c, o)
      PROVE  CopiesInv'
  <2>1. PICK pc \in {"write", "polish"}, op \in Ops : 
          CallOK(c, Asked(c, pc, op, o)) /\ Accept(c, pc, op, o)
    BY <1>1, RequestAsks
  <2>2. call' = [call EXCEPT ![c] = Asked(c, pc, op, o)] /\ UNCHANGED <<file, index, changed, loading>>
    BY <2>1 DEF Accept, Asked, watchVars
  <2>3. CallsFine
    BY <2>1, <2>2, CopiesOneCall
  <2> QED BY <1>0, <2>2, <2>3 DEF CopiesInv
<1>2. ASSUME NEW o \in Orders, NEW c \in BenchCalls, Draft(c, o)
      PROVE  CopiesInv'
  <2>1. CallOK(c, Asked(c, "select", None, o)) /\ Accept(c, "select", None, o) /\ c \in Calls
    BY <1>2, DraftAsks DEF Calls
  <2>2. call' = [call EXCEPT ![c] = Asked(c, "select", None, o)] /\ UNCHANGED <<file, index, changed, loading>>
    BY <2>1 DEF Accept, Asked, watchVars
  <2>3. CallsFine
    BY <2>1, <2>2, CopiesOneCall
  <2> QED BY <1>0, <2>2, <2>3 DEF CopiesInv
<1>3. ASSUME NEW c \in Calls,
             \/ \E op \in DraftOps : SelectOther(c, op)
             \/ \E op \in Ops : Answers(c, op)
             \/ Renames(c)
             \/ WriteFails(c) /\ call[c].op \in DraftOps
      PROVE  CopiesInv'
  <2>1. CallsFine
    BY <1>3, CallGoesOn, CopiesOneCall
  <2>2. CASE Renames(c)
    <3>1. file' \in [Orders -> FullFiles]
      BY <1>0, <2>2, ResultOfCall DEF Renames
    <3> QED BY <1>0, <2>1, <2>2, <3>1 DEF CopiesInv, Renames
  <2>3. CASE ~Renames(c)
    <3>1. UNCHANGED <<file, index, changed, loading>>
      BY <1>3, <2>3 DEF SelectOther, Answers, WriteFails, watchVars
    <3> QED BY <1>0, <2>1, <3>1 DEF CopiesInv
  <2> QED BY <2>2, <2>3
<1>4. ASSUME NEW c \in Calls, Acquire(c)
      PROVE  CopiesInv'
  <2>1. CallsFine
    BY <1>4, AcquireGoesOn, CopiesOneCall
  <2>2. UNCHANGED <<file, index, changed, loading>>
    BY <1>4 DEF Acquire, watchVars
  <2> QED BY <1>0, <2>1, <2>2 DEF CopiesInv
<1>5. ASSUME NEW c \in Calls, Saved(c)
      PROVE  CopiesInv'
  <2>1. CallsFine
    BY <1>5, EndsNormal DEF Saved
  <2>2. index' \in [Procs -> [Orders -> SturdyRecords]]
    BY <1>0, <1>5, ProcTyped, ResultOfCall DEF Saved
  <2>3. UNCHANGED <<file, changed, loading>>
    BY <1>5 DEF Saved, watchVars
  <2> QED BY <1>0, <2>1, <2>2, <2>3 DEF CopiesInv
<1>6. ASSUME NEW c \in Calls, WriteFails(c), call[c].op \notin DraftOps
      PROVE  CopiesInv'
  <2>1. CallsFine
    BY <1>6, EndsNormal DEF WriteFails
  <2>2. UNCHANGED <<file, index, changed, loading>>
    BY <1>6 DEF WriteFails, watchVars
  <2> QED BY <1>0, <2>1, <2>2 DEF CopiesInv
<1>7. ASSUME NEW l \in Reloads, WatcherFires(l)
      PROVE  CopiesInv'
  <2>1. loading' \in [Reloads -> [Orders -> SturdyRecords \cup {None}] \cup {None}]
    BY <1>0, <1>7 DEF WatcherFires
  <2> QED BY <1>0, <1>7, <2>1 DEF CopiesInv, WatcherFires
<1>8. ASSUME NEW l \in Reloads, NEW o \in Orders, ReadsFile(l, o)
      PROVE  CopiesInv'
  <2>1. parseWorkOrder(file[o]) \in SturdyRecords
    BY <1>0, ParseSturdy
  <2>2. loading[l] \in [Orders -> SturdyRecords \cup {None}]
    BY <1>0, <1>8 DEF ReadsFile
  <2>3. loading' \in [Reloads -> [Orders -> SturdyRecords \cup {None}] \cup {None}]
    BY <1>0, <1>8, <2>1, <2>2 DEF ReadsFile
  <2> QED BY <1>0, <1>8, <2>3 DEF CopiesInv, ReadsFile
<1>9. ASSUME NEW l \in Reloads, Reloaded(l)
      PROVE  CopiesInv'
  <2>1. loading[l] \in [Orders -> SturdyRecords]
    BY <1>0, <1>9 DEF Reloaded
  <2>2. index' \in [Procs -> [Orders -> SturdyRecords]]
    BY <1>0, <1>9, <2>1 DEF Reloaded
  <2>3. loading' \in [Reloads -> [Orders -> SturdyRecords \cup {None}] \cup {None}]
    BY <1>0, <1>9 DEF Reloaded
  <2> QED BY <1>0, <1>9, <2>2, <2>3 DEF CopiesInv, Reloaded
<1>10. CASE McpRestarts
  <2>1. CallsFine
    BY <1>10, DroppedOK DEF McpRestarts
  <2>2. index' \in [Procs -> [Orders -> SturdyRecords]]
    BY <1>0, <1>10, LoadedOK DEF McpRestarts
  <2> QED BY <1>0, <1>10, <2>1, <2>2 DEF CopiesInv, McpRestarts, watchVars
<1>11. CASE BenchRestarts
  <2>1. CallsFine
    BY <1>11, DroppedOK DEF BenchRestarts
  <2>2. index' \in [Procs -> [Orders -> SturdyRecords]]
    BY <1>0, <1>11, LoadedOK DEF BenchRestarts
  <2>3. loading' \in [Reloads -> [Orders -> SturdyRecords \cup {None}] \cup {None}]
    BY <1>11 DEF BenchRestarts
  <2> QED BY <1>0, <1>11, <2>1, <2>2, <2>3 DEF CopiesInv, BenchRestarts
<1>12. CASE UNCHANGED orderVars
  BY <1>0, <1>12 DEF CopiesInv, orderVars
<1> QED
  BY <1>1, <1>2, <1>3, <1>4, <1>5, <1>6, <1>7, <1>8, <1>9, <1>10, <1>11, <1>12
  DEF OrdersNext, BenchRequest, Resumes, Calls

-----------------------------------------------------------------------------
(* The second invariant: the semaphore.                                     *)

LEMMA HoldersFinite == IsFiniteSet(Holders) /\ Cardinality(Holders) \in Nat
<1>1. Holders \subseteq Calls
  BY DEF Holders
<1> QED BY <1>1, CallsAssumption, FS_Subset, FS_CardinalityType

LEMMA SlotsOfCalls ==
  ASSUME CopiesInv, NEW c \in Calls
  PROVE  /\ call[c].slot \in BOOLEAN
         /\ call[c].pc \in {"unused", "done", "select", "queued"} => call[c].slot = FALSE
         /\ call[c].slot => c \in BenchCalls
         /\ call[c].pc = "queued" => c \in BenchCalls
<1>1. CASE call[c].pc \in {"unused", "done"}
  BY <1>1, CallOver DEF CopiesInv
<1>2. CASE call[c].pc \notin {"unused", "done"}
  BY <1>2, CallUnderWay DEF CopiesInv, DraftOps
<1> QED BY <1>1, <1>2

\* The step changes neither who holds a slot nor who waits for one.
LEMMA SlotKept ==
  ASSUME SlotInv, UNCHANGED <<free, queue>>,
         \A c \in Calls : call'[c].slot = call[c].slot,
         \A c \in Calls : call[c].pc = "queued" => call'[c].pc = "queued"
  PROVE  SlotInv'
<1>1. Holders' = Holders
  BY DEF Holders
<1>2. \A i \in 1..Len(queue) : queue[i] \in Calls
  BY ElementOfSeq DEF SlotInv, QueueOK, Calls
<1>3. QueueOK'
  BY <1>2 DEF SlotInv, QueueOK
<1> QED BY <1>1, <1>3 DEF SlotInv

LEMMA SlotInit == OrdersInit => SlotInv
<1> SUFFICES ASSUME OrdersInit PROVE SlotInv
  OBVIOUS
<1>1. \A c \in Calls : call[c].slot = FALSE
  BY DEF OrdersInit, NoCall
<1>2. Cardinality(Holders) = 0
  <2>1. Holders = {}
    BY <1>1 DEF Holders
  <2> QED BY <2>1, FS_EmptySet
<1>3. queue = << >> /\ free = MaxModelCalls /\ MaxModelCalls \in Nat
  BY CallsAssumption DEF OrdersInit
<1>4. QueueOK
  BY <1>3 DEF QueueOK
<1> QED BY <1>2, <1>3, <1>4 DEF SlotInv

LEMMA SlotAcquire ==
  ASSUME CopiesInv, SlotInv, NEW c \in Calls, Acquire(c)
  PROVE  SlotInv'
<1>0. /\ call[c].pc = "select" /\ ~call[c].slot /\ c \in BenchCalls
      /\ call \in [Calls -> Over \cup UnderWay]
  BY AcquireGoesOn DEF CopiesInv
<1>1. /\ free \in 0..MaxModelCalls /\ free = MaxModelCalls - Cardinality(Holders)
      /\ MaxModelCalls \in Nat /\ Cardinality(Holders) \in Nat /\ IsFiniteSet(Holders)
      /\ QueueOK
      /\ queue # << >> => free = 0
  BY CallsAssumption, HoldersFinite DEF SlotInv
<1>2. CASE free > 0
  <2>1. /\ free' = free - 1 /\ queue' = queue
        /\ call' = [call EXCEPT ![c] = On(c, "model", "model", TRUE)]
    BY <1>2, AcquireGoesOn
  <2>2. /\ call'[c].slot = TRUE /\ \A d \in Calls \ {c} : call'[d] = call[d]
    <3>1. /\ call'[c] = On(c, "model", "model", TRUE)
          /\ \A d \in Calls \ {c} : call'[d] = call[d]
      BY <1>0, <2>1
    <3> QED BY <3>1 DEF On
  <2>3. Holders' = Holders \cup {c} /\ c \notin Holders
    BY <1>0, <2>2 DEF Holders
  <2>4. Cardinality(Holders') = Cardinality(Holders) + 1
    BY <1>1, <2>3, FS_AddElement
  <2>5. queue = << >>
    BY <1>1, <1>2
  <2>6. QueueOK'
    BY <2>1, <2>5 DEF QueueOK
  <2>7. free' \in 0..MaxModelCalls /\ free' = MaxModelCalls - Cardinality(Holders')
    BY <1>1, <1>2, <2>1, <2>4
  <2> QED BY <2>1, <2>5, <2>6, <2>7 DEF SlotInv
<1>3. CASE ~(free > 0)
  <2>1. /\ free' = free /\ queue' = Append(queue, c) /\ free = 0
        /\ call' = [call EXCEPT ![c] = On(c, "queued", "model", FALSE)]
    <3>1. free = 0
      BY <1>1, <1>3
    <3> QED BY <1>3, <3>1, AcquireGoesOn
  <2>2. /\ call'[c].slot = FALSE /\ call'[c].pc = "queued"
        /\ \A d \in Calls \ {c} : call'[d] = call[d]
    <3>1. /\ call'[c] = On(c, "queued", "model", FALSE)
          /\ \A d \in Calls \ {c} : call'[d] = call[d]
      BY <1>0, <2>1
    <3> QED BY <3>1 DEF On
  <2>3. Holders' = Holders
    BY <1>0, <2>2 DEF Holders
  <2>4. /\ queue' \in Seq(BenchCalls) /\ Len(queue') = Len(queue) + 1 /\ Len(queue) \in Nat
        /\ \A i \in 1..Len(queue) : queue'[i] = queue[i] /\ queue[i] \in Calls
        /\ queue'[Len(queue) + 1] = c
    BY <1>0, <1>1, <2>1, AppendProperties, LenProperties, ElementOfSeq DEF QueueOK, Calls
  <2>5. \A i \in 1..Len(queue) : call[queue[i]].pc = "queued" /\ queue[i] # c
    BY <1>0, <1>1 DEF QueueOK
  <2>6. \A i \in 1..Len(queue') : i \in 1..Len(queue) \/ i = Len(queue) + 1
    BY <2>4
  <2>7. QueueOK'
    <3>1. \A i \in 1..Len(queue') : call'[queue'[i]].pc = "queued"
      BY <2>2, <2>4, <2>5, <2>6
    <3>2. \A i, j \in 1..Len(queue') : queue'[i] = queue'[j] => i = j
      BY <1>1, <2>4, <2>5, <2>6 DEF QueueOK
    <3> QED BY <2>4, <3>1, <3>2 DEF QueueOK
  <2> QED BY <1>1, <2>1, <2>3, <2>7 DEF SlotInv
<1> QED BY <1>2, <1>3

LEMMA SlotEnds ==
  ASSUME CopiesInv, SlotInv, NEW c \in Calls, call[c].pc \in {"write", "renamed"}, CallEnds(c)
  PROVE  SlotInv'
<1>1. /\ free \in 0..MaxModelCalls /\ free = MaxModelCalls - Cardinality(Holders)
      /\ MaxModelCalls \in Nat /\ Cardinality(Holders) \in Nat /\ IsFiniteSet(Holders)
      /\ QueueOK
      /\ queue # << >> => free = 0
  BY CallsAssumption, HoldersFinite DEF SlotInv
<1>2. call'[c].slot = FALSE
  <2>1. call'[c] = NoCall("done")
    BY <1>1, EndsNormal
  <2> QED BY <2>1 DEF NoCall
<1>3. CASE call[c].slot /\ queue # << >>
  <2> DEFINE w == Head(queue)
  <2>1. /\ w \in BenchCalls /\ w \in Calls /\ w = queue[1] /\ 1 \in 1..Len(queue)
        /\ call[w].pc = "queued" /\ w # c
    BY <1>1, <1>3, FirstWaits DEF Calls
  <2>2. /\ queue' = Tail(queue) /\ free' = free
        /\ call'[w] = On(w, "model", "model", TRUE)
        /\ \A d \in Calls \ {c, w} : call'[d] = call[d]
    BY <1>1, <1>3, EndsNormal
  <2>3. call'[w].slot = TRUE /\ call[w].slot = FALSE
    <3>1. call'[w].slot = TRUE
      BY <2>2 DEF On
    <3> QED BY <2>1, <3>1, SlotsOfCalls
  <2>4. /\ Holders' = (Holders \ {c}) \cup {w}
        /\ c \in Holders /\ w \notin Holders \ {c}
    BY <1>2, <1>3, <2>1, <2>2, <2>3 DEF Holders
  <2>5. /\ IsFiniteSet(Holders \ {c})
        /\ Cardinality(Holders \ {c}) = Cardinality(Holders) - 1
    BY <1>1, <2>4, FS_RemoveElement
  <2>6. Cardinality(Holders') = Cardinality(Holders)
    <3>1. Cardinality(Holders') = Cardinality(Holders \ {c}) + 1
      BY <2>4, <2>5, FS_AddElement
    <3> QED BY <1>1, <2>5, <3>1
  <2>7. /\ queue' \in Seq(BenchCalls) /\ Len(queue') = Len(queue) - 1 /\ Len(queue) \in Nat
        /\ \A i \in 1..Len(queue') : queue'[i] = queue[i + 1]
    BY <1>1, <1>3, <2>2, HeadTailProperties, LenProperties DEF QueueOK
  <2>8. \A i \in 1..Len(queue') : i + 1 \in 1..Len(queue) /\ i + 1 # 1
    BY <2>7
  <2>9. \A i \in 1..Len(queue') : /\ queue'[i] \in Calls /\ queue'[i] # w
                                  /\ call[queue'[i]].pc = "queued"
    BY <1>1, <2>1, <2>7, <2>8, ElementOfSeq DEF QueueOK, Calls
  <2>10. \A i \in 1..Len(queue') : call'[queue'[i]].pc = "queued"
    BY <2>2, <2>9
  <2>11. \A i, j \in 1..Len(queue') : queue'[i] = queue'[j] => i = j
    <3> SUFFICES ASSUME NEW i \in 1..Len(queue'), NEW j \in 1..Len(queue'), queue'[i] = queue'[j]
                 PROVE  i = j
      OBVIOUS
    <3>1. queue[i + 1] = queue[j + 1]
      BY <2>7
    <3>2. i + 1 = j + 1
      BY <1>1, <2>8, <3>1 DEF QueueOK
    <3> QED BY <2>7, <3>2
  <2>12. QueueOK'
    BY <2>7, <2>10, <2>11 DEF QueueOK
  <2> QED BY <1>1, <1>3, <2>2, <2>6, <2>12 DEF SlotInv
<1>4. CASE ~(call[c].slot /\ queue # << >>)
  <2>1. /\ queue' = queue /\ free' = IF call[c].slot THEN free + 1 ELSE free
        /\ \A d \in Calls \ {c} : call'[d] = call[d]
    BY <1>1, <1>4, EndsNormal
  <2>2. CASE call[c].slot
    <3>1. Holders' = Holders \ {c} /\ c \in Holders
      BY <1>2, <2>1, <2>2 DEF Holders
    <3>2. Cardinality(Holders') = Cardinality(Holders) - 1
      BY <1>1, <3>1, FS_RemoveElement
    <3>3. Cardinality(Holders') \in Nat
      BY <1>1, <3>1, FS_RemoveElement, FS_CardinalityType
    <3>4. queue = << >> /\ queue' = << >>
      BY <1>4, <2>1, <2>2
    <3>5. QueueOK'
      BY <3>4 DEF QueueOK
    <3>6. free' = free + 1
      BY <2>1, <2>2
    <3>7. free' \in 0..MaxModelCalls /\ free' = MaxModelCalls - Cardinality(Holders')
      BY <1>1, <3>2, <3>3, <3>6
    <3> QED BY <3>4, <3>5, <3>7 DEF SlotInv
  <2>3. CASE ~call[c].slot
    <3>1. call[c].slot = FALSE
      BY <2>3, SlotsOfCalls
    <3>2. \A d \in Calls : call'[d].slot = call[d].slot
      BY <1>2, <2>1, <3>1
    <3>3. \A d \in Calls : call[d].pc = "queued" => call'[d].pc = "queued"
      BY <2>1
    <3> QED BY <2>1, <2>3, <3>2, <3>3, SlotKept
  <2> QED BY <2>2, <2>3
<1> QED BY <1>3, <1>4

LEMMA SlotStep == CopiesInv /\ SlotInv /\ [OrdersNext]_orderVars => SlotInv'
<1> SUFFICES ASSUME CopiesInv, SlotInv, [OrdersNext]_orderVars PROVE SlotInv'
  OBVIOUS
<1>0. call \in [Calls -> Over \cup UnderWay] /\ QueueOK /\ NoCall("done").slot = FALSE
  BY DEF CopiesInv, SlotInv, NoCall
<1>1. ASSUME NEW c \in Calls, NEW pc, pc # "queued", NEW op, NEW o,
             Accept(c, pc, op, o), UNCHANGED <<free, queue>>
      PROVE  SlotInv'
  <2>1. call[c].pc = "unused" /\ call' = [call EXCEPT ![c] = Asked(c, pc, op, o)]
    BY <1>1 DEF Accept, Asked
  <2>2. call[c].slot = FALSE
    BY <2>1, SlotsOfCalls
  <2>3. call'[c] = Asked(c, pc, op, o) /\ \A d \in Calls \ {c} : call'[d] = call[d]
    BY <1>0, <2>1
  <2>4. call'[c].slot = FALSE
    BY <2>3 DEF Asked
  <2> QED BY <1>1, <2>1, <2>2, <2>3, <2>4, SlotKept
<1>2. ASSUME NEW c \in Calls, NEW o \in Orders,
             \/ c \in BenchCalls /\ (Edit(c, o) \/ Release(c, o) \/ Scrap(c, o) \/ Restore(c, o))
             \/ c \in McpCalls /\ DraftByAgent(c, o)
             \/ Claim(c, o) \/ Report(c, o)
      PROVE  SlotInv'
  <2>1. PICK pc \in {"write", "polish"}, op \in Ops :
          Accept(c, pc, op, o) /\ UNCHANGED draftVars
    BY <1>2, RequestAsks
  <2> QED BY <1>1, <2>1 DEF draftVars
<1>3. ASSUME NEW o \in Orders, NEW c \in BenchCalls, Draft(c, o)
      PROVE  SlotInv'
  BY <1>1, <1>3 DEF Draft, Calls
<1>4. ASSUME NEW c \in Calls,
             \/ \E op \in DraftOps : SelectOther(c, op)
             \/ \E op \in Ops : Answers(c, op)
             \/ Renames(c)
             \/ WriteFails(c) /\ call[c].op \in DraftOps
      PROVE  SlotInv'
  <2>1. PICK pc, op : /\ call[c].pc # "queued" /\ UNCHANGED draftVars
                      /\ call' = [call EXCEPT ![c] = On(c, pc, op, call[c].slot)]
    BY <1>4, CallGoesOn
  <2>2. /\ call'[c] = On(c, pc, op, call[c].slot)
        /\ \A d \in Calls \ {c} : call'[d] = call[d]
    BY <1>0, <2>1
  <2>3. call'[c].slot = call[c].slot
    BY <2>2 DEF On
  <2> QED BY <2>1, <2>2, <2>3, SlotKept DEF draftVars
<1>5. ASSUME NEW c \in Calls, Acquire(c)
      PROVE  SlotInv'
  BY <1>5, SlotAcquire
<1>6. ASSUME NEW c \in Calls, Saved(c)
      PROVE  SlotInv'
  BY <1>6, SlotEnds DEF Saved
<1>7. ASSUME NEW c \in Calls, WriteFails(c), call[c].op \notin DraftOps
      PROVE  SlotInv'
  BY <1>7, SlotEnds DEF WriteFails
<1>8. CASE McpRestarts
  <2>1. \A c \in Calls : call'[c] = call[c] \/ (c \in McpCalls /\ call'[c] = NoCall("done"))
    BY <1>8, DroppedOK DEF McpRestarts
  <2>2. \A c \in McpCalls : c \in Calls /\ c \notin BenchCalls
    BY CallsAssumption DEF Calls
  <2>3. \A c \in McpCalls : call[c].slot = FALSE /\ call[c].pc # "queued"
    BY <2>2, SlotsOfCalls
  <2>4. \A c \in Calls : call'[c].slot = call[c].slot
    BY <1>0, <2>1, <2>3
  <2>5. \A c \in Calls : call[c].pc = "queued" => call'[c].pc = "queued"
    BY <2>1, <2>3
  <2> QED BY <1>8, <2>4, <2>5, SlotKept DEF McpRestarts, draftVars
<1>9. CASE BenchRestarts
  <2>1. \A c \in Calls : /\ CallOK(c, call'[c])
                         /\ call'[c] = call[c] \/ call'[c] = NoCall("done")
                         /\ c \in BenchCalls => call'[c].pc \in {"unused", "done"}
    BY <1>9, DroppedOK DEF BenchRestarts
  <2>2. \A c \in Calls : ~call'[c].slot
    <3> TAKE c \in Calls
    <3>1. CASE c \in BenchCalls
      BY <2>1, <3>1, CallOver
    <3>2. CASE c \notin BenchCalls
      BY <1>0, <2>1, <3>2, SlotsOfCalls
    <3> QED BY <3>1, <3>2
  <2>3. Holders' = {} /\ Cardinality(Holders') = 0
    <3>1. Holders' = {}
      BY <2>2 DEF Holders
    <3> QED BY <3>1, FS_EmptySet
  <2>4. queue' = << >> /\ free' = MaxModelCalls /\ MaxModelCalls \in Nat
    BY <1>9, CallsAssumption DEF BenchRestarts
  <2>5. QueueOK'
    BY <2>4 DEF QueueOK
  <2> QED BY <2>3, <2>4, <2>5 DEF SlotInv
<1>10. CASE UNCHANGED <<call, free, queue>>
  BY <1>10, SlotKept
<1>11. ASSUME NEW l \in Reloads, WatcherFires(l) \/ (\E o \in Orders : ReadsFile(l, o)) \/ Reloaded(l)
       PROVE  UNCHANGED <<call, free, queue>>
  BY <1>11 DEF WatcherFires, ReadsFile, Reloaded, draftVars
<1>12. CASE UNCHANGED orderVars
  BY <1>10, <1>12 DEF orderVars
<1> QED
  BY <1>2, <1>3, <1>4, <1>5, <1>6, <1>7, <1>8, <1>9, <1>10, <1>11, <1>12
  DEF OrdersNext, BenchRequest, Resumes, Calls

-----------------------------------------------------------------------------
(* The third invariant: one draft per order.                                *)

IsDraft(k) == k.pc \notin {"unused", "done"} /\ k.op \in DraftOps \cup {"failed", None}

LEMMA UnderWayDrafts ==
  /\ DraftsUnderWay = {c \in BenchCalls : IsDraft(call[c])}
  /\ DraftsUnderWay' = {c \in BenchCalls : IsDraft(call'[c])}
BY DEF DraftsUnderWay, IsDraft

\* The same drafts are under way, of the same orders.
LEMMA DraftsKept ==
  ASSUME OneDraftPerOrder, drafting' = drafting,
         \A c \in BenchCalls : IsDraft(call'[c]) <=> IsDraft(call[c]),
         \A c \in BenchCalls : IsDraft(call[c]) => call'[c].order = call[c].order
  PROVE  OneDraftPerOrder'
<1>1. DraftsUnderWay' = DraftsUnderWay
  BY UnderWayDrafts
<1>2. \A c \in DraftsUnderWay : call'[c].order = call[c].order
  BY UnderWayDrafts
<1> QED BY <1>1, <1>2 DEF OneDraftPerOrder

LEMMA DraftsInit == OrdersInit => OneDraftPerOrder
<1> SUFFICES ASSUME OrdersInit PROVE OneDraftPerOrder
  OBVIOUS
<1>1. \A c \in BenchCalls : call[c].pc = "unused"
  BY DEF OrdersInit, NoCall, Calls
<1>2. DraftsUnderWay = {}
  BY <1>1 DEF DraftsUnderWay
<1> QED BY <1>2 DEF OneDraftPerOrder, OrdersInit

LEMMA DraftsEnds ==
  ASSUME CopiesInv, QueueOK, OneDraftPerOrder, NEW c \in Calls,
         call[c].pc \in {"write", "renamed"}, CallEnds(c)
  PROVE  OneDraftPerOrder'
<1>1. /\ drafting' = IF call[c].op \in DraftOps \cup {"failed"}
                     THEN drafting \ {call[c].order} ELSE drafting
      /\ call'[c] = NoCall("done")
  BY EndsNormal
<1>2. ~IsDraft(call'[c])
  BY <1>1 DEF IsDraft, NoCall
<1>3. ASSUME NEW d \in Calls, d # c
      PROVE  call'[d].order = call[d].order /\ (IsDraft(call'[d]) <=> IsDraft(call[d]))
  <2>1. CASE call'[d] = call[d]
    BY <2>1
  <2>2. CASE call'[d] # call[d]
    <3>1. queue # << >> /\ d = Head(queue) /\ call'[d] = On(d, "model", "model", TRUE)
      BY <1>3, <2>2, EndsNormal
    <3>2. call[d].pc = "queued"
      BY <3>1, FirstWaits
    <3>3. call[d].op = "model"
      BY <3>2, CallUnderWay DEF CopiesInv
    <3>4. call'[d].order = call[d].order /\ call'[d].pc = "model" /\ call'[d].op = "model"
      BY <3>1 DEF On
    <3> QED BY <3>2, <3>3, <3>4 DEF IsDraft, DraftOps
  <2> QED BY <2>1, <2>2
<1>4. /\ call[c].op # None
      /\ call[c].op \in DraftOps \cup {"failed"} => c \in BenchCalls
  BY CallUnderWay DEF CopiesInv
<1>5. IsDraft(call[c]) <=> call[c].op \in DraftOps \cup {"failed"}
  BY <1>4 DEF IsDraft
<1>6. DraftsUnderWay' = DraftsUnderWay \ {c}
  BY <1>2, <1>3, UnderWayDrafts DEF Calls
<1>7. \A d \in DraftsUnderWay \ {c} : call'[d].order = call[d].order
  BY <1>3, UnderWayDrafts DEF Calls
<1>8. CASE call[c].op \in DraftOps \cup {"failed"}
  <2>1. c \in DraftsUnderWay
    BY <1>4, <1>5, <1>8, UnderWayDrafts
  <2>2. drafting' = drafting \ {call[c].order}
    BY <1>1, <1>8
  <2>3. drafting' = {call'[d].order : d \in DraftsUnderWay'}
    BY <1>6, <1>7, <2>1, <2>2 DEF OneDraftPerOrder
  <2> QED BY <1>6, <1>7, <2>3 DEF OneDraftPerOrder
<1>9. CASE call[c].op \notin DraftOps \cup {"failed"}
  <2>1. c \notin DraftsUnderWay
    BY <1>5, <1>9, UnderWayDrafts
  <2>2. drafting' = drafting
    BY <1>1, <1>9
  <2> QED BY <1>6, <1>7, <2>1, <2>2 DEF OneDraftPerOrder
<1> QED BY <1>8, <1>9

LEMMA DraftsStep ==
  CopiesInv /\ QueueOK /\ OneDraftPerOrder /\ [OrdersNext]_orderVars => OneDraftPerOrder'
<1> SUFFICES ASSUME CopiesInv, QueueOK, OneDraftPerOrder, [OrdersNext]_orderVars
             PROVE  OneDraftPerOrder'
  OBVIOUS
<1>0. call \in [Calls -> Over \cup UnderWay] /\ None \notin Ops
  BY NoneIsNoOp DEF CopiesInv
<1>1. ASSUME NEW c \in Calls, NEW o \in Orders,
             \/ c \in BenchCalls /\ (Edit(c, o) \/ Release(c, o) \/ Scrap(c, o) \/ Restore(c, o))
             \/ c \in McpCalls /\ DraftByAgent(c, o)
             \/ Claim(c, o) \/ Report(c, o)
      PROVE  OneDraftPerOrder'
  <2>1. PICK pc \in {"write", "polish"}, op \in Ops \ (DraftOps \cup {"failed"}) :
          Accept(c, pc, op, o) /\ UNCHANGED draftVars
    BY <1>1, RequestAsks
  <2>2. call[c].pc = "unused" /\ call' = [call EXCEPT ![c] = Asked(c, pc, op, o)]
    BY <2>1 DEF Accept, Asked
  <2>3. call'[c] = Asked(c, pc, op, o) /\ \A d \in Calls \ {c} : call'[d] = call[d]
    BY <1>0, <2>2
  <2>4. ~IsDraft(call[c]) /\ ~IsDraft(call'[c])
    BY <1>0, <2>2, <2>3 DEF IsDraft, Asked
  <2> QED BY <2>1, <2>3, <2>4, DraftsKept DEF draftVars, Calls
<1>2. ASSUME NEW o \in Orders, NEW c \in BenchCalls, Draft(c, o)
      PROVE  OneDraftPerOrder'
  <2>1. /\ call[c].pc = "unused" /\ call' = [call EXCEPT ![c] = Asked(c, "select", None, o)]
        /\ o \notin drafting /\ drafting' = drafting \cup {o} /\ c \in Calls
    BY <1>2 DEF Draft, Accept, Asked, Calls
  <2>2. /\ call'[c] = Asked(c, "select", None, o)
        /\ \A d \in Calls \ {c} : call'[d] = call[d]
    BY <1>0, <2>1
  <2>3. ~IsDraft(call[c]) /\ IsDraft(call'[c]) /\ call'[c].order = o
    BY <2>1, <2>2 DEF IsDraft, Asked
  <2>4. DraftsUnderWay' = DraftsUnderWay \cup {c} /\ c \notin DraftsUnderWay
    BY <2>2, <2>3, UnderWayDrafts DEF Calls
  <2>5. \A d \in DraftsUnderWay : call'[d].order = call[d].order /\ call[d].order # o
    BY <2>1, <2>2, <2>4, UnderWayDrafts DEF OneDraftPerOrder, Calls
  <2>6. drafting' = {call'[d].order : d \in DraftsUnderWay'}
    BY <2>1, <2>3, <2>4, <2>5 DEF OneDraftPerOrder
  <2> QED BY <2>3, <2>4, <2>5, <2>6 DEF OneDraftPerOrder
<1>3. ASSUME NEW c \in Calls,
             \/ \E op \in DraftOps : SelectOther(c, op)
             \/ \E op \in Ops : Answers(c, op)
             \/ Renames(c)
             \/ WriteFails(c) /\ call[c].op \in DraftOps
      PROVE  OneDraftPerOrder'
  <2>1. PICK pc \in {"write", "renamed"}, op \in Ops :
          /\ call[c].pc \notin {"unused", "done", "queued"} /\ UNCHANGED draftVars
          /\ call' = [call EXCEPT ![c] = On(c, pc, op, call[c].slot)]
          /\ op \in DraftOps \cup {"failed"} <=> call[c].op \in DraftOps \cup {"failed", None}
    BY <1>3, CallGoesOn
  <2>2. /\ call'[c] = On(c, pc, op, call[c].slot)
        /\ \A d \in Calls \ {c} : call'[d] = call[d]
    BY <1>0, <2>1
  <2>3. call'[c].pc = pc /\ call'[c].op = op /\ call'[c].order = call[c].order
    BY <2>2 DEF On
  <2>4. IsDraft(call'[c]) <=> IsDraft(call[c])
    BY <1>0, <2>1, <2>3 DEF IsDraft
  <2> QED BY <2>1, <2>2, <2>3, <2>4, DraftsKept DEF draftVars, Calls
<1>4. ASSUME NEW c \in Calls, Acquire(c)
      PROVE  OneDraftPerOrder'
  <2>1. /\ call[c].pc = "select" /\ call[c].op = None /\ drafting' = drafting
    BY <1>4, AcquireGoesOn
  <2>2. PICK pc \in {"model", "queued"}, slot \in BOOLEAN :
          call' = [call EXCEPT ![c] = On(c, pc, "model", slot)]
    BY <1>4, AcquireGoesOn
  <2>3. /\ call'[c] = On(c, pc, "model", slot)
        /\ \A d \in Calls \ {c} : call'[d] = call[d]
    BY <1>0, <2>2
  <2>4. call'[c].pc = pc /\ call'[c].op = "model" /\ call'[c].order = call[c].order
    BY <2>3 DEF On
  <2>5. IsDraft(call'[c]) /\ IsDraft(call[c])
    BY <2>1, <2>4 DEF IsDraft, DraftOps
  <2> QED BY <2>1, <2>3, <2>4, <2>5, DraftsKept DEF Calls
<1>5. ASSUME NEW c \in Calls, Saved(c)
      PROVE  OneDraftPerOrder'
  BY <1>5, DraftsEnds DEF Saved
<1>6. ASSUME NEW c \in Calls, WriteFails(c), call[c].op \notin DraftOps
      PROVE  OneDraftPerOrder'
  BY <1>6, DraftsEnds DEF WriteFails
<1>7. CASE McpRestarts
  <2>1. \A c \in BenchCalls : call'[c] = call[c]
    BY <1>7, DroppedOK, CallsAssumption DEF McpRestarts, Calls
  <2> QED BY <1>7, <2>1, DraftsKept DEF McpRestarts, draftVars
<1>8. CASE BenchRestarts
  <2>1. \A c \in BenchCalls : call'[c].pc \in {"unused", "done"}
    BY <1>8, DroppedOK DEF BenchRestarts, Calls
  <2>2. DraftsUnderWay' = {}
    BY <2>1 DEF DraftsUnderWay
  <2> QED BY <1>8, <2>2 DEF OneDraftPerOrder, BenchRestarts
<1>9. CASE UNCHANGED <<call, drafting>>
  BY <1>9, DraftsKept
<1>10. ASSUME NEW l \in Reloads, WatcherFires(l) \/ (\E o \in Orders : ReadsFile(l, o)) \/ Reloaded(l)
       PROVE  UNCHANGED <<call, drafting>>
  BY <1>10 DEF WatcherFires, ReadsFile, Reloaded, draftVars
<1>11. CASE UNCHANGED orderVars
  BY <1>9, <1>11 DEF orderVars
<1> QED
  BY <1>1, <1>2, <1>3, <1>4, <1>5, <1>6, <1>7, <1>8, <1>9, <1>10, <1>11
  DEF OrdersNext, BenchRequest, Resumes, Calls

-----------------------------------------------------------------------------
(* The theorems about every behaviour.                                      *)

OrdersInv == CopiesInv /\ SlotInv /\ OneDraftPerOrder

LEMMA AlwaysOrdersInv == OrdersSpec => []OrdersInv
<1>1. OrdersInit => OrdersInv
  BY CopiesInit, SlotInit, DraftsInit DEF OrdersInv
<1>2. OrdersInv /\ [OrdersNext]_orderVars => OrdersInv'
  BY CopiesStep, SlotStep, DraftsStep DEF OrdersInv, SlotInv
<1> QED BY <1>1, <1>2, PTL DEF OrdersSpec

\* Every copy of an order in orders/service.ts stays a record of the schema,
\* and no operation stores the null of an illegal transition.
THEOREM OrdersTypeCorrect == OrdersSpec => []OrdersTypeOK
<1>1. OrdersInv => OrdersTypeOK
  <2> SUFFICES ASSUME OrdersInv PROVE OrdersTypeOK
    OBVIOUS
  <2>1. FullFiles \subseteq Files /\ SturdyRecords \subseteq Records
    BY DEF FullFiles, SturdyRecords
  <2>2. file \in [Orders -> Files] /\ index \in [Procs -> [Orders -> Records]]
    BY <2>1 DEF OrdersInv, CopiesInv
  <2>3. Over \cup UnderWay \subseteq [pc : PCs, op : Ops \cup {None}, order : Orders \cup {None},
                                     base : Records \cup {None}, slot : BOOLEAN]
    <3>1. Over \subseteq [pc : PCs, op : Ops \cup {None}, order : Orders \cup {None},
                          base : Records \cup {None}, slot : BOOLEAN]
      BY DEF Over, NoCall, PCs
    <3>2. UnderWay \subseteq [pc : PCs, op : Ops \cup {None}, order : Orders \cup {None},
                              base : Records \cup {None}, slot : BOOLEAN]
      <4> SUFFICES ASSUME NEW k \in UnderWay
                   PROVE  k \in [pc : PCs, op : Ops \cup {None}, order : Orders \cup {None},
                                base : Records \cup {None}, slot : BOOLEAN]
        OBVIOUS
      <4>1. /\ k = [pc |-> k.pc, op |-> k.op, order |-> k.order, base |-> k.base, slot |-> k.slot]
            /\ k.pc \in PCs /\ k.op \in Ops \cup {None} /\ k.order \in Orders
            /\ k.base \in Records /\ k.slot \in BOOLEAN
        BY <2>1 DEF UnderWay
      <4> QED BY <4>1
    <3> QED BY <3>1, <3>2
  <2>4. call \in [Calls -> [pc : PCs, op : Ops \cup {None}, order : Orders \cup {None},
                           base : Records \cup {None}, slot : BOOLEAN]]
    BY <2>3 DEF OrdersInv, CopiesInv
  <2>5. drafting \subseteq Orders
    <3>1. \A c \in DraftsUnderWay : call[c].order \in Orders
      BY CallUnderWay DEF OrdersInv, CopiesInv, DraftsUnderWay, Calls
    <3> QED BY <3>1 DEF OrdersInv, OneDraftPerOrder
  <2>6. queue \in Seq(Calls)
    <3>1. queue \in Seq(BenchCalls)
      BY DEF OrdersInv, SlotInv, QueueOK
    <3>2. Len(queue) \in Nat /\ queue \in [1..Len(queue) -> BenchCalls]
      BY <3>1, LenProperties
    <3> QED BY <3>2, SeqDef DEF Calls
  <2>7. loading \in [Reloads -> [Orders -> Records \cup {None}] \cup {None}]
    BY <2>1 DEF OrdersInv, CopiesInv
  <2> QED BY <2>2, <2>4, <2>5, <2>6, <2>7 DEF OrdersTypeOK, OrdersInv, SlotInv, CopiesInv
<1> QED BY <1>1, AlwaysOrdersInv, PTL

\* draftsInFlight and the semaphore of orders/service.ts: whatever fails and
\* whenever a process restarts, an order has one draft at a time, no more
\* model calls run than there are slots, no slot is lost and nobody waits
\* beside a free one.
THEOREM DraftingProved == OrdersSpec => []DraftingBounded
<1>1. OrdersInv => DraftingBounded
  <2> SUFFICES ASSUME OrdersInv PROVE ModelCallsBounded
    BY DEF OrdersInv, DraftingBounded
  <2>1. /\ free \in 0..MaxModelCalls /\ free = MaxModelCalls - Cardinality(Holders)
        /\ Cardinality(Holders) \in Nat /\ MaxModelCalls \in Nat
    BY HoldersFinite, CallsAssumption DEF OrdersInv, SlotInv
  <2>2. Cardinality(Holders) <= MaxModelCalls
    BY <2>1
  <2>3. \A c \in Calls : call[c].pc = "model" => call[c].slot
    BY CallUnderWay DEF OrdersInv, CopiesInv
  <2> QED BY <2>1, <2>2, <2>3 DEF ModelCallsBounded, Holders, OrdersInv, SlotInv
<1> QED BY <1>1, AlwaysOrdersInv, PTL

\* On every copy of an order, stale ones included, a rung from `released` on
\* has its shop face: release() fills it, and an order that is restored to
\* such a rung had it when it was scrapped.
THEOREM ShopFaceProved == OrdersSpec => []ShopFaceFilled
<1>1. OrdersInv => ShopFaceFilled
  <2> SUFFICES ASSUME OrdersInv PROVE ShopFaceFilled
    OBVIOUS
  <2>1. \A o \in Orders : /\ file[o] \in FullFiles
                          /\ \A proc \in Procs : index[proc][o] \in SturdyRecords
    BY DEF OrdersInv, CopiesInv
  <2>2. ASSUME NEW c \in Calls, call[c].base # None PROVE call[c].base \in SturdyRecords
    BY <2>2, CallOver, CallUnderWay DEF OrdersInv, CopiesInv
  <2>3. \A o \in Orders : Filled(file[o].rung, file[o].shop)
    BY <2>1 DEF FullFiles
  <2> QED BY <2>1, <2>2, <2>3 DEF ShopFaceFilled, SturdyRecords, Sturdy
<1> QED BY <1>1, AlwaysOrdersInv, PTL

-----------------------------------------------------------------------------
(* The watcher, when reloads do not overlap.                                *)

OneReloadAtATime == \A l, m \in Reloads : l = m

LEMMA SerializeLoaded ==
  ASSUME CopiesInv, NEW o \in Orders
  PROVE  serializeWorkOrder(parseWorkOrder(file[o])) = file[o]
BY ParseSturdy DEF CopiesInv

LEMMA WatchInit == OrdersInit => WatchInv
<1> SUFFICES ASSUME OrdersInit PROVE WatchInv
  OBVIOUS
<1>0. CopiesInv
  BY CopiesInit
<1>1. \A c \in BenchCalls : call[c].pc = "unused"
  BY DEF OrdersInit, NoCall, Calls
<1>2. \A o \in Orders : index["bench"][o] = parseWorkOrder(file[o])
  BY DEF OrdersInit, Procs
<1>3. \A l \in Reloads : loading[l] = None
  BY DEF OrdersInit
<1> QED BY <1>0, <1>1, <1>2, <1>3, SerializeLoaded DEF WatchInv

\* Nothing the watcher looks at changes.
LEMMA WatchKept ==
  ASSUME WatchInv, UNCHANGED <<file, changed, loading>>, index'["bench"] = index["bench"],
         \A c \in BenchCalls : call'[c].pc = "renamed" => call[c].pc = "renamed"
  PROVE  WatchInv'
<1>1. \A l \in Reloads : Fresh(l)' <=> Fresh(l)
  BY DEF Fresh
<1> QED BY <1>1 DEF WatchInv

\* A call changes while the watcher's timer runs.
LEMMA WatchChanged == changed' => WatchInv'
BY DEF WatchInv

LEMMA WatchStep ==
  OneReloadAtATime /\ OrdersInv /\ WatchInv /\ [OrdersNext]_orderVars => WatchInv'
<1> SUFFICES ASSUME OneReloadAtATime, OrdersInv, WatchInv, [OrdersNext]_orderVars
             PROVE  WatchInv'
  OBVIOUS
<1>0. /\ CopiesInv /\ QueueOK /\ call \in [Calls -> Over \cup UnderWay]
      /\ index \in [Procs -> [Orders -> SturdyRecords]]
      /\ loading \in [Reloads -> [Orders -> SturdyRecords \cup {None}] \cup {None}]
  BY DEF OrdersInv, CopiesInv, SlotInv
<1>1. ASSUME NEW c \in Calls, NEW pc, pc # "renamed", NEW op, NEW o, Accept(c, pc, op, o)
      PROVE  WatchInv'
  <2>1. call' = [call EXCEPT ![c] = Asked(c, pc, op, o)] /\ UNCHANGED <<file, index, changed, loading>>
    BY <1>1 DEF Accept, Asked, watchVars
  <2>2. call'[c] = Asked(c, pc, op, o) /\ \A d \in Calls \ {c} : call'[d] = call[d]
    BY <1>0, <2>1
  <2>3. call'[c].pc # "renamed"
    BY <1>1, <2>2 DEF Asked
  <2> QED BY <2>1, <2>2, <2>3, WatchKept DEF Calls
<1>2. ASSUME NEW c \in Calls, NEW o \in Orders,
             \/ c \in BenchCalls /\ (Edit(c, o) \/ Release(c, o) \/ Scrap(c, o) \/ Restore(c, o))
             \/ c \in McpCalls /\ DraftByAgent(c, o)
             \/ Claim(c, o) \/ Report(c, o)
      PROVE  WatchInv'
  <2>1. PICK pc \in {"write", "polish"}, op \in Ops : Accept(c, pc, op, o)
    BY <1>0, <1>2, RequestAsks
  <2> QED BY <1>1, <2>1
<1>3. ASSUME NEW o \in Orders, NEW c \in BenchCalls, Draft(c, o)
      PROVE  WatchInv'
  BY <1>1, <1>3 DEF Draft, Calls
<1>4. ASSUME NEW c \in Calls, Renames(c)
      PROVE  WatchInv'
  BY <1>4, WatchChanged DEF Renames
<1>5. ASSUME NEW c \in Calls, ~Renames(c),
             \/ \E op \in DraftOps : SelectOther(c, op)
             \/ \E op \in Ops : Answers(c, op)
             \/ WriteFails(c) /\ call[c].op \in DraftOps
      PROVE  WatchInv'
  <2>1. PICK pc \in {"write", "renamed"}, op \in Ops :
          /\ call' = [call EXCEPT ![c] = On(c, pc, op, call[c].slot)]
          /\ pc = "renamed" => Renames(c)
    BY <1>0, <1>5, CallGoesOn
  <2>2. /\ call'[c] = On(c, pc, op, call[c].slot)
        /\ \A d \in Calls \ {c} : call'[d] = call[d]
    BY <1>0, <2>1
  <2>3. call'[c].pc # "renamed"
    BY <1>5, <2>1, <2>2 DEF On
  <2>4. UNCHANGED <<file, index, changed, loading>>
    BY <1>5 DEF SelectOther, Answers, WriteFails, watchVars
  <2> QED BY <2>2, <2>3, <2>4, WatchKept DEF Calls
<1>6. ASSUME NEW c \in Calls, Acquire(c)
      PROVE  WatchInv'
  <2>1. PICK pc \in {"model", "queued"}, slot \in BOOLEAN :
          call' = [call EXCEPT ![c] = On(c, pc, "model", slot)]
    BY <1>0, <1>6, AcquireGoesOn
  <2>2. /\ call'[c] = On(c, pc, "model", slot)
        /\ \A d \in Calls \ {c} : call'[d] = call[d]
    BY <1>0, <2>1
  <2>3. call'[c].pc # "renamed"
    BY <2>2 DEF On
  <2>4. UNCHANGED <<file, index, changed, loading>>
    BY <1>6 DEF Acquire, watchVars
  <2> QED BY <2>2, <2>3, <2>4, WatchKept DEF Calls
<1>7. ASSUME NEW c \in Calls, call[c].pc \in {"write", "renamed"}, CallEnds(c)
      PROVE  \A d \in Calls : call'[d].pc = "renamed" => call[d].pc = "renamed"
  <2> TAKE d \in Calls
  <2>1. CASE d = c
    <3>1. call'[c] = NoCall("done")
      BY <1>0, <1>7, EndsNormal
    <3> QED BY <2>1, <3>1 DEF NoCall
  <2>2. CASE d # c /\ call'[d] # call[d]
    <3>1. call'[d] = On(d, "model", "model", TRUE)
      BY <1>0, <1>7, <2>2, EndsNormal
    <3> QED BY <3>1 DEF On
  <2> QED BY <2>1, <2>2
<1>8. ASSUME NEW c \in Calls, Saved(c)
      PROVE  WatchInv'
  <2>1. CASE c \in McpCalls
    <3>1. index'["bench"] = index["bench"]
      BY <1>0, <1>8, <2>1 DEF Saved, Proc, Procs
    <3> QED BY <1>7, <1>8, <3>1, WatchKept DEF Saved, watchVars, Calls
  <2>2. CASE c \notin McpCalls
    <3>1. changed'
      BY <1>8, <2>2 DEF Saved, watchVars, Calls, WatchInv
    <3> QED BY <3>1, WatchChanged
  <2> QED BY <2>1, <2>2
<1>9. ASSUME NEW c \in Calls, WriteFails(c), call[c].op \notin DraftOps
      PROVE  WatchInv'
  BY <1>7, <1>9, WatchKept DEF WriteFails, watchVars, Calls
<1>10. ASSUME NEW l \in Reloads, WatcherFires(l)
       PROVE  WatchInv'
  <2>1. /\ loading'[l] = [o \in Orders |-> None] /\ ~changed'
        /\ UNCHANGED <<file, index, call>> /\ \A c \in BenchCalls : call[c].pc # "renamed"
    BY <1>0, <1>10 DEF WatcherFires
  <2>2. loading'[l] \in [Orders -> Records \cup {None}]
    BY <2>1
  <2>3. loading'[l] # None
    BY <2>2, NoneIsNoRecord
  <2>4. \A m \in Reloads : m = l
    BY DEF OneReloadAtATime
  <2>5. \A o \in Orders : loading'[l][o] = None
    BY <2>1
  <2>6. Fresh(l)'
    BY <2>5 DEF Fresh
  <2> QED BY <2>1, <2>3, <2>4, <2>6 DEF WatchInv
<1>11. ASSUME NEW l \in Reloads, NEW o \in Orders, ReadsFile(l, o)
       PROVE  WatchInv'
  <2>1. /\ loading[l] # None /\ loading[l] \in [Orders -> SturdyRecords \cup {None}]
        /\ UNCHANGED <<file, index, call, changed>>
        /\ loading' = [loading EXCEPT ![l][o] = parseWorkOrder(file[o])]
    BY <1>0, <1>11 DEF ReadsFile
  <2>2. loading'[l] = [loading[l] EXCEPT ![o] = parseWorkOrder(file[o])]
    BY <1>0, <2>1
  <2>3. \A m \in Reloads : m = l
    BY DEF OneReloadAtATime
  <2>4. CASE changed
    BY <2>1, <2>4, WatchChanged
  <2>5. CASE ~changed
    <3>1. Fresh(l)
      BY <2>1, <2>5 DEF WatchInv
    <3>2. Fresh(l)'
      BY <1>0, <2>1, <2>2, <3>1, SerializeLoaded DEF Fresh
    <3>3. loading'[l] # None
      <4>1. parseWorkOrder(file[o]) \in Records
        BY <1>0, ParseSturdy DEF CopiesInv, SturdyRecords
      <4>2. loading'[l] \in [Orders -> Records \cup {None}]
        BY <2>1, <2>2, <4>1 DEF SturdyRecords
      <4> QED BY <4>2, NoneIsNoRecord
    <3> QED BY <2>1, <2>3, <3>2, <3>3 DEF WatchInv
  <2> QED BY <2>4, <2>5
<1>12. ASSUME NEW l \in Reloads, Reloaded(l)
       PROVE  WatchInv'
  <2>1. /\ loading[l] # None /\ \A o \in Orders : loading[l][o] # None
        /\ index' = [index EXCEPT !["bench"] = loading[l]]
        /\ loading' = [loading EXCEPT ![l] = None]
        /\ UNCHANGED <<file, call, changed>>
    BY <1>12 DEF Reloaded
  <2>2. index'["bench"] = loading[l]
    BY <1>0, <2>1 DEF Procs
  <2>3. \A m \in Reloads : loading'[m] = None
    BY <1>0, <2>1 DEF OneReloadAtATime
  <2>4. CASE changed
    BY <2>1, <2>4, WatchChanged
  <2>5. CASE ~changed
    <3>1. Fresh(l)
      BY <2>1, <2>5 DEF WatchInv
    <3>2. \A o \in Orders : serializeWorkOrder(index'["bench"][o]) = file'[o]
      BY <2>1, <2>2, <3>1 DEF Fresh
    <3> QED BY <2>1, <2>3, <3>2 DEF WatchInv
  <2> QED BY <2>4, <2>5
<1>13. CASE McpRestarts
  <2>1. index'["bench"] = index["bench"]
    BY <1>0, <1>13 DEF McpRestarts, Procs
  <2>2. \A c \in BenchCalls : call'[c].pc = "renamed" => call[c].pc = "renamed"
    BY <1>0, <1>13, DroppedOK, CallsAssumption DEF McpRestarts, Calls
  <2> QED BY <1>13, <2>1, <2>2, WatchKept DEF McpRestarts, watchVars
<1>14. CASE BenchRestarts
  <2>1. \A c \in BenchCalls : call'[c].pc \in {"unused", "done"}
    BY <1>0, <1>14, DroppedOK DEF BenchRestarts, Calls
  <2>2. \A l \in Reloads : loading'[l] = None
    BY <1>14 DEF BenchRestarts
  <2>3. \A o \in Orders : index'["bench"][o] = parseWorkOrder(file[o])
    BY <1>0, <1>14 DEF BenchRestarts, Loaded, Procs
  <2>4. \A o \in Orders : serializeWorkOrder(index'["bench"][o]) = file'[o]
    BY <1>0, <1>14, <2>3, SerializeLoaded DEF BenchRestarts
  <2> QED BY <2>1, <2>2, <2>4 DEF WatchInv
<1>15. CASE UNCHANGED orderVars
  BY <1>15, WatchKept DEF orderVars
<1> QED
  BY <1>2, <1>3, <1>4, <1>5, <1>6, <1>8, <1>9, <1>10, <1>11, <1>12, <1>13, <1>14, <1>15
  DEF OrdersNext, BenchRequest, Resumes, Calls

\* JigWatcher: as long as one reload ends before the next begins, the bench
\* shows what the files say whenever the watcher has nothing left to do, even
\* when its own writes raced each other or an agent's.
THEOREM BenchCatchesUpProved == OneReloadAtATime => (OrdersSpec => []BenchCatchesUp)
<1> SUFFICES ASSUME OneReloadAtATime PROVE OrdersSpec => []BenchCatchesUp
  OBVIOUS
<1>1. OrdersInit => WatchInv
  BY WatchInit
<1>2. OrdersInv /\ WatchInv /\ [OrdersNext]_orderVars => WatchInv'
  BY WatchStep
<1>3. WatchInv => BenchCatchesUp
  BY DEF WatchInv, BenchCatchesUp
<1> QED BY <1>1, <1>2, <1>3, AlwaysOrdersInv, PTL DEF OrdersSpec
=============================================================================
