----------------------------- MODULE WorkOrders ------------------------------
(***************************************************************************)
(* packages/server/src/orders/service.ts over store.ts and watcher.ts: the *)
(* work orders as the bench process and the MCP process see them.          *)
(*                                                                         *)
(* Both processes keep an index (`index`) of the same files (`file`).  A   *)
(* call reads one record, `base`, when it starts; what it writes, possibly *)
(* many awaits later, is a function of that record.  The bench re-reads    *)
(* the files when its watcher notices a change; the MCP process never      *)
(* does.  A file holds both faces and the rung, not the log: reading it    *)
(* back forgets from which rung an order was scrapped.                     *)
(*                                                                         *)
(* Left out, since no property tells it apart: who drafted an order, the   *)
(* wording of either face, and the `wiring.drafter` badge.                 *)
(***************************************************************************)
EXTENDS OrderLadder, Sequences, FiniteSets, Integers

CONSTANTS
  Orders,         \* work orders; marks create them one at a time
  BenchCalls,     \* bound: calls the bench serves, one use each
  McpCalls,       \* bound: tool calls the MCP process serves, one use each
  Reloads,        \* reloads of the bench's index that may overlap
  MaxModelCalls,  \* MAX_CONCURRENT_MODEL_CALLS
  StartFiles,     \* what the files may hold when the processes start
  MayRestart,     \* may the two processes be stopped and started again?
  WritesMayFail,  \* may the file system refuse a write?
  None            \* absent

Calls == BenchCalls \cup McpCalls
Procs == {"bench", "mcp"}

ASSUME CallsAssumption ==
  /\ BenchCalls \cap McpCalls = {}
  /\ IsFiniteSet(Calls)
  /\ MaxModelCalls \in Nat \ {0}
  /\ MayRestart \in BOOLEAN /\ WritesMayFail \in BOOLEAN

VARIABLES
  file,      \* .jig/work-orders/*.md
  index,     \* JigStore.workOrders of each process
  call,      \* the calls in flight
  drafting,  \* draftsInFlight of the bench
  free,      \* the semaphore's free model slots ...
  queue,     \* ... and who waits for one
  changed,   \* has the watcher's debounce timer been set?
  loading    \* what each reload of the bench's index has read so far

draftVars == <<drafting, free, queue>>
watchVars == <<changed, loading>>
orderVars == <<file, index, call, drafting, free, queue, changed, loading>>

\* What a file keeps of an order: its rung, the human face (as asked for on
\* the mark, or written by someone since) and the shop face.
Files == [rung : LadderStates, face : {"asked", "written"},
          shop : {"none", "brief", "fit"}]

\* In memory there is also the log; restore() looks for its last `prev:` note.
Records == [rung : LadderStates, face : {"asked", "written"},
            shop : {"none", "brief", "fit"}, prev : LadderStates \cup {None}]

ASSUME NoneIsNoRecord ==
  /\ None \notin LadderStates \cup Records \cup Orders
  /\ None \notin [Orders -> Records \cup {None}]

serializeWorkOrder(rec) ==
  [rung |-> rec.rung, face |-> rec.face, shop |-> rec.shop]

\* The log comes back empty.
parseWorkOrder(f) ==
  [rung |-> f.rung, face |-> f.face, shop |-> f.shop, prev |-> None]

\* A rung from `released` on has its shop face, the last rung a report in it;
\* an order that was restored may carry a shop face on any rung.
Filled(rung, shop) ==
  /\ rung \in {"released", "in-the-shop"} => shop # "none"
  /\ rung = "trial-fit" => shop = "fit"

NoCall(pc) ==
  [pc |-> pc, op |-> None, order |-> None, base |-> None, slot |-> FALSE]

ASSUME StartAssumption ==
  \A f \in StartFiles :
    f \in [Orders -> Files] /\ \A o \in Orders : Filled(f[o].rung, f[o].shop)

OrdersInit ==
  /\ file \in StartFiles
  /\ index = [proc \in Procs |-> [o \in Orders |-> parseWorkOrder(file[o])]]
  /\ call = [c \in Calls |-> NoCall("unused")]
  /\ drafting = {}
  /\ free = MaxModelCalls
  /\ queue = << >>
  /\ changed = FALSE
  /\ loading = [l \in Reloads |-> None]

Proc(c) == IF c \in McpCalls THEN "mcp" ELSE "bench"

-----------------------------------------------------------------------------
(* What each operation makes of the record it started from.                 *)

\* Mutant: an order whose note is gone comes back ready for the shop.
RestoredForShop(rec) ==
  [rec EXCEPT !.rung = IF rec.prev = None THEN "released" ELSE rec.prev]

\* restore(): back to the noted rung, or to `marked` when no note is left.
Restored(rec) ==
  [rec EXCEPT !.rung = IF rec.prev = None THEN "marked" ELSE rec.prev]

\* {...order, ...}: the whole next order, computed from `rec`.
Result(op, rec) ==
  CASE op = "edit"    -> [rec EXCEPT !.face = "written"]
    [] op = "release" -> [rec EXCEPT !.rung = transition(rec.rung, "release"),
                                     !.shop = "brief"]
    [] op = "scrap"   -> [rec EXCEPT !.rung = transition(rec.rung, "scrap"),
                                     !.prev = rec.rung]
    [] op = "restore" -> Restored(rec)
    [] op = "claim"   -> [rec EXCEPT !.rung = transition(rec.rung, "claim")]
    [] op = "report"  -> [rec EXCEPT !.rung = transition(rec.rung, "report"),
                                     !.shop = "fit"]
    [] op = "shop"    -> [rec EXCEPT !.face = "asked"]
    [] op = "person"  -> [rec EXCEPT !.rung = transition(rec.rung, "draft"),
                                     !.face = "asked"]
    [] op \in {"model", "agent"} ->
         [rec EXCEPT !.rung = transition(rec.rung, "draft"),
                     !.face = "written"]
    [] op = "failed"  -> rec

Ops == {"edit", "release", "scrap", "restore", "claim", "report", "shop",
        "person", "model", "agent", "failed"}
DraftOps == {"shop", "person", "model"}
ASSUME NoneIsNoOp == None \notin Ops

PCs == {"unused", "select", "queued", "model", "polish", "write", "renamed",
        "done"}

\* A call reads its record and is under way.
Accept(c, pc, op, o) ==
  /\ call[c].pc = "unused"
  /\ call' = [call EXCEPT ![c] = [pc |-> pc, op |-> op, order |-> o,
                                  base |-> index[Proc(c)][o], slot |-> FALSE]]
  /\ UNCHANGED <<file, index, watchVars>>

Rung(c, o) == index[Proc(c)][o].rung

Edit(c, o) ==
  /\ Rung(c, o) \in {"marked", "drafted"}
  /\ Accept(c, "write", "edit", o)
  /\ UNCHANGED draftVars

\* The shop face is filled, then the local model may polish it.
Release(c, o) ==
  /\ transition(Rung(c, o), "release") # NoMove
  /\ Accept(c, "polish", "release", o)
  /\ UNCHANGED draftVars

Scrap(c, o) ==
  /\ transition(Rung(c, o), "scrap") # NoMove
  /\ Accept(c, "write", "scrap", o)
  /\ UNCHANGED draftVars

Restore(c, o) ==
  /\ Rung(c, o) = "scrapped"
  /\ Accept(c, "write", "restore", o)
  /\ UNCHANGED draftVars

\* Mutant: the null of transition() is not looked at.
ClaimUnchecked(c, o) ==
  /\ Accept(c, "write", "claim", o)
  /\ UNCHANGED draftVars

\* claim() and reportDone() are served over HTTP and over MCP.
Claim(c, o) ==
  /\ transition(Rung(c, o), "claim") # NoMove
  /\ Accept(c, "write", "claim", o)
  /\ UNCHANGED draftVars

Report(c, o) ==
  /\ transition(Rung(c, o), "report") # NoMove
  /\ index[Proc(c)][o].shop # "none"
  /\ Accept(c, "write", "report", o)
  /\ UNCHANGED draftVars

\* jig_draft.
DraftByAgent(c, o) ==
  /\ Rung(c, o) = "marked"
  /\ Accept(c, "write", "agent", o)
  /\ UNCHANGED draftVars

-----------------------------------------------------------------------------
(* draftOrder(): at most one per order, in the background.                  *)

\* Mutant: the order is noted as being drafted, but nobody looks.
DraftTwice(c, o) ==
  /\ Rung(c, o) = "marked"
  /\ Accept(c, "select", None, o)
  /\ drafting' = drafting \cup {o}
  /\ UNCHANGED <<free, queue>>

Draft(c, o) ==
  /\ Rung(c, o) = "marked"
  /\ o \notin drafting
  /\ Accept(c, "select", None, o)
  /\ drafting' = drafting \cup {o}
  /\ UNCHANGED <<free, queue>>

\* selectDrafter() answers and the docs are loaded.  Without a local model
\* the face is the mark's own words, at once: queued for a connected agent,
\* or handed to the person.
SelectOther(c, op) ==
  /\ call[c].pc = "select"
  /\ op \in {"shop", "person"}
  /\ call' = [call EXCEPT ![c].pc = "write", ![c].op = op]
  /\ UNCHANGED <<file, index, draftVars, watchVars>>

\* Mutant: off by one - the last slot is handed out twice.
AcquireOverbooks(c) ==
  /\ call[c].pc = "select"
  /\ IF free >= 0
     THEN /\ free' = free - 1
          /\ call' = [call EXCEPT ![c].pc = "model", ![c].op = "model",
                                  ![c].slot = TRUE]
          /\ UNCHANGED queue
     ELSE /\ queue' = Append(queue, c)
          /\ call' = [call EXCEPT ![c].pc = "queued", ![c].op = "model"]
          /\ UNCHANGED free
  /\ UNCHANGED <<file, index, drafting, watchVars>>

\* acquire(): a free slot at once, or a place in the queue.
Acquire(c) ==
  /\ call[c].pc = "select"
  /\ IF free > 0
     THEN /\ free' = free - 1
          /\ call' = [call EXCEPT ![c].pc = "model", ![c].op = "model",
                                  ![c].slot = TRUE]
          /\ UNCHANGED queue
     ELSE /\ queue' = Append(queue, c)
          /\ call' = [call EXCEPT ![c].pc = "queued", ![c].op = "model"]
          /\ UNCHANGED free
  /\ UNCHANGED <<file, index, drafting, watchVars>>

\* The model answers, or fails or times out after 90 s; or release()'s polish
\* pass is over, with or without a polished brief.
Answers(c, op) ==
  /\ \/ call[c].pc = "model" /\ op \in {"model", "failed"}
     \/ call[c].pc = "polish" /\ op = "release"
  /\ call' = [call EXCEPT ![c].pc = "write", ![c].op = op]
  /\ UNCHANGED <<file, index, draftVars, watchVars>>

\* Mutant: a failed draft forgets its `finally`.
CallEndsKeepingSlot(c) ==
  /\ call' = [call EXCEPT ![c] = NoCall("done")]
  /\ drafting' = IF call[c].op \in DraftOps \cup {"failed"}
                 THEN drafting \ {call[c].order} ELSE drafting
  /\ UNCHANGED <<free, queue>>

\* The call is over.  A draft's two `finally` blocks give the model slot back,
\* to the first in the queue if there is one, and forget the draft.
CallEnds(c) ==
  LET waiter == Head(queue)
      ended  == [call EXCEPT ![c] = NoCall("done")] IN
  /\ drafting' = IF call[c].op \in DraftOps \cup {"failed"}
                 THEN drafting \ {call[c].order} ELSE drafting
  /\ IF call[c].slot /\ queue # << >>
     THEN /\ queue' = Tail(queue)
          /\ call' = [ended EXCEPT ![waiter].pc = "model",
                                   ![waiter].slot = TRUE]
          /\ UNCHANGED free
     ELSE /\ free' = IF call[c].slot THEN free + 1 ELSE free
          /\ call' = ended
          /\ UNCHANGED queue

-----------------------------------------------------------------------------
(* persist(): the file, then the index.  A rename wakes the watcher.        *)

\* Mutant: changes made by the MCP process go unnoticed.
RenamesUnseen(c) ==
  /\ call[c].pc = "write"
  /\ file' = [file EXCEPT ![call[c].order] =
                serializeWorkOrder(Result(call[c].op, call[c].base))]
  /\ changed' = (changed \/ c \in BenchCalls)
  /\ call' = [call EXCEPT ![c].pc = "renamed"]
  /\ UNCHANGED <<index, draftVars, loading>>

Renames(c) ==
  /\ call[c].pc = "write"
  /\ file' = [file EXCEPT ![call[c].order] =
                serializeWorkOrder(Result(call[c].op, call[c].base))]
  /\ changed' = TRUE
  /\ call' = [call EXCEPT ![c].pc = "renamed"]
  /\ UNCHANGED <<index, draftVars, loading>>

Saved(c) ==
  /\ call[c].pc = "renamed"
  /\ index' = [index EXCEPT ![Proc(c)][call[c].order] =
                 Result(call[c].op, call[c].base)]
  /\ CallEnds(c)
  /\ UNCHANGED <<file, watchVars>>

\* A write that fails inside a draft is logged as a failed draft, which is a
\* write again; any other call is over.
WriteFails(c) ==
  /\ WritesMayFail
  /\ call[c].pc = "write"
  /\ IF call[c].op \in DraftOps
     THEN call' = [call EXCEPT ![c].op = "failed"] /\ UNCHANGED draftVars
     ELSE CallEnds(c)
  /\ UNCHANGED <<file, index, watchVars>>

-----------------------------------------------------------------------------
(* JigWatcher: fs.watch or the poll notices every rename; onChange runs     *)
(* once things have been quiet for the 200 ms debounce, which outlasts the  *)
(* turn between a rename of the bench's own and the update of its index.    *)

WatcherFires(l) ==
  /\ changed
  /\ loading[l] = None
  /\ \A c \in BenchCalls : call[c].pc # "renamed"
  /\ changed' = FALSE
  /\ loading' = [loading EXCEPT ![l] = [o \in Orders |-> None]]
  /\ UNCHANGED <<file, index, call, draftVars>>

\* reload() reads the files one after the other ...
ReadsFile(l, o) ==
  /\ loading[l] # None
  /\ loading[l][o] = None
  /\ loading' = [loading EXCEPT ![l][o] = parseWorkOrder(file[o])]
  /\ UNCHANGED <<file, index, call, draftVars, changed>>

\* ... and replaces the whole index.
Reloaded(l) ==
  /\ loading[l] # None
  /\ \A o \in Orders : loading[l][o] # None
  /\ index' = [index EXCEPT !["bench"] = loading[l]]
  /\ loading' = [loading EXCEPT ![l] = None]
  /\ UNCHANGED <<file, call, draftVars, changed>>

\* JigStore.init().
Loaded == [o \in Orders |-> parseWorkOrder(file[o])]

Dropped(cs) ==
  [c \in Calls |-> IF c \in cs /\ call[c].pc # "unused" THEN NoCall("done")
                                                        ELSE call[c]]

McpRestarts ==
  /\ MayRestart
  /\ index' = [index EXCEPT !["mcp"] = Loaded]
  /\ call' = Dropped(McpCalls)
  /\ UNCHANGED <<file, draftVars, watchVars>>

BenchRestarts ==
  /\ MayRestart
  /\ index' = [index EXCEPT !["bench"] = Loaded]
  /\ call' = Dropped(BenchCalls)
  /\ drafting' = {}
  /\ free' = MaxModelCalls
  /\ queue' = << >>
  /\ changed' = FALSE
  /\ loading' = [l \in Reloads |-> None]
  /\ UNCHANGED file

-----------------------------------------------------------------------------
BenchRequest(c, o) ==
  Edit(c, o) \/ Release(c, o) \/ Scrap(c, o) \/ Restore(c, o) \/ Draft(c, o)

Resumes(c) ==
  \/ \E op \in DraftOps : SelectOther(c, op)
  \/ Acquire(c)
  \/ \E op \in Ops : Answers(c, op)
  \/ Renames(c)
  \/ Saved(c)

OrdersNext ==
  \/ \E o \in Orders :
       \/ \E c \in BenchCalls : BenchRequest(c, o)
       \/ \E c \in McpCalls : DraftByAgent(c, o)
       \/ \E c \in Calls : Claim(c, o) \/ Report(c, o)
  \/ \E c \in Calls : Resumes(c) \/ WriteFails(c)
  \/ \E l \in Reloads : \/ WatcherFires(l)
                        \/ \E o \in Orders : ReadsFile(l, o)
                        \/ Reloaded(l)
  \/ McpRestarts
  \/ BenchRestarts

\* Every await ends: probes, the model and the polish pass have timeouts, and
\* the file system answers.
OrdersFairness == \A c \in Calls : WF_orderVars(Resumes(c))

OrdersSpec     == OrdersInit /\ [][OrdersNext]_orderVars
FairOrdersSpec == OrdersSpec /\ OrdersFairness
-----------------------------------------------------------------------------
\* Type invariant.
OrdersTypeOK ==
  /\ file \in [Orders -> Files]
  /\ index \in [Procs -> [Orders -> Records]]
  /\ call \in [Calls -> [pc : PCs, op : Ops \cup {None},
                         order : Orders \cup {None},
                         base : Records \cup {None}, slot : BOOLEAN]]
  /\ drafting \subseteq Orders
  /\ free \in 0..MaxModelCalls
  /\ queue \in Seq(Calls)
  /\ changed \in BOOLEAN
  /\ loading \in [Reloads -> [Orders -> Records \cup {None}] \cup {None}]

\* The calls that are drafts and have not run their `finally` blocks.
DraftsUnderWay ==
  {c \in BenchCalls : /\ call[c].pc \notin {"unused", "done"}
                      /\ call[c].op \in DraftOps \cup {"failed", None}}

\* "a second draftOrder call for an order that already has one running is a
\* no-op": an order is never drafted twice at once, and is free to be drafted
\* again once its draft is over.
OneDraftPerOrder ==
  /\ drafting = {call[c].order : c \in DraftsUnderWay}
  /\ \A c, d \in DraftsUnderWay : call[c].order = call[d].order => c = d

\* The semaphore: no more model calls at a time than there are slots, none is
\* ever lost, and nobody waits while one is free.
ModelCallsBounded ==
  /\ Cardinality({c \in Calls : call[c].slot}) <= MaxModelCalls
  /\ free = MaxModelCalls - Cardinality({c \in Calls : call[c].slot})
  /\ queue # << >> => free = 0
  /\ \A c \in Calls : call[c].pc = "model" => call[c].slot

\* Drafting stays within its bounds, through failing models, failing writes and restarts: one
\* draft per order and no more model calls than slots.
DraftingBounded == OneDraftPerOrder /\ ModelCallsBounded

\* "order.shop is guaranteed set by the time an order reaches in-the-shop":
\* on every copy of an order, stale ones included, and still when it comes
\* back from the scrap bin.
ShopFaceFilled ==
  LET Good(rec) == Filled(rec.rung, rec.shop) /\ Filled(rec.prev, rec.shop) IN
  /\ \A o \in Orders : /\ Filled(file[o].rung, file[o].shop)
                       /\ \A proc \in Procs : Good(index[proc][o])
  /\ \A c \in Calls : call[c].base # None => Good(call[c].base)

\* "a claim or report made over MCP appears on the bench": when the watcher
\* has nothing left to do, the bench shows what the files say, even if its own
\* writes raced each other or the agent's.
BenchCatchesUp ==
  (~changed /\ (\A l \in Reloads : loading[l] = None)
            /\ \A c \in Calls : call[c].pc # "renamed")
    => \A o \in Orders : serializeWorkOrder(index["bench"][o]) = file[o]

\* A wedged model or a refused write never blocks the drafts behind it: once
\* no more marks are made, every draft ends.
DraftsEnd == drafting # {} ~> drafting = {}
=============================================================================
