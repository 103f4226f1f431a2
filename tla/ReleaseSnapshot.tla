--------------------------- MODULE ReleaseSnapshot ---------------------------
(***************************************************************************)
(* The picture of the app an order was released on: bench                  *)
(* trialfit/useAutoSnapshot.ts asks the loupe, plate/loupe.js replies with *)
(* a copy of its page, trialfit/route.ts saves it.  Renders, replies and   *)
(* saves overlap; the page of the app shares its window with the loupe and *)
(* may reply by itself.  The app changes while the shop works on it.  This *)
(* is one load of the bench page.                                          *)
(***************************************************************************)
EXTENDS Naturals, FiniteSets

CONSTANTS RsOrders,  \* work orders
          NoOrder    \* nobody listens
ASSUME NobodyListens == NoOrder \notin RsOrders

VARIABLES rsRung,     \* the rung of each order
          rsApp,      \* what the app shows: "before" or "after" some of the shop's work
          rsPlate,    \* has the plate an iframe to ask?
          rsCaptured, \* captured: the orders asked for
          rsEar,      \* whose listener is there
          rsAsks,     \* the orders whose jig:snapshot is on its way, and how many ever left
          rsReplies,  \* jig:snapshotted messages on their way, in no order
          rsSaving,   \* POSTs on their way
          rsSaved     \* .jig/cache/snapshots
snapshotVars == <<rsRung, rsApp, rsPlate, rsCaptured, rsEar, rsAsks, rsReplies, rsSaving, rsSaved>>

Rungs0 == <<"drafted", "released", "in-the-shop", "trial-fit">>
SNAPSHOTTABLE_STATES == {"released", "in-the-shop", "trial-fit"}

\* What the two sanitizers look for (scripts, frames, refreshes, handlers, script URLs), as a
\* regular expression finds it and in the spellings it misses: an unclosed script, a handler
\* with no space before it, an unquoted URL.
Active == {"plain", "odd"}

\* A reply: whose question it answers, NoOrder when the app's page posts it; what it shows.
Html == [to : RsOrders \cup {NoOrder}, of : {"before", "after"}, holds : SUBSET Active]
NoHtml == [to |-> NoOrder, of |-> "none", holds |-> {}]

SnapshotTypeOK ==
  /\ rsRung \in [RsOrders -> {Rungs0[n] : n \in 1 .. 4}]
  /\ rsApp \in {"before", "after"} /\ rsPlate \in BOOLEAN
  /\ rsCaptured \subseteq RsOrders /\ rsEar \in RsOrders \cup {NoOrder}
  /\ rsAsks \in [open : SUBSET RsOrders, left : [RsOrders -> Nat]]
  /\ rsReplies \subseteq Html
  /\ rsSaving \subseteq RsOrders \X Html
  /\ rsSaved \in [RsOrders -> Html \cup {NoHtml}]

SnapshotInit ==
  /\ rsRung = [o \in RsOrders |-> "drafted"] /\ rsApp = "before" /\ rsPlate \in BOOLEAN
  /\ rsCaptured = {} /\ rsEar = NoOrder
  /\ rsAsks = [open |-> {}, left |-> [o \in RsOrders |-> 0]]
  /\ rsReplies = {} /\ rsSaving = {} /\ rsSaved = [o \in RsOrders |-> NoHtml]

----------------------------------------------------------------------------
(* useAutoSnapshot *)

\* Mutant: an order counts as asked for when its reply has come.
ClaimLater(o) == rsCaptured

Claimed(o) == rsCaptured \cup {o}

\* The effect: the listener of the run before goes; the first order past its release that was
\* not asked for yet is claimed, listened for and asked for.  Orders are found in their list's
\* order, here in any.
Effect(rung, plate) ==
  LET due == {o \in RsOrders : rung[o] \in SNAPSHOTTABLE_STATES} \ rsCaptured IN
  \/ (~plate \/ due = {}) /\ rsEar' = NoOrder /\ UNCHANGED <<rsCaptured, rsAsks>>
  \/ \E o \in due :
       /\ plate /\ rsEar' = o /\ rsCaptured' = Claimed(o)
       /\ rsAsks' = [rsAsks EXCEPT !.open = @ \cup {o}, !.left[o] = @ + 1]

\* An order climbs; the page hears of it.
OrderMoves(o) ==
  \E n \in 1 .. 3 :
    /\ rsRung[o] = Rungs0[n] /\ rsRung' = [rsRung EXCEPT ![o] = Rungs0[n + 1]]
    /\ Effect(rsRung', rsPlate)
    /\ UNCHANGED <<rsApp, rsPlate, rsReplies, rsSaving, rsSaved>>

\* The shop changes the app under the page that shows it.
ShopWorks ==
  /\ rsApp = "before" /\ (\E o \in RsOrders : rsRung[o] = "in-the-shop") /\ rsApp' = "after"
  /\ UNCHANGED <<rsRung, rsPlate, rsCaptured, rsEar, rsAsks, rsReplies, rsSaving, rsSaved>>

\* Any other frame from the server re-renders with a new list.
Rerendered ==
  /\ Effect(rsRung, rsPlate) /\ UNCHANGED <<rsRung, rsApp, rsPlate, rsReplies, rsSaving, rsSaved>>

PlateThere ==
  /\ ~rsPlate /\ rsPlate' = TRUE /\ Effect(rsRung, TRUE)
  /\ UNCHANGED <<rsRung, rsApp, rsReplies, rsSaving, rsSaved>>

\* onMessage: the first reply counts as this order's, whoever asked for it, and the listener goes.
OnSnapshotted(html) ==
  /\ html \in rsReplies /\ rsReplies' = rsReplies \ {html}
  /\ rsEar' = NoOrder
  /\ rsSaving' = IF rsEar = NoOrder THEN rsSaving ELSE rsSaving \cup {<<rsEar, html>>}
  /\ UNCHANGED <<rsRung, rsApp, rsPlate, rsCaptured, rsAsks, rsSaved>>

----------------------------------------------------------------------------
(* loupe.js and the server *)

\* captureSnapshot: a copy of the page as it is now; the walk over its elements misses no spelling.
sanitizeSnapshotClone(html) == [html EXCEPT !.holds = {}]

captureSnapshot(o) ==
  /\ o \in rsAsks.open /\ rsAsks' = [rsAsks EXCEPT !.open = @ \ {o}]
  /\ \E holds \in SUBSET Active :
       rsReplies' = rsReplies \cup {sanitizeSnapshotClone([to |-> o, of |-> rsApp, holds |-> holds])}
  /\ UNCHANGED <<rsRung, rsApp, rsPlate, rsCaptured, rsEar, rsSaving, rsSaved>>

\* The plate navigated: the question is never answered.
AskLost(o) ==
  /\ o \in rsAsks.open /\ rsAsks' = [rsAsks EXCEPT !.open = @ \ {o}]
  /\ UNCHANGED <<rsRung, rsApp, rsPlate, rsCaptured, rsEar, rsReplies, rsSaving, rsSaved>>

\* The app's own page posts such a message, from the plate's origin; once at a time.
AppReplies ==
  /\ rsPlate /\ \A html \in rsReplies : html.to # NoOrder
  /\ \E holds \in SUBSET Active :
       rsReplies' = rsReplies \cup {[to |-> NoOrder, of |-> rsApp, holds |-> holds]}
  /\ UNCHANGED <<rsRung, rsApp, rsPlate, rsCaptured, rsEar, rsAsks, rsSaving, rsSaved>>

\* Mutant: the server relies on what the loupe took out.
TrustTheLoupe(html) == html

\* Regular expressions: what is spelled in another way stays.
sanitizeSnapshotHtml(html) == [html EXCEPT !.holds = @ \ {"plain"}]

\* SnapshotStore.save: one file per order, replaced whole.
Saved(o, html) == [rsSaved EXCEPT ![o] = html]

SaveSnapshot(o, html) ==
  /\ <<o, html>> \in rsSaving /\ rsSaving' = rsSaving \ {<<o, html>>}
  /\ rsSaved' = Saved(o, sanitizeSnapshotHtml(html))
  /\ UNCHANGED <<rsRung, rsApp, rsPlate, rsCaptured, rsEar, rsAsks, rsReplies>>

SnapshotNext ==
  \/ \E o \in RsOrders : OrderMoves(o)
  \/ \E o \in RsOrders : captureSnapshot(o) \/ AskLost(o)
  \/ ShopWorks \/ Rerendered \/ PlateThere \/ AppReplies
  \/ \E html \in rsReplies : OnSnapshotted(html)
  \/ \E save \in rsSaving : SaveSnapshot(save[1], save[2])

----------------------------------------------------------------------------
(* Properties *)

\* An order's picture is asked for once in the life of a page, however often it renders while
\* the reply is on its way and whichever reply comes first, and what is saved for it is never
\* replaced (useAutoSnapshot.ts "exactly one jig:snapshot per order id, ever").  When it was
\* taken nothing promises: a slow reply shows the app after the shop's work.
AskedOnce ==
  \A o \in RsOrders :
    /\ rsAsks.left[o] <= 1
    /\ Cardinality({html \in Html : <<o, html>> \in rsSaving}) + (IF rsSaved[o] = NoHtml THEN 0 ELSE 1) <= 1

\* A saved picture holds nothing that acts as the sanitizers expect it spelled, and in another
\* spelling only if the app's own page wrote the reply that was taken for the loupe's: what the
\* server's expressions miss, the loupe's walk does not (trialfit/route.ts "Sanitize AGAIN").
\* What is left there is for the Content-Security-Policy it is served with.
SnapshotCleaned ==
  \A o \in RsOrders :
    /\ "plain" \notin rsSaved[o].holds
    /\ rsSaved[o].holds # {} => rsSaved[o].to = NoOrder
=============================================================================
