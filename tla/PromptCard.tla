------------------------------ MODULE PromptCard -----------------------------
(***************************************************************************)
(* The bench's prompt card: App.tsx decides which target the card is on    *)
(* and which prompt it shows, PromptCard.tsx offers the acts, usePrompts.ts *)
(* keeps the list and talks to the server, useReadyHold.ts is the held     *)
(* Ready.  Every call is a fetch: it is sent, served some time later, and  *)
(* its answer lands later still, in any order.  A create picks its number  *)
(* before its file is written (prompts/store.ts), and another folder may   *)
(* be clamped at any moment: its prompts have the same numbers.            *)
(***************************************************************************)
EXTENDS Naturals, Sequences, SequencesExt, FiniteSetsExt

CONSTANTS
  Named,      \* components the survey has a name for
  Nameless,   \* a pick of an element the survey does not know
  NoCard,     \* cardTarget's and `find`'s null
  Benches,    \* the folders that are clamped
  MaxTyped,   \* bound: how often the human changes the words
  MaxFetches, \* bound: calls after which the human starts nothing new
  MaxFlying,  \* bound: calls in flight with which the human starts nothing new
  Oath        \* --t-oath, in ticks

CardTargets == Named \cup {Nameless, "sketch"}
ASSUME CardAssumption ==
  /\ NoCard \notin CardTargets \cup Benches /\ Nameless \notin Named /\ Benches # {}
  /\ Oath \in Nat \ {0} /\ MaxTyped \in Nat /\ MaxFetches \in Nat /\ MaxFlying \in Nat

VARIABLES
  card,       \* cardTarget, cardOpen and localText (0 is no words)
  typedFor,   \* the target each change of the words was typed for, and the bench
              \* whose list named the prompt it was sent to (history)
  list,       \* usePrompts' prompts, each with the bench it is `of` (history)
  files,      \* the prompts of each bench, in the order they were written
  bench,      \* the bench that is clamped
  shared,     \* the numbers taken by creates that overlapped (history)
  fetches,    \* the calls in flight
  asked,      \* how many calls were made
  hold,       \* holdingRef, pointerRef and the ticks the hold has lasted
  timers,     \* armed timers: the ticks each has left
  settled     \* settledBuildRef

pageVars == <<card, typedFor>>
benchVars == <<bench, shared>>
netVars  == <<list, files, fetches, asked, settled, benchVars>>
holdVars == <<hold, timers>>
cardVars == <<card, typedFor, list, files, fetches, asked, hold, timers, settled, benchVars>>

\* Word n is the n-th change of the text; Polished(n) is what the model makes
\* of it.
Polished(w) == w + MaxTyped
Origin(w)   == IF w > MaxTyped THEN w - MaxTyped ELSE w

NoHold  == [on |-> FALSE, captured |-> FALSE, held |-> 0]
CardCall(op, id, words, target) ==
  [op |-> op, id |-> id, words |-> words, target |-> target, at |-> NoCard, answer |-> <<>>]

\* The list is asked for as soon as there is a bench.
CardInit ==
  /\ bench = (CHOOSE b \in Benches : TRUE) /\ shared = {}
  /\ card = [target |-> NoCard, open |-> FALSE, text |-> 0]
  /\ typedFor = <<>> /\ list = <<>> /\ files = [b \in Benches |-> <<>>]
  /\ fetches = <<CardCall("list", 0, 0, NoCard)>> /\ asked = 0
  /\ hold = NoHold /\ timers = {} /\ settled = 0

-----------------------------------------------------------------------------
(* The prompt on the card. *)

\* Mutant: one open card, one draft.
MatchAny(a, b) == a # NoCard /\ b # NoCard

\* A pick without a component matches nothing, not even itself.
targetsMatch(a, b) == a = b /\ a # Nameless

Shown == {i \in DOMAIN list : list[i].state # "scrapped"
                                /\ targetsMatch(list[i].target, card.target)}
matchedPrompt == IF card.target = NoCard \/ Shown = {} THEN NoCard
                 ELSE list[Min(Shown)]
cardText  == IF matchedPrompt = NoCard THEN card.text ELSE matchedPrompt.words
cardState == IF matchedPrompt # NoCard THEN matchedPrompt.state
             ELSE IF card.text # 0 THEN "draft" ELSE "none"
Locked    == cardState \in {"building", "built"}

Fetch(op, id, words, target) ==
  /\ asked' = asked + 1
  /\ fetches' = Append(fetches, CardCall(op, id, words, target))

CallsLeft == asked < MaxFetches /\ Len(fetches) < MaxFlying

-----------------------------------------------------------------------------
(* App.tsx: the card and the words. *)

\* A pick in Point, Point taken up again with a pick there, or the sheet's
\* "build this screen".
OpenCard(t) ==
  /\ card' = [target |-> t, open |-> TRUE, text |-> 0]
  /\ UNCHANGED <<typedFor, netVars, holdVars>>

CloseCard ==
  /\ card.open /\ card' = [card EXCEPT !.open = FALSE]
  /\ UNCHANGED <<typedFor, netVars, holdVars>>

\* The text area is read-only while Claude builds and afterwards.  Words that
\* no prompt has yet are created, once per change.
handleCardTextChange ==
  /\ card.open /\ ~Locked /\ Len(typedFor) < MaxTyped /\ CallsLeft
  /\ LET w == Len(typedFor) + 1
         typed(of) == Append(typedFor, [target |-> card.target, of |-> of]) IN
     IF matchedPrompt # NoCard
     THEN /\ Fetch("edit", matchedPrompt.id, w, NoCard) /\ UNCHANGED card
          /\ typedFor' = typed(matchedPrompt.of)
     ELSE /\ Fetch("create", 0, w, card.target) /\ card' = [card EXCEPT !.text = w]
          /\ typedFor' = typed(NoCard)
  /\ UNCHANGED <<list, files, settled, benchVars, holdVars>>

\* "Refine" puts the words of a built prompt on the card, whatever it is on;
\* they are sent with the next change only.
onRefine(p) ==
  /\ p.state = "built" /\ card' = [card EXCEPT !.text = p.words]
  /\ UNCHANGED <<typedFor, netVars, holdVars>>

\* The acts of the card and of the Prompts pane, each on a prompt of the list;
\* the pane leaves Build to the card while it is open.
CardAsk(op, p) ==
  /\ \/ op = "polish" /\ p = matchedPrompt /\ card.open /\ ~Locked
     \/ op = "build" /\ p.state = "ready" /\ (card.open => p = matchedPrompt)
     \/ op = "scrap" /\ p.state \in {"draft", "ready"}
     \/ op = "restore" /\ p.state = "scrapped"
  /\ CallsLeft
  /\ Fetch(op, p.id, 0, NoCard)
  /\ UNCHANGED <<pageVars, list, files, settled, benchVars, holdVars>>

-----------------------------------------------------------------------------
(* useReadyHold.ts *)

readyEnabled == card.open /\ cardState = "draft" /\ cardText # 0

\* A key press, or a pointer that the button takes or is refused.
StartHold(captured) ==
  /\ readyEnabled /\ ~hold.on /\ CallsLeft
  /\ hold' = [on |-> TRUE, captured |-> captured, held |-> 0]
  /\ timers' = timers \cup {Oath}
  /\ UNCHANGED <<pageVars, netVars>>

\* Mutant: the timer is left to run; the guard in it will stop it.
CancelLeavesTimer(release) ==
  /\ hold.on
  /\ release \/ ~hold.captured
  /\ hold' = NoHold
  /\ UNCHANGED <<timers, pageVars, netVars>>

\* Letting go always cancels; leaving the button, or focus leaving it, only
\* when no pointer was taken.  The timer of this hold is cleared.
CancelHold(release) ==
  /\ hold.on
  /\ release \/ ~hold.captured
  /\ hold' = NoHold
  /\ timers' = timers \ {Oath - hold.held}
  /\ UNCHANGED <<pageVars, netVars>>

HoldTick ==
  /\ timers # {} /\ 0 \notin timers
  /\ hold' = [hold EXCEPT !.held = IF hold.on THEN @ + 1 ELSE @]
  /\ timers' = {t - 1 : t \in timers}
  /\ UNCHANGED <<pageVars, netVars>>

\* The timer acts on the card as it is when it fires, whichever hold armed it;
\* onReadyComplete does nothing when the card shows no prompt.
HoldCompletes ==
  /\ 0 \in timers
  /\ timers' = timers \ {0}
  /\ hold' = NoHold
  /\ IF hold.on /\ matchedPrompt # NoCard
     THEN Fetch("ready", matchedPrompt.id, 0, NoCard)
     ELSE UNCHANGED <<fetches, asked>>
  /\ UNCHANGED <<pageVars, list, files, settled, benchVars>>

-----------------------------------------------------------------------------
(* The server, and usePrompts' reaction to its answers. *)

\* A prompt as the API of bench b tells it.
CardRecord(b, p) ==
  [of |-> b, id |-> p.id, target |-> p.target, words |-> p.words, state |-> p.state,
   from |-> p.from]

\* Mutant: the highest number itself.
HighestId(prompts) ==
  Min({n \in 1 .. Len(prompts) + 1 : \A i \in DOMAIN prompts : prompts[i].id <= n})

\* nextPromptId: the number after the highest.
nextId(prompts) ==
  Min({n \in 1 .. Len(prompts) + 1 : \A i \in DOMAIN prompts : prompts[i].id < n})

\* get() and write(): the first prompt with the number.
Holders(prompts, id) == {i \in DOMAIN prompts : prompts[i].id = id}
Holder(prompts, id)  == Min(Holders(prompts, id))

\* A create that has its number and not yet its file.
Writing(f) == f.op = "create" /\ f.at # NoCard /\ f.answer = <<>>

\* create() takes the number from the prompts in memory, then awaits the file.
CreateBegins(n) ==
  LET b == bench  id == nextId(files[b]) IN
  /\ fetches[n].op = "create" /\ fetches[n].at = NoCard
  /\ fetches' = [fetches EXCEPT ![n].at = b, ![n].id = id]
  /\ shared' = IF \E m \in DOMAIN fetches : /\ Writing(fetches[m])
                                            /\ fetches[m].at = b /\ fetches[m].id = id
               THEN shared \cup {<<b, id>>} ELSE shared
  /\ UNCHANGED <<pageVars, list, files, asked, settled, bench, holdVars>>

\* What the service of the clamped bench does with each call (PromptService has
\* the interleavings of the server itself); polish() writes nothing.
Grants(f, prompts) ==
  LET s == prompts[Holder(prompts, f.id)].state IN
  \/ f.op = "create" /\ f.at # NoCard
  \/ f.op = "list" /\ prompts # <<>>
  \/ /\ f.op \notin {"create", "list"} /\ Holders(prompts, f.id) # {}
     /\ \/ f.op = "polish"
        \/ f.op = "edit" /\ s \in {"draft", "ready"}
        \/ f.op = "ready" /\ s = "draft"
        \/ f.op = "build" /\ s = "ready" /\ \A i \in DOMAIN prompts : prompts[i].state # "building"
        \/ f.op = "scrap" /\ s # "scrapped"
        \/ f.op = "restore" /\ s = "scrapped"

Rewritten(f, p) ==
  IF f.op = "edit" THEN [p EXCEPT !.words = f.words]
  ELSE [p EXCEPT !.from = p.state,
                 !.state = IF f.op = "restore" THEN p.from
                           ELSE [ready |-> "ready", build |-> "building", scrap |-> "scrapped"][f.op]]

Served(f, prompts) ==
  IF f.op \in {"list", "polish"} THEN prompts
  ELSE IF f.op = "create"
  THEN Append(prompts, [id |-> f.id, target |-> f.target, words |-> f.words,
                        state |-> "draft", from |-> "draft"])
  ELSE [prompts EXCEPT ![Holder(prompts, f.id)] = Rewritten(f, @)]

\* The answer of bench b, from its prompts as they are after the call.
Answered(f, b, after) ==
  IF f.op = "list" THEN [i \in DOMAIN after |-> CardRecord(b, after[i])]
  ELSE IF f.op = "create" THEN <<CardRecord(b, after[Len(after)])>>
  ELSE LET r == CardRecord(b, after[Holder(after, f.id)]) IN
       IF f.op = "polish" THEN <<[r EXCEPT !.words = Polished(Origin(@))]>> ELSE <<r>>

\* A create is written where it got its number, any other call is served by the
\* bench that is clamped now.
ServeFetch(n) ==
  LET f == fetches[n]
      b == IF f.op = "create" THEN f.at ELSE bench IN
  /\ f.answer = <<>> /\ (f.op = "create" => f.at # NoCard)
  /\ Grants(f, files[b])
  /\ files' = [files EXCEPT ![b] = Served(f, @)]
  /\ fetches' = [fetches EXCEPT ![n].answer = Answered(f, b, files'[b])]
  /\ UNCHANGED <<pageVars, list, asked, settled, benchVars, holdVars>>

\* A call that was refused, or that could not be made, changes nothing on the
\* page: so does the answer of a list with no prompts.
RefuseFetch(n) ==
  /\ fetches[n].answer = <<>>
  /\ fetches' = RemoveAt(fetches, n)
  /\ UNCHANGED <<pageVars, list, files, asked, settled, benchVars, holdVars>>

\* What a mutator takes over from its answer.
Patched(op, p, answer) ==
  IF op = "polish" THEN [p EXCEPT !.words = answer.words]
  ELSE IF op = "build" THEN [p EXCEPT !.state = "building"]
  ELSE answer
patchLocal(op, id, answer) ==
  [i \in DOMAIN list |-> IF list[i].id = id THEN Patched(op, list[i], answer) ELSE list[i]]

AnswerLands(n) ==
  LET f == fetches[n] IN
  /\ f.answer # <<>>
  /\ fetches' = RemoveAt(fetches, n)
  /\ list' = IF f.op = "list" THEN f.answer
             ELSE IF f.op = "create" THEN Append(list, f.answer[1])
             ELSE patchLocal(f.op, f.id, f.answer[1])
  /\ UNCHANGED <<pageVars, files, asked, settled, benchVars, holdVars>>

\* claude ends.  The status frame of a built prompt of the clamped bench makes
\* the page read the list again, once per prompt; that of a failed build does not.
BuildEnds(b, i, state) ==
  LET id == files[b][i].id IN
  /\ files[b][i].state = "building"
  /\ files' = [files EXCEPT ![b][i].state = state]
  /\ IF state = "built" /\ b = bench /\ settled # id
     THEN settled' = id /\ Fetch("list", 0, 0, NoCard)
     ELSE UNCHANGED <<settled, fetches, asked>>
  /\ UNCHANGED <<pageVars, list, benchVars, holdVars>>

\* Another folder is clamped: the page hears of it and reads the list again, a
\* call that is served some time later.  The card stays as it is, and the old
\* list until then.
Reclamp(b) ==
  /\ b # bench /\ CallsLeft
  /\ bench' = b
  /\ Fetch("list", 0, 0, NoCard)
  /\ UNCHANGED <<pageVars, list, files, settled, shared, holdVars>>

CardNext ==
  \/ \E t \in CardTargets : OpenCard(t)
  \/ CloseCard
  \/ handleCardTextChange
  \/ \E i \in DOMAIN list : onRefine(list[i])
  \/ \E i \in DOMAIN list, op \in {"polish", "build", "scrap", "restore"} :
       CardAsk(op, list[i])
  \/ \E captured \in BOOLEAN : StartHold(captured)
  \/ \E release \in BOOLEAN : CancelHold(release)
  \/ HoldTick
  \/ HoldCompletes
  \/ \E n \in DOMAIN fetches :
       CreateBegins(n) \/ ServeFetch(n) \/ RefuseFetch(n) \/ AnswerLands(n)
  \/ \E b \in Benches : Reclamp(b)
  \/ \E b \in Benches : \E i \in DOMAIN files[b], state \in {"built", "ready"} :
       BuildEnds(b, i, state)

CardSpec == CardInit /\ [][CardNext]_cardVars

-----------------------------------------------------------------------------
CardTypeOK ==
  /\ card.target \in CardTargets \cup {NoCard}
  /\ card.open \in BOOLEAN /\ card.text \in Nat
  /\ typedFor \in Seq([target : CardTargets, of : Benches \cup {NoCard}])
  /\ hold \in [on : BOOLEAN, captured : BOOLEAN, held : 0 .. Oath]
  /\ timers \subseteq 0 .. Oath
  /\ bench \in Benches
  /\ \A i \in DOMAIN list : list[i].of \in Benches

\* Whatever was pressed, let go and pressed again before, Ready completes only
\* after a hold of the whole oath: the timer of an earlier hold never finishes a
\* later one.  What it then makes ready is the prompt the card shows at that
\* moment, which a pick or an answer may have changed since the hold began.
FullOath == HoldCompletes /\ hold.on => hold.held = Oath

\* However creates, edits, refreshes and clamps overtake each other while the
\* human moves the card from target to target: a prompt has words typed for
\* another target only if its number was taken by two creates that overlapped, or
\* if they were sent from a list read from another bench.
WordsStayWithTheirTarget ==
  \A b \in Benches : \A i \in DOMAIN files[b] :
    LET typed == typedFor[files[b][i].words] IN
    \/ <<b, files[b][i].id>> \in shared
    \/ typed.of \notin {b, NoCard}
    \/ typed.target = files[b][i].target

\* Two prompts of one bench have the same number only if the creates overlapped.
NumbersApart ==
  \A b \in Benches : \A i, j \in DOMAIN files[b] :
    i # j /\ files[b][i].id = files[b][j].id => <<b, files[b][i].id>> \in shared

=============================================================================
