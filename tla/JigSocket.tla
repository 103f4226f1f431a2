------------------------------ MODULE JigSocket ------------------------------
(***************************************************************************)
(* bench/src/hooks/useJigState.ts, logbook/useLogbook.ts and the effects   *)
(* of App.tsx that feed the logbook: the tab's one WebSocket, its          *)
(* reconnects with backoff, and what becomes of the frames it hears.       *)
(*                                                                         *)
(* main.tsx renders in StrictMode, whose development build runs every      *)
(* mount effect, its cleanup, and the effect again: an effect that is      *)
(* cancelled may leave a socket behind whose close event is still to come. *)
(* Two frames may arrive before React renders: only the last one is seen.  *)
(***************************************************************************)
EXTENDS Integers, Sequences

CONSTANTS
  Sockets,      \* bound: sockets that exist at a time
  MaxEffects,   \* bound: times the effect of useJigState is run
  MaxFrames,    \* bound: frames the server sends
  LogbookLimit, \* LOGBOOK_LIMIT
  TailLimit,    \* the 200 lines of the app's own log
  NoSocket

ASSUME SocketAssumption ==
  /\ {MaxEffects, LogbookLimit, TailLimit} \subseteq Nat \ {0}
  /\ MaxFrames \in Nat /\ NoSocket \notin Sockets

VARIABLES
  hostUp,       \* the server accepts connections
  effects,      \* effects run so far; all but the last are cancelled
  sockets,      \* [Sockets -> [of, is]], `of` the effect that made it
  socketVar,    \* the last effect's `socket`
  retries,      \* timers of each effect that will call its connect
  retryDelay,   \* the last effect's retryDelay, in units of INITIAL_RETRY_MS
  connected,    \* the hook's `connected`
  target,       \* the target status of `state`, or "unheard"
  lastBuild,    \* lastBuildEvent: the number of the frame, or 0
  lastLine,     \* lastTargetLog.seq, or 0
  framesSent,
  noted,        \* the refs: last frame, line, tail line and target word noted
  logbook,      \* entries
  tail          \* targetLog

socketVars == <<hostUp, effects, sockets, socketVar, retries, retryDelay, connected>>
frameVars == <<target, lastBuild, lastLine, framesSent>>
noteVars == <<noted, logbook, tail>>
jigSocketVars == <<socketVars, frameVars, noteVars>>

TargetWords == {"none", "starting", "up", "down"}
Delays == {1, 2, 4, 8, 16, 20}
NotMade == [of |-> 0, is |-> "closed"]

\* A row: the frame or line it is of, or the word of the app's status.
Rows == [of : {"Claude", "app"} \cup TargetWords, n : 0..MaxFrames]

\* The values the tab's socket state and logbook range over.
JigSocketTypeOK ==
  /\ hostUp \in BOOLEAN /\ connected \in BOOLEAN
  /\ effects \in 1..MaxEffects
  /\ sockets \in [Sockets -> [of : 0..MaxEffects, is : {"connecting", "open", "closing", "closed"}]]
  /\ socketVar \in Sockets \cup {NoSocket}
  /\ retries \in [1..MaxEffects -> Nat]
  /\ retryDelay \in Delays
  /\ target \in TargetWords \cup {"unheard"}
  /\ {lastBuild, lastLine, framesSent} \subseteq 0..MaxFrames
  /\ noted \in [frame : 0..MaxFrames, line : 0..MaxFrames, tail : 0..MaxFrames, word : TargetWords \cup {"unheard"}]
  /\ logbook \in Seq(Rows) /\ Len(logbook) <= LogbookLimit
  /\ tail \in Seq(1..MaxFrames) /\ Len(tail) <= TailLimit

JigSocketInit ==
  /\ hostUp \in BOOLEAN
  /\ effects = 1
  /\ \E s \in Sockets :
       /\ sockets = [x \in Sockets |-> IF x = s THEN [of |-> 1, is |-> "connecting"] ELSE NotMade]
       /\ socketVar = s
  /\ retries = [e \in 1..MaxEffects |-> 0]
  /\ retryDelay = 1 /\ connected = FALSE
  /\ target = "unheard" /\ lastBuild = 0 /\ lastLine = 0 /\ framesSent = 0
  /\ noted = [frame |-> 0, line |-> 0, tail |-> 0, word |-> "unheard"]
  /\ logbook = <<>> /\ tail = <<>>

----------------------------------------------------------------------------
(* useJigState *)

\* connect() of effect e on the sockets ss.
Connected(ss, e) ==
  \E s \in Sockets : ss[s].is = "closed"
    /\ sockets' = [ss EXCEPT ![s] = [of |-> e, is |-> "connecting"]]
    /\ socketVar' = s

\* WebSocket.close(): from here on no message is delivered.
Closing(ss, s) ==
  IF s # NoSocket /\ ss[s].is \in {"connecting", "open"} THEN [ss EXCEPT ![s].is = "closing"] ELSE ss

OnOpen(s) ==
  /\ hostUp /\ sockets[s].is = "connecting"
  /\ sockets' = [sockets EXCEPT ![s].is = "open"]
  /\ connected' = TRUE /\ retryDelay' = 1
  /\ UNCHANGED <<hostUp, effects, socketVar, retries, frameVars, noteVars>>

\* A connection that cannot be made, or breaks: onerror closes `socket`.
OnError(s) ==
  /\ \/ sockets[s].is = "open"
     \/ sockets[s].is = "connecting" /\ ~hostUp
  /\ sockets' = Closing(Closing(sockets, s), IF sockets[s].of = effects THEN socketVar ELSE NoSocket)
  /\ UNCHANGED <<hostUp, effects, socketVar, retries, retryDelay, connected, frameVars, noteVars>>

\* Mutant: the backoff gives up at its limit.
GivesUp(e) == e = effects /\ retryDelay < 20

\* `if (cancelled) return`
Retries(e) == e = effects

\* Mutant: no limit to the backoff.
DoublesOn(d) == 2 * d

\* The backoff, in half seconds, up to ten.
Doubled(d) == IF 2 * d > 20 THEN 20 ELSE 2 * d

OnClose(s) ==
  /\ sockets[s].is = "closing"
  /\ sockets' = [sockets EXCEPT ![s] = NotMade]
  /\ connected' = FALSE
  /\ LET e == sockets[s].of IN
       /\ retries' = IF Retries(e) THEN [retries EXCEPT ![e] = @ + 1] ELSE retries
       /\ retryDelay' = IF Retries(e) THEN Doubled(retryDelay) ELSE retryDelay
  /\ UNCHANGED <<hostUp, effects, socketVar, frameVars, noteVars>>

RetryFires(e) ==
  /\ retries[e] > 0
  /\ retries' = [retries EXCEPT ![e] = @ - 1]
  /\ IF Retries(e) THEN Connected(sockets, e) ELSE UNCHANGED <<sockets, socketVar>>
  /\ UNCHANGED <<hostUp, effects, retryDelay, connected, frameVars, noteVars>>

\* Mutant: the cleanup forgets the timer.
LeavesTheTimer(e) == retries[e]

\* clearTimeout(retryTimer): the last timer set, the only one the effect can name.
TimersLeft(e) == IF retries[e] = 0 THEN 0 ELSE retries[e] - 1

\* StrictMode: the cleanup of the last effect, and the effect again.
RunAgain ==
  /\ effects < MaxEffects
  /\ effects' = effects + 1
  /\ retries' = [retries EXCEPT ![effects] = TimersLeft(effects)]
  /\ Connected(Closing(sockets, socketVar), effects + 1)
  /\ retryDelay' = 1
  /\ UNCHANGED <<hostUp, connected, frameVars, noteVars>>

\* The server stops, which ends every connection, or starts again.
HostTurns ==
  /\ hostUp' = ~hostUp
  /\ sockets' = [s \in Sockets |-> IF hostUp /\ sockets[s].is = "open"
                                   THEN [sockets[s] EXCEPT !.is = "closing"] ELSE sockets[s]]
  /\ UNCHANGED <<effects, socketVar, retries, retryDelay, connected, frameVars, noteVars>>

\* onmessage: a state, a build frame, a line of the app, or something malformed.
OnMessage(s) ==
  /\ sockets[s].is = "open" /\ framesSent < MaxFrames
  /\ framesSent' = framesSent + 1
  /\ \/ /\ \E w \in TargetWords : target' = w
        /\ UNCHANGED <<lastBuild, lastLine>>
     \/ lastBuild' = framesSent + 1 /\ UNCHANGED <<target, lastLine>>
     \/ lastLine' = lastLine + 1 /\ UNCHANGED <<target, lastBuild>>
     \/ UNCHANGED <<target, lastBuild, lastLine>>
  /\ UNCHANGED <<socketVars, noteVars>>

----------------------------------------------------------------------------
(* The effects of a render, in the order App declares them. *)

Newest(seq, n) == IF Len(seq) <= n THEN seq ELSE SubSeq(seq, Len(seq) - n + 1, Len(seq))

\* Mutant: the frame is noted on every render.
NotNull(frame, seen) == frame # 0

\* A frame that is there and is not the one noted last.
IsNew(frame, seen) == frame # 0 /\ frame # seen

\* The word of the app's status is an event, except the resting state at first sight.
WordChanged == target # "unheard" /\ noted.word # target
WordLogged == WordChanged /\ ~(noted.word = "unheard" /\ target = "none")

Row(condition, of, n) == IF condition THEN <<[of |-> of, n |-> n]>> ELSE <<>>

RenderFrames ==
  /\ \/ noted.frame # lastBuild
     \/ noted.line # lastLine
     \/ WordChanged
  /\ logbook' = Newest(logbook \o Row(IsNew(lastBuild, noted.frame), "Claude", lastBuild)
                             \o Row(IsNew(lastLine, noted.line), "app", lastLine)
                             \o Row(WordLogged, target, 0), LogbookLimit)
  /\ tail' = IF WordLogged /\ target \in {"none", "down"} THEN <<>>
             ELSE IF IsNew(lastLine, noted.tail) THEN Newest(Append(tail, lastLine), TailLimit)
             ELSE tail
  /\ noted' = [frame |-> lastBuild, line |-> lastLine, tail |-> lastLine, word |-> target]
  /\ UNCHANGED <<socketVars, frameVars>>

JigSocketNext ==
  \/ \E s \in Sockets : OnOpen(s) \/ OnError(s) \/ OnClose(s) \/ OnMessage(s)
  \/ \E e \in 1..MaxEffects : RetryFires(e)
  \/ RunAgain
  \/ HostTurns
  \/ RenderFrames

----------------------------------------------------------------------------
(* Properties *)

\* The tab listens with one ear: at most one socket is connecting or open, only
\* the mounted effect has it or a timer that will make one, and never both - or
\* every frame would be heard twice and every drop would double the sockets
\* (useJigState.ts 126, the retry timer against the cleanup).
OneEar ==
  LET Live == {s \in Sockets : sockets[s].is \in {"connecting", "open"}}
  IN /\ \A s \in Live : sockets[s].of = effects /\ s = socketVar
     /\ \A e \in 1..MaxEffects : retries[e] > 0 => e = effects /\ retries[e] = 1 /\ Live = {}

\* The rows of Claude, and those of the app, in the order heard.
Rising(rows) ==
  \A i, j \in DOMAIN rows :
    i < j /\ rows[i].of = rows[j].of /\ rows[i].of \in {"Claude", "app"} => rows[i].n < rows[j].n
AppLines(rows) == {rows[i].n : i \in {k \in DOMAIN rows : rows[k].of = "app"}}
\* A set of numbers is the end of another.
EndOf(X, Y) == X \subseteq Y /\ \A x \in X, y \in Y \ X : y < x

\* Each frame that a render saw is in the logbook once, in the order heard, and
\* the Setup drawer's tail is the end of the logbook's own app lines, however the
\* target's coming and going cut it (useLogbook.ts 76-89, App.tsx 146-173).
NotedOnce ==
  /\ Rising(logbook)
  /\ \A i, j \in DOMAIN tail : i < j => tail[i] < tail[j]
  /\ \/ EndOf({tail[i] : i \in DOMAIN tail}, AppLines(logbook))
     \/ EndOf(AppLines(logbook), {tail[i] : i \in DOMAIN tail})

\* "reconnecting with backoff whenever the connection drops - the server may
\* restart while the bench stays open" (useJigState.ts 88-89): over and over, the
\* server is down or the tab has an open socket.
TabReconnects == []<>(~hostUp \/ (socketVar # NoSocket /\ sockets[socketVar].is = "open"))

=============================================================================
