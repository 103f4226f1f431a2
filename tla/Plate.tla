------------------------------- MODULE Plate -------------------------------
(***************************************************************************)
(* The plate proxy (plate/proxy.ts, rewrite.ts): the second port, through  *)
(* which the bench's iframe sees the user's app.  A request passes the     *)
(* host gate, the fixture interceptor, the loupe route and the no-target   *)
(* page before it is sent to whatever the target is THEN; the answer has   *)
(* its headers rewritten, and an HTML body decoded and given the loupe.    *)
(* A socket upgraded to the target's own channel is kept in a set, because *)
(* the HTTP server cannot close it.                                        *)
(***************************************************************************)
EXTENDS Naturals, FiniteSets

CONSTANTS PlTargets, PlCalls, NoTarget

VARIABLES plTarget,   \* currentTarget
          plFixture,  \* whether the loaded fixture answers this app's requests
          plCall,     \* requests on their way
          plPolicy,   \* the headers the user's app sends
          plChanges,  \* lastChanges
          plSockets,  \* upgraded sockets the plate still holds open
          plTracked,  \* upgradedSockets
          plProbe,    \* a getStatus() awaiting its probe
          plServer    \* "open", "closing" or "closed"
plateVars == <<plTarget, plFixture, plCall, plPolicy, plChanges, plSockets, plTracked,
               plProbe, plServer>>

NotSent == {"not-sent"}
FrameAncestors == {NotSent, {"none"}, {"self"}, {"bench"}, {"none", "self"}, {"self", "bench"},
                   {"none", "self", "bench"}}
ScriptSrc == {NotSent, {"none"}, {"self"}, {"star"}, {"none", "self"}}
Rules == {"x-frame-options", "frame-ancestors", "script-src"}
\* A target's headers: x-frame-options and the two directives the plate may touch.
PlateHeaders == [xfo : BOOLEAN, fa : FrameAncestors, ss : ScriptSrc]
\* Its body: HTML or not, and how it is encoded.
Kinds == [html : BOOLEAN, encoding : {"identity", "gzip", "broken", "unknown"}]
Answers == [at : {"answered"}, kind : Kinds, got : PlateHeaders, told : SUBSET Rules,
            label : {"identity", "gzip", "broken", "unknown"}, loupe : BOOLEAN]
NoAnswer == [at |-> "none"]

PlateTypeOK ==
  /\ plTarget \in PlTargets \cup {NoTarget}
  /\ plFixture \in BOOLEAN
  /\ plCall \in [PlCalls -> [at : {"none", "refused", "arrived", "fixture", "loupe",
                                   "no-target", "unreachable"}]
                            \cup [at : {"proxied"}, to : PlTargets] \cup Answers]
  /\ plPolicy \in PlateHeaders
  /\ plChanges \subseteq Rules
  /\ plSockets \subseteq PlCalls /\ plTracked \subseteq PlCalls
  /\ plProbe \in PlTargets \cup {NoTarget}
  /\ plServer \in {"open", "closing", "closed"}

PlateInit ==
  /\ plTarget \in PlTargets \cup {NoTarget} /\ plFixture = FALSE
  /\ plCall = [c \in PlCalls |-> NoAnswer]
  /\ plPolicy \in PlateHeaders /\ plChanges = {}
  /\ plSockets = {} /\ plTracked = {} /\ plProbe = NoTarget /\ plServer = "open"

----------------------------------------------------------------------------
(* rewrite.ts *)

\* rewriteCsp: the bench joins frame-ancestors (a lone 'none' gives way to it), and
\* script-src gets 'self' unless it has it or is open to all.
AddBench(fa) == IF fa = NotSent \/ "bench" \in fa THEN fa
                ELSE IF fa = {"none"} THEN {"bench"}
                ELSE fa \cup {"bench"}
AddSelf(ss) == IF ss = NotSent \/ ss \cap {"self", "star"} # {} THEN ss ELSE ss \cup {"self"}

\* Mutant: what is reported is what the app sent.
ReportBlocking(h) ==
  [headers |-> [h EXCEPT !.xfo = FALSE, !.fa = AddBench(@), !.ss = AddSelf(@)],
   changes |-> {r \in Rules : \/ r = "x-frame-options" /\ h.xfo
                              \/ r = "frame-ancestors" /\ h.fa = {"none"}
                              \/ r = "script-src" /\ AddSelf(h.ss) # h.ss}]

\* rewriteHeaders, and what it reports.
rewriteHeaders(h) ==
  [headers |-> [h EXCEPT !.xfo = FALSE, !.fa = AddBench(@), !.ss = AddSelf(@)],
   changes |-> {r \in Rules : \/ r = "x-frame-options" /\ h.xfo
                              \/ r = "frame-ancestors" /\ AddBench(h.fa) # h.fa
                              \/ r = "script-src" /\ AddSelf(h.ss) # h.ss}]

\* decompress: an encoding it does not know comes back as it was, as if decoded; a body
\* that cannot be decoded keeps its label.
Decoded(k) == k.encoding \in {"gzip", "unknown"}
Labelled(k) == IF k.html /\ Decoded(k) THEN "identity" ELSE k.encoding
Injected(k) == k.html /\ Labelled(k) = "identity"

----------------------------------------------------------------------------
(* Requests *)

\* Mutant: the interceptors answer before the gate is asked.
GateAfterInterceptors(c, own) ==
  /\ plServer = "open" /\ plCall[c].at = "none"
  /\ plCall' = [plCall EXCEPT ![c] =
                  [at |-> IF plFixture THEN "fixture" ELSE IF own THEN "arrived" ELSE "refused"]]
  /\ UNCHANGED <<plTarget, plFixture, plPolicy, plChanges, plSockets, plTracked, plProbe, plServer>>

\* What the Host header says is decided before anything else on this port.
Arrive(c, own) ==
  /\ plServer = "open" /\ plCall[c].at = "none"
  /\ plCall' = [plCall EXCEPT ![c] = [at |-> IF own THEN "arrived" ELSE "refused"]]
  /\ UNCHANGED <<plTarget, plFixture, plPolicy, plChanges, plSockets, plTracked, plProbe, plServer>>

\* The rest of handleRequest, after the interceptor was awaited.
Dispatch(c, url) ==
  /\ plCall[c].at = "arrived"
  /\ plCall' = [plCall EXCEPT ![c] =
       IF url = "api" /\ plFixture THEN [at |-> "fixture"]
       ELSE IF url = "loupe" THEN [at |-> "loupe"]
       ELSE IF plTarget = NoTarget THEN [at |-> "no-target"]
       ELSE [at |-> "proxied", to |-> plTarget]]
  /\ UNCHANGED <<plTarget, plFixture, plPolicy, plChanges, plSockets, plTracked, plProbe, plServer>>

\* proxyRes: the body is buffered, the headers rewritten, the changes remembered.
ProxyAnswers(c, k) ==
  /\ plCall[c].at = "proxied"
  /\ LET r == rewriteHeaders(plPolicy) IN
     /\ plCall' = [plCall EXCEPT ![c] = [at |-> "answered", kind |-> k, got |-> r.headers,
                     told |-> r.changes, label |-> Labelled(k), loupe |-> Injected(k)]]
     /\ plChanges' = r.changes
  /\ UNCHANGED <<plTarget, plFixture, plPolicy, plSockets, plTracked, plProbe, plServer>>

\* proxy 'error': the page that says the app was not found.
ProxyError(c) ==
  /\ plCall[c].at = "proxied"
  /\ plCall' = [plCall EXCEPT ![c] = [at |-> "unreachable"]]
  /\ UNCHANGED <<plTarget, plFixture, plPolicy, plChanges, plSockets, plTracked, plProbe, plServer>>

\* The client has its answer and its connection is idle again.
Finish(c) ==
  /\ plCall[c].at \notin {"none", "arrived", "proxied"}
  /\ plCall' = [plCall EXCEPT ![c] = NoAnswer]
  /\ UNCHANGED <<plTarget, plFixture, plPolicy, plChanges, plSockets, plTracked, plProbe, plServer>>

----------------------------------------------------------------------------
(* Upgrades, the target, the end *)

\* Mutant: an upgraded socket is not remembered.
UpgradeUntracked(c) ==
  /\ plServer = "open" /\ plTarget # NoTarget /\ c \notin plSockets
  /\ plSockets' = plSockets \cup {c}
  /\ UNCHANGED <<plTarget, plFixture, plCall, plPolicy, plChanges, plTracked, plProbe, plServer>>

\* An upgrade that is refused, or has no target to go to, is destroyed.
Upgrade(c) ==
  /\ plServer = "open" /\ plTarget # NoTarget /\ c \notin plSockets
  /\ plSockets' = plSockets \cup {c} /\ plTracked' = plTracked \cup {c}
  /\ UNCHANGED <<plTarget, plFixture, plCall, plPolicy, plChanges, plProbe, plServer>>

\* The page, or the dev server at the other end, drops the channel.
SocketCloses(c) ==
  /\ c \in plSockets
  /\ plSockets' = plSockets \ {c} /\ plTracked' = plTracked \ {c}
  /\ UNCHANGED <<plTarget, plFixture, plCall, plPolicy, plChanges, plProbe, plServer>>

PlateStart(t) ==
  /\ plServer = "open" /\ plTarget' = t
  /\ UNCHANGED <<plFixture, plCall, plPolicy, plChanges, plSockets, plTracked, plProbe, plServer>>

\* The store loads or unloads a fixture (fixtures/interceptor.ts asks it each time).
FixtureTurns ==
  /\ plServer = "open" /\ plFixture' = ~plFixture
  /\ UNCHANGED <<plTarget, plCall, plPolicy, plChanges, plSockets, plTracked, plProbe, plServer>>

GetStatus ==
  /\ plServer = "open" /\ plProbe = NoTarget /\ plTarget # NoTarget
  /\ plProbe' = plTarget
  /\ UNCHANGED <<plTarget, plFixture, plCall, plPolicy, plChanges, plSockets, plTracked, plServer>>

\* The probe answers, or fails or times out, in which case the last changes stand.
ProbeAnswers(up) ==
  /\ plProbe # NoTarget
  /\ plProbe' = NoTarget
  /\ plChanges' = IF up THEN rewriteHeaders(plPolicy).changes ELSE plChanges
  /\ UNCHANGED <<plTarget, plFixture, plCall, plPolicy, plSockets, plTracked, plServer>>

PlateClose ==
  /\ plServer = "open" /\ plServer' = "closing"
  /\ plSockets' = plSockets \ plTracked /\ plTracked' = {}
  /\ UNCHANGED <<plTarget, plFixture, plCall, plPolicy, plChanges, plProbe>>

\* httpServer.close calls back once no connection is left.
PlateClosed ==
  /\ plServer = "closing"
  /\ plSockets = {} /\ \A c \in PlCalls : plCall[c].at = "none"
  /\ plServer' = "closed"
  /\ UNCHANGED <<plTarget, plFixture, plCall, plPolicy, plChanges, plSockets, plTracked, plProbe>>

\* What the plate itself does for a request, and what the app it was sent to does.
PlateServes(c) == \/ \E url \in {"api", "page", "loupe"} : Dispatch(c, url)
                  \/ Finish(c)
AppAnswers(c) == \/ \E k \in Kinds : ProxyAnswers(c, k)
                 \/ ProxyError(c)

PlateNext ==
  \/ \E c \in PlCalls :
       \/ \E own \in BOOLEAN : Arrive(c, own)
       \/ PlateServes(c)
       \/ AppAnswers(c)
       \/ Upgrade(c)
       \/ SocketCloses(c)
  \/ \E t \in PlTargets : PlateStart(t)
  \/ FixtureTurns
  \/ GetStatus
  \/ \E up \in BOOLEAN : ProbeAnswers(up)
  \/ PlateClose
  \/ PlateClosed

\* The interceptors answer, a client takes the answer it was sent, and a server without
\* connections calls back.  Nothing makes the app answer (proxy.ts sets no timeout on the
\* request it forwards) and nothing makes a page drop its channel.
PlateFairness ==
  /\ \A c \in PlCalls : WF_plateVars(PlateServes(c))
  /\ WF_plateVars(PlateClosed)

PlateSpec == PlateInit /\ [][PlateNext]_plateVars /\ PlateFairness

----------------------------------------------------------------------------
\* Whatever policy the app sends, its page may be framed by the bench and may load the
\* loupe, nothing it allowed is withdrawn, and the changes reported by GET /api/plate
\* are exactly the directives that differ (rewrite.ts:100-139, "never silent"); a body
\* is only unlabelled when it was decoded, unless decompress() did not know its encoding
\* (proxy.ts:133-143).
EmbedHonest ==
  \A c \in PlCalls : plCall[c].at = "answered" =>
    LET h == plPolicy
        g == plCall[c].got
    IN /\ ~g.xfo
       /\ g.fa = NotSent \/ "bench" \in g.fa
       /\ g.ss = NotSent \/ g.ss \cap {"self", "star"} # {}
       /\ h.fa # {"none"} => h.fa \subseteq g.fa
       /\ h.ss \subseteq g.ss
       /\ plCall[c].told = {r \in Rules : \/ r = "x-frame-options" /\ g.xfo # h.xfo
                                          \/ r = "frame-ancestors" /\ g.fa # h.fa
                                          \/ r = "script-src" /\ g.ss # h.ss}
       /\ plCall[c].kind.encoding = "broken" => plCall[c].label = "broken" /\ ~plCall[c].loupe

\* A Host header that does not name this plate reaches neither a fixture nor the app,
\* whatever was loaded or re-pointed meanwhile (proxy.ts:216-233, "The gate is FIRST").
GateFirst ==
  \A c \in PlCalls :
    plCall'[c].at \in {"fixture", "proxied", "loupe", "no-target"} /\ plCall'[c] # plCall[c]
    => plCall[c].at = "arrived"

\* A plate told to close does, or waits for ever for a request the app never answered: the
\* channels it upgraded, which nobody has to drop, do not keep close() waiting
\* (proxy.ts:262-282 and 340-345).
PlateClosesDown ==
  plServer = "closing" ~> (plServer = "closed" \/ [](\E c \in PlCalls : plCall[c].at = "proxied"))
=============================================================================
