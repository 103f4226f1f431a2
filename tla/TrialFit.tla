------------------------------- MODULE TrialFit -------------------------------
(***************************************************************************)
(* Trial fit's mirror (trialfit/mirror.ts, POST /api/plate/mirror): a      *)
(* second plate that shows the app with the change.  A request for it may  *)
(* wait for the bench's own plate while the bench is let go.               *)
(***************************************************************************)
EXTENDS Naturals

CONSTANTS TfCalls,   \* requests for the mirror, one use each
          TfTargets, \* what a plate can show
          NoMirror   \* no target, no mirror

ASSUME MirrorAssumption == NoMirror \notin TfCalls \cup TfTargets

VARIABLES tfBench,    \* open, letting go, waiting for the mirror, closed
          tfPlate,    \* the target of the bench's own plate
          tfMirror,   \* TrialFitMirror.handle: the proxy it holds
          tfProxies,  \* proxies created: are they listening, on what, where to
          tfCall      \* the requests
trialFitVars == <<tfBench, tfPlate, tfMirror, tfProxies, tfCall>>

PlatePort == 4601
OwnPort == 7000     \* a port a request asks for
FreePort == 49152   \* what the system gives one that asks for any
MirrorPorts == {PlatePort + 1, OwnPort, FreePort}
AskedPorts == {"unsaid", "own", "any", "not-a-port"}

NoCallYet == [at |-> "unused", port |-> "unsaid", late |-> FALSE, answer |-> 0]

TrialFitTypeOK ==
  /\ tfBench \in {"open", "closing", "draining", "closed"}
  /\ tfPlate \in TfTargets \cup {NoMirror}
  /\ tfMirror \in TfCalls \cup {NoMirror}
  /\ tfProxies \in [TfCalls -> [up : BOOLEAN, port : MirrorPorts \cup {0}, target : TfTargets \cup {NoMirror}]]
  /\ tfCall \in [TfCalls -> [at : {"unused", "probing", "answered", "refused"},
                             port : AskedPorts, late : BOOLEAN, answer : MirrorPorts \cup {0}]]

TrialFitInit ==
  /\ tfBench = "open" /\ tfPlate = NoMirror /\ tfMirror = NoMirror
  /\ tfProxies = [c \in TfCalls |-> [up |-> FALSE, port |-> 0, target |-> NoMirror]]
  /\ tfCall = [c \in TfCalls |-> NoCallYet]

----------------------------------------------------------------------------
(* POST /api/plate/mirror; a proxy has the name of the request that created it *)

\* Mutant: every request opens a proxy of its own.
AlwaysNew == TRUE

\* start(): a mirror that runs is repointed, never opened again.
NoneRuns == tfMirror = NoMirror

MirrorStart(c, target, port) ==
  LET new == NoneRuns
      at  == IF new THEN c ELSE tfMirror
  IN /\ tfMirror' = at
     /\ tfProxies' = IF new THEN [tfProxies EXCEPT ![c] = [up |-> TRUE, port |-> port, target |-> target]]
                     ELSE [tfProxies EXCEPT ![at].target = target]
     /\ tfCall' = [tfCall EXCEPT ![c].at = "answered", ![c].answer = tfProxies'[at].port]

PortFor(port) == IF port = "own" THEN OwnPort ELSE IF port = "any" THEN FreePort ELSE PlatePort + 1

\* A number that is no port is a 400; the request names a target, or waits for what the plate
\* says of its own.
PostMirror(c, target, port) ==
  /\ tfBench = "open" /\ tfCall[c].at = "unused"
  /\ \/ /\ port = "not-a-port" /\ tfCall' = [tfCall EXCEPT ![c].at = "refused"]
        /\ UNCHANGED <<tfMirror, tfProxies>>
     \/ port # "not-a-port" /\ target # NoMirror /\ MirrorStart(c, target, PortFor(port))
     \/ /\ port # "not-a-port" /\ target = NoMirror
        /\ tfCall' = [tfCall EXCEPT ![c].at = "probing", ![c].port = port]
        /\ UNCHANGED <<tfMirror, tfProxies>>
  /\ UNCHANGED <<tfBench, tfPlate>>

\* getStatus answers: 409 without a target.  The bench may be gone by now.
PlateAnswers(c) ==
  /\ tfCall[c].at = "probing"
  /\ \/ tfPlate # NoMirror /\ MirrorStart(c, tfPlate, PortFor(tfCall[c].port))
     \/ /\ tfPlate = NoMirror /\ tfCall' = [tfCall EXCEPT ![c].at = "refused"]
        /\ UNCHANGED <<tfMirror, tfProxies>>
  /\ UNCHANGED <<tfBench, tfPlate>>

PlateStarts(target) ==
  /\ tfBench = "open" /\ tfPlate' = target
  /\ UNCHANGED <<tfBench, tfMirror, tfProxies, tfCall>>

\* The bench lets go: no new request reaches it; those under way go on.
BenchLetsGo ==
  /\ tfBench = "open" /\ tfBench' = "closing"
  /\ tfCall' = [c \in TfCalls |-> [tfCall[c] EXCEPT !.late = tfCall[c].at = "probing"]]
  /\ UNCHANGED <<tfPlate, tfMirror, tfProxies>>

\* Mutant: the mirror is forgotten but goes on listening.
Forgotten == tfProxies

StoppedListening == IF tfMirror = NoMirror THEN tfProxies ELSE [tfProxies EXCEPT ![tfMirror].up = FALSE]

\* close(): the proxy stops listening, and when its last connection has gone the handle is
\* dropped; until then a late request still finds it.
MirrorStops ==
  /\ tfBench = "closing" /\ tfProxies' = StoppedListening
  /\ tfBench' = IF tfMirror = NoMirror THEN "closed" ELSE "draining"
  /\ UNCHANGED <<tfPlate, tfMirror, tfCall>>

MirrorDropped ==
  /\ tfBench = "draining" /\ tfBench' = "closed" /\ tfMirror' = NoMirror
  /\ UNCHANGED <<tfPlate, tfProxies, tfCall>>

TrialFitNext ==
  \/ \E c \in TfCalls :
       \/ PlateAnswers(c)
       \/ \E target \in TfTargets \cup {NoMirror}, port \in AskedPorts : PostMirror(c, target, port)
  \/ \E target \in TfTargets : PlateStarts(target)
  \/ BenchLetsGo \/ MirrorStops \/ MirrorDropped

----------------------------------------------------------------------------
(* Properties *)

Listening == {c \in TfCalls : tfProxies[c].up}

\* An iframe that shows the mirror never loses its port: while the bench is open there is one
\* mirror, and every request that was answered was told its port (trialfit/mirror.ts "must not have its port change under it").
OneMirror ==
  tfBench = "open" =>
    \A c, d \in TfCalls :
      /\ c \in Listening /\ d \in Listening => c = d
      /\ tfCall[c].at = "answered" /\ d \in Listening => tfCall[c].answer = tfProxies[d].port

\* Once a bench is let go nothing of its trial fit listens, unless the very request that
\* opened it was still waiting for the plate when the bench was let go (bench/host.ts, trialfit/route.ts).
MirrorLeaksOnlyByOverlap ==
  tfBench = "closed" => \A c \in Listening : tfCall[c].late
=============================================================================
