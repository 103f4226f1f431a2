----------------------------- MODULE BenchHost -------------------------------
(***************************************************************************)
(* packages/server/src/bench/host.ts with bench/bench.ts, target/route.ts  *)
(* and the target of plate/proxy.ts: which bench is clamped, while clamps, *)
(* unclamps, starts and stops of its app overlap.                          *)
(*                                                                         *)
(* A bench, its plate and its TargetRunner are named after the clamp that  *)
(* makes them; `Boot` is the runner the host is created with.  A request   *)
(* is suspended (`pc`) while it closes the bench it found, while it        *)
(* creates its own, and while it closes that one again because it was      *)
(* superseded.                                                             *)
(*                                                                         *)
(* Left out, since no property tells it apart: which repository a clamp    *)
(* names, the survey and docs it writes, the list of recent benches and    *)
(* the broadcasts.                                                         *)
(***************************************************************************)
EXTENDS TargetRunner, Naturals, FiniteSets

CONSTANTS
  Clamps,         \* bound: POST /api/clamp requests, one use each
  Unclamps,       \* bound: POST /api/unclamp requests, one use each
  Stops,          \* bound: POST /api/target/stop requests, one use each
  Boot,           \* the runner of an empty host
  Overtakes,      \* may a request arrive while a clamp closes a bench?
  CreateMayFail   \* may createBench throw?

Requests == Clamps \cup Unclamps

ASSUME HostAssumption ==
  /\ IsFiniteSet(Requests)
  /\ Clamps \cap Unclamps = {}
  /\ Runners = Clamps \cup {Boot} /\ Boot \notin Clamps
  /\ Stoppers = Starts \cup Stops \cup Requests
  /\ (Starts \cup Stops) \cap Requests = {} /\ Starts \cap Stops = {}
  /\ Starts \cap Urls = {}
  /\ None \notin Requests \cup Stops
  /\ Overtakes \in BOOLEAN /\ CreateMayFail \in BOOLEAN

VARIABLES
  generation,  \* bumped whenever a bench is let go
  current,     \* currentBench, and with it currentRouter
  runner,      \* targetRunner
  pc,          \* where a request is suspended
  old,         \* the bench a request closes
  own,         \* myGeneration of a clamp, and of the runner it makes
  bench,       \* what has become of a clamp's bench
  plate,       \* currentTarget of its plate
  given,       \* the bench that was clamped when a URL was posted
  used,        \* stops and URLs already posted
  asked        \* the last clamp or unclamp the host was asked for

hostVars == <<generation, current, runner, pc, old, own, bench, asked>>
postVars == <<given, used>>
vars == <<targetVars, hostVars, plate, postVars>>

HostTypeOK ==
  /\ TargetTypeOK
  /\ generation = Cardinality({q \in Requests : pc[q] # "unused"})
  /\ current \in Clamps \cup {None}
  /\ runner \in Runners
  /\ pc \in [Requests ->
       {"unused", "closing", "creating", "discarding", "done"}]
  /\ old \in [Requests -> Clamps \cup {None}]
  /\ own \in [Runners -> Nat]
  /\ bench \in [Clamps ->
       {"none", "creating", "failed", "open", "closing", "closed"}]
  /\ plate \in [Clamps -> Starts \cup Urls \cup {None}]
  /\ given \in [Urls -> Clamps \cup {None}]
  /\ used \subseteq Stops \cup Urls
  /\ asked \in Requests \cup {None}

HostInit ==
  /\ TargetInit
  /\ generation = 0
  /\ current = None
  /\ runner = Boot
  /\ pc = [q \in Requests |-> "unused"]
  /\ old = [q \in Requests |-> None]
  /\ own = [r \in Runners |-> 0]
  /\ bench = [c \in Clamps |-> "none"]
  /\ plate = [c \in Clamps |-> None]
  /\ given = [u \in Urls |-> None]
  /\ used = {}
  /\ asked = None

-----------------------------------------------------------------------------
(* What the host does when a runner calls setState.                         *)

\* Only the runner of the bench that is clamped now wires its plate.  An app
\* that has come up always changes the state of its runner.
onStateChange(r) ==
  plate' = IF /\ own[r] = generation
              /\ state'[r] # state[r] /\ state'[r].status = "up"
              /\ current # None
             THEN [plate EXCEPT ![current] = state'[r].app]
             ELSE plate

-----------------------------------------------------------------------------
(* Clamp and unclamp.                                                       *)

\* A clamp whose old bench is closed takes its number and creates its own;
\* an unclamp has answered.
Goes(q, number) ==
  IF q \in Clamps
    THEN /\ pc' = [pc EXCEPT ![q] = "creating"]
         /\ own' = [own EXCEPT ![q] = number]
         /\ bench' = [bench EXCEPT ![q] = "creating"]
    ELSE /\ pc' = [pc EXCEPT ![q] = "done"]
         /\ UNCHANGED <<own, bench>>

\* Mutant: letting a bench go leaves the number as it was.
CloseCurrentBenchUnnumbered(q) ==
  /\ current' = None
  /\ old' = [old EXCEPT ![q] = current]
  /\ StopClaims(q, runner)
  /\ IF current = None
       THEN Goes(q, generation)
       ELSE /\ bench' = [bench EXCEPT ![current] = "closing"]
            /\ pc' = [pc EXCEPT ![q] = "closing"]
            /\ UNCHANGED own
  /\ UNCHANGED generation

\* Mutant: the app of the bench is left running.
CloseCurrentBenchOnly(q) ==
  /\ generation' = generation + 1
  /\ current' = None
  /\ old' = [old EXCEPT ![q] = current]
  /\ UNCHANGED <<child, state, proc, stopping>>
  /\ IF current = None
       THEN Goes(q, generation')
       ELSE /\ bench' = [bench EXCEPT ![current] = "closing"]
            /\ pc' = [pc EXCEPT ![q] = "closing"]
            /\ UNCHANGED own

\* closeCurrentBench() up to its first await that takes time: there is none
\* when no bench is clamped, since then the runner has no child either.
closeCurrentBench(q) ==
  /\ generation' = generation + 1
  /\ current' = None
  /\ old' = [old EXCEPT ![q] = current]
  /\ StopClaims(q, runner)
  /\ IF current = None
       THEN Goes(q, generation')
       ELSE /\ bench' = [bench EXCEPT ![current] = "closing"]
            /\ pc' = [pc EXCEPT ![q] = "closing"]
            /\ UNCHANGED own

Asks(q) ==
  /\ pc[q] = "unused"
  /\ Overtakes \/ \A c \in Clamps : pc[c] # "closing"
  /\ asked' = q
  /\ closeCurrentBench(q)
  /\ UNCHANGED <<home, race, runner, plate, postVars>>

\* runner.stop() is over and so is bench.close().  Only now does a clamp read
\* the number.
OldBenchClosed(q) ==
  /\ pc[q] = "closing"
  /\ stopping[q] = None
  /\ IF q \in Clamps
       THEN /\ pc' = [pc EXCEPT ![q] = "creating"]
            /\ own' = [own EXCEPT ![q] = generation]
            /\ bench' = [bench EXCEPT ![old[q]] = "closed", ![q] = "creating"]
       ELSE /\ pc' = [pc EXCEPT ![q] = "done"]
            /\ bench' = [bench EXCEPT ![old[q]] = "closed"]
            /\ UNCHANGED own
  /\ UNCHANGED <<targetVars, generation, current, runner, old, plate,
                 postVars, asked>>

\* It becomes the clamped bench, with a runner of its own.  The survey, the
\* docs and the entry in the recent list that follow change nothing here.
Lands(c) ==
  /\ current' = c
  /\ runner' = c
  /\ bench' = [bench EXCEPT ![c] = "open"]
  /\ pc' = [pc EXCEPT ![c] = "done"]

\* Mutant: a bench that is ready is clamped.
BenchCreatedUnchecked(c) ==
  /\ pc[c] = "creating"
  /\ Lands(c)
  /\ UNCHANGED <<targetVars, generation, old, own, plate, postVars, asked>>

\* Mutant: the new bench gets a number of its own.
BenchCreatedRenumbers(c) ==
  /\ pc[c] = "creating"
  /\ generation = own[c]
  /\ Lands(c)
  /\ generation' = generation + 1
  /\ own' = [own EXCEPT ![c] = generation']
  /\ UNCHANGED <<targetVars, old, plate, postVars, asked>>

\* createBench() returns: a clamp that was superseded closes it again.
BenchCreated(c) ==
  /\ pc[c] = "creating"
  /\ \/ generation = own[c] /\ Lands(c)
     \/ /\ generation # own[c]
        /\ bench' = [bench EXCEPT ![c] = "closing"]
        /\ pc' = [pc EXCEPT ![c] = "discarding"]
        /\ UNCHANGED <<current, runner>>
  /\ UNCHANGED <<targetVars, generation, old, own, plate, postVars, asked>>

\* createBench() throws; nothing closes what it has opened so far.
CreateFails(c) ==
  /\ CreateMayFail
  /\ pc[c] = "creating"
  /\ bench' = [bench EXCEPT ![c] = "failed"]
  /\ pc' = [pc EXCEPT ![c] = "done"]
  /\ UNCHANGED <<targetVars, generation, current, runner, old, own, plate,
                 postVars, asked>>

\* The superseded bench is closed, and its clamp answered with a 409.
Discarded(c) ==
  /\ pc[c] = "discarding"
  /\ bench' = [bench EXCEPT ![c] = "closed"]
  /\ pc' = [pc EXCEPT ![c] = "done"]
  /\ UNCHANGED <<targetVars, generation, current, runner, old, own, plate,
                 postVars, asked>>

-----------------------------------------------------------------------------
(* The routes of the app under the bench.                                   *)

TargetStart(s) ==
  /\ current # None
  /\ state[runner].status \in {"none", "down"}
  /\ Start(s, runner)
  /\ onStateChange(runner)
  /\ UNCHANGED <<hostVars, postVars>>

TargetStop(o) ==
  /\ o \notin used
  /\ used' = used \cup {o}
  /\ StopClaims(o, runner)
  /\ onStateChange(runner)
  /\ UNCHANGED <<home, race, hostVars, given>>

\* The URL of an app that runs already; nobody checks for a bench.
TargetUrl(u) ==
  /\ u \notin used
  /\ used' = used \cup {u}
  /\ given' = [given EXCEPT ![u] = current]
  /\ setUrl(runner, u)
  /\ onStateChange(runner)
  /\ UNCHANGED hostVars

\* Mutant: the host before #24, which asks neither runner nor number.
TargetUpBefore24(s) ==
  /\ ProbeUpUnchecked(s)
  /\ plate' = IF current # None THEN [plate EXCEPT ![current] = s] ELSE plate
  /\ UNCHANGED <<hostVars, postVars>>

TargetUp(s) ==
  /\ ProbeUp(s)
  /\ onStateChange(home[s])
  /\ UNCHANGED <<hostVars, postVars>>

TargetExits(s) ==
  /\ Exits(s)
  /\ onStateChange(home[s])
  /\ UNCHANGED <<hostVars, postVars>>

TargetTimesOut(s) ==
  /\ ProbeTimesOut(s)
  /\ onStateChange(home[s])
  /\ UNCHANGED <<hostVars, postVars>>

StopReturns(o) ==
  /\ StopEnds(o)
  /\ onStateChange(home[stopping[o]])
  /\ UNCHANGED <<hostVars, postVars>>

-----------------------------------------------------------------------------
HostNext ==
  \/ \E q \in Requests : Asks(q) \/ OldBenchClosed(q)
  \/ \E c \in Clamps :
       BenchCreated(c) \/ CreateFails(c) \/ Discarded(c)
  \/ \E s \in Starts :
       TargetStart(s) \/ TargetUp(s) \/ TargetExits(s) \/ TargetTimesOut(s)
  \/ \E o \in Stops : TargetStop(o)
  \/ \E u \in Urls : TargetUrl(u)
  \/ \E o \in Stoppers : StopReturns(o)

HostSpec == HostInit /\ [][HostNext]_vars

\* Timers fire, createBench answers, and stop() gives up on an app that does
\* not close.  bench.close() is owed nothing: it waits, unbounded, for the builds
\* and drafts of the bench and for the open connections of its plate.
HostFairness ==
  /\ \A c \in Clamps : WF_vars(BenchCreated(c) \/ CreateFails(c))
  /\ \A s \in Starts :
       /\ WF_vars(TargetTimesOut(s))
       /\ ~PipesHeld => WF_vars(proc[s] = "killed" /\ TargetExits(s))
  /\ \A o \in Stoppers : WF_vars(StopReturns(o))

FairHostSpec == HostSpec /\ HostFairness

-----------------------------------------------------------------------------
(* Properties                                                               *)

\* At most one bench is open, and it is the one the routes serve: a clamp
\* that was overtaken while it created its bench closes it instead of
\* leaving it open beside, or in place of, the newer one.
OneBenchOpen == \A c \in Clamps : bench[c] = "open" <=> current = c

\* The host holds what it was asked for last: an older clamp that finishes
\* late is never put over a newer clamp or an unclamp, and the newest one is
\* never answered with "superseded".
LastAskedWins ==
  /\ current # None => current = asked
  /\ asked \in Clamps /\ pc[asked] \in {"discarding", "done"} =>
       current = asked \/ bench[asked] = "failed"

\* No app outlives its bench or slips from its runner: one that has not been
\* told to end is the child of the runner that started it, and that is the
\* runner of the clamped bench.
NoOrphanTarget ==
  \A s \in Starts :
    proc[s] = "alive" =>
      child[home[s]] = s /\ runner = home[s] /\ current = home[s]

\* A plate shows an app of its own bench, or a URL that was posted while that
\* bench was clamped: a probe that answers late never wires the plate of the
\* bench that came next (#24).
PlateShowsOwnApp ==
  \A c \in Clamps :
    /\ plate[c] \in Starts => home[plate[c]] = c
    /\ plate[c] \in Urls => given[plate[c]] = c

\* A badge that says `starting` does not say so for ever, however the start
\* ends: an answer, an exit, the timer, a stop, or a newer clamp.
StartingEnds ==
  \A r \in Runners :
    state[r].status = "starting" ~> state[r].status # "starting"

\* The request has nothing left to wait for but bench.close().
AwaitsClose(q) ==
  \/ pc[q] = "closing" /\ stopping[q] = None
  \/ pc[q] = "discarding"

\* A clamp or unclamp is answered, or waits for bench.close() of the bench it let go or of its
\* own: the app to be stopped first never keeps it, also when that holds on to its pipes.
RequestsEnd == \A q \in Requests : pc[q] # "unused" ~> pc[q] = "done" \/ AwaitsClose(q)

\* What the host bounds itself ends: a start comes to an answer, and of a clamp or unclamp
\* everything but the close of a bench.
HostSettles == StartingEnds /\ RequestsEnd
=============================================================================
