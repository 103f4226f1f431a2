---------------------------- MODULE TargetRunner -----------------------------
(***************************************************************************)
(* packages/server/src/target/runner.ts: the runners that start, probe and *)
(* stop the app of a bench.                                                *)
(*                                                                         *)
(* A process is named after the start() that spawned it.  stop() claims    *)
(* the child at once and reports `none` only when it has seen it close, or *)
(* has waited long enough; in between the runner still shows the old       *)
(* state.  Every action that ends in setState is followed, in the module   *)
(* that composes it, by what onStateChange does.                           *)
(*                                                                         *)
(* Left out, since no property tells it apart: the log and its ring        *)
(* buffer, exit codes, pids, and whether a probe was answered by the child *)
(* or by something else that listens on its port.                          *)
(***************************************************************************)
CONSTANTS
  Runners,    \* TargetRunner objects, one for the host and one for each clamp
  Starts,     \* bound: calls of start(), one use each
  Stoppers,   \* whoever may call stop(); a start() that times out does
  Urls,       \* apps that somebody else started
  PipesHeld,  \* may a killed app leave a grandchild that holds its pipes?
  None        \* absent

ASSUME RunnerAssumption ==
  /\ Starts \subseteq Stoppers
  /\ PipesHeld \in BOOLEAN
  /\ None \notin Runners \cup Starts \cup Urls

VARIABLES
  child,     \* TargetRunner.child
  state,     \* TargetRunner.state: a status, and the app that is up
  home,      \* the runner whose start() this is
  race,      \* start()'s race of probe, exit and timer
  proc,      \* the process as the operating system sees it
  stopping   \* the process whose close a stop() is waiting for

targetVars == <<child, state, home, race, proc, stopping>>

Down(status) == [status |-> status, app |-> None]
States ==
  {Down(status) : status \in {"none", "starting", "down"}}
    \cup [status : {"up"}, app : Starts \cup Urls]

TargetTypeOK ==
  /\ child \in [Runners -> Starts \cup {None}]
  /\ state \in [Runners -> States]
  /\ home \in [Starts -> Runners \cup {None}]
  /\ race \in [Starts -> {"unused", "open", "over"}]
  /\ proc \in [Starts -> {"none", "failing", "alive", "killed", "closed"}]
  /\ stopping \in [Stoppers -> Starts \cup {None}]

TargetInit ==
  /\ child = [r \in Runners |-> None]
  /\ state = [r \in Runners |-> Down("none")]
  /\ home = [s \in Starts |-> None]
  /\ race = [s \in Starts |-> "unused"]
  /\ proc = [s \in Starts |-> "none"]
  /\ stopping = [o \in Stoppers |-> None]

setState(r, next) == state' = [state EXCEPT ![r] = next]

-----------------------------------------------------------------------------
(* start()                                                                  *)

\* The child is there and its race is open.  `fate` is "failing" when spawn
\* could not find the command and will only say so with an `error` event.
Spawns(s, r, fate) ==
  /\ child' = [child EXCEPT ![r] = s]
  /\ proc' = [proc EXCEPT ![s] = fate]
  /\ race' = [race EXCEPT ![s] = "open"]
  /\ setState(r, Down("starting"))

\* spawn itself threw.
SpawnThrows(s, r) ==
  /\ race' = [race EXCEPT ![s] = "over"]
  /\ setState(r, Down("down"))
  /\ UNCHANGED <<child, proc>>

\* A runner that has a child refuses.
Start(s, r) ==
  /\ race[s] = "unused"
  /\ home' = [home EXCEPT ![s] = r]
  /\ \/ /\ child[r] = None
        /\ \/ \E fate \in {"alive", "failing"} : Spawns(s, r, fate)
           \/ SpawnThrows(s, r)
     \/ /\ child[r] # None
        /\ race' = [race EXCEPT ![s] = "over"]
        /\ UNCHANGED <<child, proc, state>>
  /\ UNCHANGED stopping

\* Mutant: whatever answers first is called up.
ProbeUpUnchecked(s) ==
  /\ race[s] = "open"
  /\ race' = [race EXCEPT ![s] = "over"]
  /\ setState(home[s], [status |-> "up", app |-> s])
  /\ UNCHANGED <<child, home, proc, stopping>>

\* The probe is answered.  A child that was claimed meanwhile is not up.
ProbeUp(s) ==
  /\ race[s] = "open"
  /\ race' = [race EXCEPT ![s] = "over"]
  /\ IF child[home[s]] = s
       THEN setState(home[s], [status |-> "up", app |-> s])
       ELSE UNCHANGED state
  /\ UNCHANGED <<child, home, proc, stopping>>

\* `close`, or `error` from a child that never was: only the child the runner
\* still has makes it `down`.
Exits(s) ==
  /\ proc[s] \in {"failing", "alive", "killed"}
  /\ proc' = [proc EXCEPT ![s] = "closed"]
  /\ race' = [race EXCEPT ![s] = "over"]
  /\ IF child[home[s]] = s
       THEN /\ child' = [child EXCEPT ![home[s]] = None]
            /\ setState(home[s], Down("down"))
       ELSE UNCHANGED <<child, state>>
  /\ UNCHANGED <<home, stopping>>

-----------------------------------------------------------------------------
(* stop()                                                                   *)

\* Up to the first await, on behalf of `o`.  killTree sends its signals now;
\* without a child that has a pid there is nothing to wait for.
StopClaims(o, r) ==
  /\ child' = [child EXCEPT ![r] = None]
  /\ IF child[r] # None /\ proc[child[r]] = "alive"
       THEN /\ proc' = [proc EXCEPT ![child[r]] = "killed"]
            /\ stopping' = [stopping EXCEPT ![o] = child[r]]
            /\ UNCHANGED state
       ELSE /\ setState(r, Down("none"))
            /\ UNCHANGED <<proc, stopping>>

\* Mutant: the wait for the close has no bound.
StopEndsUnbounded(o) ==
  /\ stopping[o] # None
  /\ proc[stopping[o]] = "closed"
  /\ setState(home[stopping[o]], Down("none"))
  /\ stopping' = [stopping EXCEPT ![o] = None]
  /\ UNCHANGED <<child, home, race, proc>>

\* The child closed, or STOP_EXIT_TIMEOUT_MS went by.  `none` is reported
\* whatever the runner has come to show since the claim.
StopEnds(o) ==
  /\ stopping[o] # None
  /\ proc[stopping[o]] = "closed" \/ PipesHeld
  /\ setState(home[stopping[o]], Down("none"))
  /\ stopping' = [stopping EXCEPT ![o] = None]
  /\ UNCHANGED <<child, home, race, proc>>

\* Mutant: the timer ends the wait and leaves the child.
ProbeTimesOutOnly(s) ==
  /\ race[s] = "open"
  /\ race' = [race EXCEPT ![s] = "over"]
  /\ UNCHANGED <<child, home, state, proc, stopping>>

\* probeTimeoutMs went by: start() calls stop(), on whatever child there is.
ProbeTimesOut(s) ==
  /\ race[s] = "open"
  /\ race' = [race EXCEPT ![s] = "over"]
  /\ StopClaims(s, home[s])
  /\ UNCHANGED home

setUrl(r, url) ==
  /\ setState(r, [status |-> "up", app |-> url])
  /\ UNCHANGED <<child, home, race, proc, stopping>>

-----------------------------------------------------------------------------
\* A runner that says an app it started is up has it as its child, unless a
\* stop() that has claimed it is still waiting for it to close: an answer to
\* the probe that comes after the claim is never reported (#24).
UpIsOwned ==
  \A r \in Runners, s \in Starts :
    state[r] = [status |-> "up", app |-> s] =>
      \/ child[r] = s
      \/ \E o \in Stoppers : stopping[o] = s
=============================================================================
