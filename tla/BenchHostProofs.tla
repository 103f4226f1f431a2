--------------------------- MODULE BenchHostProofs ---------------------------
(***************************************************************************)
(* Proofs about BenchHost, for any clamps, unclamps, starts, stops, URLs.  *)
(***************************************************************************)
EXTENDS BenchHost, FiniteSetTheorems, TLAPS

USE RunnerAssumption, HostAssumption

\* A process belongs to the runner whose start() spawned it: the runner has it
\* as a child only while it was not told to end, and shows it as up only if it
\* is its own.
Family ==
  /\ \A s \in Starts : race[s] = "unused" <=> home[s] = None
  /\ \A s \in Starts : home[s] = None => proc[s] = "none"
  /\ \A o \in Stoppers :
       stopping[o] # None => proc[stopping[o]] \in {"killed", "closed"}
  /\ \A r \in Runners :
       child[r] # None =>
         home[child[r]] = r /\ proc[child[r]] \in {"failing", "alive"}
  /\ \A r \in Runners, s \in Starts :
       state[r] = [status |-> "up", app |-> s] => home[s] = r

-----------------------------------------------------------------------------
(* Types                                                                    *)

LEMMA StatesTyped ==
  /\ \A status \in {"none", "starting", "down"} : Down(status) \in States
  /\ \A app \in Starts \cup Urls : [status |-> "up", app |-> app] \in States
BY DEF States, Down

LEMMA StopTyped ==
  ASSUME TargetTypeOK, NEW o \in Stoppers, NEW r \in Runners,
         StopClaims(o, r)
  PROVE  /\ child' \in [Runners -> Starts \cup {None}]
         /\ state' \in [Runners -> States]
         /\ proc' \in
              [Starts -> {"none", "failing", "alive", "killed", "closed"}]
         /\ stopping' \in [Stoppers -> Starts \cup {None}]
BY StatesTyped DEF TargetTypeOK, StopClaims, setState

LEMMA GoesTyped ==
  ASSUME HostTypeOK, NEW q \in Requests, NEW number \in Nat, Goes(q, number)
  PROVE  /\ pc' \in [Requests -> {"unused", "closing", "creating",
                                  "discarding", "done"}]
         /\ own' \in [Runners -> Nat]
         /\ bench' \in [Clamps -> {"none", "creating", "failed", "open",
                                   "closing", "closed"}]
BY DEF HostTypeOK, Goes, Requests

\* The number of requests that have been made, while none is added.
LEMMA SameCount ==
  ASSUME HostTypeOK, UNCHANGED generation,
         \A q \in Requests : pc'[q] = "unused" <=> pc[q] = "unused"
  PROVE  generation' = Cardinality({q \in Requests : pc'[q] # "unused"})
<1>1. {q \in Requests : pc'[q] # "unused"} = {q \in Requests : pc[q] # "unused"}
  OBVIOUS
<1> QED BY <1>1 DEF HostTypeOK

LEMMA OneMore ==
  ASSUME HostTypeOK, NEW r \in Requests, pc[r] = "unused",
         generation' = generation + 1,
         pc'[r] # "unused",
         \A q \in Requests \ {r} : pc'[q] = pc[q]
  PROVE  generation' = Cardinality({q \in Requests : pc'[q] # "unused"})
<1> DEFINE S == {q \in Requests : pc[q] # "unused"}
<1>1. {q \in Requests : pc'[q] # "unused"} = S \cup {r}
  OBVIOUS
<1>2. IsFiniteSet(S) /\ r \notin S
  BY FS_Subset
<1>3. Cardinality(S \cup {r}) = Cardinality(S) + 1
  BY <1>2, FS_AddElement
<1> QED BY <1>1, <1>3 DEF HostTypeOK

LEMMA GenerationNat ==
  ASSUME HostTypeOK PROVE generation \in Nat
<1> DEFINE S == {q \in Requests : pc[q] # "unused"}
<1>1. IsFiniteSet(S)
  BY FS_Subset
<1>2. Cardinality(S) \in Nat
  BY <1>1, FS_CardinalityType
<1> QED BY <1>2 DEF HostTypeOK

LEMMA TypeInit == HostInit => HostTypeOK
<1> SUFFICES ASSUME HostInit PROVE HostTypeOK
  OBVIOUS
<1>1. TargetTypeOK
  BY StatesTyped DEF HostInit, TargetInit, TargetTypeOK
<1>2. {q \in Requests : pc[q] # "unused"} = {}
  BY DEF HostInit
<1>3. generation = Cardinality({q \in Requests : pc[q] # "unused"})
  BY <1>2, FS_EmptySet DEF HostInit
<1> QED BY <1>1, <1>3 DEF HostInit, HostTypeOK

\* The plate shows an app of the runner whose state changed.
LEMMA PlateTyped ==
  ASSUME HostTypeOK, NEW r \in Runners, state'[r] \in States, onStateChange(r)
  PROVE  plate' \in [Clamps -> Starts \cup Urls \cup {None}]
<1>1. state'[r].status = "up" => state'[r].app \in Starts \cup Urls
  BY DEF States, Down
<1> QED BY <1>1 DEF HostTypeOK, onStateChange

\* A step that changes only runners and plates.
LEMMA TargetStepTyped ==
  ASSUME HostTypeOK, TargetTypeOK', UNCHANGED hostVars,
         plate' \in [Clamps -> Starts \cup Urls \cup {None}],
         given' \in [Urls -> Clamps \cup {None}], used' \subseteq Stops \cup Urls
  PROVE  HostTypeOK'
<1>1. generation' = Cardinality({q \in Requests : pc'[q] # "unused"})
  BY DEF HostTypeOK, hostVars
<1> QED BY <1>1 DEF HostTypeOK, hostVars

LEMMA TypeStep == HostTypeOK /\ Family /\ [HostNext]_vars => HostTypeOK'
<1> SUFFICES ASSUME HostTypeOK, Family, [HostNext]_vars PROVE HostTypeOK'
  OBVIOUS
<1>t. TargetTypeOK /\ generation \in Nat
  BY GenerationNat DEF HostTypeOK
<1>1. ASSUME NEW q \in Requests, Asks(q) PROVE HostTypeOK'
  <2>1. runner \in Runners /\ q \in Stoppers
    BY DEF HostTypeOK, Requests
  <2>2. StopClaims(q, runner)
    BY <1>1 DEF Asks, closeCurrentBench
  <2>3. TargetTypeOK'
    BY <1>1, <1>t, <2>1, <2>2, StopTyped DEF Asks, TargetTypeOK
  <2>4. generation' \in Nat /\ generation' = generation + 1
    BY <1>1, <1>t DEF Asks, closeCurrentBench
  <2>5. /\ pc' \in [Requests -> {"unused", "closing", "creating",
                                 "discarding", "done"}]
        /\ own' \in [Runners -> Nat]
        /\ bench' \in [Clamps -> {"none", "creating", "failed", "open",
                                  "closing", "closed"}]
    <3>1. CASE current = None
      BY <1>1, <2>4, <3>1, GoesTyped DEF Asks, closeCurrentBench
    <3>2. CASE current # None
      BY <1>1, <3>2 DEF Asks, closeCurrentBench, HostTypeOK
    <3> QED BY <3>1, <3>2
  <2>6. pc'[q] # "unused" /\ \A p \in Requests \ {q} : pc'[p] = pc[p]
    BY <1>1 DEF Asks, closeCurrentBench, Goes, HostTypeOK
  <2>7. generation' = Cardinality({p \in Requests : pc'[p] # "unused"})
    BY <1>1, <2>4, <2>6, OneMore DEF Asks
  <2>8. /\ old' \in [Requests -> Clamps \cup {None}]
        /\ current' \in Clamps \cup {None}
    BY <1>1 DEF Asks, closeCurrentBench, HostTypeOK
  <2> QED
    BY <1>1, <2>3, <2>5, <2>7, <2>8 DEF Asks, postVars, HostTypeOK
<1>2. ASSUME NEW q \in Requests, OldBenchClosed(q) PROVE HostTypeOK'
  <2>1. TargetTypeOK'
    BY <1>2, <1>t DEF OldBenchClosed, targetVars, TargetTypeOK
  <2>2. /\ pc' \in [Requests -> {"unused", "closing", "creating",
                                 "discarding", "done"}]
        /\ own' \in [Runners -> Nat]
        /\ bench' \in [Clamps -> {"none", "creating", "failed", "open",
                                  "closing", "closed"}]
    BY <1>2, <1>t DEF OldBenchClosed, HostTypeOK
  <2>3. generation' = Cardinality({p \in Requests : pc'[p] # "unused"})
    BY <1>2, SameCount DEF OldBenchClosed, HostTypeOK
  <2> QED
    BY <1>2, <2>1, <2>2, <2>3 DEF OldBenchClosed, postVars, HostTypeOK
<1>3. ASSUME NEW c \in Clamps,
             BenchCreated(c) \/ CreateFails(c) \/ Discarded(c)
      PROVE  HostTypeOK'
  <2> USE DEF BenchCreated, Lands, CreateFails, Discarded
  <2>1. TargetTypeOK'
    BY <1>3, <1>t DEF targetVars, TargetTypeOK
  <2>2. generation' = Cardinality({p \in Requests : pc'[p] # "unused"})
    BY <1>3, SameCount DEF HostTypeOK, Requests
  <2>3. /\ pc' \in [Requests -> {"unused", "closing", "creating",
                                 "discarding", "done"}]
        /\ bench' \in [Clamps -> {"none", "creating", "failed", "open",
                                  "closing", "closed"}]
        /\ current' \in Clamps \cup {None} /\ runner' \in Runners
    BY <1>3 DEF HostTypeOK, Requests
  <2> QED BY <1>3, <2>1, <2>2, <2>3 DEF postVars, HostTypeOK
<1>4. ASSUME NEW s \in Starts, TargetStart(s) PROVE HostTypeOK'
  <2>1. runner \in Runners
    BY DEF HostTypeOK
  <2>2. TargetTypeOK'
    BY <1>4, <1>t, <2>1, StatesTyped
    DEF TargetStart, Start, Spawns, SpawnThrows, setState, TargetTypeOK
  <2>3. plate' \in [Clamps -> Starts \cup Urls \cup {None}]
    BY <1>4, <2>1, <2>2, PlateTyped DEF TargetStart, TargetTypeOK
  <2> QED
    BY <1>4, <2>2, <2>3, TargetStepTyped DEF TargetStart, postVars, HostTypeOK
<1>5. ASSUME NEW o \in Stops, TargetStop(o) PROVE HostTypeOK'
  <2>1. runner \in Runners
    BY DEF HostTypeOK
  <2>2. TargetTypeOK'
    BY <1>5, <1>t, <2>1, StopTyped DEF TargetStop, TargetTypeOK
  <2>3. plate' \in [Clamps -> Starts \cup Urls \cup {None}]
    BY <1>5, <2>1, <2>2, PlateTyped DEF TargetStop, TargetTypeOK
  <2> QED
    BY <1>5, <2>2, <2>3, TargetStepTyped DEF TargetStop, HostTypeOK
<1>6. ASSUME NEW u \in Urls, TargetUrl(u) PROVE HostTypeOK'
  <2>1. runner \in Runners
    BY DEF HostTypeOK
  <2>2. TargetTypeOK'
    BY <1>6, <1>t, <2>1, StatesTyped
    DEF TargetUrl, setUrl, setState, TargetTypeOK
  <2>3. plate' \in [Clamps -> Starts \cup Urls \cup {None}]
    BY <1>6, <2>1, <2>2, PlateTyped DEF TargetUrl, TargetTypeOK
  <2>4. /\ given' \in [Urls -> Clamps \cup {None}]
        /\ used' \subseteq Stops \cup Urls
    BY <1>6 DEF TargetUrl, HostTypeOK
  <2> QED BY <1>6, <2>2, <2>3, <2>4, TargetStepTyped DEF TargetUrl
<1>7. ASSUME NEW s \in Starts,
             TargetUp(s) \/ TargetExits(s) \/ TargetTimesOut(s)
      PROVE  HostTypeOK'
  <2> USE DEF TargetUp, TargetExits, TargetTimesOut, ProbeUp, Exits,
              ProbeTimesOut
  <2>1. home[s] \in Runners /\ s \in Stoppers
    BY <1>7, <1>t DEF Family, TargetTypeOK
  <2>2. TargetTypeOK'
    <3>1. CASE TargetUp(s)
      BY <3>1, <1>t, <2>1, StatesTyped DEF setState, TargetTypeOK
    <3>2. CASE TargetExits(s)
      BY <3>2, <1>t, <2>1, StatesTyped DEF setState, TargetTypeOK
    <3>3. CASE TargetTimesOut(s)
      BY <3>3, <1>t, <2>1, StopTyped DEF TargetTypeOK
    <3> QED BY <1>7, <3>1, <3>2, <3>3
  <2>3. plate' \in [Clamps -> Starts \cup Urls \cup {None}]
    BY <1>7, <2>1, <2>2, PlateTyped DEF TargetTypeOK
  <2> QED BY <1>7, <2>2, <2>3, TargetStepTyped DEF postVars, HostTypeOK
<1>8. ASSUME NEW o \in Stoppers, StopReturns(o) PROVE HostTypeOK'
  <2>1. home[stopping[o]] \in Runners
    BY <1>8, <1>t DEF StopReturns, StopEnds, Family, TargetTypeOK
  <2>2. TargetTypeOK'
    BY <1>8, <1>t, <2>1, StatesTyped
    DEF StopReturns, StopEnds, setState, TargetTypeOK
  <2>3. plate' \in [Clamps -> Starts \cup Urls \cup {None}]
    BY <1>8, <2>1, <2>2, PlateTyped DEF StopReturns, TargetTypeOK
  <2> QED
    BY <1>8, <2>2, <2>3, TargetStepTyped DEF StopReturns, postVars, HostTypeOK
<1>9. ASSUME UNCHANGED vars PROVE HostTypeOK'
  <2>1. TargetTypeOK'
    BY <1>9, <1>t DEF vars, targetVars, TargetTypeOK
  <2> QED
    BY <1>9, <2>1, TargetStepTyped DEF vars, postVars, HostTypeOK
<1> QED
  BY <1>1, <1>2, <1>3, <1>4, <1>5, <1>6, <1>7, <1>8, <1>9 DEF HostNext

-----------------------------------------------------------------------------
(* Processes and their runners                                              *)

LEMMA FamilyInit == HostInit => Family
BY DEF HostInit, TargetInit, Family, Down

\* What a claim leaves of the family.
LEMMA FamilyStops ==
  ASSUME TargetTypeOK, Family, NEW o \in Stoppers, NEW r \in Runners,
         StopClaims(o, r), UNCHANGED home,
         \A s \in Starts : race'[s] = "unused" <=> race[s] = "unused"
  PROVE  Family'
<1>1. CASE child[r] # None /\ proc[child[r]] = "alive"
  BY <1>1 DEF StopClaims, Family, TargetTypeOK
<1>2. CASE ~(child[r] # None /\ proc[child[r]] = "alive")
  BY <1>2 DEF StopClaims, setState, Down, Family, TargetTypeOK
<1> QED BY <1>1, <1>2

LEMMA FamilyStep == HostTypeOK /\ Family /\ [HostNext]_vars => Family'
<1> SUFFICES ASSUME HostTypeOK, Family, [HostNext]_vars PROVE Family'
  OBVIOUS
<1>t. TargetTypeOK /\ runner \in Runners
  BY DEF HostTypeOK
<1>1. ASSUME NEW q \in Requests, Asks(q) PROVE Family'
  BY <1>1, <1>t, FamilyStops DEF Asks, closeCurrentBench, Requests
<1>2. ASSUME UNCHANGED targetVars PROVE Family'
  BY <1>2 DEF targetVars, Family
<1>3. ASSUME NEW s \in Starts, TargetStart(s) PROVE Family'
  <2>1. Start(s, runner) /\ home[s] = None /\ proc[s] = "none"
    BY <1>3 DEF TargetStart, Start, Family
  <2>2. CASE child[runner] # None
    BY <2>1, <2>2, <1>t DEF Start, Family, TargetTypeOK
  <2>3. CASE child[runner] = None /\ SpawnThrows(s, runner)
    BY <2>1, <2>3, <1>t
    DEF Start, SpawnThrows, setState, Down, Family, TargetTypeOK
  <2>4. ASSUME child[runner] = None, NEW fate \in {"alive", "failing"},
               Spawns(s, runner, fate)
        PROVE  Family'
    BY <2>1, <2>4, <1>t
    DEF Start, Spawns, setState, Down, Family, TargetTypeOK
  <2> QED BY <2>1, <2>2, <2>3, <2>4 DEF Start
<1>4. ASSUME NEW o \in Stops, TargetStop(o) PROVE Family'
  BY <1>4, <1>t, FamilyStops DEF TargetStop
<1>5. ASSUME NEW u \in Urls, TargetUrl(u) PROVE Family'
  BY <1>5, <1>t DEF TargetUrl, setUrl, setState, Family, TargetTypeOK
<1>6. ASSUME NEW s \in Starts, TargetUp(s) PROVE Family'
  <2>1. home[s] \in Runners
    BY <1>6, <1>t DEF TargetUp, ProbeUp, Family, TargetTypeOK
  <2> QED
    BY <1>6, <2>1, <1>t DEF TargetUp, ProbeUp, setState, Family, TargetTypeOK
<1>7. ASSUME NEW s \in Starts, TargetExits(s) PROVE Family'
  <2>1. home[s] \in Runners
    BY <1>7, <1>t DEF TargetExits, Exits, Family, TargetTypeOK
  <2> QED
    BY <1>7, <2>1, <1>t
    DEF TargetExits, Exits, setState, Down, Family, TargetTypeOK
<1>8. ASSUME NEW s \in Starts, TargetTimesOut(s) PROVE Family'
  <2>1. home[s] \in Runners
    BY <1>8, <1>t DEF TargetTimesOut, ProbeTimesOut, Family, TargetTypeOK
  <2> QED
    BY <1>8, <2>1, <1>t, FamilyStops
    DEF TargetTimesOut, ProbeTimesOut, TargetTypeOK
<1>9. ASSUME NEW o \in Stoppers, StopReturns(o) PROVE Family'
  <2>1. home[stopping[o]] \in Runners
    BY <1>9, <1>t DEF StopReturns, StopEnds, Family, TargetTypeOK
  <2> QED
    BY <1>9, <2>1, <1>t
    DEF StopReturns, StopEnds, setState, Down, Family, TargetTypeOK
<1> QED
  BY <1>1, <1>2, <1>3, <1>4, <1>5, <1>6, <1>7, <1>8, <1>9
  DEF HostNext, vars, OldBenchClosed, BenchCreated, CreateFails, Discarded

\* Every variable of the host and its runners keeps its type, and the number
\* is that of the clamps and unclamps so far.
THEOREM HostTypeCorrect == HostSpec => []HostTypeOK
<1>1. HostInit => HostTypeOK /\ Family
  BY TypeInit, FamilyInit
<1>2. HostTypeOK /\ Family /\ [HostNext]_vars => HostTypeOK' /\ Family'
  BY TypeStep, FamilyStep
<1> QED BY <1>1, <1>2, PTL DEF HostSpec

-----------------------------------------------------------------------------
(* What a runner calls up is its own                                        *)

\* Whoever waits for a process to close has made its one call of stop().
Fresh ==
  \A o \in Stoppers : stopping[o] # None =>
    /\ o \in Starts => race[o] = "over"
    /\ o \in Stops => o \in used
    /\ o \in Requests => pc[o] # "unused"

OwnedInv == HostTypeOK /\ Family /\ Fresh /\ UpIsOwned

LEMMA OwnedStops ==
  ASSUME TargetTypeOK, Family, UpIsOwned,
         NEW o \in Stoppers, NEW r \in Runners,
         StopClaims(o, r), stopping[o] = None
  PROVE  /\ UpIsOwned'
         /\ \A x \in Stoppers \ {o} : stopping'[x] = stopping[x]
<1>1. CASE child[r] # None /\ proc[child[r]] = "alive"
  BY <1>1 DEF StopClaims, UpIsOwned, TargetTypeOK
<1>2. CASE ~(child[r] # None /\ proc[child[r]] = "alive")
  BY <1>2 DEF StopClaims, setState, Down, UpIsOwned, TargetTypeOK
<1> QED BY <1>1, <1>2

LEMMA OwnedStep == OwnedInv /\ [HostNext]_vars => Fresh' /\ UpIsOwned'
<1> SUFFICES ASSUME OwnedInv, [HostNext]_vars PROVE Fresh' /\ UpIsOwned'
  OBVIOUS
<1>t. /\ HostTypeOK /\ TargetTypeOK /\ runner \in Runners
      /\ Family /\ Fresh /\ UpIsOwned
  BY DEF OwnedInv, HostTypeOK
<1>1. ASSUME NEW q \in Requests, Asks(q) PROVE Fresh' /\ UpIsOwned'
  <2>1. stopping[q] = None /\ StopClaims(q, runner) /\ q \in Stoppers
    BY <1>1, <1>t DEF Asks, closeCurrentBench, Fresh, Requests
  <2>2. UpIsOwned' /\ \A x \in Stoppers \ {q} : stopping'[x] = stopping[x]
    BY <1>t, <2>1, OwnedStops
  <2>3. pc'[q] # "unused" /\ \A p \in Requests \ {q} : pc'[p] = pc[p]
    BY <1>1, <1>t DEF Asks, closeCurrentBench, Goes, HostTypeOK
  <2> QED
    BY <1>1, <1>t, <2>2, <2>3 DEF Asks, postVars, Fresh
<1>2. ASSUME UNCHANGED <<targetVars, used>>,
             \A q \in Requests : pc'[q] = "unused" => pc[q] = "unused"
      PROVE  Fresh' /\ UpIsOwned'
  BY <1>2, <1>t DEF targetVars, Fresh, UpIsOwned
<1>3. ASSUME NEW s \in Starts, TargetStart(s) PROVE Fresh' /\ UpIsOwned'
  <2>1. Fresh'
    BY <1>3, <1>t
    DEF TargetStart, Start, Spawns, SpawnThrows, hostVars, postVars, Fresh,
        TargetTypeOK
  <2>2. Start(s, runner) /\ home[s] = None
    BY <1>3, <1>t DEF TargetStart, Start, Family
  <2>3. UpIsOwned'
    <3>1. CASE child[runner] # None
      BY <2>2, <3>1, <1>t DEF Start, UpIsOwned
    <3>2. CASE child[runner] = None /\ SpawnThrows(s, runner)
      BY <2>2, <3>2, <1>t
      DEF Start, SpawnThrows, setState, Down, UpIsOwned, TargetTypeOK
    <3>3. ASSUME child[runner] = None, NEW fate \in {"alive", "failing"},
                 Spawns(s, runner, fate)
          PROVE  UpIsOwned'
      BY <2>2, <3>3, <1>t
      DEF Start, Spawns, setState, Down, UpIsOwned, TargetTypeOK
    <3> QED BY <2>2, <3>1, <3>2, <3>3 DEF Start
  <2> QED BY <2>1, <2>3
<1>4. ASSUME NEW o \in Stops, TargetStop(o) PROVE Fresh' /\ UpIsOwned'
  <2>1. stopping[o] = None /\ StopClaims(o, runner) /\ o \in Stoppers
    BY <1>4, <1>t DEF TargetStop, Fresh
  <2>2. UpIsOwned' /\ \A x \in Stoppers \ {o} : stopping'[x] = stopping[x]
    BY <1>t, <2>1, OwnedStops
  <2> QED
    BY <1>4, <1>t, <2>2 DEF TargetStop, hostVars, Fresh
<1>5. ASSUME NEW u \in Urls, TargetUrl(u) PROVE Fresh' /\ UpIsOwned'
  BY <1>5, <1>t
  DEF TargetUrl, setUrl, setState, hostVars, Fresh, UpIsOwned, TargetTypeOK
<1>6. ASSUME NEW s \in Starts, TargetUp(s) PROVE Fresh' /\ UpIsOwned'
  <2>1. Fresh'
    BY <1>6, <1>t DEF TargetUp, ProbeUp, hostVars, postVars, Fresh, TargetTypeOK
  <2>2. UpIsOwned'
    BY <1>6, <1>t DEF TargetUp, ProbeUp, setState, UpIsOwned, TargetTypeOK
  <2> QED BY <2>1, <2>2
<1>7. ASSUME NEW s \in Starts, TargetExits(s) PROVE Fresh' /\ UpIsOwned'
  <2>1. Fresh'
    BY <1>7, <1>t DEF TargetExits, Exits, hostVars, postVars, Fresh, TargetTypeOK
  <2>2. home[s] \in Runners
    BY <1>7, <1>t DEF TargetExits, Exits, Family, TargetTypeOK
  <2>3. UpIsOwned'
    BY <1>7, <1>t, <2>2
    DEF TargetExits, Exits, setState, Down, UpIsOwned, TargetTypeOK
  <2> QED BY <2>1, <2>3
<1>8. ASSUME NEW s \in Starts, TargetTimesOut(s) PROVE Fresh' /\ UpIsOwned'
  <2>1. /\ home[s] \in Runners /\ stopping[s] = None /\ s \in Stoppers
        /\ StopClaims(s, home[s])
    BY <1>8, <1>t
    DEF TargetTimesOut, ProbeTimesOut, Family, Fresh, TargetTypeOK
  <2>2. UpIsOwned' /\ \A x \in Stoppers \ {s} : stopping'[x] = stopping[x]
    BY <1>t, <2>1, OwnedStops
  <2> QED
    BY <1>8, <1>t, <2>2
    DEF TargetTimesOut, ProbeTimesOut, hostVars, postVars, Fresh, TargetTypeOK
<1>9. ASSUME NEW o \in Stoppers, StopReturns(o) PROVE Fresh' /\ UpIsOwned'
  <2>1. Fresh'
    BY <1>9, <1>t DEF StopReturns, StopEnds, hostVars, postVars, Fresh,
                      TargetTypeOK
  <2>2. home[stopping[o]] \in Runners
    BY <1>9, <1>t DEF StopReturns, StopEnds, Family, TargetTypeOK
  <2>3. ASSUME NEW r \in Runners, NEW s \in Starts,
               state'[r] = [status |-> "up", app |-> s]
        PROVE  child'[r] = s \/ \E x \in Stoppers : stopping'[x] = s
    <3>1. r # home[stopping[o]] /\ state[r] = [status |-> "up", app |-> s]
      BY <1>9, <1>t, <2>2, <2>3
      DEF StopReturns, StopEnds, setState, Down, TargetTypeOK
    <3>2. stopping[o] # s
      BY <3>1, <1>t DEF Family
    <3> QED
      BY <1>9, <1>t, <3>1, <3>2
      DEF StopReturns, StopEnds, UpIsOwned, TargetTypeOK
  <2> QED BY <2>1, <2>3 DEF UpIsOwned
<1>10. ASSUME NEW q \in Requests, OldBenchClosed(q) PROVE Fresh' /\ UpIsOwned'
  BY <1>10, <1>2, <1>t DEF OldBenchClosed, postVars, HostTypeOK
<1>11. ASSUME NEW c \in Clamps,
              BenchCreated(c) \/ CreateFails(c) \/ Discarded(c)
       PROVE  Fresh' /\ UpIsOwned'
  BY <1>11, <1>2, <1>t
  DEF BenchCreated, Lands, CreateFails, Discarded, postVars, HostTypeOK, Requests
<1>12. ASSUME UNCHANGED vars PROVE Fresh' /\ UpIsOwned'
  BY <1>12, <1>2 DEF vars, hostVars, postVars
<1> QED
  BY <1>1, <1>3, <1>4, <1>5, <1>6, <1>7, <1>8, <1>9, <1>10, <1>11, <1>12
  DEF HostNext

\* A runner never reports as up a process that it has let go, whatever
\* probes, exits, timers, stops, clamps and unclamps overlap (#24).
THEOREM UpAlwaysOwned == HostSpec => []UpIsOwned
<1>1. HostInit => OwnedInv
  BY TypeInit, FamilyInit
  DEF OwnedInv, HostInit, TargetInit, Fresh, UpIsOwned, Down
<1>2. OwnedInv /\ [HostNext]_vars => OwnedInv'
  BY TypeStep, FamilyStep, OwnedStep DEF OwnedInv
<1>3. OwnedInv => UpIsOwned
  BY DEF OwnedInv
<1> QED BY <1>1, <1>2, <1>3, PTL DEF HostSpec

-----------------------------------------------------------------------------
(* One bench, the one asked for last.  From here on no request overtakes a  *)
(* clamp that still closes the bench it replaces.                           *)

\* A request that closes a bench has claimed it; a clamp among them is the
\* newest request, since nothing may overtake it.
ClosingOK ==
  \A q \in Requests : pc[q] = "closing" =>
    /\ old[q] \in Clamps /\ bench[old[q]] \in {"closing", "closed"}
    /\ q \in Clamps => q = asked /\ current = None

\* A bench is where its clamp is.
BenchOK ==
  \A c \in Clamps :
    /\ pc[c] \in {"unused", "closing"} => bench[c] = "none"
    /\ pc[c] = "creating" => bench[c] = "creating"
    /\ pc[c] = "discarding" => bench[c] \in {"closing", "closed"}

\* The number in force is that of the newest request.
NumberOK ==
  /\ asked # None => generation # 0
  /\ own[Boot] = 0
  /\ \A c \in Clamps :
       /\ own[c] <= generation
       /\ own[c] = generation => generation = 0 \/ c = asked
  /\ asked \in Clamps /\ pc[asked] = "creating" => own[asked] = generation

CurrentOK ==
  /\ current # None => pc[current] = "done" /\ runner = current
  /\ asked \in Clamps => pc[asked] \notin {"unused", "discarding"}

HostInv ==
  /\ HostTypeOK /\ ClosingOK /\ BenchOK /\ NumberOK /\ CurrentOK
  /\ OneBenchOpen /\ LastAskedWins

LEMMA HostInvInit == HostInit => HostInv
<1> SUFFICES ASSUME HostInit PROVE HostInv
  OBVIOUS
<1>1. HostTypeOK
  BY TypeInit
<1> QED
  BY <1>1 DEF HostInit, HostInv, ClosingOK, BenchOK, NumberOK, CurrentOK,
              OneBenchOpen, LastAskedWins, Requests

LEMMA HostAsks ==
  ASSUME HostInv, HostTypeOK', ~Overtakes, NEW q \in Requests, Asks(q)
  PROVE  HostInv'
<1> USE DEF HostInv, Asks, closeCurrentBench
<1>t. HostTypeOK /\ generation \in Nat /\ generation' = generation + 1
  BY GenerationNat
<1>n. /\ own[Boot] \in Nat /\ \A c \in Clamps : own[c] \in Nat
      /\ pc \in [Requests -> {"unused", "closing", "creating", "discarding",
                              "done"}]
  BY <1>t DEF HostTypeOK
<1>1. CASE current = None
  <2>1. /\ Goes(q, generation')
        /\ asked' = q /\ current' = None /\ pc[q] = "unused"
    BY <1>1
  <2>2. ClosingOK'
    BY <2>1, <1>1, <1>t DEF ClosingOK, BenchOK, Goes, HostTypeOK, Requests
  <2>3. BenchOK'
    BY <2>1, <1>t DEF BenchOK, Goes, HostTypeOK, Requests
  <2>4. NumberOK'
    <3>1. CASE q \in Clamps
      <4>1. \A c \in Clamps : own'[c] = IF c = q THEN generation' ELSE own[c]
        BY <2>1, <3>1, <1>t DEF Goes, HostTypeOK
      <4>2. own'[Boot] = own[Boot]
        BY <2>1, <3>1, <1>t DEF Goes, HostTypeOK
      <4> QED BY <2>1, <1>t, <1>n, <4>1, <4>2 DEF NumberOK
    <3>2. CASE q \notin Clamps
      BY <2>1, <3>2, <1>t, <1>n DEF NumberOK, Goes
    <3> QED BY <3>1, <3>2
  <2>5. CurrentOK' /\ OneBenchOpen' /\ LastAskedWins'
    BY <2>1, <1>1, <1>t
    DEF CurrentOK, OneBenchOpen, LastAskedWins, Goes, HostTypeOK, Requests
  <2> QED BY <2>2, <2>3, <2>4, <2>5
<1>2. CASE current # None
  <2>1. /\ bench' = [bench EXCEPT ![current] = "closing"]
        /\ pc' = [pc EXCEPT ![q] = "closing"]
        /\ old' = [old EXCEPT ![q] = current]
        /\ own' = own /\ asked' = q /\ current' = None /\ pc[q] = "unused"
        /\ current \in Clamps /\ pc[current] = "done"
    BY <1>2, <1>t DEF HostTypeOK, CurrentOK
  <2>2. ClosingOK'
    BY <2>1, <1>t DEF ClosingOK, HostTypeOK, Requests
  <2>3. BenchOK'
    BY <2>1, <1>t DEF BenchOK, HostTypeOK, Requests
  <2>4. NumberOK'
    BY <2>1, <1>t, <1>n DEF NumberOK
  <2>5. CurrentOK' /\ OneBenchOpen' /\ LastAskedWins'
    BY <2>1, <1>t
    DEF CurrentOK, OneBenchOpen, LastAskedWins, HostTypeOK, Requests
  <2> QED BY <2>2, <2>3, <2>4, <2>5
<1> QED BY <1>1, <1>2

LEMMA HostCloses ==
  ASSUME HostInv, HostTypeOK', NEW q \in Requests, OldBenchClosed(q)
  PROVE  HostInv'
<1> USE DEF HostInv, OldBenchClosed
<1>t. /\ HostTypeOK /\ generation \in Nat
      /\ old[q] \in Clamps /\ bench[old[q]] \in {"closing", "closed"}
  BY GenerationNat DEF ClosingOK
<1>1. CASE q \in Clamps
  <2>1. /\ pc' = [pc EXCEPT ![q] = "creating"]
        /\ own' = [own EXCEPT ![q] = generation]
        /\ bench' = [bench EXCEPT ![old[q]] = "closed", ![q] = "creating"]
        /\ q = asked /\ current = None
    BY <1>1 DEF ClosingOK
  <2>2. ClosingOK' /\ BenchOK'
    BY <2>1, <1>1, <1>t DEF ClosingOK, BenchOK, HostTypeOK, Requests
  <2>3. NumberOK'
    <3>1. \A c \in Clamps : own'[c] = IF c = q THEN generation ELSE own[c]
      BY <2>1, <1>1, <1>t DEF HostTypeOK
    <3>2. own'[Boot] = own[Boot]
      BY <2>1, <1>1, <1>t DEF HostTypeOK
    <3> QED BY <2>1, <1>t, <3>1, <3>2 DEF NumberOK
  <2>4. CurrentOK' /\ OneBenchOpen' /\ LastAskedWins'
    BY <2>1, <1>1, <1>t
    DEF CurrentOK, OneBenchOpen, LastAskedWins, HostTypeOK, Requests
  <2> QED BY <2>2, <2>3, <2>4
<1>2. CASE q \notin Clamps
  <2>1. /\ pc' = [pc EXCEPT ![q] = "done"]
        /\ own' = own
        /\ bench' = [bench EXCEPT ![old[q]] = "closed"]
    BY <1>2
  <2>2. ClosingOK' /\ BenchOK'
    BY <2>1, <1>2, <1>t DEF ClosingOK, BenchOK, HostTypeOK, Requests
  <2>3. NumberOK'
    BY <2>1, <1>2, <1>t DEF NumberOK, HostTypeOK, Requests
  <2>4. CurrentOK' /\ OneBenchOpen' /\ LastAskedWins'
    BY <2>1, <1>2, <1>t
    DEF CurrentOK, OneBenchOpen, LastAskedWins, HostTypeOK, Requests
  <2> QED BY <2>2, <2>3, <2>4
<1> QED BY <1>1, <1>2

LEMMA HostCreates ==
  ASSUME HostInv, HostTypeOK', NEW c \in Clamps,
         BenchCreated(c) \/ CreateFails(c) \/ Discarded(c)
  PROVE  HostInv'
<1> USE DEF HostInv
<1>t. HostTypeOK /\ generation \in Nat
  BY GenerationNat
<1>n. pc[c] = "creating" => generation # 0
  BY <1>t, FS_Subset, FS_EmptySet DEF HostTypeOK, Requests
<1>1. CASE BenchCreated(c) /\ generation = own[c]
  <2>1. Lands(c) /\ c = asked /\ pc[c] = "creating" /\ bench[c] = "creating"
    BY <1>1, <1>n DEF BenchCreated, NumberOK, BenchOK
  <2>2. current = None
    BY <2>1, <1>t DEF CurrentOK, LastAskedWins, HostTypeOK
  <2>3. ClosingOK' /\ BenchOK'
    BY <1>1, <2>1, <2>2, <1>t
    DEF Lands, BenchCreated, ClosingOK, BenchOK, HostTypeOK, Requests
  <2>4. NumberOK'
    BY <1>1, <2>1, <1>t
    DEF Lands, BenchCreated, NumberOK, HostTypeOK, Requests
  <2>5. CurrentOK' /\ OneBenchOpen' /\ LastAskedWins'
    BY <1>1, <2>1, <2>2, <1>t
    DEF Lands, BenchCreated, CurrentOK, OneBenchOpen, LastAskedWins,
        HostTypeOK, Requests
  <2> QED BY <2>3, <2>4, <2>5
<1>2. CASE BenchCreated(c) /\ generation # own[c]
  <2>1. c # asked /\ pc[c] = "creating" /\ bench[c] = "creating"
    BY <1>2 DEF BenchCreated, NumberOK, BenchOK
  <2>2. ClosingOK' /\ BenchOK' /\ NumberOK'
    BY <1>2, <2>1, <1>t
    DEF BenchCreated, ClosingOK, BenchOK, NumberOK, HostTypeOK, Requests
  <2>3. CurrentOK' /\ OneBenchOpen' /\ LastAskedWins'
    BY <1>2, <2>1, <1>t
    DEF BenchCreated, CurrentOK, OneBenchOpen, LastAskedWins, HostTypeOK,
        Requests
  <2> QED BY <2>2, <2>3
<1>3. CASE CreateFails(c)
  <2>1. pc[c] = "creating" /\ bench[c] = "creating"
    BY <1>3 DEF CreateFails, BenchOK
  <2>2. ClosingOK' /\ BenchOK' /\ NumberOK'
    BY <1>3, <2>1, <1>t
    DEF CreateFails, ClosingOK, BenchOK, NumberOK, HostTypeOK, Requests
  <2>3. CurrentOK' /\ OneBenchOpen' /\ LastAskedWins'
    BY <1>3, <2>1, <1>t
    DEF CreateFails, CurrentOK, OneBenchOpen, LastAskedWins, HostTypeOK,
        Requests
  <2> QED BY <2>2, <2>3
<1>4. CASE Discarded(c)
  <2>1. c # asked /\ pc[c] = "discarding" /\ bench[c] \in {"closing", "closed"}
    BY <1>4 DEF Discarded, CurrentOK, BenchOK
  <2>2. ClosingOK' /\ BenchOK' /\ NumberOK'
    BY <1>4, <2>1, <1>t
    DEF Discarded, ClosingOK, BenchOK, NumberOK, HostTypeOK, Requests
  <2>3. CurrentOK' /\ OneBenchOpen' /\ LastAskedWins'
    BY <1>4, <2>1, <1>t
    DEF Discarded, CurrentOK, OneBenchOpen, LastAskedWins, HostTypeOK,
        Requests
  <2> QED BY <2>2, <2>3
<1> QED BY <1>1, <1>2, <1>3, <1>4

LEMMA HostInvStep ==
  ~Overtakes /\ HostInv /\ HostTypeOK' /\ [HostNext]_vars => HostInv'
<1> SUFFICES ASSUME ~Overtakes, HostInv, HostTypeOK', [HostNext]_vars
             PROVE  HostInv'
  OBVIOUS
<1>1. ASSUME UNCHANGED hostVars PROVE HostInv'
  BY <1>1 DEF hostVars, HostInv, ClosingOK, BenchOK, NumberOK, CurrentOK,
              OneBenchOpen, LastAskedWins
<1> QED
  BY <1>1, HostAsks, HostCloses, HostCreates
  DEF HostNext, vars, TargetStart, TargetUp, TargetExits, TargetTimesOut,
      TargetStop, TargetUrl, StopReturns

\* When no request overtakes a clamp that is still closing the bench it
\* replaces, there is one open bench at most and the routes serve it.
THEOREM OneBenchProved == ~Overtakes => (HostSpec => []OneBenchOpen)
<1> SUFFICES ASSUME ~Overtakes PROVE HostSpec => []OneBenchOpen
  OBVIOUS
<1>1. HostInit => HostInv /\ Family
  BY HostInvInit, FamilyInit
<1>2. HostInv /\ Family /\ [HostNext]_vars => HostInv' /\ Family'
  BY TypeStep, FamilyStep, HostInvStep DEF HostInv
<1>3. HostInv => OneBenchOpen
  BY DEF HostInv
<1> QED BY <1>1, <1>2, <1>3, PTL DEF HostSpec

\* Under the same condition the host ends up with what it was asked for last.
THEOREM LastAskedProved == ~Overtakes => (HostSpec => []LastAskedWins)
<1> SUFFICES ASSUME ~Overtakes PROVE HostSpec => []LastAskedWins
  OBVIOUS
<1>1. HostInit => HostInv /\ Family
  BY HostInvInit, FamilyInit
<1>2. HostInv /\ Family /\ [HostNext]_vars => HostInv' /\ Family'
  BY TypeStep, FamilyStep, HostInvStep DEF HostInv
<1>3. HostInv => LastAskedWins
  BY DEF HostInv
<1> QED BY <1>1, <1>2, <1>3, PTL DEF HostSpec

-----------------------------------------------------------------------------
(* The app and the plate of the clamped bench                               *)

\* A claim tells the one app of its runner to end and starts none.
LEMMA ClaimKills ==
  ASSUME TargetTypeOK, Family, NEW o \in Stoppers, NEW r \in Runners,
         StopClaims(o, r), NEW s \in Starts, proc'[s] = "alive"
  PROVE  /\ proc[s] = "alive" /\ child[r] # s
         /\ home[s] # r => child'[home[s]] = child[home[s]]
BY DEF StopClaims, Family, TargetTypeOK

LEMMA NoOrphanStep ==
  ASSUME HostInv, Family, NoOrphanTarget, [HostNext]_vars
  PROVE  NoOrphanTarget'
<1>t. /\ HostTypeOK /\ TargetTypeOK /\ runner \in Runners
  BY DEF HostInv, HostTypeOK
<1> SUFFICES ASSUME NEW s \in Starts, proc'[s] = "alive"
             PROVE  child'[home'[s]] = s /\ runner' = home'[s]
                      /\ current' = home'[s]
  BY DEF NoOrphanTarget
<1> DEFINE Kept == child'[home'[s]] = s /\ runner' = home'[s]
                     /\ current' = home'[s]
<1>1. ASSUME proc[s] = "alive"
      PROVE  child[home[s]] = s /\ runner = home[s] /\ current = home[s]
  BY <1>1 DEF NoOrphanTarget
<1>2. ASSUME NEW q \in Requests, Asks(q) PROVE Kept
  <2>1. StopClaims(q, runner) /\ q \in Stoppers
    BY <1>2 DEF Asks, closeCurrentBench, Requests
  <2> QED BY <1>1, <1>t, <2>1, ClaimKills
<1>3. ASSUME UNCHANGED <<targetVars, current, runner>> PROVE Kept
  BY <1>1, <1>3 DEF targetVars
<1>4. ASSUME NEW c \in Clamps, BenchCreated(c), generation = own[c] PROVE Kept
  <2>1. pc[c] = "creating" /\ proc[s] = "alive"
    BY <1>4 DEF BenchCreated, targetVars
  <2>2. generation # 0
    <3>1. {q \in Requests : pc[q] # "unused"} # {}
      BY <2>1 DEF Requests
    <3> QED BY <1>t, <3>1, FS_Subset, FS_EmptySet DEF HostTypeOK
  <2>3. c = asked
    BY <1>4, <2>2 DEF HostInv, NumberOK
  <2>4. current # None
    BY <1>1, <1>t, <2>1 DEF TargetTypeOK
  <2> QED
    BY <2>1, <2>3, <2>4 DEF HostInv, CurrentOK, LastAskedWins
<1>5. ASSUME NEW x \in Starts, TargetStart(x) PROVE Kept
  <2>1. Start(x, runner) /\ UNCHANGED <<runner, current>> /\ runner = current
    BY <1>5 DEF TargetStart, hostVars, HostInv, CurrentOK
  <2>2. CASE s = x
    BY <2>1, <2>2, <1>1, <1>t
    DEF Start, Spawns, SpawnThrows, Family, TargetTypeOK
  <2>3. CASE s # x
    BY <2>1, <2>3, <1>1, <1>t
    DEF Start, Spawns, SpawnThrows, Family, TargetTypeOK
  <2> QED BY <2>2, <2>3
<1>6. ASSUME NEW o \in Stops, TargetStop(o) PROVE Kept
  BY <1>1, <1>6, <1>t, ClaimKills DEF TargetStop, hostVars
<1>7. ASSUME NEW x \in Starts, TargetTimesOut(x) PROVE Kept
  <2>1. home[x] \in Runners /\ StopClaims(x, home[x])
    BY <1>7, <1>t DEF TargetTimesOut, ProbeTimesOut, Family, TargetTypeOK
  <2> QED
    BY <1>1, <1>7, <1>t, <2>1, ClaimKills
    DEF TargetTimesOut, ProbeTimesOut, hostVars
<1>8. ASSUME NEW x \in Starts, TargetExits(x) PROVE Kept
  BY <1>1, <1>8, <1>t DEF TargetExits, Exits, hostVars, Family, TargetTypeOK
<1>9. ASSUME UNCHANGED <<child, home, proc, current, runner>> PROVE Kept
  BY <1>1, <1>9
<1>10. ASSUME NEW x \in Starts, TargetUp(x) PROVE Kept
  BY <1>9, <1>10 DEF TargetUp, ProbeUp, hostVars
<1>11. ASSUME NEW u \in Urls, TargetUrl(u) PROVE Kept
  BY <1>9, <1>11 DEF TargetUrl, setUrl, hostVars
<1>12. ASSUME NEW o \in Stoppers, StopReturns(o) PROVE Kept
  BY <1>9, <1>12 DEF StopReturns, StopEnds, hostVars
<1>13. ASSUME NEW c \in Clamps, BenchCreated(c) PROVE Kept
  BY <1>3, <1>4, <1>13 DEF BenchCreated
<1> QED
  BY <1>2, <1>3, <1>5, <1>6, <1>7, <1>8, <1>10, <1>11, <1>12, <1>13
  DEF HostNext, vars, hostVars, OldBenchClosed, CreateFails, Discarded

\* A runner whose number is in force while a bench is clamped is that bench's.
LEMMA OwnNumber ==
  ASSUME HostInv, NEW r \in Runners, own[r] = generation, current # None
  PROVE  r = current
<1>1. asked = current /\ current \in Clamps
  BY DEF HostInv, LastAskedWins, HostTypeOK
<1>2. generation # 0
  BY <1>1 DEF HostInv, NumberOK
<1> QED BY <1>1, <1>2 DEF HostInv, NumberOK

\* A URL on a plate has been posted.
Posted == \A c \in Clamps : plate[c] \in Urls => plate[c] \in used

PlateOK == PlateShowsOwnApp /\ Posted

\* A runner that does not newly report an app leaves the plates alone.
LEMMA PlateKept ==
  ASSUME HostInv, Family, PlateOK, NEW r,
         onStateChange(r),
         state'[r] = state[r] \/ state'[r].status # "up",
         \A x \in Starts : home[x] # None => home'[x] = home[x],
         UNCHANGED given, used \subseteq used'
  PROVE  PlateOK'
<1>1. plate' = plate
  BY DEF onStateChange
<1> QED BY <1>1 DEF PlateOK, PlateShowsOwnApp, Posted, HostInv, HostTypeOK

LEMMA PlateStep ==
  ASSUME HostInv, Family, PlateOK, [HostNext]_vars
  PROVE  PlateOK'
<1>t. /\ HostTypeOK /\ TargetTypeOK /\ runner \in Runners
  BY DEF HostInv, HostTypeOK
<1>1. ASSUME UNCHANGED <<home, plate, postVars>> PROVE PlateOK'
  BY <1>1 DEF postVars, PlateOK, PlateShowsOwnApp, Posted
<1>2. ASSUME NEW s \in Starts, TargetStart(s) PROVE PlateOK'
  <2>1. state'[runner] = state[runner] \/ state'[runner].status # "up"
    BY <1>2, <1>t
    DEF TargetStart, Start, Spawns, SpawnThrows, setState, Down, TargetTypeOK
  <2>2. \A x \in Starts : home[x] # None => home'[x] = home[x]
    BY <1>2, <1>t DEF TargetStart, Start, Family, TargetTypeOK
  <2> QED BY <1>2, <2>1, <2>2, PlateKept DEF TargetStart, postVars
<1>3. ASSUME NEW o \in Stops, TargetStop(o) PROVE PlateOK'
  <2>1. state'[runner] = state[runner] \/ state'[runner].status # "up"
    BY <1>3, <1>t DEF TargetStop, StopClaims, setState, Down, TargetTypeOK
  <2> QED BY <1>3, <2>1, PlateKept DEF TargetStop
<1>4. ASSUME NEW s \in Starts, TargetExits(s) PROVE PlateOK'
  <2>1. state'[home[s]] = state[home[s]] \/ state'[home[s]].status # "up"
    BY <1>4, <1>t DEF TargetExits, Exits, setState, Down, Family, TargetTypeOK
  <2> QED BY <1>4, <2>1, PlateKept DEF TargetExits, Exits, postVars
<1>5. ASSUME NEW s \in Starts, TargetTimesOut(s) PROVE PlateOK'
  <2>1. state'[home[s]] = state[home[s]] \/ state'[home[s]].status # "up"
    BY <1>5, <1>t
    DEF TargetTimesOut, ProbeTimesOut, StopClaims, setState, Down, Family,
        TargetTypeOK
  <2> QED BY <1>5, <2>1, PlateKept DEF TargetTimesOut, ProbeTimesOut, postVars
<1>6. ASSUME NEW o \in Stoppers, StopReturns(o) PROVE PlateOK'
  <2> DEFINE r == home[stopping[o]]
  <2>1. state'[r] = state[r] \/ state'[r].status # "up"
    BY <1>6, <1>t
    DEF StopReturns, StopEnds, setState, Down, Family, TargetTypeOK
  <2> QED BY <1>6, <2>1, PlateKept DEF StopReturns, StopEnds, postVars
<1>7. ASSUME NEW s \in Starts, TargetUp(s) PROVE PlateOK'
  <2>1. home[s] \in Runners
    BY <1>7, <1>t DEF TargetUp, ProbeUp, Family, TargetTypeOK
  <2>2. \/ state' = state
        \/ state'[home[s]] = [status |-> "up", app |-> s]
    BY <1>7, <1>t, <2>1 DEF TargetUp, ProbeUp, setState, TargetTypeOK
  <2>3. CASE plate' = plate
    BY <1>1, <1>7, <2>3 DEF TargetUp, ProbeUp
  <2>4. CASE plate' # plate
    <3>1. /\ own[home[s]] = generation /\ current # None
          /\ state'[home[s]] # state[home[s]]
          /\ plate' = [plate EXCEPT ![current] = state'[home[s]].app]
      BY <1>7, <2>4 DEF TargetUp, onStateChange
    <3>2. state'[home[s]].app = s
      <4>1. state'[home[s]] = [status |-> "up", app |-> s]
        BY <2>2, <3>1
      <4> QED BY <4>1
    <3>3. home[s] = current
      BY <2>1, <3>1, OwnNumber
    <3> QED
      BY <1>7, <1>t, <3>1, <3>2, <3>3
      DEF TargetUp, ProbeUp, postVars, PlateOK, PlateShowsOwnApp, Posted,
          HostTypeOK
  <2> QED BY <2>3, <2>4
<1>8. ASSUME NEW u \in Urls, TargetUrl(u) PROVE PlateOK'
  <2>1. /\ \A c \in Clamps : plate[c] # u
        /\ UNCHANGED home /\ used' = used \cup {u}
        /\ given' = [given EXCEPT ![u] = current]
    BY <1>8 DEF TargetUrl, setUrl, PlateOK, Posted
  <2>2. state'[runner] = [status |-> "up", app |-> u]
    BY <1>8, <1>t DEF TargetUrl, setUrl, setState, TargetTypeOK
  <2>3. \/ plate' = plate
        \/ current # None /\ plate' = [plate EXCEPT ![current] = u]
    BY <1>8, <2>2 DEF TargetUrl, onStateChange
  <2> QED
    BY <1>t, <2>1, <2>3
    DEF PlateOK, PlateShowsOwnApp, Posted, HostTypeOK
<1> QED
  BY <1>1, <1>2, <1>3, <1>4, <1>5, <1>6, <1>7, <1>8
  DEF HostNext, vars, targetVars, Asks, OldBenchClosed, BenchCreated,
      CreateFails, Discarded

\* Under the same condition no app runs on without the bench it was started
\* for.
THEOREM NoOrphanProved == ~Overtakes => (HostSpec => []NoOrphanTarget)
<1> SUFFICES ASSUME ~Overtakes PROVE HostSpec => []NoOrphanTarget
  OBVIOUS
<1>1. HostInit => HostInv /\ Family /\ NoOrphanTarget
  BY HostInvInit, FamilyInit DEF HostInit, TargetInit, NoOrphanTarget
<1>2. HostInv /\ Family /\ NoOrphanTarget /\ [HostNext]_vars =>
        HostInv' /\ Family' /\ NoOrphanTarget'
  BY TypeStep, FamilyStep, HostInvStep, NoOrphanStep DEF HostInv
<1> QED BY <1>1, <1>2, PTL DEF HostSpec

\* Under the same condition a plate never shows the app of another bench (#24).
THEOREM PlateProved == ~Overtakes => (HostSpec => []PlateShowsOwnApp)
<1> SUFFICES ASSUME ~Overtakes PROVE HostSpec => []PlateShowsOwnApp
  OBVIOUS
<1>1. HostInit => HostInv /\ Family /\ PlateOK
  BY HostInvInit, FamilyInit
  DEF HostInit, PlateOK, PlateShowsOwnApp, Posted
<1>2. HostInv /\ Family /\ PlateOK /\ [HostNext]_vars =>
        HostInv' /\ Family' /\ PlateOK'
  BY TypeStep, FamilyStep, HostInvStep, PlateStep DEF HostInv
<1>3. PlateOK => PlateShowsOwnApp
  BY DEF PlateOK
<1> QED BY <1>1, <1>2, <1>3, PTL DEF HostSpec
=============================================================================
