------------------------- MODULE PromptServiceProofs -------------------------
(***************************************************************************)
(* Proofs about PromptService for any number of prompts, builds, requests  *)
(* and agents, with failing writes and restarts at any moment; then what   *)
(* it keeps for a client that waits for one answer before it asks again.   *)
(***************************************************************************)
EXTENDS PromptService, FiniteSetTheorems, TLAPS

Calls == [pc : PCs, op : Ops \cup {None}, prompt : Prompts \cup {None},
          next : PromptRecords \cup {None}]

\* What the call c of task w knows, given the runner's books.  A build that
\* was not started is unknown to the runner; one that runs has no outcome yet;
\* one that is being landed has.
CallOK(w, c, po, oc) ==
  /\ c.pc # "idle" => c.prompt \in Prompts /\ c.next \in PromptRecords
  /\ c.pc = "idle" => c = Idle
  /\ w \in Requests => c.pc # "running" /\ c.op \in {"save", None}
  /\ w \in Builds /\ c.pc # "idle" =>
       \/ c.op = "build" /\ c.pc # "running" /\ po[w] = None /\ oc[w] = None
       \/ c.op = "build" /\ c.pc = "running" /\ po[w] = c.prompt /\ oc[w] = None
       \/ /\ c.op \in {"finish", "refinish"} /\ c.pc # "running"
          /\ po[w] = c.prompt /\ oc[w] # None

Shape ==
  /\ \A w \in Tasks : CallOK(w, task[w], promptOf, outcome)
  /\ \A b \in Builds : promptOf[b] = None => outcome[b] = None

ServiceInv == ServiceTypeOK /\ Shape /\ RecordsConsistent

-----------------------------------------------------------------------------
(* The ladder.                                                              *)

LEMMA Transition ==
  ASSUME NEW s \in PromptStates, NEW e \in PromptEvents, NEW t \in PromptStates,
         <<s, e, t>> \in Moves,
         \A u \in PromptStates : <<s, e, u>> \in Moves => u = t
  PROVE  promptTransition(s, e) = t
BY DEF promptTransition

LEMMA NoTransition ==
  ASSUME NEW s, NEW e, \A t \in PromptStates : <<s, e, t>> \notin Moves
  PROVE  promptTransition(s, e) = Illegal
BY DEF promptTransition

LEMMA ReadyMove ==
  ASSUME NEW s \in PromptStates, promptTransition(s, "ready") # Illegal
  PROVE  s = "draft" /\ promptTransition(s, "ready") = "ready"
<1>1. s = "draft"
  BY NoTransition DEF Moves, PromptStates
<1>2. promptTransition("draft", "ready") = "ready"
  BY Transition DEF Moves, PromptStates, PromptEvents
<1> QED BY <1>1, <1>2

LEMMA BuildMove ==
  ASSUME NEW s \in PromptStates, promptTransition(s, "build") # Illegal
  PROVE  s = "ready" /\ promptTransition(s, "build") = "building"
<1>1. s = "ready"
  BY NoTransition DEF Moves, PromptStates
<1>2. promptTransition("ready", "build") = "building"
  BY Transition DEF Moves, PromptStates, PromptEvents
<1> QED BY <1>1, <1>2

LEMMA ScrapMove ==
  ASSUME NEW s \in PromptStates, promptTransition(s, "scrap") # Illegal
  PROVE  s # "scrapped" /\ promptTransition(s, "scrap") = "scrapped"
<1>1. s # "scrapped"
  BY NoTransition DEF Moves, PromptStates
<1>2. promptTransition(s, "scrap") = "scrapped"
  BY <1>1, Transition DEF Moves, PromptStates, PromptEvents
<1> QED BY <1>1, <1>2

LEMMA LandMoves ==
  /\ promptTransition("building", "built") = "built"
  /\ promptTransition("building", "fail") = "ready"
BY Transition DEF Moves, PromptStates, PromptEvents

-----------------------------------------------------------------------------
(* RecordConsistent, with the runner's books as arguments: the same facts   *)
(* are needed of the books before and after a step.                         *)

Sound(po, oc, p, rec) ==
  /\ rec.state = "scrapped" <=> rec.scrappedFrom # None
  /\ rec.scrappedFrom # "scrapped"
  /\ \A r \in rec.builds : r.id \in Builds =>
       /\ po[r.id] = p
       /\ oc[r.id] # None
       /\ r.exit \in {oc[r.id].exit, "null"}
  /\ "built" \in {rec.state, rec.scrappedFrom} =>
       \/ External \in rec.builds
       \/ \E r \in rec.builds : r.id \in Builds /\ Success(oc[r.id])

\* Consistency is about settled builds only, and those stay as they are.
LEMMA SoundStable ==
  ASSUME NEW po, NEW oc, NEW po2, NEW oc2, NEW p, NEW rec,
         \A b \in Builds : oc[b] # None => oc2[b] = oc[b] /\ po2[b] = po[b],
         Sound(po, oc, p, rec)
  PROVE  Sound(po2, oc2, p, rec)
<1>1. \A r \in rec.builds : r.id \in Builds =>
        oc2[r.id] = oc[r.id] /\ po2[r.id] = po[r.id]
  BY DEF Sound
<1> QED BY <1>1 DEF Sound

-----------------------------------------------------------------------------
LEMMA IdleCall == Idle \in Calls /\ Idle.next = None /\ Idle.pc = "idle"
                  /\ Idle.op = None
BY DEF Idle, Call, Calls, PCs

LEMMA CallFields ==
  ASSUME NEW pc \in PCs, NEW op \in Ops, NEW p \in Prompts,
         NEW next \in PromptRecords
  PROVE  /\ Call(pc, op, p, next) \in Calls
         /\ Call(pc, op, p, next).pc = pc
         /\ Call(pc, op, p, next).op = op
         /\ Call(pc, op, p, next).prompt = p
         /\ Call(pc, op, p, next).next = next
BY DEF Call, Calls

\* The invariant with RecordConsistent spelled as Sound.
LEMMA InvSpelled ==
  ServiceInv <=>
    /\ mem \in [Procs -> [Prompts -> PromptRecords]]
    /\ disk \in [Prompts -> PromptRecords]
    /\ task \in [Tasks -> Calls]
    /\ current \in Builds \cup {None}
    /\ promptOf \in [Builds -> Prompts \cup {None}]
    /\ outcome \in [Builds -> Outcomes \cup {None}]
    /\ crossed \subseteq Prompts
    /\ Shape
    /\ \A p \in Prompts :
         /\ Sound(promptOf, outcome, p, disk[p])
         /\ \A proc \in Procs : Sound(promptOf, outcome, p, mem[proc][p])
    /\ \A w \in Tasks : task[w].next # None =>
         Sound(promptOf, outcome, task[w].prompt, task[w].next)
BY DEF ServiceInv, ServiceTypeOK, RecordsConsistent, RecordConsistent, Sound, Calls

\* The shape of every step but the restarts: one call is replaced, the build
\* it stands for may begin or settle, and what reaches disk or index was
\* consistent before the step.
LEMMA CallStep ==
  ASSUME ServiceInv, NEW w \in Tasks, NEW c \in Calls,
         task' = [task EXCEPT ![w] = c],
         mem' \in [Procs -> [Prompts -> PromptRecords]],
         disk' \in [Prompts -> PromptRecords],
         \A p \in Prompts :
           /\ Sound(promptOf, outcome, p, disk'[p])
           /\ \A proc \in Procs : Sound(promptOf, outcome, p, mem'[proc][p]),
         current' \in Builds \cup {None}, crossed' \subseteq Prompts,
         promptOf' \in [Builds -> Prompts \cup {None}],
         outcome' \in [Builds -> Outcomes \cup {None}],
         \A b \in Builds : b # w => promptOf'[b] = promptOf[b] /\ outcome'[b] = outcome[b],
         \A b \in Builds : outcome[b] # None => outcome'[b] = outcome[b] /\ promptOf'[b] = promptOf[b],
         w \in Builds => (promptOf'[w] = None => outcome'[w] = None),
         CallOK(w, c, promptOf', outcome'),
         c.next # None => Sound(promptOf', outcome', c.prompt, c.next)
  PROVE  ServiceInv'
<1> DEFINE Still(p, rec) == Sound(promptOf, outcome, p, rec) => Sound(promptOf', outcome', p, rec)
<1>1. \A p, rec : Still(p, rec)
  BY SoundStable
<1>2. task' \in [Tasks -> Calls] /\ task'[w] = c
      /\ \A v \in Tasks : v # w => task'[v] = task[v]
  BY InvSpelled
<1>3. Shape'
  <2>1. ASSUME NEW v \in Tasks, v # w
        PROVE  CallOK(v, task'[v], promptOf', outcome')
    BY <2>1, <1>2, InvSpelled DEF Shape, CallOK
  <2> QED BY <2>1, <1>2, InvSpelled DEF Shape
<1>4. \A v \in Tasks : task'[v].next # None =>
        Sound(promptOf', outcome', task'[v].prompt, task'[v].next)
  BY <1>1, <1>2, InvSpelled
<1>5. \A p \in Prompts :
        /\ Sound(promptOf', outcome', p, disk'[p])
        /\ \A proc \in Procs : Sound(promptOf', outcome', p, mem'[proc][p])
  BY <1>1, InvSpelled
<1> QED BY <1>2, <1>3, <1>4, <1>5, InvSpelled
           DEF ServiceInv, ServiceTypeOK, RecordsConsistent, RecordConsistent, Sound, Calls

\* The same when neither the runner nor any stored copy is touched.
LEMMA OnlyCallStep ==
  ASSUME ServiceInv, NEW w \in Tasks, NEW c \in Calls,
         task' = [task EXCEPT ![w] = c], UNCHANGED <<mem, disk, crossed, slotVars>>,
         CallOK(w, c, promptOf, outcome),
         c.next # None => Sound(promptOf, outcome, c.prompt, c.next)
  PROVE  ServiceInv'
<1>1. promptOf' = promptOf /\ outcome' = outcome /\ current' = current
      /\ mem' = mem /\ disk' = disk /\ crossed' = crossed
  BY DEF slotVars
<1> QED BY <1>1, InvSpelled, CallStep DEF Shape

\* A request is accepted with a consistent next prompt.
LEMMA AcceptStep ==
  ASSUME ServiceInv, NEW w \in Tasks, NEW p \in Prompts,
         NEW pc \in {"docs", "probe", "write"}, NEW op \in {"save", "build"},
         NEW next \in PromptRecords,
         Accept(w, pc, op, p, next),
         w \in Requests => op = "save",
         w \in Builds => op = "build" /\ promptOf[w] = None,
         Sound(promptOf, outcome, p, next)
  PROVE  ServiceInv'
<1> DEFINE c == Call(pc, op, p, next)
<1>1. /\ c \in Calls /\ c.pc = pc /\ c.op = op /\ c.prompt = p /\ c.next = next
  BY CallFields DEF PCs, Ops
<1>2. CallOK(w, c, promptOf, outcome)
  BY <1>1, TaskAssumption DEF CallOK, ServiceInv, Shape, Tasks
<1> QED BY <1>1, <1>2, OnlyCallStep DEF Accept

-----------------------------------------------------------------------------
\* What a process loads at its start has the right type and is consistent.
LEMMA LoadedOK ==
  ASSUME disk \in [Prompts -> PromptRecords], NEW po, NEW oc,
         \A p \in Prompts : Sound(po, oc, p, disk[p])
  PROVE  /\ Loaded \in [Prompts -> PromptRecords]
         /\ \A p \in Prompts : Sound(po, oc, p, Loaded[p])
<1>1. ASSUME NEW p \in Prompts
      PROVE  /\ Parsed(disk[p]) \in PromptRecords
             /\ Parsed(disk[p]).state = disk[p].state
             /\ Parsed(disk[p]).builds = disk[p].builds
             /\ Parsed(disk[p]).scrappedFrom = disk[p].scrappedFrom
  BY TaskAssumption DEF Parsed, PromptRecords
<1>2. ASSUME NEW p \in Prompts
      PROVE  Sound(po, oc, p, Parsed(disk[p]))
  BY <1>1 DEF Sound
<1> QED BY <1>1, <1>2 DEF Loaded

LEMMA InitServiceInv == ServiceInit => ServiceInv
<1> SUFFICES ASSUME ServiceInit PROVE ServiceInv
  OBVIOUS
<1>1. ASSUME NEW t \in Texts
      PROVE  /\ Created(t) \in PromptRecords
             /\ \A p : Sound(promptOf, outcome, p, Created(t))
  BY NoneIsNew DEF Created, PromptRecords, PromptStates, Sound
<1>2. disk \in [Prompts -> PromptRecords]
      /\ \A p \in Prompts : Sound(promptOf, outcome, p, disk[p])
  BY <1>1 DEF ServiceInit
<1>3. mem \in [Procs -> [Prompts -> PromptRecords]]
      /\ \A p \in Prompts, proc \in Procs : Sound(promptOf, outcome, p, mem[proc][p])
  BY <1>2, LoadedOK DEF ServiceInit
<1>4. task \in [Tasks -> Calls] /\ \A w \in Tasks : task[w] = Idle
  BY IdleCall DEF ServiceInit
<1>5. Shape
  BY <1>4, IdleCall DEF Shape, CallOK, ServiceInit, SlotInit
<1> QED BY <1>2, <1>3, <1>4, <1>5, IdleCall, InvSpelled DEF ServiceInit, SlotInit

\* What a request computes from a consistent prompt is consistent.
LEMMA RequestStep ==
  ASSUME ServiceInv, NEW r \in BenchRequests, NEW p \in Prompts, Request(r, p)
  PROVE  ServiceInv'
<1> DEFINE rec == mem["bench"][p]
<1>0. rec \in PromptRecords /\ Sound(promptOf, outcome, p, rec)
  BY InvSpelled DEF Procs
<1>a. r \in Tasks /\ r \in Requests /\ r \notin Builds
  BY TaskAssumption DEF Tasks, Requests
<1> USE NoneIsNew
<1>1. ASSUME NEW t \in Texts, Edit(r, p, t)
      PROVE  ServiceInv'
  <2>1. [rec EXCEPT !.text = t] \in PromptRecords
        /\ Sound(promptOf, outcome, p, [rec EXCEPT !.text = t])
    BY <1>0 DEF PromptRecords, Sound
  <2> QED BY <1>1, <1>a, <2>1, AcceptStep DEF Edit
<1>2. CASE Ready(r, p)
  <2>1. rec.state = "draft" /\ promptTransition(rec.state, "ready") = "ready"
    BY <1>0, <1>2, ReadyMove DEF Ready, PromptRecords
  <2>2. [rec EXCEPT !.state = "ready"] \in PromptRecords
        /\ Sound(promptOf, outcome, p, [rec EXCEPT !.state = "ready"])
    BY <1>0, <2>1 DEF PromptRecords, Sound, PromptStates
  <2> QED BY <1>2, <1>a, <2>1, <2>2, AcceptStep DEF Ready
<1>3. CASE Scrap(r, p)
  <2> DEFINE next == [rec EXCEPT !.state = "scrapped", !.scrappedFrom = rec.state]
  <2>1. rec.state # "scrapped" /\ promptTransition(rec.state, "scrap") = "scrapped"
    BY <1>0, <1>3, ScrapMove DEF Scrap, PromptRecords
  <2>2. /\ next \in PromptRecords /\ next.state = "scrapped"
        /\ next.scrappedFrom = rec.state /\ next.builds = rec.builds
    BY <1>0 DEF PromptRecords, PromptStates
  <2>3. Sound(promptOf, outcome, p, next)
    BY <1>0, <2>1, <2>2 DEF Sound, PromptRecords
  <2> QED BY <1>3, <1>a, <2>1, <2>2, <2>3, AcceptStep DEF Scrap
<1>4. CASE Restore(r, p)
  <2> DEFINE st   == restorePromptState(rec.scrappedFrom)
             next == [rec EXCEPT !.state = st, !.scrappedFrom = None]
  <2>1. st \in PromptStates /\ st # "scrapped" /\ (st = "built" => rec.scrappedFrom = "built")
    BY <1>0 DEF restorePromptState, PromptStates
  <2>2. /\ next \in PromptRecords /\ next.state = st
        /\ next.scrappedFrom = None /\ next.builds = rec.builds
    BY <1>0, <2>1 DEF PromptRecords
  <2>3. Sound(promptOf, outcome, p, next)
    <3> HIDE DEF st, next
    <3> QED BY <1>0, <2>1, <2>2 DEF Sound, PromptStates
  <2> QED BY <1>4, <1>a, <2>2, <2>3, AcceptStep DEF Restore
<1> QED BY <1>1, <1>2, <1>3, <1>4 DEF Request

LEMMA MarkStep ==
  ASSUME ServiceInv, NEW r \in McpRequests, NEW p \in Prompts, MarkBuilt(r, p)
  PROVE  ServiceInv'
<1> DEFINE rec  == mem["mcp"][p]
           next == [rec EXCEPT !.state = "built", !.builds = @ \cup {External}]
<1>0. rec \in PromptRecords /\ Sound(promptOf, outcome, p, rec)
  BY InvSpelled DEF Procs
<1>1. External \in BuildRecords /\ External.id \notin Builds
  BY NoneIsNew DEF External, BuildRecords, Codes
<1>2. /\ next \in PromptRecords /\ next.state = "built"
      /\ next.scrappedFrom = rec.scrappedFrom /\ next.builds = rec.builds \cup {External}
  BY <1>0, <1>1 DEF PromptRecords, PromptStates
<1>3. rec.scrappedFrom = None
  BY <1>0 DEF MarkBuilt, Sound
<1>4. Sound(promptOf, outcome, p, next)
  <2> HIDE DEF next
  <2> QED BY <1>0, <1>1, <1>2, <1>3, NoneIsNew DEF Sound, PromptStates
<1>5. r \in Tasks /\ r \in Requests /\ r \notin Builds
  BY TaskAssumption DEF Tasks, Requests
<1> QED BY <1>2, <1>4, <1>5, AcceptStep DEF MarkBuilt

LEMMA BuildAskedStep ==
  ASSUME ServiceInv, NEW b \in Builds, NEW p \in Prompts, Build(b, p)
  PROVE  ServiceInv'
<1> DEFINE rec  == mem["bench"][p]
           next == [rec EXCEPT !.state = "building"]
<1>0. rec \in PromptRecords /\ Sound(promptOf, outcome, p, rec)
  BY InvSpelled DEF Procs
<1>1. rec.state = "ready" /\ promptTransition(rec.state, "build") = "building"
  BY <1>0, BuildMove DEF Build, PromptRecords
<1>2. next \in PromptRecords /\ Sound(promptOf, outcome, p, next)
  BY <1>0, <1>1 DEF PromptRecords, Sound, PromptStates
<1>3. b \in Tasks /\ b \notin Requests /\ promptOf[b] = None
  BY TaskAssumption DEF Tasks, Build
<1> QED BY <1>1, <1>2, <1>3, AcceptStep DEF Build

\* An await of ready() or build() is over.
LEMMA AwaitStep ==
  ASSUME ServiceInv, NEW w \in Tasks,
         DocsLoaded(w) \/ ClaudeFound(w) \/ ClaudeMissing(w)
  PROVE  ServiceInv'
<1>0. task[w] \in Calls /\ CallOK(w, task[w], promptOf, outcome)
      /\ (task[w].next # None => Sound(promptOf, outcome, task[w].prompt, task[w].next))
  BY InvSpelled DEF Shape
<1>1. CASE DocsLoaded(w) \/ ClaudeFound(w)
  <2> DEFINE c == [task[w] EXCEPT !.pc = "write"]
  <2>1. task' = [task EXCEPT ![w] = c] /\ UNCHANGED <<mem, disk, crossed, slotVars>>
    BY <1>1, InvSpelled DEF DocsLoaded, ClaudeFound
  <2>2. /\ c \in Calls /\ c.pc = "write" /\ c.op = task[w].op
        /\ c.prompt = task[w].prompt /\ c.next = task[w].next
    BY <1>0 DEF Calls, PCs
  <2>3. CallOK(w, c, promptOf, outcome)
    <3> HIDE DEF c
    <3> QED BY <1>0, <1>1, <2>2 DEF CallOK, DocsLoaded, ClaudeFound
  <2> QED BY <1>0, <2>1, <2>2, <2>3, OnlyCallStep
<1>2. CASE ClaudeMissing(w)
  <2>1. CallOK(w, Idle, promptOf, outcome)
    BY IdleCall DEF CallOK
  <2> QED BY <1>2, <2>1, IdleCall, OnlyCallStep DEF ClaudeMissing
<1> QED BY <1>1, <1>2

LEMMA RenameStep ==
  ASSUME ServiceInv, NEW w \in Tasks, Renames(w)
  PROVE  ServiceInv'
<1> DEFINE c == [task[w] EXCEPT !.pc = "renamed"]
<1>0. /\ task[w] \in Calls /\ CallOK(w, task[w], promptOf, outcome)
      /\ task[w].prompt \in Prompts /\ task[w].next \in PromptRecords
      /\ Sound(promptOf, outcome, task[w].prompt, task[w].next)
  BY InvSpelled, NoneIsNew DEF Shape, CallOK, Renames
<1>1. /\ c \in Calls /\ c.pc = "renamed" /\ c.op = task[w].op
      /\ c.prompt = task[w].prompt /\ c.next = task[w].next
  BY <1>0 DEF Calls, PCs
<1>2. CallOK(w, c, promptOf, outcome)
  <2> HIDE DEF c
  <2> QED BY <1>0, <1>1 DEF CallOK, Renames
<1>3. /\ disk' \in [Prompts -> PromptRecords]
      /\ \A p \in Prompts : Sound(promptOf, outcome, p, disk'[p])
  BY <1>0, InvSpelled DEF Renames
<1>4. task' = [task EXCEPT ![w] = c] /\ mem' = mem /\ current' = current
      /\ promptOf' = promptOf /\ outcome' = outcome
  BY InvSpelled DEF Renames, slotVars
<1>5. crossed' \subseteq Prompts
  BY <1>0, InvSpelled DEF Renames
<1> HIDE DEF c
<1> QED BY <1>0, <1>1, <1>2, <1>3, <1>4, <1>5, InvSpelled, CallStep DEF Shape

\* What the index becomes when a written prompt is entered.
LEMMA IndexedSound ==
  ASSUME ServiceInv, NEW w \in Tasks, task[w].pc # "idle"
  PROVE  /\ Indexed(w) \in [Procs -> [Prompts -> PromptRecords]]
         /\ \A p \in Prompts, proc \in Procs :
              Sound(promptOf, outcome, p, Indexed(w)[proc][p])
<1>0. /\ task[w].prompt \in Prompts /\ task[w].next \in PromptRecords
      /\ Sound(promptOf, outcome, task[w].prompt, task[w].next)
  BY InvSpelled, NoneIsNew DEF Shape, CallOK
<1>1. Proc(w) \in Procs
  BY DEF Proc, Procs
<1> QED BY <1>0, <1>1, InvSpelled DEF Indexed

LEMMA SavedStep ==
  ASSUME ServiceInv, NEW w \in Tasks, Saved(w)
  PROVE  ServiceInv'
<1>1. CallOK(w, Idle, promptOf, outcome)
  BY IdleCall DEF CallOK
<1>2. current' = current /\ promptOf' = promptOf /\ outcome' = outcome
      /\ disk' = disk /\ mem' = Indexed(w) /\ task[w].pc # "idle" /\ crossed' = crossed
      /\ task' = [task EXCEPT ![w] = Idle]
  BY DEF Saved, slotVars
<1> QED BY <1>1, <1>2, IdleCall, IndexedSound, InvSpelled, CallStep DEF Shape

\* A call that finishBuild leaves behind fits the runner's books.
LEMMA FinishShape ==
  ASSUME NEW b \in Builds, NEW p \in Prompts, NEW op \in {"finish", "refinish"},
         NEW c, NEW po, NEW oc, po[b] = p, oc[b] # None,
         \/ c = Idle
         \/ \E next \in PromptRecords :
              c = Call("write", op, p, next) /\ Sound(po, oc, p, next)
  PROVE  /\ c \in Calls
         /\ CallOK(b, c, po, oc)
         /\ c.next # None => Sound(po, oc, c.prompt, c.next)
<1>1. CASE c = Idle
  BY <1>1, IdleCall DEF CallOK
<1>2. ASSUME NEW next \in PromptRecords, c = Call("write", op, p, next),
             Sound(po, oc, p, next)
      PROVE  /\ c \in Calls
             /\ CallOK(b, c, po, oc)
             /\ c.next # None => Sound(po, oc, c.prompt, c.next)
  <2>1. /\ c \in Calls /\ c.pc = "write" /\ c.op = op
        /\ c.prompt = p /\ c.next = next
    BY <1>2, CallFields DEF PCs, Ops
  <2> QED BY <1>2, <2>1, TaskAssumption DEF CallOK
<1> QED BY <1>1, <1>2

\* What finishBuild computes is consistent once the runner's books know the
\* build: it settled, for this prompt, with the outcome finishBuild was given,
\* unless that is the failure the .catch makes up.
LEMMA FinishCallOK ==
  ASSUME NEW m \in [Procs -> [Prompts -> PromptRecords]], NEW b \in Builds,
         NEW p \in Prompts, NEW op \in {"finish", "refinish"},
         NEW o \in Outcomes, NEW po, NEW oc,
         Sound(po, oc, p, m["bench"][p]),
         po[b] = p, oc[b] # None,
         o = oc[b] \/ o = Failed
  PROVE  LET c == FinishCall(m, b, p, op, o) IN
         /\ c \in Calls
         /\ CallOK(b, c, po, oc)
         /\ c.next # None => Sound(po, oc, c.prompt, c.next)
<1> DEFINE c    == FinishCall(m, b, p, op, o)
           rec  == m["bench"][p]
           next == [rec EXCEPT
                      !.state  = promptTransition("building", IF Success(o) THEN "built" ELSE "fail"),
                      !.builds = @ \cup {[id |-> b, exit |-> o.exit]}]
<1>0. rec \in PromptRecords
  BY DEF Procs
<1>o. o.exit \in {oc[b].exit, "null"} /\ (Success(o) => Success(oc[b]))
  BY DEF Success, Failed
<1>1. rec.state # "building" => c = Idle
  BY DEF FinishCall
<1>2. ASSUME rec.state = "building"
      PROVE  \E n \in PromptRecords :
               c = Call("write", op, p, n) /\ Sound(po, oc, p, n)
  <2>1. c = Call("write", op, p, next)
    BY <1>2 DEF FinishCall
  <2>2. [id |-> b, exit |-> o.exit] \in BuildRecords
    BY DEF BuildRecords, Outcomes
  <2>3. next \in PromptRecords
    BY <1>0, <2>2, LandMoves DEF PromptRecords, PromptStates
  <2>4. next.state = IF Success(o) THEN "built" ELSE "ready"
    BY <1>0, LandMoves DEF PromptRecords
  <2>5. /\ next.builds = rec.builds \cup {[id |-> b, exit |-> o.exit]}
        /\ next.scrappedFrom = rec.scrappedFrom
    BY <1>0 DEF PromptRecords
  <2>6. rec.scrappedFrom = None
    BY <1>2 DEF Sound
  <2>7. Sound(po, oc, p, next)
    <3> HIDE DEF next
    <3>1. "built" \in {next.state, next.scrappedFrom} => Success(o)
      BY <2>4, <2>5, <2>6, NoneIsNew DEF PromptStates
    <3>2. [id |-> b, exit |-> o.exit] \in next.builds
      BY <2>5
    <3>3. \A r \in next.builds : r.id \in Builds =>
            po[r.id] = p /\ oc[r.id] # None /\ r.exit \in {oc[r.id].exit, "null"}
      BY <2>5, <1>o DEF Sound
    <3>4. next.state # "scrapped" /\ next.scrappedFrom = None
      BY <2>4, <2>5, <2>6
    <3> QED BY <1>o, <3>1, <3>2, <3>3, <3>4, NoneIsNew DEF Sound, PromptStates
  <2> QED BY <2>1, <2>3, <2>7
<1>3. \/ c = Idle
      \/ \E n \in PromptRecords :
           c = Call("write", op, p, n) /\ Sound(po, oc, p, n)
  BY <1>1, <1>2
<1> HIDE DEF c
<1>4. /\ c \in Calls
      /\ CallOK(b, c, po, oc)
      /\ c.next # None => Sound(po, oc, c.prompt, c.next)
  BY <1>3, FinishShape
<1> QED BY <1>4 DEF c

LEMMA BuildStartsStep ==
  ASSUME ServiceInv, NEW b \in Builds, BuildStarts(b)
  PROVE  ServiceInv'
<1> DEFINE c == [task[b] EXCEPT !.pc = "running"]
<1>t. b \in Tasks
  BY DEF Tasks
<1>0. /\ task[b] \in Calls /\ CallOK(b, task[b], promptOf, outcome)
      /\ task[b].prompt \in Prompts /\ task[b].next \in PromptRecords
      /\ Sound(promptOf, outcome, task[b].prompt, task[b].next)
  BY <1>t, InvSpelled, NoneIsNew DEF Shape, CallOK, BuildStarts
<1>1. /\ c \in Calls /\ c.pc = "running" /\ c.op = "build"
      /\ c.prompt = task[b].prompt /\ c.next = task[b].next
  BY <1>0 DEF Calls, PCs, BuildStarts
<1>2. promptOf[b] = None /\ outcome[b] = None
  BY <1>0 DEF CallOK, BuildStarts
<1>3. /\ current' \in Builds \cup {None} /\ outcome' = outcome
      /\ promptOf' = [promptOf EXCEPT ![b] = task[b].prompt]
      /\ disk' = disk /\ mem' = Indexed(b) /\ task[b].pc # "idle" /\ crossed' = crossed
      /\ task' = [task EXCEPT ![b] = c]
  BY <1>t, InvSpelled DEF BuildStarts, Begin
<1>4. /\ promptOf' \in [Builds -> Prompts \cup {None}] /\ promptOf'[b] = task[b].prompt
      /\ \A a \in Builds : a # b => promptOf'[a] = promptOf[a]
  BY <1>0, <1>3, InvSpelled
<1>5. CallOK(b, c, promptOf', outcome')
  <2> HIDE DEF c
  <2> QED BY <1>0, <1>1, <1>2, <1>3, <1>4, TaskAssumption DEF CallOK
<1>6. \A a \in Builds : outcome[a] # None =>
        outcome'[a] = outcome[a] /\ promptOf'[a] = promptOf[a]
  BY <1>2, <1>3, <1>4
<1>7. Sound(promptOf', outcome', c.prompt, c.next)
  BY <1>0, <1>1, <1>6, SoundStable
<1> HIDE DEF c
<1> QED BY <1>t, <1>1, <1>2, <1>3, <1>4, <1>5, <1>6, <1>7, IndexedSound,
           InvSpelled, CallStep, NoneAssumption DEF Shape

LEMMA BuildRefusedStep ==
  ASSUME ServiceInv, NEW b \in Builds, BuildRefused(b)
  PROVE  ServiceInv'
<1> DEFINE p == task[b].prompt
           c == FinishCall(mem', b, p, "refinish", Failed)
<1>t. b \in Tasks /\ Failed \in Outcomes
  BY DEF Tasks, Failed, Outcomes, Codes
<1>0. CallOK(b, task[b], promptOf, outcome) /\ p \in Prompts
  BY <1>t, InvSpelled DEF Shape, CallOK, BuildRefused
<1>2. promptOf[b] = None /\ outcome[b] = None
  BY <1>0 DEF CallOK, BuildRefused
<1>3. /\ current' = current
      /\ promptOf' = [promptOf EXCEPT ![b] = p]
      /\ outcome' = [outcome EXCEPT ![b] = Failed]
      /\ disk' = disk /\ mem' = Indexed(b) /\ task[b].pc # "idle" /\ crossed' = crossed
      /\ task' = [task EXCEPT ![b] = c]
  BY DEF BuildRefused, Refuse
<1>4. /\ promptOf' \in [Builds -> Prompts \cup {None}] /\ promptOf'[b] = p
      /\ outcome' \in [Builds -> Outcomes \cup {None}] /\ outcome'[b] = Failed
      /\ \A a \in Builds : a # b => promptOf'[a] = promptOf[a] /\ outcome'[a] = outcome[a]
  BY <1>t, <1>0, <1>3, InvSpelled
<1>5. \A a \in Builds : outcome[a] # None =>
        outcome'[a] = outcome[a] /\ promptOf'[a] = promptOf[a]
  BY <1>2, <1>4
<1>6. /\ mem' \in [Procs -> [Prompts -> PromptRecords]]
      /\ \A q \in Prompts, proc \in Procs : Sound(promptOf, outcome, q, mem'[proc][q])
  BY <1>t, <1>3, IndexedSound
<1>7. Sound(promptOf', outcome', p, mem'["bench"][p])
  BY <1>0, <1>5, <1>6, SoundStable DEF Procs
<1>n. Failed # None
  BY <1>t, NoneAssumption
<1>9. /\ c \in Calls
      /\ CallOK(b, c, promptOf', outcome')
      /\ c.next # None => Sound(promptOf', outcome', c.prompt, c.next)
  BY <1>t, <1>n, <1>0, <1>4, <1>6, <1>7, FinishCallOK
<1> HIDE DEF c, p
<1> QED BY <1>t, <1>0, <1>n, <1>3, <1>4, <1>5, <1>6, <1>9, InvSpelled, CallStep,
           NoneAssumption

LEMMA BuildEndsStep ==
  ASSUME ServiceInv, NEW b \in Builds, NEW o \in Outcomes, BuildEnds(b, o)
  PROVE  ServiceInv'
<1> DEFINE p == promptOf[b]
           c == FinishCall(mem, b, p, "finish", o)
<1>t. b \in Tasks /\ o # None
  BY NoneAssumption DEF Tasks
<1>0. task[b].pc = "running" /\ CallOK(b, task[b], promptOf, outcome)
  BY <1>t, InvSpelled DEF Shape, BuildEnds
<1>2. p \in Prompts /\ outcome[b] = None
  BY <1>0 DEF CallOK
<1>3. /\ current' = None /\ promptOf' = promptOf
      /\ outcome' = [outcome EXCEPT ![b] = o]
      /\ disk' = disk /\ mem' = mem /\ crossed' = crossed
      /\ task' = [task EXCEPT ![b] = c]
  BY DEF BuildEnds, End
<1>4. /\ outcome' \in [Builds -> Outcomes \cup {None}] /\ outcome'[b] = o
      /\ \A a \in Builds : a # b => outcome'[a] = outcome[a]
  BY <1>3, InvSpelled
<1>5. \A a \in Builds : outcome[a] # None =>
        outcome'[a] = outcome[a] /\ promptOf'[a] = promptOf[a]
  BY <1>2, <1>3, <1>4
<1>6. /\ mem \in [Procs -> [Prompts -> PromptRecords]]
      /\ Sound(promptOf, outcome, p, mem["bench"][p])
  BY <1>2, InvSpelled DEF Procs
<1>7. Sound(promptOf', outcome', p, mem["bench"][p])
  BY <1>5, <1>6, SoundStable
<1>p. promptOf'[b] = p /\ outcome'[b] # None /\ o = outcome'[b]
  BY <1>t, <1>3, <1>4
<1> HIDE DEF p
<1>9. /\ c \in Calls
      /\ CallOK(b, c, promptOf', outcome')
      /\ c.next # None => Sound(promptOf', outcome', c.prompt, c.next)
  BY <1>2, <1>p, <1>6, <1>7, FinishCallOK
<1> HIDE DEF c
<1> QED BY <1>t, <1>2, <1>p, <1>3, <1>4, <1>5, <1>9, InvSpelled, CallStep,
           NoneAssumption

\* The write of finishBuild is refused: finishBuild again, as a failure.
LEMMA RefinishStep ==
  ASSUME ServiceInv, NEW b \in Builds, WriteFails(b), task[b].op = "finish"
  PROVE  ServiceInv'
<1> DEFINE p == task[b].prompt
           c == FinishCall(mem, b, p, "refinish", Failed)
<1>t. b \in Tasks /\ Failed \in Outcomes
  BY DEF Tasks, Failed, Outcomes, Codes
<1>0. CallOK(b, task[b], promptOf, outcome) /\ task[b].pc = "write"
  BY <1>t, InvSpelled DEF Shape, WriteFails
<1>1. p \in Prompts /\ promptOf[b] = p /\ outcome[b] # None
  BY <1>0 DEF CallOK
<1>2. /\ mem \in [Procs -> [Prompts -> PromptRecords]]
      /\ Sound(promptOf, outcome, p, mem["bench"][p])
  BY <1>1, InvSpelled DEF Procs
<1>3. task' = [task EXCEPT ![b] = c] /\ UNCHANGED <<mem, disk, crossed, slotVars>>
  BY <1>t, InvSpelled DEF WriteFails
<1> HIDE DEF p
<1>4. /\ c \in Calls
      /\ CallOK(b, c, promptOf, outcome)
      /\ c.next # None => Sound(promptOf, outcome, c.prompt, c.next)
  BY <1>t, <1>1, <1>2, FinishCallOK
<1> HIDE DEF c
<1> QED BY <1>t, <1>3, <1>4, OnlyCallStep

LEMMA WriteFailsStep ==
  ASSUME ServiceInv, NEW w \in Tasks, WriteFails(w)
  PROVE  ServiceInv'
<1>0. CallOK(w, task[w], promptOf, outcome) /\ task[w].pc = "write"
  BY InvSpelled DEF Shape, WriteFails
<1>1. CASE task[w].op # "finish"
  <2>1. CallOK(w, Idle, promptOf, outcome)
    BY IdleCall DEF CallOK
  <2>2. task' = [task EXCEPT ![w] = Idle] /\ UNCHANGED <<mem, disk, crossed, slotVars>>
    BY <1>1, InvSpelled DEF WriteFails
  <2> QED BY <2>1, <2>2, IdleCall, OnlyCallStep
<1>2. CASE task[w].op = "finish"
  <2>1. w \notin Requests
    BY <1>0, <1>2, NoneIsNew DEF CallOK, Ops
  <2> QED BY <1>2, <2>1, RefinishStep DEF Tasks
<1> QED BY <1>1, <1>2

\* A process that starts again drops its calls and loads the files.
LEMMA RestartStep ==
  ASSUME ServiceInv, McpStarts \/ BenchRestarts
  PROVE  ServiceInv'
<1>0. /\ disk' = disk /\ promptOf' = promptOf /\ outcome' = outcome
      /\ current' \in Builds \cup {None} /\ crossed' \subseteq Prompts
      /\ mem' = [mem EXCEPT !["mcp"] = Loaded] \/ mem' = [mem EXCEPT !["bench"] = Loaded]
      /\ \/ task' = [w \in Tasks |-> IF w \in McpRequests THEN Idle ELSE task[w]]
         \/ task' = [w \in Tasks |-> IF w \in McpRequests THEN task[w] ELSE Idle]
  BY InvSpelled DEF McpStarts, BenchRestarts, slotVars
<1>1. /\ mem' \in [Procs -> [Prompts -> PromptRecords]]
      /\ \A p \in Prompts, proc \in Procs : Sound(promptOf, outcome, p, mem'[proc][p])
  BY <1>0, InvSpelled, LoadedOK DEF Procs
<1>2. \A w \in Tasks : task'[w] \in {task[w], Idle}
  BY <1>0
<1>3. task' \in [Tasks -> Calls]
  BY <1>0, IdleCall, InvSpelled
<1>4. Shape'
  <2>1. \A w \in Tasks : CallOK(w, Idle, promptOf, outcome)
    BY IdleCall DEF CallOK
  <2> QED BY <1>0, <1>2, <2>1, InvSpelled DEF Shape
<1>5. \A w \in Tasks : task'[w].next # None =>
        Sound(promptOf, outcome, task'[w].prompt, task'[w].next)
  BY <1>2, IdleCall, InvSpelled
<1> QED BY <1>0, <1>1, <1>3, <1>4, <1>5, InvSpelled
           DEF ServiceInv, ServiceTypeOK, RecordsConsistent, RecordConsistent, Sound, Calls

-----------------------------------------------------------------------------
LEMMA ServiceStep == ServiceInv /\ [ServiceNext]_serviceVars => ServiceInv'
<1> SUFFICES ASSUME ServiceInv, [ServiceNext]_serviceVars
             PROVE  ServiceInv'
  OBVIOUS
<1>1. ASSUME NEW r \in BenchRequests, NEW p \in Prompts, Request(r, p)
      PROVE  ServiceInv'
  BY <1>1, RequestStep
<1>2. ASSUME NEW r \in McpRequests, NEW p \in Prompts, MarkBuilt(r, p)
      PROVE  ServiceInv'
  BY <1>2, MarkStep
<1>3. ASSUME NEW r \in BenchRequests, DocsLoaded(r)
      PROVE  ServiceInv'
  BY <1>3, AwaitStep DEF Tasks, Requests
<1>4. ASSUME NEW b \in Builds, NEW p \in Prompts, Build(b, p)
      PROVE  ServiceInv'
  BY <1>4, BuildAskedStep
<1>5. ASSUME NEW b \in Builds, ClaudeFound(b) \/ ClaudeMissing(b)
      PROVE  ServiceInv'
  BY <1>5, AwaitStep DEF Tasks
<1>6. ASSUME NEW b \in Builds, BuildStarts(b) \/ BuildRefused(b)
      PROVE  ServiceInv'
  BY <1>6, BuildStartsStep, BuildRefusedStep
<1>7. ASSUME NEW b \in Builds, NEW o \in Outcomes, BuildEnds(b, o)
      PROVE  ServiceInv'
  BY <1>7, BuildEndsStep
<1>8. ASSUME NEW w \in Tasks, Renames(w) \/ Saved(w) \/ WriteFails(w)
      PROVE  ServiceInv'
  BY <1>8, RenameStep, SavedStep, WriteFailsStep
<1>9. CASE McpStarts \/ BenchRestarts
  BY <1>9, RestartStep
<1>10. CASE UNCHANGED serviceVars
  <2>1. /\ mem' = mem /\ disk' = disk /\ task' = task /\ current' = current
        /\ promptOf' = promptOf /\ outcome' = outcome /\ crossed' = crossed
    BY <1>10 DEF serviceVars
  <2> QED BY <2>1 DEF ServiceInv, ServiceTypeOK, Shape, RecordsConsistent,
             RecordConsistent
<1> QED BY <1>1, <1>2, <1>3, <1>4, <1>5, <1>6, <1>7, <1>8, <1>9, <1>10
        DEF ServiceNext

LEMMA AlwaysServiceInv == ServiceSpec => []ServiceInv
BY InitServiceInv, ServiceStep, PTL DEF ServiceSpec

\* Both indexes, the files and every call in flight keep their types: no call
\* ever stores the null of an illegal transition.
THEOREM ServiceTypeCorrect == ServiceSpec => []ServiceTypeOK
<1>1. ServiceInv => ServiceTypeOK
  BY DEF ServiceInv
<1> QED BY <1>1, AlwaysServiceInv, PTL

\* No interleaving of requests, agents, builds, failing writes and restarts
\* makes a prompt whose history contradicts its state: what says `built` has a
\* successful build of that very prompt, or an agent's report, to show for it.
THEOREM RecordsAlwaysConsistent == ServiceSpec => []RecordsConsistent
<1>1. ServiceInv => RecordsConsistent
  BY DEF ServiceInv
<1> QED BY <1>1, AlwaysServiceInv, PTL

-----------------------------------------------------------------------------
(* The serial client: the bench asks one thing at a time, scraps nothing   *)
(* that is building, and is not restarted.                                 *)

\* The client the bench ships with, and a bench that keeps running.
OneAtATime ==
  /\ MaxInFlight = 1
  /\ "building" \notin Scrappable
  /\ ~MayRestart

OnBench == BenchRequests \cup Builds

\* A call c that is in flight, one that finishBuild makes, and one whose build
\* runs or is being landed.
Flying(c)  == c.pc \notin {"idle", "running"} /\ c.op \in {"save", "build"}
Finishes(c) == c.op \in {"finish", "refinish"}
Landing(c) == c.pc = "running" \/ Finishes(c)

\* LadderRespected's step from the prompt `old` to the prompt `new`.
Move(old, new) ==
  /\ old.builds \subseteq new.builds
  /\ \/ new.state = old.state
     \/ \E e \in PromptEvents : <<old.state, e, new.state>> \in Moves
     \/ old.state = "scrapped" /\ new.state = restorePromptState(old.scrappedFrom)

-----------------------------------------------------------------------------
(* The inductive invariant.                                                 *)

\* The prompt a call in flight started from is still what the bench shows:
\* nothing builds it, and what is about to be written is a move from it.  A
\* build that was asked for finds the runner free.
AskedFresh(w, c, m, cur) ==
  Flying(c) =>
    LET old == m["bench"][c.prompt] IN
    /\ old.state # "building" /\ Move(old, c.next) /\ c.next.scrappedFrom # "building"
    /\ w \in BenchRequests => c.next.state # "building"
    /\ w \in Builds => c.next.state = "building" /\ cur = None

\* A prompt is building while a build of it runs or is being landed; what is
\* landed is a move from what the bench shows.
LandingFresh(c, m) ==
  LET old == m["bench"][c.prompt] IN
  /\ Landing(c) => old.state = "building"
  /\ Finishes(c) =>
       Move(old, c.next) /\ c.next.state # "building" /\ c.next.scrappedFrom # "building"

\* The build that runs is the runner's.
RunningFresh(w, c, cur) == c.pc = "running" => cur = w

CallFresh(w, c, m, cur) ==
  /\ AskedFresh(w, c, m, cur) /\ LandingFresh(c, m) /\ RunningFresh(w, c, cur)
  /\ w \in BenchRequests /\ c.pc # "idle" => c.op = "save"

\* One call is in flight, and one build of a prompt runs or is being landed.
Exclusive ==
  /\ \A v, w \in InFlight : v = w
  /\ \A v, w \in OnBench :
       Landing(task[v]) /\ Landing(task[w]) /\ task[v].prompt = task[w].prompt => v = w

NeverScrappedBuilding(m) == \A p \in Prompts : m["bench"][p].scrappedFrom # "building"

SerialInv ==
  /\ \A w \in OnBench : CallFresh(w, task[w], mem, current)
  /\ Exclusive
  /\ NeverScrappedBuilding(mem)

\* The other half of BuildingMeansRunning: what is building is being landed.
Landed ==
  /\ \A p \in Prompts : mem["bench"][p].state = "building" =>
       \E b \in Builds : Landing(task[b]) /\ task[b].prompt = p
  /\ \A w \in OnBench : Finishes(task[w]) => task[w].pc \in {"write", "renamed"}
-----------------------------------------------------------------------------
LEMMA OnBenchTasks == OnBench \subseteq Tasks /\ OnBench \cap McpRequests = {}
BY TaskAssumption DEF OnBench, Tasks, Requests

LEMMA InFlightFlying ==
  /\ InFlight = {w \in OnBench : Flying(task[w])}
  /\ InFlight' = {w \in OnBench : Flying(task'[w])}
BY DEF InFlight, OnBench, Flying

LEMMA IdleStill == ~Flying(Idle) /\ ~Landing(Idle) /\ ~Finishes(Idle)
BY NoneIsNew DEF Idle, Call, Flying, Landing, Finishes, Ops

\* What ServiceInv says of one call of the bench.
LEMMA BenchCall ==
  ASSUME ServiceInv, NEW w \in OnBench
  PROVE  /\ task \in [Tasks -> Calls] /\ task[w] \in Calls /\ w \in Tasks
         /\ task[w].pc # "idle" =>
              /\ task[w].prompt \in Prompts /\ task[w].next \in PromptRecords
              /\ mem["bench"][task[w].prompt] \in PromptRecords
         /\ task[w].pc = "idle" => task[w] = Idle
         /\ Landing(task[w]) => w \in Builds /\ promptOf[w] = task[w].prompt /\ task[w].pc # "idle"
         /\ w \in Builds /\ task[w].pc # "idle" => Flying(task[w]) \/ Landing(task[w])
         /\ w \in Builds /\ Flying(task[w]) => task[w].op = "build"
         /\ Flying(task[w]) => ~Landing(task[w]) /\ task[w].pc # "idle"
<1>1. /\ w \in Tasks /\ task[w] \in Calls /\ CallOK(w, task[w], promptOf, outcome)
      /\ task \in [Tasks -> Calls] /\ mem \in [Procs -> [Prompts -> PromptRecords]]
      /\ w \in BenchRequests => w \in Requests
      /\ w \in BenchRequests \/ w \in Builds
  BY OnBenchTasks, InvSpelled DEF Shape, Requests, OnBench
<1>2. /\ task[w].pc # "idle" => task[w].prompt \in Prompts /\ task[w].next \in PromptRecords
      /\ task[w].pc = "idle" => task[w] = Idle
      /\ w \in Requests => task[w].pc # "running" /\ task[w].op \in {"save", None}
      /\ w \in Builds /\ task[w].pc # "idle" =>
           \/ task[w].op = "build" /\ task[w].pc # "running"
           \/ task[w].op = "build" /\ task[w].pc = "running" /\ promptOf[w] = task[w].prompt
           \/ task[w].op \in {"finish", "refinish"} /\ task[w].pc # "running"
                /\ promptOf[w] = task[w].prompt
  BY <1>1 DEF CallOK
<1>3. None \notin Ops /\ Idle.op = None /\ Idle.pc = "idle"
  BY NoneIsNew, IdleCall
<1>4. task[w].pc # "idle" => mem["bench"][task[w].prompt] \in PromptRecords
  BY <1>1, <1>2 DEF Procs
<1>5. Finishes(task[w]) => w \in Builds /\ task[w].pc # "idle"
  BY <1>1, <1>2, <1>3 DEF Finishes, Ops
<1> QED BY <1>1, <1>2, <1>3, <1>4, <1>5 DEF Flying, Landing, Finishes, Ops

\* Two calls of the bench under way are about two prompts.
LEMMA TwoPrompts ==
  ASSUME ServiceInv, SerialInv, NEW v \in OnBench, NEW w \in OnBench, v # w,
         task[v].pc # "idle", task[w].pc # "idle"
  PROVE  task[v].prompt # task[w].prompt
<1>1. \A u \in OnBench : task[u].pc # "idle" =>
        /\ Flying(task[u]) \/ Landing(task[u])
        /\ Flying(task[u]) => mem["bench"][task[u].prompt].state # "building"
        /\ Landing(task[u]) => mem["bench"][task[u].prompt].state = "building"
  <2> SUFFICES ASSUME NEW u \in OnBench, task[u].pc # "idle"
               PROVE  /\ Flying(task[u]) \/ Landing(task[u])
                      /\ Flying(task[u]) => mem["bench"][task[u].prompt].state # "building"
                      /\ Landing(task[u]) => mem["bench"][task[u].prompt].state = "building"
    OBVIOUS
  <2>1. CallFresh(u, task[u], mem, current)
    BY DEF SerialInv
  <2>2. CASE u \in Builds
    BY <2>1, <2>2, BenchCall DEF CallFresh, AskedFresh, LandingFresh
  <2>3. CASE u \in BenchRequests
    <3>1. task[u].op = "save" /\ task[u].pc # "running"
      BY <2>1, <2>3, InvSpelled DEF CallFresh, Shape, CallOK, Requests, Tasks
    <3> QED BY <2>1, <3>1 DEF CallFresh, AskedFresh, LandingFresh, Flying
  <2> QED BY <2>2, <2>3 DEF OnBench
<1> QED BY <1>1, InFlightFlying DEF SerialInv, Exclusive

-----------------------------------------------------------------------------
(* One call of the bench takes a step.                                      *)

LEMMA FreshKept ==
  ASSUME NEW w, NEW c, NEW m, NEW cur, NEW m2, NEW cur2,
         CallFresh(w, c, m, cur),
         Flying(c) \/ Landing(c) => m2["bench"][c.prompt] = m["bench"][c.prompt],
         Flying(c) /\ w \in Builds => cur2 = None,
         c.pc = "running" => cur2 = w
  PROVE  CallFresh(w, c, m2, cur2)
<1>1. AskedFresh(w, c, m2, cur2)
  BY DEF CallFresh, AskedFresh
<1>2. LandingFresh(c, m2)
  BY DEF CallFresh, LandingFresh, Landing
<1>3. RunningFresh(w, c, cur2)
  BY DEF CallFresh, RunningFresh, Landing
<1> QED BY <1>1, <1>2, <1>3 DEF CallFresh

LEMMA OneStep ==
  ASSUME ServiceInv, SerialInv, NEW w \in OnBench, NEW c,
         task' = [task EXCEPT ![w] = c],
         \A q \in Prompts : (task[w].pc = "idle" \/ q # task[w].prompt)
                              => mem'["bench"][q] = mem["bench"][q],
         \A v \in OnBench : v # w /\ task[v].pc = "running" => current' = v,
         \A v \in Builds : v # w /\ Flying(task[v]) => current' = None,
         CallFresh(w, c, mem', current'),
         Flying(c) => Flying(task[w]) \/ InFlight = {},
         Landing(c) => task[w].pc # "idle" /\ c.prompt = task[w].prompt,
         NeverScrappedBuilding(mem')
  PROVE  SerialInv'
<1>1. task'[w] = c /\ \A v \in OnBench : v # w => task'[v] = task[v]
  BY BenchCall, OnBenchTasks
<1>2. ASSUME NEW v \in OnBench, v # w
      PROVE  CallFresh(v, task[v], mem', current')
  <2>1. CallFresh(v, task[v], mem, current)
    BY DEF SerialInv
  <2>2. Flying(task[v]) \/ Landing(task[v]) => task[v].pc # "idle" /\ task[v].prompt \in Prompts
    BY BenchCall
  <2>3. Flying(task[v]) \/ Landing(task[v]) =>
          mem'["bench"][task[v].prompt] = mem["bench"][task[v].prompt]
    BY <1>2, <2>2, TwoPrompts
  <2>4. Flying(task[v]) /\ v \in Builds => current' = None
    BY <1>2
  <2>5. task[v].pc = "running" => current' = v
    BY <1>2
  <2> QED BY <2>1, <2>3, <2>4, <2>5, FreshKept
<1>3. \A v \in OnBench : CallFresh(v, task'[v], mem', current')
  BY <1>1, <1>2
<1>4. \A u, v \in InFlight' : u = v
  BY <1>1, InFlightFlying DEF SerialInv, Exclusive
<1>5. ASSUME NEW v \in OnBench, v # w, Landing(task[v]), Landing(c)
      PROVE  task[v].prompt # c.prompt
  BY <1>5, BenchCall, TwoPrompts
<1>6. \A u, v \in OnBench :
        Landing(task'[u]) /\ Landing(task'[v]) /\ task'[u].prompt = task'[v].prompt => u = v
  BY <1>1, <1>5 DEF SerialInv, Exclusive
<1> QED BY <1>3, <1>4, <1>6 DEF SerialInv, Exclusive

\* The call is over, or was never about the bench's index.
LEMMA EndsFresh ==
  ASSUME NEW w, NEW m, NEW cur
  PROVE  CallFresh(w, Idle, m, cur)
BY IdleStill, IdleCall
   DEF CallFresh, AskedFresh, LandingFresh, RunningFresh, Landing

\* The steps in which the index and the runner stay as they are.
LEMMA QuietStep ==
  ASSUME ServiceInv, SerialInv, NEW w \in OnBench, NEW c,
         task' = [task EXCEPT ![w] = c], UNCHANGED <<mem, current>>,
         CallFresh(w, c, mem, current),
         Flying(c) => Flying(task[w]) \/ InFlight = {},
         Landing(c) => task[w].pc # "idle" /\ c.prompt = task[w].prompt
  PROVE  SerialInv'
<1>1. \A v \in OnBench : task[v].pc = "running" => current = v
  BY DEF SerialInv, CallFresh, RunningFresh
<1>2. \A v \in Builds : Flying(task[v]) => current = None
  BY DEF SerialInv, CallFresh, AskedFresh, OnBench
<1>3. NeverScrappedBuilding(mem')
  BY DEF SerialInv
<1> QED BY <1>1, <1>2, <1>3, OneStep

\* A call that is not the bench's.
LEMMA OtherStep ==
  ASSUME ServiceInv, SerialInv, mem'["bench"] = mem["bench"], current' = current,
         \A w \in OnBench : task'[w] = task[w]
  PROVE  SerialInv'
<1>1. ASSUME NEW w \in OnBench
      PROVE  CallFresh(w, task'[w], mem', current')
  <2>1. CallFresh(w, task[w], mem, current)
    BY DEF SerialInv
  <2>2. /\ Flying(task[w]) /\ w \in Builds => current' = None
        /\ task[w].pc = "running" => current' = w
    BY <2>1 DEF CallFresh, AskedFresh, RunningFresh
  <2> QED BY <2>1, <2>2, FreshKept
<1>2. InFlight' = InFlight
  BY InFlightFlying
<1> QED BY <1>1, <1>2 DEF SerialInv, Exclusive, NeverScrappedBuilding

-----------------------------------------------------------------------------
(* What is accepted.                                                        *)

LEMMA NothingInFlight ==
  ASSUME OneAtATime, SerialInv, Cardinality(InFlight) < MaxInFlight
  PROVE  InFlight = {}
<1> SUFFICES ASSUME NEW w \in InFlight PROVE FALSE
  OBVIOUS
<1>1. InFlight = {w}
  BY DEF SerialInv, Exclusive
<1>2. Cardinality(InFlight) = 1
  BY <1>1, FS_Singleton
<1> QED BY <1>2 DEF OneAtATime

LEMMA RequestMoves ==
  ASSUME OneAtATime, ServiceInv, SerialInv,
         NEW r \in BenchRequests, NEW p \in Prompts, Request(r, p)
  PROVE  \E next \in PromptRecords, pc \in {"docs", "write"} :
           /\ Accept(r, pc, "save", p, next)
           /\ mem["bench"][p].state # "building" /\ next.state # "building"
           /\ next.scrappedFrom # "building" /\ Move(mem["bench"][p], next)
<1> DEFINE rec == mem["bench"][p]
           Good(next) == /\ next \in PromptRecords
                         /\ rec.state # "building" /\ next.state # "building"
                         /\ next.scrappedFrom # "building" /\ Move(rec, next)
<1>0. /\ rec \in PromptRecords /\ rec.scrappedFrom # "building"
      /\ rec.state = "scrapped" <=> rec.scrappedFrom # None
  BY InvSpelled DEF Procs, SerialInv, NeverScrappedBuilding, Sound
<1>n. None # "building"
  BY NoneIsNew DEF PromptStates
<1>1. ASSUME NEW t \in Texts, Edit(r, p, t)
      PROVE  \E next \in PromptRecords : Accept(r, "write", "save", p, next) /\ Good(next)
  <2> DEFINE next == [rec EXCEPT !.text = t]
  <2>1. /\ next \in PromptRecords /\ next.state = rec.state /\ next.builds = rec.builds
        /\ next.scrappedFrom = rec.scrappedFrom
    BY <1>0 DEF PromptRecords
  <2>2. Accept(r, "write", "save", p, next) /\ rec.state \in {"draft", "ready"}
    BY <1>1 DEF Edit
  <2> HIDE DEF next
  <2> QED BY <1>0, <2>1, <2>2 DEF Move
<1>2. ASSUME Ready(r, p)
      PROVE  \E next \in PromptRecords : Accept(r, "docs", "save", p, next) /\ Good(next)
  <2> DEFINE next == [rec EXCEPT !.state = "ready"]
  <2>0. rec.state = "draft" /\ promptTransition(rec.state, "ready") = "ready"
    BY <1>0, <1>2, ReadyMove DEF Ready, PromptRecords
  <2>1. /\ next \in PromptRecords /\ next.state = "ready" /\ next.builds = rec.builds
        /\ next.scrappedFrom = rec.scrappedFrom
    BY <1>0 DEF PromptRecords, PromptStates
  <2>2. Accept(r, "docs", "save", p, next)
    BY <1>2, <2>0 DEF Ready
  <2>3. "ready" \in PromptEvents /\ <<rec.state, "ready", "ready">> \in Moves
    BY <2>0 DEF PromptEvents, Moves
  <2> HIDE DEF next
  <2> QED BY <1>0, <2>0, <2>1, <2>2, <2>3 DEF Move
<1>3. ASSUME Scrap(r, p)
      PROVE  \E next \in PromptRecords : Accept(r, "write", "save", p, next) /\ Good(next)
  <2> DEFINE next == [rec EXCEPT !.state = "scrapped", !.scrappedFrom = rec.state]
  <2>0. /\ rec.state # "scrapped" /\ promptTransition(rec.state, "scrap") = "scrapped"
        /\ rec.state # "building"
    BY <1>0, <1>3, ScrapMove DEF Scrap, PromptRecords, OneAtATime
  <2>1. /\ next \in PromptRecords /\ next.state = "scrapped"
        /\ next.scrappedFrom = rec.state /\ next.builds = rec.builds
    BY <1>0 DEF PromptRecords, PromptStates
  <2>2. Accept(r, "write", "save", p, next)
    BY <1>3, <2>0 DEF Scrap
  <2>3. "scrap" \in PromptEvents /\ <<rec.state, "scrap", "scrapped">> \in Moves
    BY <1>0, <2>0 DEF PromptEvents, Moves, PromptRecords
  <2> HIDE DEF next
  <2> QED BY <1>0, <2>0, <2>1, <2>2, <2>3 DEF Move
<1>4. ASSUME Restore(r, p)
      PROVE  \E next \in PromptRecords : Accept(r, "write", "save", p, next) /\ Good(next)
  <2> DEFINE st   == restorePromptState(rec.scrappedFrom)
             next == [rec EXCEPT !.state = st, !.scrappedFrom = None]
  <2>0. st \in PromptStates /\ st # "building" /\ rec.state = "scrapped"
    BY <1>0, <1>4 DEF restorePromptState, PromptStates, Restore
  <2>1. /\ next \in PromptRecords /\ next.state = st
        /\ next.scrappedFrom = None /\ next.builds = rec.builds
    BY <1>0, <2>0 DEF PromptRecords
  <2>2. Accept(r, "write", "save", p, next)
    BY <1>4 DEF Restore
  <2>3. st = restorePromptState(rec.scrappedFrom)
    OBVIOUS
  <2> HIDE DEF st, next
  <2> QED BY <1>0, <1>n, <2>0, <2>1, <2>2, <2>3 DEF Move
<1> QED BY <1>1, <1>2, <1>3, <1>4 DEF Request

LEMMA BuildMoves ==
  ASSUME ServiceInv, SerialInv, NEW b \in Builds, NEW p \in Prompts, Build(b, p)
  PROVE  \E next \in PromptRecords :
           /\ Accept(b, "probe", "build", p, next)
           /\ mem["bench"][p].state # "building" /\ next.state = "building"
           /\ next.scrappedFrom # "building" /\ Move(mem["bench"][p], next)
           /\ current = None
<1> DEFINE rec  == mem["bench"][p]
           next == [rec EXCEPT !.state = "building"]
<1>0. /\ rec \in PromptRecords /\ rec.scrappedFrom # "building"
  BY InvSpelled DEF Procs, SerialInv, NeverScrappedBuilding
<1>1. rec.state = "ready" /\ promptTransition(rec.state, "build") = "building"
  BY <1>0, BuildMove DEF Build, PromptRecords
<1>2. /\ next \in PromptRecords /\ next.state = "building" /\ next.builds = rec.builds
      /\ next.scrappedFrom = rec.scrappedFrom
  BY <1>0 DEF PromptRecords, PromptStates
<1>3. Accept(b, "probe", "build", p, next) /\ current = None
  BY <1>1 DEF Build
<1>4. "build" \in PromptEvents /\ <<rec.state, "build", "building">> \in Moves
  BY <1>1 DEF PromptEvents, Moves
<1> HIDE DEF next
<1> QED BY <1>0, <1>1, <1>2, <1>3, <1>4 DEF Move

-----------------------------------------------------------------------------
(* Every action of the bench keeps SerialInv.                               *)

\* A call that goes on knows what it knew: only its pc moves.
LEMMA GoesOn ==
  ASSUME ServiceInv, SerialInv, NEW w \in OnBench, NEW pc \in {"write", "renamed"},
         task[w].pc \notin {"idle", "running"},
         task' = [task EXCEPT ![w].pc = pc], UNCHANGED <<mem, current>>
  PROVE  SerialInv'
<1> DEFINE c == [task[w] EXCEPT !.pc = pc]
<1>1. task' = [task EXCEPT ![w] = c]
  BY BenchCall
<1>2. /\ c.pc = pc /\ c.op = task[w].op
      /\ c.prompt = task[w].prompt /\ c.next = task[w].next
  BY BenchCall DEF Calls
<1> HIDE DEF c
<1>3. /\ Flying(c) <=> Flying(task[w])
      /\ Finishes(c) <=> Finishes(task[w])
      /\ Landing(c) <=> Landing(task[w])
      /\ c.pc # "running"
  BY <1>2 DEF Flying, Finishes, Landing
<1>4. CallFresh(w, task[w], mem, current)
  BY DEF SerialInv
<1>5. AskedFresh(w, c, mem, current)
  BY <1>2, <1>3, <1>4 DEF CallFresh, AskedFresh
<1>6. LandingFresh(c, mem)
  BY <1>2, <1>3, <1>4 DEF CallFresh, LandingFresh
<1>7. CallFresh(w, c, mem, current)
  BY <1>2, <1>3, <1>4, <1>5, <1>6 DEF CallFresh, RunningFresh
<1> QED BY <1>1, <1>2, <1>3, <1>7, QuietStep

LEMMA GivesUp ==
  ASSUME ServiceInv, SerialInv, NEW w \in OnBench,
         task' = [task EXCEPT ![w] = Idle], UNCHANGED <<mem, current>>
  PROVE  SerialInv'
BY EndsFresh, IdleStill, QuietStep

LEMMA AcceptedSerial ==
  ASSUME OneAtATime, ServiceInv, SerialInv, NEW w \in OnBench,
         NEW pc \in {"docs", "probe", "write"}, NEW op \in {"save", "build"},
         NEW p \in Prompts, NEW next \in PromptRecords,
         Accept(w, pc, op, p, next),
         w \in BenchRequests => op = "save" /\ next.state # "building",
         w \in Builds => next.state = "building" /\ current = None,
         mem["bench"][p].state # "building", next.scrappedFrom # "building",
         Move(mem["bench"][p], next)
  PROVE  SerialInv'
<1> DEFINE c == Call(pc, op, p, next)
<1>1. /\ c \in Calls /\ c.pc = pc /\ c.op = op /\ c.prompt = p /\ c.next = next
  BY CallFields DEF PCs, Ops
<1>2. task' = [task EXCEPT ![w] = c] /\ UNCHANGED <<mem, current>>
  BY DEF Accept, slotVars
<1>3. InFlight = {}
  BY NothingInFlight, OnBenchTasks DEF Accept, Proc
<1> HIDE DEF c
<1>4. ~Landing(c) /\ ~Finishes(c) /\ c.pc # "running"
  BY <1>1 DEF Landing, Finishes
<1>5. CallFresh(w, c, mem, current)
  BY <1>1, <1>4 DEF CallFresh, AskedFresh, LandingFresh, RunningFresh
<1> QED BY <1>2, <1>3, <1>4, <1>5, QuietStep

LEMMA RequestSerial ==
  ASSUME OneAtATime, ServiceInv, SerialInv,
         NEW r \in BenchRequests, NEW p \in Prompts, Request(r, p)
  PROVE  SerialInv'
<1>1. r \in OnBench /\ r \notin Builds
  BY TaskAssumption DEF OnBench, Requests
<1>2. PICK next \in PromptRecords, pc \in {"docs", "write"} :
        /\ Accept(r, pc, "save", p, next)
        /\ mem["bench"][p].state # "building" /\ next.state # "building"
        /\ next.scrappedFrom # "building" /\ Move(mem["bench"][p], next)
  BY RequestMoves
<1> QED BY <1>1, <1>2, AcceptedSerial

LEMMA BuildSerial ==
  ASSUME OneAtATime, ServiceInv, SerialInv,
         NEW b \in Builds, NEW p \in Prompts, Build(b, p)
  PROVE  SerialInv'
<1>1. b \in OnBench /\ b \notin BenchRequests
  BY TaskAssumption DEF OnBench, Requests
<1>2. PICK next \in PromptRecords :
        /\ Accept(b, "probe", "build", p, next)
        /\ mem["bench"][p].state # "building" /\ next.state = "building"
        /\ next.scrappedFrom # "building" /\ Move(mem["bench"][p], next)
        /\ current = None
  BY BuildMoves
<1> QED BY <1>1, <1>2, AcceptedSerial

\* The index is told what was written.
LEMMA BenchIndexed ==
  ASSUME ServiceInv, NEW w \in OnBench, task[w].pc # "idle", mem' = Indexed(w)
  PROVE  /\ mem'["bench"][task[w].prompt] = task[w].next
         /\ \A q \in Prompts : q # task[w].prompt => mem'["bench"][q] = mem["bench"][q]
<1>1. Proc(w) = "bench" /\ task[w].prompt \in Prompts
  BY OnBenchTasks, BenchCall DEF Proc
<1>2. mem \in [Procs -> [Prompts -> PromptRecords]] /\ "bench" \in Procs
  BY InvSpelled DEF Procs
<1> QED BY <1>1, <1>2 DEF Indexed

LEMMA SavedSerial ==
  ASSUME ServiceInv, SerialInv, NEW w \in OnBench, Saved(w)
  PROVE  SerialInv' /\ Move(mem["bench"][task[w].prompt], task[w].next)
<1>1. /\ task[w].pc = "renamed" /\ mem' = Indexed(w) /\ current' = current
      /\ task' = [task EXCEPT ![w] = Idle] /\ task[w].op # "build"
  BY DEF Saved, slotVars
<1>2. CallFresh(w, task[w], mem, current)
  BY DEF SerialInv
<1>3. task[w].next.scrappedFrom # "building" /\ Move(mem["bench"][task[w].prompt], task[w].next)
  <2>1. Flying(task[w]) \/ Finishes(task[w])
    BY <1>1, <1>2, BenchCall DEF CallFresh, Flying, Landing, OnBench
  <2> QED BY <1>2, <2>1 DEF CallFresh, AskedFresh, LandingFresh
<1>4. NeverScrappedBuilding(mem')
  BY <1>1, <1>3, BenchIndexed DEF SerialInv, NeverScrappedBuilding
<1>5. \A v \in OnBench : task[v].pc = "running" => current' = v
  BY <1>1 DEF SerialInv, CallFresh, RunningFresh
<1>6. \A v \in Builds : Flying(task[v]) => current' = None
  BY <1>1 DEF SerialInv, CallFresh, AskedFresh, OnBench
<1> QED BY <1>1, <1>3, <1>4, <1>5, <1>6, BenchIndexed, EndsFresh, IdleStill, OneStep

LEMMA StartsSerial ==
  ASSUME ServiceInv, SerialInv, NEW b \in Builds, BuildStarts(b)
  PROVE  SerialInv' /\ Move(mem["bench"][task[b].prompt], task[b].next)
<1> DEFINE c == [task[b] EXCEPT !.pc = "running"]
<1>0. b \in OnBench /\ b \notin BenchRequests
  BY TaskAssumption DEF OnBench, Requests
<1>1. /\ task[b].pc = "renamed" /\ task[b].op = "build" /\ mem' = Indexed(b)
      /\ current' = b /\ current = None /\ task' = [task EXCEPT ![b] = c]
  BY <1>0, BenchCall DEF BuildStarts, Begin
<1>2. /\ c.pc = "running" /\ c.op = "build"
      /\ c.prompt = task[b].prompt /\ c.next = task[b].next
  BY <1>0, <1>1, BenchCall DEF Calls
<1> HIDE DEF c
<1>3. Flying(task[b]) /\ ~Flying(c) /\ Landing(c) /\ ~Finishes(c)
  BY <1>1, <1>2 DEF Flying, Landing, Finishes
<1>4. /\ task[b].next.scrappedFrom # "building" /\ task[b].next.state = "building"
      /\ Move(mem["bench"][task[b].prompt], task[b].next)
  BY <1>0, <1>3 DEF SerialInv, CallFresh, AskedFresh
<1>5. mem'["bench"][task[b].prompt] = task[b].next
  BY <1>0, <1>1, BenchIndexed
<1>6. CallFresh(b, c, mem', current')
  BY <1>0, <1>1, <1>2, <1>3, <1>4, <1>5
     DEF CallFresh, AskedFresh, LandingFresh, RunningFresh
<1>7. NeverScrappedBuilding(mem')
  BY <1>0, <1>1, <1>4, BenchIndexed DEF SerialInv, NeverScrappedBuilding
<1>8. \A v \in OnBench : v # b /\ task[v].pc = "running" => current' = v
  <2>1. \A v \in OnBench : task[v].pc = "running" => current = v /\ v \in Builds
    BY BenchCall DEF SerialInv, CallFresh, RunningFresh, Landing
  <2> QED BY <1>1, <2>1, NoneAssumption
<1>9. \A v \in Builds : v # b => ~Flying(task[v])
  BY <1>0, <1>3, InFlightFlying DEF SerialInv, Exclusive, OnBench
<1> QED BY <1>0, <1>1, <1>2, <1>3, <1>4, <1>6, <1>7, <1>8, <1>9, BenchIndexed, OneStep

\* A build finds the runner as free as it was when it was asked for.
LEMMA NeverRefused ==
  ASSUME ServiceInv, SerialInv, NEW b \in Builds, BuildRefused(b)
  PROVE  FALSE
<1>1. task[b].pc = "renamed" /\ task[b].op = "build" /\ current # None
  BY DEF BuildRefused, Refuse
<1>2. Flying(task[b]) /\ b \in OnBench
  BY <1>1 DEF Flying, OnBench
<1> QED BY <1>1, <1>2 DEF SerialInv, CallFresh, AskedFresh

\* finishBuild's call, for a prompt that is building.
LEMMA FinishMoves ==
  ASSUME ServiceInv, SerialInv, NEW b \in Builds, NEW p \in Prompts,
         NEW op \in {"finish", "refinish"}, NEW o \in Outcomes, NEW cur,
         mem["bench"][p].state = "building"
  PROVE  LET c == FinishCall(mem, b, p, op, o) IN
         /\ CallFresh(b, c, mem, cur) /\ ~Flying(c) /\ Landing(c)
         /\ c.prompt = p /\ c.pc = "write" /\ c.op = op
<1> DEFINE rec   == mem["bench"][p]
           event == IF Success(o) THEN "built" ELSE "fail"
           st    == promptTransition("building", event)
           next  == [rec EXCEPT !.state  = st,
                                !.builds = @ \cup {[id |-> b, exit |-> o.exit]}]
           c     == Call("write", op, p, next)
<1>0. rec \in PromptRecords /\ rec.scrappedFrom # "building"
  BY InvSpelled DEF Procs, SerialInv, NeverScrappedBuilding
<1>1. FinishCall(mem, b, p, op, o) = c
  BY DEF FinishCall
<1>2. /\ event \in PromptEvents /\ st \in {"built", "ready"}
      /\ <<"building", event, st>> \in Moves
  BY LandMoves DEF PromptEvents, Moves
<1>3. [id |-> b, exit |-> o.exit] \in BuildRecords
  BY DEF BuildRecords, Outcomes
<1>4. /\ next \in PromptRecords /\ next.state = st
      /\ next.scrappedFrom = rec.scrappedFrom
      /\ rec.builds \subseteq next.builds
  BY <1>0, <1>2, <1>3 DEF PromptRecords, PromptStates
<1> HIDE DEF event, st, next
<1>5. Move(rec, next)
  BY <1>2, <1>4 DEF Move
<1>6. /\ c.pc = "write" /\ c.op = op /\ c.prompt = p /\ c.next = next
  BY <1>4, CallFields DEF PCs, Ops
<1> HIDE DEF c
<1>7. ~Flying(c) /\ Landing(c) /\ Finishes(c)
  BY <1>6 DEF Flying, Landing, Finishes
<1>8. b \notin BenchRequests
  BY TaskAssumption DEF Requests
<1>9. CallFresh(b, c, mem, cur)
  BY <1>0, <1>2, <1>4, <1>5, <1>6, <1>7, <1>8
     DEF CallFresh, AskedFresh, LandingFresh, RunningFresh
<1> QED BY <1>1, <1>6, <1>7, <1>9

LEMMA EndsSerial ==
  ASSUME ServiceInv, SerialInv, NEW b \in Builds, NEW o \in Outcomes, BuildEnds(b, o)
  PROVE  SerialInv' /\ task'[b].op = "finish" /\ task'[b].prompt = task[b].prompt
<1> DEFINE c == FinishCall(mem, b, promptOf[b], "finish", o)
<1>0. b \in OnBench
  BY DEF OnBench
<1>1. /\ task[b].pc = "running" /\ mem' = mem /\ current' = None /\ current = b
      /\ task' = [task EXCEPT ![b] = c]
  BY DEF BuildEnds, End
<1>2. Landing(task[b]) /\ promptOf[b] = task[b].prompt /\ promptOf[b] \in Prompts
      /\ b \in Tasks /\ task \in [Tasks -> Calls]
  BY <1>0, <1>1, BenchCall DEF Landing
<1>3. mem["bench"][promptOf[b]].state = "building"
  BY <1>0, <1>2 DEF SerialInv, CallFresh, LandingFresh
<1>4. /\ CallFresh(b, c, mem, None) /\ ~Flying(c) /\ Landing(c)
      /\ c.prompt = promptOf[b] /\ c.op = "finish"
  BY <1>2, <1>3, FinishMoves
<1> HIDE DEF c
<1>5. \A v \in OnBench : v # b => task[v].pc # "running"
  BY <1>1 DEF SerialInv, CallFresh, RunningFresh
<1>6. NeverScrappedBuilding(mem')
  BY <1>1 DEF SerialInv
<1>7. CallFresh(b, c, mem', current')
  BY <1>1, <1>4
<1>8. SerialInv'
  BY <1>0, <1>1, <1>2, <1>4, <1>5, <1>6, <1>7, OneStep
<1> QED BY <1>1, <1>2, <1>4, <1>8

LEMMA FailsSerial ==
  ASSUME ServiceInv, SerialInv, NEW w \in OnBench, WriteFails(w)
  PROVE  SerialInv'
<1>0. /\ task[w].pc = "write" /\ UNCHANGED <<mem, current>> /\ w \in Tasks
      /\ task \in [Tasks -> Calls]
  BY BenchCall DEF WriteFails, slotVars
<1>1. CASE task[w].op # "finish"
  <2>1. task' = [task EXCEPT ![w] = Idle]
    BY <1>0, <1>1 DEF WriteFails
  <2> QED BY <1>0, <2>1, GivesUp
<1>2. CASE task[w].op = "finish"
  <2> DEFINE c == FinishCall(mem, w, task[w].prompt, "refinish", Failed)
  <2>1. task' = [task EXCEPT ![w] = c]
    BY <1>0, <1>2 DEF WriteFails
  <2>2. Landing(task[w]) /\ w \in Builds /\ task[w].prompt \in Prompts
    BY <1>0, <1>2, BenchCall DEF Landing, Finishes
  <2>3. mem["bench"][task[w].prompt].state = "building"
    BY <2>2 DEF SerialInv, CallFresh, LandingFresh
  <2>4. Failed \in Outcomes
    BY DEF Failed, Outcomes, Codes
  <2>5. CallFresh(w, c, mem, current) /\ ~Flying(c) /\ c.prompt = task[w].prompt
    BY <2>2, <2>3, <2>4, FinishMoves
  <2> HIDE DEF c
  <2> QED BY <1>0, <2>1, <2>5, QuietStep
<1> QED BY <1>1, <1>2

\* What the MCP process does is not seen by the bench.
LEMMA McpSerial ==
  ASSUME ServiceInv, SerialInv, NEW r \in McpRequests,
         \/ \E p \in Prompts : MarkBuilt(r, p)
         \/ Renames(r) \/ Saved(r) \/ WriteFails(r)
  PROVE  SerialInv' /\ mem'["bench"] = mem["bench"]
<1>1. r \notin OnBench /\ Proc(r) = "mcp"
  BY OnBenchTasks DEF Proc
<1>2. current' = current
  BY DEF MarkBuilt, Accept, Renames, Saved, WriteFails, slotVars
<1>3. mem'["bench"] = mem["bench"]
  <2>1. mem' = mem \/ mem' = Indexed(r)
    BY DEF MarkBuilt, Accept, Renames, Saved, WriteFails
  <2> QED BY <1>1, <2>1, InvSpelled DEF Indexed, Procs
<1>4. \E c : task' = [task EXCEPT ![r] = c]
  BY DEF MarkBuilt, Accept, Renames, Saved, WriteFails
<1>5. \A w \in OnBench : task'[w] = task[w]
  BY <1>1, <1>4, OnBenchTasks, InvSpelled
<1> QED BY <1>2, <1>3, <1>5, OtherStep

-----------------------------------------------------------------------------
LEMMA InitSerialInv == ServiceInit => SerialInv
<1> SUFFICES ASSUME ServiceInit PROVE SerialInv
  OBVIOUS
<1>1. \A w \in OnBench : task[w] = Idle
  BY OnBenchTasks DEF ServiceInit
<1>2. \A w \in OnBench : CallFresh(w, task[w], mem, current)
  BY <1>1, EndsFresh
<1>3. Exclusive
  BY <1>1, IdleStill, InFlightFlying DEF Exclusive
<1>4. NeverScrappedBuilding(mem)
  BY NoneIsNew DEF NeverScrappedBuilding, ServiceInit, Created, Procs, PromptStates
<1> QED BY <1>2, <1>3, <1>4 DEF SerialInv

\* No step but these two kinds changes what the bench shows.
Changes(w) == Saved(w) \/ (w \in Builds /\ BuildStarts(w))

LEMMA SerialStep ==
  ASSUME OneAtATime, ServiceInv, SerialInv, [ServiceNext]_serviceVars
  PROVE  /\ SerialInv'
         /\ \/ mem'["bench"] = mem["bench"]
            \/ \E w \in OnBench :
                 /\ Changes(w) /\ task[w].pc = "renamed" /\ mem' = Indexed(w)
                 /\ Move(mem["bench"][task[w].prompt], task[w].next)
<1> DEFINE Goal ==
      /\ SerialInv'
      /\ \/ mem'["bench"] = mem["bench"]
         \/ \E w \in OnBench :
              /\ Changes(w) /\ task[w].pc = "renamed" /\ mem' = Indexed(w)
              /\ Move(mem["bench"][task[w].prompt], task[w].next)
<1> SUFFICES Goal
  OBVIOUS
<1>1. ASSUME NEW r \in BenchRequests, NEW p \in Prompts, Request(r, p)
      PROVE  Goal
  <2>1. mem' = mem
    BY <1>1 DEF Request, Edit, Ready, Scrap, Restore, Accept
  <2> QED BY <1>1, <2>1, RequestSerial
<1>2. ASSUME NEW r \in McpRequests,
             \/ \E p \in Prompts : MarkBuilt(r, p)
             \/ Renames(r) \/ Saved(r) \/ WriteFails(r)
      PROVE  Goal
  BY <1>2, McpSerial
<1>3. ASSUME NEW w \in OnBench, DocsLoaded(w) \/ ClaudeFound(w) \/ Renames(w)
      PROVE  Goal
  <2>1. \E pc \in {"write", "renamed"} :
          /\ task[w].pc \notin {"idle", "running"}
          /\ task' = [task EXCEPT ![w].pc = pc] /\ UNCHANGED <<mem, current>>
    BY <1>3 DEF DocsLoaded, ClaudeFound, Renames, slotVars
  <2> QED BY <2>1, GoesOn
<1>4. ASSUME NEW b \in Builds, NEW p \in Prompts, Build(b, p)
      PROVE  Goal
  <2>1. mem' = mem
    BY <1>4 DEF Build, Accept
  <2> QED BY <1>4, <2>1, BuildSerial
<1>5. ASSUME NEW b \in Builds, ClaudeMissing(b)
      PROVE  Goal
  BY <1>5, GivesUp DEF ClaudeMissing, slotVars, OnBench
<1>6. ASSUME NEW b \in Builds, BuildStarts(b)
      PROVE  Goal
  BY <1>6, StartsSerial DEF BuildStarts, Changes, OnBench
<1>7. ASSUME NEW b \in Builds, BuildRefused(b)
      PROVE  Goal
  BY <1>7, NeverRefused
<1>8. ASSUME NEW b \in Builds, NEW o \in Outcomes, BuildEnds(b, o)
      PROVE  Goal
  BY <1>8, EndsSerial DEF BuildEnds
<1>9. ASSUME NEW w \in OnBench, Saved(w) \/ WriteFails(w)
      PROVE  Goal
  <2>1. CASE Saved(w)
    BY <2>1, SavedSerial DEF Saved, Changes
  <2>2. CASE WriteFails(w)
    BY <2>2, FailsSerial DEF WriteFails
  <2> QED BY <1>9, <2>1, <2>2
<1>10. CASE UNCHANGED serviceVars
  <2>1. mem' = mem /\ task' = task /\ current' = current
    BY <1>10 DEF serviceVars
  <2> QED BY <2>1, OtherStep
<1>11. ~McpStarts /\ ~BenchRestarts
  BY DEF OneAtATime, McpStarts, BenchRestarts
<1> HIDE DEF Goal
<1> QED BY <1>1, <1>2, <1>3, <1>4, <1>5, <1>6, <1>7, <1>8, <1>9, <1>10, <1>11
        DEF ServiceNext, Tasks, Requests, OnBench

LEMMA AlwaysSerialInv == OneAtATime => (ServiceSpec => [](ServiceInv /\ SerialInv))
<1> SUFFICES ASSUME OneAtATime PROVE ServiceSpec => [](ServiceInv /\ SerialInv)
  OBVIOUS
<1>1. ServiceInv /\ SerialInv /\ [ServiceNext]_serviceVars => SerialInv'
  BY SerialStep
<1> QED BY <1>1, InitSerialInv, AlwaysServiceInv, PTL DEF ServiceSpec

\* Whatever the bench shows of a prompt next is one rung of the ladder away, or
\* a restore, and no recorded build is lost on the way: what a call computed
\* before its awaits is still a legal move when it reaches the index.
THEOREM LadderIsRespected == OneAtATime => (ServiceSpec => LadderRespected)
<1> SUFFICES ASSUME OneAtATime PROVE ServiceSpec => LadderRespected
  OBVIOUS
<1>1. ServiceInv /\ SerialInv /\ [ServiceNext]_serviceVars =>
      [\A p \in Prompts :
         LET old == mem["bench"][p]  new == mem'["bench"][p] IN
         /\ old.builds \subseteq new.builds
         /\ \/ new.state = old.state
            \/ \E e \in PromptEvents : <<old.state, e, new.state>> \in Moves
            \/ /\ old.state = "scrapped"
               /\ new.state = restorePromptState(old.scrappedFrom)]_serviceVars
  <2> SUFFICES ASSUME ServiceInv, SerialInv, [ServiceNext]_serviceVars,
                      NEW p \in Prompts
               PROVE  Move(mem["bench"][p], mem'["bench"][p])
    BY DEF Move
  <2>1. \A rec : Move(rec, rec)
    BY DEF Move
  <2>2. CASE mem'["bench"] = mem["bench"]
    BY <2>1, <2>2
  <2>3. ASSUME NEW w \in OnBench, task[w].pc = "renamed", mem' = Indexed(w),
               Move(mem["bench"][task[w].prompt], task[w].next)
        PROVE  Move(mem["bench"][p], mem'["bench"][p])
    BY <2>1, <2>3, BenchIndexed
  <2> QED BY <2>2, <2>3, SerialStep
<1> QED BY <1>1, AlwaysSerialInv, PTL DEF ServiceSpec, LadderRespected

-----------------------------------------------------------------------------
(* Index and files: no bound on the calls in flight, any agents, refused    *)
(* writes and restarts.                                                     *)

\* The bench's calls, in t, between the rename of p's file and its index.
Pending(t, p) == {w \in OnBench : t[w].pc = "renamed" /\ t[w].prompt = p}

\* A prompt whose last writes did not cross has at most one write of the bench
\* between rename and index, and its file holds what the index is about to be
\* told, or is already told.
Aligned(t, d, m, p) ==
  /\ \A v, w \in Pending(t, p) : v = w
  /\ \A w \in Pending(t, p) : d[p] = t[w].next
  /\ Pending(t, p) = {} => m["bench"][p] \in {d[p], Parsed(d[p])}

ApartInv == \A p \in Prompts \ crossed : Aligned(task, disk, mem, p)

LEMMA UnindexedPending == \A p : Unindexed(p) = Pending(task, p)
BY DEF Unindexed, Pending, OnBench

LEMMA AlignedKept ==
  ASSUME NEW p, NEW t, NEW d, NEW m, NEW t2, NEW d2, NEW m2, Aligned(t, d, m, p),
         d2[p] = d[p], m2["bench"][p] = m["bench"][p],
         \A w \in OnBench :
           (t[w].pc = "renamed" /\ t[w].prompt = p) \/ (t2[w].pc = "renamed" /\ t2[w].prompt = p)
             => t2[w] = t[w]
  PROVE  Aligned(t2, d2, m2, p)
<1>1. Pending(t2, p) = Pending(t, p) /\ \A w \in Pending(t, p) : t2[w] = t[w]
  BY DEF Pending
<1> QED BY <1>1 DEF Aligned

LEMMA ApartKept ==
  ASSUME ApartInv, mem'["bench"] = mem["bench"], disk' = disk, crossed' = crossed,
         \A w \in OnBench : task[w].pc = "renamed" \/ task'[w].pc = "renamed"
                              => task'[w] = task[w]
  PROVE  ApartInv'
<1> SUFFICES ASSUME NEW p \in Prompts \ crossed PROVE Aligned(task', disk', mem', p)
  BY DEF ApartInv
<1>1. Aligned(task, disk, mem, p)
  BY DEF ApartInv
<1>2. disk'[p] = disk[p] /\ mem'["bench"][p] = mem["bench"][p]
  OBVIOUS
<1> QED BY <1>1, <1>2, AlignedKept

LEMMA ApartOneCall ==
  ASSUME ApartInv, ServiceInv, mem' = mem, disk' = disk, crossed' = crossed,
         NEW w \in Tasks, NEW c, task' = [task EXCEPT ![w] = c],
         task[w].pc # "renamed", c.pc # "renamed"
  PROVE  ApartInv'
<1>1. task'[w] = c /\ \A v \in Tasks : v # w => task'[v] = task[v]
  BY InvSpelled
<1> QED BY <1>1, OnBenchTasks, ApartKept

LEMMA AcceptedApart ==
  ASSUME ApartInv, ServiceInv, NEW w \in Tasks, NEW pc \in {"docs", "probe", "write"},
         NEW op, NEW p, NEW next, Accept(w, pc, op, p, next)
  PROVE  ApartInv'
<1>1. Call(pc, op, p, next).pc = pc
  BY DEF Call
<1> QED BY <1>1, ApartOneCall, IdleCall DEF Accept

\* A rename is the only step that writes a file.  Another process's marks the
\* prompt; the bench's own does, too, while an earlier write is not indexed.
LEMMA RenamesApart ==
  ASSUME ApartInv, ServiceInv, NEW w \in Tasks, Renames(w)
  PROVE  ApartInv'
<1>0. task[w].pc = "write" /\ task[w].prompt \in Prompts /\ task[w] \in Calls
  BY InvSpelled DEF Shape, CallOK, Renames
<1> PICK p \in Prompts : p = task[w].prompt
  BY <1>0
<1>1. /\ mem' = mem /\ disk' = [disk EXCEPT ![p] = task[w].next]
      /\ task' = [task EXCEPT ![w].pc = "renamed"]
      /\ crossed' = IF Crosses(w) THEN crossed \cup {p} ELSE crossed \ {p}
  BY DEF Renames
<1>2. disk'[p] = task[w].next /\ \A q \in Prompts : q # p => disk'[q] = disk[q]
  BY <1>1, InvSpelled
<1>3. /\ \A v \in Tasks : v # w => task'[v] = task[v]
      /\ task'[w].pc = "renamed" /\ task'[w].prompt = p /\ task'[w].next = task[w].next
  BY <1>1, InvSpelled DEF Calls
<1>4. ASSUME NEW q \in Prompts \ crossed', q # p
      PROVE  Aligned(task', disk', mem', q)
  <2>1. Aligned(task, disk, mem, q)
    BY <1>1, <1>4 DEF ApartInv
  <2>2. \A v \in OnBench :
          (task[v].pc = "renamed" /\ task[v].prompt = q)
            \/ (task'[v].pc = "renamed" /\ task'[v].prompt = q) => task'[v] = task[v]
    BY <1>3, <1>4, OnBenchTasks
  <2>3. disk'[q] = disk[q] /\ mem'["bench"][q] = mem["bench"][q]
    BY <1>1, <1>2, <1>4
  <2> QED BY <2>1, <2>2, <2>3, AlignedKept
<1>5. ASSUME p \notin crossed'
      PROVE  Aligned(task', disk', mem', p)
  <2>1. ~Crosses(w)
    BY <1>1, <1>5
  <2>2. w \in OnBench /\ Pending(task, p) = {}
    BY <2>1, UnindexedPending DEF Crosses, Proc, OnBench, Tasks, Requests
  <2>3. Pending(task', p) = {w}
    BY <1>3, <2>2, OnBenchTasks DEF Pending
  <2> QED BY <1>2, <1>3, <2>3 DEF Aligned
<1> QED BY <1>4, <1>5 DEF ApartInv

\* The index is told what a call of the bench renamed.
LEMMA IndexedApart ==
  ASSUME ApartInv, ServiceInv, NEW w \in OnBench, NEW c, task[w].pc = "renamed",
         mem' = Indexed(w), disk' = disk, crossed' = crossed,
         task' = [task EXCEPT ![w] = c], c.pc # "renamed"
  PROVE  ApartInv'
<1>0. task[w].prompt \in Prompts
  BY BenchCall
<1> PICK p \in Prompts : p = task[w].prompt
  BY <1>0
<1>1. /\ mem'["bench"][p] = task[w].next
      /\ \A q \in Prompts : q # p => mem'["bench"][q] = mem["bench"][q]
  BY BenchIndexed
<1>2. task'[w] = c /\ \A v \in OnBench : v # w => task'[v] = task[v]
  BY OnBenchTasks, InvSpelled
<1>3. ASSUME NEW q \in Prompts \ crossed, q # p
      PROVE  Aligned(task', disk', mem', q)
  <2>1. Aligned(task, disk, mem, q)
    BY DEF ApartInv
  <2>2. \A v \in OnBench :
          (task[v].pc = "renamed" /\ task[v].prompt = q)
            \/ (task'[v].pc = "renamed" /\ task'[v].prompt = q) => task'[v] = task[v]
    BY <1>2, <1>3
  <2>3. disk'[q] = disk[q] /\ mem'["bench"][q] = mem["bench"][q]
    BY <1>1, <1>3
  <2> QED BY <2>1, <2>2, <2>3, AlignedKept
<1>4. ASSUME p \notin crossed
      PROVE  Aligned(task', disk', mem', p)
  <2>1. Aligned(task, disk, mem, p) /\ w \in Pending(task, p)
    BY <1>4 DEF ApartInv, Pending
  <2>2. Pending(task, p) = {w} /\ disk[p] = task[w].next
    BY <2>1 DEF Aligned
  <2>3. Pending(task', p) = {}
    BY <1>2, <2>2 DEF Pending
  <2> QED BY <1>1, <2>2, <2>3 DEF Aligned
<1> QED BY <1>3, <1>4 DEF ApartInv

LEMMA FinishCallPc ==
  ASSUME NEW m, NEW b, NEW p, NEW op, NEW o
  PROVE  FinishCall(m, b, p, op, o).pc # "renamed"
BY IdleCall DEF FinishCall, Call

\* A restart: the index is what the files say, and no call survives.
LEMMA RestartApart ==
  ASSUME ApartInv, ServiceInv, BenchRestarts
  PROVE  ApartInv'
<1>1. mem'["bench"] = Loaded /\ disk' = disk /\ \A w \in OnBench : task'[w] = Idle
  BY OnBenchTasks, InvSpelled DEF BenchRestarts, Procs
<1>2. \A p : Pending(task', p) = {}
  BY <1>1, IdleCall DEF Pending
<1>3. \A p \in Prompts : mem'["bench"][p] = Parsed(disk'[p])
  BY <1>1 DEF Loaded
<1> QED BY <1>2, <1>3 DEF ApartInv, Aligned

LEMMA ApartStep ==
  ASSUME ServiceInv, ApartInv, [ServiceNext]_serviceVars
  PROVE  ApartInv'
<1>1. ASSUME NEW r \in BenchRequests, NEW p \in Prompts, Request(r, p)
      PROVE  ApartInv'
  <2>1. r \in Tasks
    BY DEF Tasks, Requests
  <2>2. CASE \E t \in Texts : Edit(r, p, t)
    BY <2>1, <2>2, AcceptedApart DEF Edit
  <2>3. CASE Ready(r, p)
    BY <2>1, <2>3, AcceptedApart DEF Ready
  <2>4. CASE Scrap(r, p)
    BY <2>1, <2>4, AcceptedApart DEF Scrap
  <2>5. CASE Restore(r, p)
    BY <2>1, <2>5, AcceptedApart DEF Restore
  <2> QED BY <1>1, <2>2, <2>3, <2>4, <2>5 DEF Request
<1>2. ASSUME NEW r \in McpRequests, NEW p \in Prompts, MarkBuilt(r, p)
      PROVE  ApartInv'
  BY <1>2, AcceptedApart DEF MarkBuilt, Tasks, Requests
<1>3. ASSUME NEW w \in Tasks, DocsLoaded(w) \/ ClaudeFound(w) \/ ClaudeMissing(w)
      PROVE  ApartInv'
  <2>1. task[w].pc \in {"docs", "probe"} /\ mem' = mem /\ disk' = disk /\ crossed' = crossed
    BY <1>3 DEF DocsLoaded, ClaudeFound, ClaudeMissing
  <2>2. \/ task' = [task EXCEPT ![w] = Idle]
        \/ task' = [task EXCEPT ![w].pc = "write"]
    BY <1>3 DEF DocsLoaded, ClaudeFound, ClaudeMissing
  <2>3. task'[w].pc # "renamed" /\ \A v \in Tasks : v # w => task'[v] = task[v]
    BY <2>2, IdleCall, InvSpelled DEF Calls
  <2> QED BY <2>1, <2>3, OnBenchTasks, ApartKept
<1>4. ASSUME NEW b \in Builds, NEW p \in Prompts, Build(b, p)
      PROVE  ApartInv'
  BY <1>4, AcceptedApart DEF Build, Tasks
<1>5. ASSUME NEW b \in Builds, BuildStarts(b)
      PROVE  ApartInv'
  <2>1. /\ task[b].pc = "renamed" /\ mem' = Indexed(b) /\ disk' = disk /\ crossed' = crossed
        /\ task' = [task EXCEPT ![b] = [task[b] EXCEPT !.pc = "running"]] /\ b \in OnBench
    BY <1>5, InvSpelled DEF BuildStarts, OnBench, Tasks
  <2>2. [task[b] EXCEPT !.pc = "running"].pc # "renamed"
    BY InvSpelled DEF Tasks, Calls
  <2> QED BY <2>1, <2>2, IndexedApart
<1>6. ASSUME NEW b \in Builds, BuildRefused(b)
      PROVE  ApartInv'
  <2>1. PICK c : task' = [task EXCEPT ![b] = c] /\ c.pc # "renamed"
    BY <1>6, FinishCallPc DEF BuildRefused
  <2>2. /\ task[b].pc = "renamed" /\ mem' = Indexed(b) /\ disk' = disk /\ crossed' = crossed
        /\ b \in OnBench
    BY <1>6 DEF BuildRefused, OnBench
  <2> QED BY <2>1, <2>2, IndexedApart
<1>7. ASSUME NEW b \in Builds, NEW o \in Outcomes, BuildEnds(b, o)
      PROVE  ApartInv'
  <2> DEFINE f == FinishCall(mem, b, promptOf[b], "finish", o)
  <2>0. task' = [task EXCEPT ![b] = f] /\ f.pc # "renamed"
    BY <1>7, FinishCallPc DEF BuildEnds
  <2> HIDE DEF f
  <2>1. PICK c : task' = [task EXCEPT ![b] = c] /\ c.pc # "renamed"
    BY <2>0
  <2>2. /\ task[b].pc = "running" /\ mem' = mem /\ disk' = disk /\ crossed' = crossed
        /\ b \in Tasks
    BY <1>7 DEF BuildEnds, Tasks
  <2> QED BY <2>1, <2>2, ApartOneCall
<1>8. ASSUME NEW w \in Tasks, Renames(w)
      PROVE  ApartInv'
  BY <1>8, RenamesApart
<1>9. ASSUME NEW w \in Tasks, Saved(w)
      PROVE  ApartInv'
  <2>1. CASE w \in OnBench
    BY <1>9, <2>1, IdleCall, IndexedApart DEF Saved
  <2>2. CASE w \notin OnBench
    <3>1. w \in McpRequests /\ Proc(w) = "mcp"
      BY <2>2 DEF Tasks, Requests, OnBench, Proc
    <3>2. mem'["bench"] = mem["bench"]
      BY <1>9, <3>1, InvSpelled DEF Saved, Indexed, Procs
    <3>3. \A v \in OnBench : task'[v] = task[v]
      BY <1>9, <2>2, OnBenchTasks, InvSpelled DEF Saved
    <3>4. disk' = disk /\ crossed' = crossed
      BY <1>9 DEF Saved
    <3> QED BY <3>2, <3>3, <3>4, ApartKept
  <2> QED BY <2>1, <2>2
<1>10. ASSUME NEW w \in Tasks, WriteFails(w)
      PROVE  ApartInv'
  <2> DEFINE f == IF task[w].op = "finish"
                  THEN FinishCall(mem, w, task[w].prompt, "refinish", Failed) ELSE Idle
  <2>0. f.pc # "renamed"
    BY FinishCallPc, IdleCall
  <2>1. /\ task[w].pc = "write" /\ mem' = mem /\ disk' = disk /\ crossed' = crossed
        /\ task' = [task EXCEPT ![w] = f]
    BY <1>10, InvSpelled DEF WriteFails
  <2> HIDE DEF f
  <2>2. PICK c : task' = [task EXCEPT ![w] = c] /\ c.pc # "renamed"
    BY <2>0, <2>1
  <2> QED BY <2>1, <2>2, ApartOneCall
<1>11. CASE McpStarts
  <2>1. /\ mem'["bench"] = mem["bench"] /\ disk' = disk /\ crossed' = crossed
        /\ \A w \in OnBench : task'[w] = task[w]
    BY <1>11, OnBenchTasks, InvSpelled DEF McpStarts, Procs
  <2> QED BY <2>1, ApartKept
<1>12. CASE BenchRestarts
  BY <1>12, RestartApart
<1>13. CASE UNCHANGED serviceVars
  BY <1>13, ApartKept DEF serviceVars
<1> QED BY <1>1, <1>2, <1>3, <1>4, <1>5, <1>6, <1>7, <1>8, <1>9, <1>10, <1>11, <1>12, <1>13
        DEF ServiceNext, Tasks, Requests

\* However many calls of the bench and of agents are in flight, whatever writes
\* are refused and whenever a process is restarted: the bench shows something
\* else than the file says only of a prompt whose last writes crossed, and its
\* next write that crosses no other puts that right.
THEOREM ApartOnlyByCrossing == ServiceSpec => []ApartOnlyIfCrossed
<1>1. ServiceInit => ApartInv
  <2> SUFFICES ASSUME ServiceInit PROVE ApartInv
    OBVIOUS
  <2>1. mem["bench"] = disk /\ \A w \in OnBench : task[w] = Idle
    BY OnBenchTasks DEF ServiceInit, Procs
  <2>2. \A p : Pending(task, p) = {}
    BY <2>1, IdleCall DEF Pending
  <2> QED BY <2>1, <2>2 DEF ApartInv, Aligned
<1>2. ServiceInv /\ ApartInv /\ [ServiceNext]_serviceVars => ApartInv'
  BY ApartStep
<1>3. ApartInv => ApartOnlyIfCrossed
  BY UnindexedPending DEF ApartInv, Aligned, ApartOnlyIfCrossed
<1> QED BY <1>1, <1>2, <1>3, AlwaysServiceInv, PTL DEF ServiceSpec

-----------------------------------------------------------------------------
(* What is building is being built, when no write is refused.               *)

LEMMA LandedKept ==
  ASSUME ServiceInv, Landed, NEW w \in OnBench, mem'["bench"] = mem["bench"], NEW c,
         task' = [task EXCEPT ![w] = c],
         Landing(task[w]) => Landing(c) /\ c.prompt = task[w].prompt,
         Finishes(c) => c.pc \in {"write", "renamed"}
  PROVE  Landed'
<1>1. task'[w] = c /\ \A v \in OnBench : v # w => task'[v] = task[v]
  BY BenchCall, OnBenchTasks
<1>2. \A v \in OnBench : Landing(task[v]) => Landing(task'[v]) /\ task'[v].prompt = task[v].prompt
  BY <1>1
<1>3. Builds \subseteq OnBench
  BY DEF OnBench
<1> QED BY <1>1, <1>2, <1>3 DEF Landed

LEMMA AcceptedLanded ==
  ASSUME ServiceInv, Landed, NEW w \in OnBench, NEW pc, NEW op \in {"save", "build"},
         NEW p, NEW next, Accept(w, pc, op, p, next)
  PROVE  Landed'
<1> DEFINE c == Call(pc, op, p, next)
<1>1. c.op = op
  BY DEF Call
<1>2. mem' = mem /\ task' = [task EXCEPT ![w] = c] /\ task[w] = Idle
  BY DEF Accept
<1> HIDE DEF c
<1>3. ~Finishes(c)
  BY <1>1 DEF Finishes
<1> QED BY <1>2, <1>3, IdleStill, LandedKept

LEMMA GoesOnLanded ==
  ASSUME ServiceInv, Landed, NEW w \in OnBench, NEW pc \in {"write", "renamed"},
         task[w].pc # "running", task' = [task EXCEPT ![w].pc = pc], mem' = mem
  PROVE  Landed'
<1> DEFINE c == [task[w] EXCEPT !.pc = pc]
<1>1. task' = [task EXCEPT ![w] = c]
  BY BenchCall
<1>2. c.pc = pc /\ c.op = task[w].op /\ c.prompt = task[w].prompt
  BY BenchCall DEF Calls
<1> HIDE DEF c
<1>3. Landing(task[w]) => Landing(c)
  BY <1>2 DEF Landing, Finishes
<1> QED BY <1>1, <1>2, <1>3, LandedKept

\* The prompt that a save or a landed build leaves is not building; the one
\* that a build starts on is built by that build.
LEMMA ChangesLanded ==
  ASSUME ServiceInv, SerialInv, Landed, NEW w \in OnBench, Changes(w)
  PROVE  Landed'
<1> DEFINE p == task[w].prompt
<1>1. /\ task[w].pc = "renamed" /\ mem' = Indexed(w) /\ p \in Prompts
      /\ \A v \in OnBench : v # w => task'[v] = task[v]
      /\ \/ task[w].op # "build" /\ task'[w] = Idle
         \/ /\ task[w].op = "build" /\ w \in Builds
            /\ task'[w].pc = "running" /\ task'[w].prompt = p /\ task'[w].op = "build"
  BY BenchCall, OnBenchTasks DEF Changes, Saved, BuildStarts, Calls
<1>2. /\ mem'["bench"][p] = task[w].next
      /\ \A q \in Prompts : q # p => mem'["bench"][q] = mem["bench"][q]
  BY <1>1, BenchIndexed
<1>3. CallFresh(w, task[w], mem, current)
  BY DEF SerialInv
<1>4. CASE task[w].op # "build"
  <2>1. Finishes(task[w]) \/ (Flying(task[w]) /\ w \in BenchRequests)
    BY <1>1, <1>3, <1>4, BenchCall DEF CallFresh, Flying, Landing, OnBench
  <2>2. task[w].next.state # "building"
    BY <1>3, <2>1 DEF CallFresh, AskedFresh, LandingFresh
  <2>3. ASSUME NEW q \in Prompts, mem'["bench"][q].state = "building"
        PROVE  \E b \in Builds : Landing(task'[b]) /\ task'[b].prompt = q
    <3>1. q # p /\ mem["bench"][q].state = "building"
      BY <1>2, <2>2, <2>3
    <3>2. PICK b \in Builds : Landing(task[b]) /\ task[b].prompt = q
      BY <3>1 DEF Landed
    <3> QED BY <1>1, <3>1, <3>2 DEF OnBench
  <2> QED BY <1>1, <1>4, <2>3, IdleStill DEF Landed
<1>5. CASE task[w].op = "build"
  <2>1. Landing(task'[w]) /\ ~Landing(task[w]) /\ ~Finishes(task'[w])
    BY <1>1, <1>5 DEF Landing, Finishes
  <2>2. ASSUME NEW q \in Prompts, mem'["bench"][q].state = "building"
        PROVE  \E b \in Builds : Landing(task'[b]) /\ task'[b].prompt = q
    <3>1. CASE q = p
      BY <1>1, <1>5, <2>1, <3>1
    <3>2. CASE q # p
      <4>1. PICK b \in Builds : Landing(task[b]) /\ task[b].prompt = q
        BY <1>2, <2>2, <3>2 DEF Landed
      <4> QED BY <1>1, <2>1, <4>1 DEF OnBench
    <3> QED BY <3>1, <3>2
  <2> QED BY <1>1, <2>1, <2>2 DEF Landed
<1> QED BY <1>4, <1>5

LEMMA LandedStep ==
  ASSUME OneAtATime, ~WritesMayFail, ServiceInv, SerialInv, Landed,
         [ServiceNext]_serviceVars
  PROVE  Landed'
<1>1. ASSUME NEW r \in BenchRequests, NEW p \in Prompts, Request(r, p)
      PROVE  Landed'
  <2>1. r \in OnBench
    BY DEF OnBench
  <2>2. CASE \E t \in Texts : Edit(r, p, t)
    BY <2>1, <2>2, AcceptedLanded DEF Edit
  <2>3. CASE Ready(r, p)
    BY <2>1, <2>3, AcceptedLanded DEF Ready
  <2>4. CASE Scrap(r, p)
    BY <2>1, <2>4, AcceptedLanded DEF Scrap
  <2>5. CASE Restore(r, p)
    BY <2>1, <2>5, AcceptedLanded DEF Restore
  <2> QED BY <1>1, <2>2, <2>3, <2>4, <2>5 DEF Request
<1>2. ASSUME NEW r \in McpRequests,
             \/ \E p \in Prompts : MarkBuilt(r, p)
             \/ Renames(r) \/ Saved(r) \/ WriteFails(r)
      PROVE  Landed'
  <2>1. \E c : task' = [task EXCEPT ![r] = c]
    BY <1>2 DEF MarkBuilt, Accept, Renames, Saved, WriteFails
  <2>2. \A w \in OnBench : task'[w] = task[w]
    BY <2>1, OnBenchTasks, InvSpelled
  <2>3. mem'["bench"] = mem["bench"]
    BY <1>2, McpSerial
  <2> QED BY <2>2, <2>3 DEF Landed, OnBench
<1>3. ASSUME NEW w \in OnBench, DocsLoaded(w) \/ ClaudeFound(w) \/ Renames(w)
      PROVE  Landed'
  <2>1. \E pc \in {"write", "renamed"} :
          task[w].pc # "running" /\ task' = [task EXCEPT ![w].pc = pc] /\ mem' = mem
    BY <1>3 DEF DocsLoaded, ClaudeFound, Renames
  <2> QED BY <2>1, GoesOnLanded
<1>4. ASSUME NEW b \in Builds, NEW p \in Prompts, Build(b, p)
      PROVE  Landed'
  BY <1>4, AcceptedLanded DEF Build, OnBench
<1>5. ASSUME NEW b \in Builds, ClaudeMissing(b)
      PROVE  Landed'
  <2>1. b \in OnBench /\ ~Landing(task[b])
    BY <1>5 DEF Landed, ClaudeMissing, Landing, OnBench
  <2> QED BY <1>5, <2>1, IdleStill, LandedKept DEF ClaudeMissing
<1>6. ASSUME NEW b \in Builds, BuildStarts(b)
      PROVE  Landed'
  BY <1>6, ChangesLanded DEF Changes, OnBench
<1>7. ASSUME NEW b \in Builds, BuildRefused(b)
      PROVE  Landed'
  BY <1>7, NeverRefused
<1>8. ASSUME NEW b \in Builds, NEW o \in Outcomes, BuildEnds(b, o)
      PROVE  Landed'
  <2> DEFINE c == FinishCall(mem, b, promptOf[b], "finish", o)
  <2>1. task' = [task EXCEPT ![b] = c] /\ mem' = mem /\ task[b].pc = "running" /\ b \in OnBench
    BY <1>8 DEF BuildEnds, OnBench
  <2>2. /\ promptOf[b] = task[b].prompt /\ promptOf[b] \in Prompts
        /\ mem["bench"][promptOf[b]].state = "building"
    BY <2>1, BenchCall DEF SerialInv, CallFresh, LandingFresh, Landing
  <2>3. Landing(c) /\ c.prompt = promptOf[b] /\ c.pc = "write"
    BY <2>2, FinishMoves
  <2> HIDE DEF c
  <2> QED BY <2>1, <2>2, <2>3, LandedKept
<1>9. ASSUME NEW w \in OnBench, Saved(w)
      PROVE  Landed'
  BY <1>9, ChangesLanded DEF Changes
<1>10. CASE UNCHANGED serviceVars
  BY <1>10 DEF serviceVars, Landed
<1>11. ~McpStarts /\ ~BenchRestarts /\ \A w \in Tasks : ~WriteFails(w)
  BY DEF OneAtATime, McpStarts, BenchRestarts, WriteFails
<1> QED BY <1>1, <1>2, <1>3, <1>4, <1>5, <1>6, <1>7, <1>8, <1>9, <1>10, <1>11
        DEF ServiceNext, Tasks, Requests, OnBench

\* A prompt says `building` exactly while a build of it runs or is being
\* landed, whatever agents report meanwhile, as long as no write is refused.
THEOREM BuildingIsRunning ==
  OneAtATime /\ ~WritesMayFail => (ServiceSpec => []BuildingMeansRunning)
<1> SUFFICES ASSUME OneAtATime, ~WritesMayFail
             PROVE  ServiceSpec => []BuildingMeansRunning
  OBVIOUS
<1>1. ServiceInit => Landed
  <2> SUFFICES ASSUME ServiceInit PROVE Landed
    OBVIOUS
  <2>1. \A p \in Prompts : mem["bench"][p].state = "draft"
    BY DEF ServiceInit, Created, Procs
  <2>2. \A w \in OnBench : task[w] = Idle
    BY OnBenchTasks DEF ServiceInit
  <2> QED BY <2>1, <2>2, IdleStill DEF Landed
<1>2. ServiceInv /\ SerialInv /\ Landed /\ [ServiceNext]_serviceVars => Landed'
  BY LandedStep
<1>3. ServiceInv /\ SerialInv /\ Landed => BuildingMeansRunning
  <2> SUFFICES ASSUME ServiceInv, SerialInv, Landed, NEW p \in Prompts
               PROVE  mem["bench"][p].state = "building"
                        <=> \E b \in Builds : /\ promptOf[b] = p
                                              /\ task[b].pc = "running" \/ Finishing(b)
    BY DEF BuildingMeansRunning
  <2>1. \A b \in Builds : Landing(task[b]) <=> task[b].pc = "running" \/ Finishing(b)
    BY DEF Landing, Finishes, Finishing
  <2>2. \A b \in Builds : Landing(task[b]) => promptOf[b] = task[b].prompt
    BY BenchCall DEF OnBench
  <2>3. \A b \in Builds : Landing(task[b]) => mem["bench"][task[b].prompt].state = "building"
    BY DEF OnBench, SerialInv, CallFresh, LandingFresh
  <2> QED BY <2>1, <2>2, <2>3 DEF Landed
<1> QED BY <1>1, <1>2, <1>3, AlwaysSerialInv, PTL DEF ServiceSpec
=============================================================================
