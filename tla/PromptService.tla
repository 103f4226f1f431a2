---------------------------- MODULE PromptService ----------------------------
(***************************************************************************)
(* packages/server/src/prompts/service.ts over prompts/store.ts: the life  *)
(* of every prompt, as the bench process and the MCP process see it.       *)
(*                                                                         *)
(* Two processes hold an in-memory index (`mem`) of the same files         *)
(* (`disk`).  A mutation reads the index, computes the whole next prompt,  *)
(* then awaits the file's rename and only afterwards updates the index: a  *)
(* step is the code between two awaits.  task[w] is one call in flight; a  *)
(* call build(b) keeps its task through the run of claude and finishBuild. *)
(* The runner is BuildSlot, which BuildRunner implements.                  *)
(***************************************************************************)
EXTENDS BuildSlot, PromptLadder, FiniteSets, Naturals

CONSTANTS
  BenchRequests,  \* mutation requests the bench serves at a time
  McpRequests,    \* jig_mark_built calls the MCP process serves at a time
  Texts,          \* what requirement and acceptance may say
  Reread,         \* what is left of a text when its file is parsed again: a
                  \* requirement is cut at its first `##` line
  MaxInFlight,    \* bound: requests a client keeps in flight on the bench
  Scrappable,     \* the states from which the clients call scrap
  MayRestart,     \* may the two processes be stopped and started again?
  WritesMayFail   \* may the file system refuse a write?

Requests == BenchRequests \cup McpRequests
Tasks    == Requests \cup Builds
Procs    == {"bench", "mcp"}

ASSUME TaskAssumption ==
  /\ BenchRequests \cap McpRequests = {}
  /\ Requests \cap Builds = {}
  /\ Reread \in [Texts -> Texts]
  /\ MaxInFlight \in Nat
  /\ Scrappable \subseteq PromptStates
  /\ MayRestart \in BOOLEAN /\ WritesMayFail \in BOOLEAN

VARIABLES
  mem,    \* PromptStore.prompts of each process
  disk,   \* .jig/prompts/*.md
  task,   \* calls in flight, one per request slot and per build
  crossed \* history: prompts whose last writes crossed each other (Renames)

serviceVars == <<mem, disk, task, current, promptOf, outcome, crossed>>

\* A PromptBuildRecord; jig_mark_built writes one with no exit code.
BuildRecords == [id : Builds \cup {"external"}, exit : Codes]
External     == [id |-> "external", exit |-> "null"]

PromptRecords ==
  [state : PromptStates, text : Texts, builds : SUBSET BuildRecords,
   scrappedFrom : PromptStates \cup {None}]

PCs == {"idle", "docs", "probe", "write", "renamed", "running"}
Ops == {"save", "build", "finish", "refinish"}

ASSUME NoneIsNew ==
  /\ None \notin Texts \cup PromptStates \cup Tasks \cup PromptRecords \cup Ops
  /\ "external" \notin Builds

Call(pc, op, p, next) == [pc |-> pc, op |-> op, prompt |-> p, next |-> next]
Idle == Call("idle", None, None, None)

\* create(): a draft with no builds.
Created(t) ==
  [state |-> "draft", text |-> t, builds |-> {}, scrappedFrom |-> None]

\* serializePrompt, then parsePrompt: state, builds and scrappedFrom survive.
\* (A text or summary that itself has a `### Build` line would come back as one
\* more build record; such texts are left out.)
Parsed(rec) == [rec EXCEPT !.text = Reread[rec.text]]

\* PromptStore.reload: the index a process has when it starts.
Loaded == [p \in Prompts |-> Parsed(disk[p])]

\* The bench created the prompts, the MCP process was started afterwards.
ServiceInit ==
  /\ SlotInit
  /\ disk \in [Prompts -> {Created(t) : t \in Texts}]
  /\ mem = [proc \in Procs |-> IF proc = "bench" THEN disk ELSE Loaded]
  /\ task = [w \in Tasks |-> Idle]
  /\ crossed = {}

Proc(w) == IF w \in McpRequests THEN "mcp" ELSE "bench"

-----------------------------------------------------------------------------
(* The synchronous first part of a call: read the index, check, compute the *)
(* whole next prompt.  What the client keeps in flight is bounded.          *)

InFlight == {w \in BenchRequests \cup Builds :
               task[w].pc \notin {"idle", "running"}
                 /\ task[w].op \in {"save", "build"}}

Accept(w, pc, op, p, next) ==
  /\ task[w] = Idle
  /\ Proc(w) = "bench" => Cardinality(InFlight) < MaxInFlight
  /\ task' = [task EXCEPT ![w] = Call(pc, op, p, next)]
  /\ UNCHANGED <<mem, disk, crossed, slotVars>>

\* Mutant: the boundary at `building` is forgotten.
EditAnytime(r, p, t) ==
  LET prompt == mem["bench"][p] IN
  /\ prompt.state \in {"draft", "ready", "building"}
  /\ Accept(r, "write", "save", p, [prompt EXCEPT !.text = t])

Edit(r, p, t) ==
  LET prompt == mem["bench"][p] IN
  /\ prompt.state \in {"draft", "ready"}
  /\ Accept(r, "write", "save", p, [prompt EXCEPT !.text = t])

\* Mutant: the null of promptTransition is not looked at.
ReadyUnchecked(r, p) ==
  LET prompt == mem["bench"][p]
      next   == promptTransition(prompt.state, "ready")
  IN  Accept(r, "docs", "save", p, [prompt EXCEPT !.state = next])

\* ready() awaits the docs index between its check and its write.
Ready(r, p) ==
  LET prompt == mem["bench"][p]
      next   == promptTransition(prompt.state, "ready")
  IN  /\ next # Illegal
      /\ Accept(r, "docs", "save", p, [prompt EXCEPT !.state = next])

Scrap(r, p) ==
  LET prompt == mem["bench"][p]
      next   == promptTransition(prompt.state, "scrap")
  IN  /\ prompt.state \in Scrappable
      /\ next # Illegal
      /\ Accept(r, "write", "save", p,
                [prompt EXCEPT !.state = next, !.scrappedFrom = prompt.state])

\* Mutant: every restored prompt starts over as a draft.
RestoreToDraft(r, p) ==
  LET prompt == mem["bench"][p] IN
  /\ prompt.state = "scrapped"
  /\ Accept(r, "write", "save", p,
            [prompt EXCEPT !.state = "draft", !.scrappedFrom = None])

Restore(r, p) ==
  LET prompt == mem["bench"][p] IN
  /\ prompt.state = "scrapped"
  /\ Accept(r, "write", "save", p,
            [prompt EXCEPT !.state = restorePromptState(prompt.scrappedFrom),
                           !.scrappedFrom = None])

\* build(): refused while the runner is busy, then awaits isClaudeAvailable().
Build(b, p) ==
  LET prompt == mem["bench"][p]
      next   == promptTransition(prompt.state, "build")
  IN  /\ promptOf[b] = None
      /\ next # Illegal
      /\ current = None
      /\ Accept(b, "probe", "build", p, [prompt EXCEPT !.state = next])

\* markBuiltExternally, called by the MCP process on its own index.
MarkBuilt(r, p) ==
  LET prompt == mem["mcp"][p] IN
  /\ prompt.state \in {"ready", "building"}
  /\ Accept(r, "write", "save", p,
            [prompt EXCEPT !.state = "built", !.builds = @ \cup {External}])

DocsLoaded(r) ==
  /\ task[r].pc = "docs"
  /\ task' = [task EXCEPT ![r].pc = "write"]
  /\ UNCHANGED <<mem, disk, crossed, slotVars>>

ClaudeFound(b) ==
  /\ task[b].pc = "probe"
  /\ task' = [task EXCEPT ![b].pc = "write"]
  /\ UNCHANGED <<mem, disk, crossed, slotVars>>

ClaudeMissing(b) ==
  /\ task[b].pc = "probe"
  /\ task' = [task EXCEPT ![b] = Idle]
  /\ UNCHANGED <<mem, disk, crossed, slotVars>>

-----------------------------------------------------------------------------
(* persist(): atomicWriteFile, then the index.                              *)

\* The bench's calls that have renamed the file of p and not told the index.
Unindexed(p) ==
  {w \in BenchRequests \cup Builds : task[w].pc = "renamed" /\ task[w].prompt = p}

\* What w renames may not be what the bench's index says in the end: another
\* write of the bench is still to be indexed, or w is another process's.
Crosses(w) == Proc(w) = "mcp" \/ Unindexed(task[w].prompt) # {}

Renames(w) ==
  /\ task[w].pc = "write"
  /\ disk' = [disk EXCEPT ![task[w].prompt] = task[w].next]
  /\ task' = [task EXCEPT ![w].pc = "renamed"]
  /\ crossed' = IF Crosses(w) THEN crossed \cup {task[w].prompt}
                              ELSE crossed \ {task[w].prompt}
  /\ UNCHANGED <<mem, slotVars>>

\* Mutant: the file is written, the index is forgotten.
NotIndexed(w) == mem

\* The index is only told what was written: store.write.
Indexed(w) == [mem EXCEPT ![Proc(w)][task[w].prompt] = task[w].next]

\* Mutant: only a success is landed.
FinishCallIfBuilt(m, b, p, op, o) ==
  LET prompt == m["bench"][p] IN
  IF prompt.state # "building" \/ ~Success(o) THEN Idle
  ELSE Call("write", op, p,
            [prompt EXCEPT !.state  = "built",
                           !.builds = @ \cup {[id |-> b, exit |-> o.exit]}])

\* finishBuild's own read, in the index `m`: the call it leaves behind.  A
\* prompt that is not `building` any more is left alone.
FinishCall(m, b, p, op, o) ==
  LET prompt == m["bench"][p]
      event  == IF Success(o) THEN "built" ELSE "fail"
  IN  IF prompt.state # "building" THEN Idle
      ELSE Call("write", op, p,
                [prompt EXCEPT
                   !.state  = promptTransition("building", event),
                   !.builds = @ \cup {[id |-> b, exit |-> o.exit]}])

Saved(w) ==
  /\ task[w].pc = "renamed"
  /\ task[w].op # "build"
  /\ mem' = Indexed(w)
  /\ task' = [task EXCEPT ![w] = Idle]
  /\ UNCHANGED <<disk, crossed, slotVars>>

\* build() resumes: the prompt is `building`, the runner is started and, in
\* the same turn, claims its slot.  What it was given to build is task.next.
BuildStarts(b) ==
  /\ task[b].pc = "renamed"
  /\ task[b].op = "build"
  /\ mem' = Indexed(b)
  /\ Begin(b, task[b].prompt)
  /\ task' = [task EXCEPT ![b].pc = "running"]
  /\ UNCHANGED <<disk, crossed>>

\* ... or refuses: the rejection is caught and finishBuild runs at once.
BuildRefused(b) ==
  /\ task[b].pc = "renamed"
  /\ task[b].op = "build"
  /\ mem' = Indexed(b)
  /\ Refuse(b, task[b].prompt)
  /\ task' = [task EXCEPT ![b] =
                FinishCall(mem', b, task[b].prompt, "refinish", Failed)]
  /\ UNCHANGED <<disk, crossed>>

\* Mutant: the exit code alone decides what is `built`.
BuildEndsIgnoringCancel(b, o) ==
  /\ task[b].pc = "running"
  /\ End(b, o)
  /\ task' = [task EXCEPT ![b] =
                FinishCall(mem, b, promptOf[b], "finish",
                           [o EXCEPT !.cancelled = FALSE])]
  /\ UNCHANGED <<mem, disk, crossed>>

\* The runner settles and finishBuild reads the prompt in the same turn.
BuildEnds(b, o) ==
  /\ task[b].pc = "running"
  /\ End(b, o)
  /\ task' = [task EXCEPT ![b] = FinishCall(mem, b, promptOf[b], "finish", o)]
  /\ UNCHANGED <<mem, disk, crossed>>

\* A refused write rejects the call: a request is over; finishBuild is run
\* once more, by the .catch, on a failed outcome.
WriteFails(w) ==
  /\ WritesMayFail
  /\ task[w].pc = "write"
  /\ task' = [task EXCEPT ![w] =
                IF @.op = "finish"
                THEN FinishCall(mem, w, @.prompt, "refinish", Failed)
                ELSE Idle]
  /\ UNCHANGED <<mem, disk, crossed, slotVars>>

-----------------------------------------------------------------------------
(* Processes come and go.  The index is loaded at start and never again.    *)

McpStarts ==
  /\ MayRestart
  /\ mem' = [mem EXCEPT !["mcp"] = Loaded]
  /\ task' = [w \in Tasks |-> IF w \in McpRequests THEN Idle ELSE task[w]]
  /\ UNCHANGED <<disk, crossed, slotVars>>

BenchRestarts ==
  /\ MayRestart
  /\ mem' = [mem EXCEPT !["bench"] = Loaded]
  /\ task' = [w \in Tasks |-> IF w \in McpRequests THEN task[w] ELSE Idle]
  /\ current' = None
  /\ crossed' = {}
  /\ UNCHANGED <<disk, promptOf, outcome>>

Request(r, p) ==
  \/ \E t \in Texts : Edit(r, p, t)
  \/ Ready(r, p)
  \/ Scrap(r, p)
  \/ Restore(r, p)

ServiceNext ==
  \/ \E r \in BenchRequests, p \in Prompts : Request(r, p)
  \/ \E r \in McpRequests, p \in Prompts : MarkBuilt(r, p)
  \/ \E r \in BenchRequests : DocsLoaded(r)
  \/ \E b \in Builds :
       \/ \E p \in Prompts : Build(b, p)
       \/ ClaudeFound(b)
       \/ ClaudeMissing(b)
       \/ BuildStarts(b)
       \/ BuildRefused(b)
       \/ \E o \in Outcomes : BuildEnds(b, o)
  \/ \E w \in Tasks : Renames(w) \/ Saved(w) \/ WriteFails(w)
  \/ McpStarts
  \/ BenchRestarts

\* The event loop resumes what it suspended and the file system answers.  That
\* the runner answers is not assumed: claude may never close.
ServiceFairness ==
  \A w \in Tasks :
    /\ WF_serviceVars(Renames(w))
    /\ WF_serviceVars(Saved(w))
    /\ w \in BenchRequests => WF_serviceVars(DocsLoaded(w))
    /\ w \in Builds =>
         /\ WF_serviceVars(ClaudeFound(w) \/ ClaudeMissing(w))
         /\ WF_serviceVars(BuildStarts(w) \/ BuildRefused(w))

ServiceSpec     == ServiceInit /\ [][ServiceNext]_serviceVars
FairServiceSpec == ServiceSpec /\ ServiceFairness
-----------------------------------------------------------------------------
\* Type invariant.
ServiceTypeOK ==
  /\ mem \in [Procs -> [Prompts -> PromptRecords]]
  /\ disk \in [Prompts -> PromptRecords]
  /\ task \in [Tasks -> [pc : PCs, op : Ops \cup {None},
                         prompt : Prompts \cup {None},
                         next : PromptRecords \cup {None}]]
  /\ current \in Builds \cup {None}
  /\ promptOf \in [Builds -> Prompts \cup {None}]
  /\ outcome \in [Builds -> Outcomes \cup {None}]
  /\ crossed \subseteq Prompts

\* A record says what the runner reported, or stands for a build whose result
\* could not be saved; a scrapped prompt and only a scrapped prompt knows
\* where it came from; a prompt is `built`, or was when it was scrapped, only
\* because a build of this very prompt succeeded or an agent reported one.
RecordConsistent(p, rec) ==
  /\ rec.state = "scrapped" <=> rec.scrappedFrom # None
  /\ rec.scrappedFrom # "scrapped"
  /\ \A r \in rec.builds : r.id \in Builds =>
       /\ promptOf[r.id] = p
       /\ outcome[r.id] # None
       /\ r.exit \in {outcome[r.id].exit, "null"}
  /\ "built" \in {rec.state, rec.scrappedFrom} =>
       \/ External \in rec.builds
       \/ \E r \in rec.builds : r.id \in Builds /\ Success(outcome[r.id])

\* Every copy there is of a prompt - in either index, on disk, or computed and
\* waiting to be written - is consistent, whatever requests, agents, builds,
\* failures and restarts were interleaved.
RecordsConsistent ==
  /\ \A p \in Prompts :
       /\ RecordConsistent(p, disk[p])
       /\ \A proc \in Procs : RecordConsistent(p, mem[proc][p])
  /\ \A w \in Tasks :
       task[w].next # None => RecordConsistent(task[w].prompt, task[w].next)

\* finishBuild is on its way for b.
Finishing(b) == task[b].op \in {"finish", "refinish"}

\* "*building* is `claude -p` running" (AMENDMENT-1), and the other way round, for a client
\* that waits for each answer and while no write is refused: a prompt says building exactly
\* while a build of it runs or is being landed.
BuildingMeansRunning ==
  \A p \in Prompts :
    mem["bench"][p].state = "building"
      <=> \E b \in Builds : /\ promptOf[b] = p
                            /\ task[b].pc = "running" \/ Finishing(b)

\* Whatever calls, agents, refused writes and restarts overlap, the bench shows of a prompt
\* something else than its file says only because its last writes crossed: two calls of the
\* bench were between rename and index at once, or an agent wrote.  The next write of the bench
\* that crosses no other brings index and file together again.
ApartOnlyIfCrossed ==
  \A p \in Prompts \ crossed :
    Unindexed(p) = {} => mem["bench"][p] \in {disk[p], Parsed(disk[p])}

\* For a client that waits for each answer, the only moves of a prompt on the bench are the
\* ladder's and restore's, and none of them forgets a build that was recorded.
LadderRespected ==
  [][\A p \in Prompts :
       LET old == mem["bench"][p]  new == mem'["bench"][p] IN
       /\ old.builds \subseteq new.builds
       /\ \/ new.state = old.state
          \/ \E e \in PromptEvents : <<old.state, e, new.state>> \in Moves
          \/ /\ old.state = "scrapped"
             /\ new.state = restorePromptState(old.scrappedFrom)]_serviceVars

\* "never resurrect a scrapped prompt's state here": landing a build never
\* takes a prompt out of `scrapped`.
FinishNeverResurrects ==
  [][\A b \in Builds : Finishing(b) =>
       \A p \in Prompts : mem["bench"][p].state = "scrapped"
                            => task'[b] = task[b]
                               \/ mem'["bench"][p].state = "scrapped"]_serviceVars

\* Once the runner has answered, a prompt does not stay `building`: finishBuild lands every
\* build that ended, whatever it ended with, as long as its write is not refused.
BuildLands ==
  \A p \in Prompts :
    (mem["bench"][p].state = "building"
       /\ ~(\E b \in Builds : promptOf[b] = p /\ task[b].pc = "running"))
      ~> mem["bench"][p].state # "building"
=============================================================================
