------------------------------ MODULE SetupWrite -----------------------------
(***************************************************************************)
(* Registering Jig: POST /api/setup/mcp (setup/route.ts, mcp-json.ts,      *)
(* gitignore.ts), the same merge done by `jigbench init`, and the step of  *)
(* SetupSteps.tsx that shows what will be written and then has it written. *)
(* The Desktop entry (setup/route.ts, desktop-config.ts, mcp-install.ts)   *)
(* is the same read, merge and write over another file, without .gitignore. *)
(*                                                                         *)
(* The file is somebody else's too.  A writeFile first empties it and then *)
(* fills it: a read in between finds no JSON, which counts as no file.     *)
(***************************************************************************)
EXTENDS Naturals, FiniteSets

CONSTANTS
  Writers,   \* calls: the bench's page and `jigbench init`
  Page,      \* the writer that is the page's (one after the other)
  Servers,   \* other entries of mcpServers, written by other programs
  MaxClicks, \* bound: what the page asks for
  MaxEdits   \* bound: edits by other programs

ASSUME WriteAssumption == Page \in Writers /\ MaxClicks \in Nat /\ MaxEdits \in Nat

\* .mcp.json: not there or not JSON, or the entries it has.
NoJson  == [json |-> FALSE, jig |-> FALSE, others |-> {}]
McpJson == {NoJson} \cup [json : {TRUE}, jig : BOOLEAN, others : SUBSET Servers]

VARIABLES
  mcpJson,   \* the file
  ignored,   \* does .gitignore have the .jig/cache/ line?
  writer,    \* each call: where it is, what it was told, what it read
  mcpPhase,  \* SetupSteps' mcpPhase
  busyMcp,   \* busy === 'mcp'
  clicks, edits,
  everTold,  \* has anybody been told to write? (history)
  left,      \* the file as other programs last left it (history)
  wiped,     \* was its last change another program's, without Jig's entry? (history)
  crossed    \* did a call read it while another had it empty, or another program write it
             \* between a call's read and its write? (history)

setupVars == <<mcpJson, ignored, writer, mcpPhase, busyMcp, clicks, edits, everTold, left, wiped, crossed>>

Resting == [pc |-> "idle", apply |-> FALSE, read |-> NoJson, wrote |-> FALSE]

SetupTypeOK ==
  /\ mcpJson \in McpJson /\ {ignored, busyMcp, everTold, wiped, crossed} \subseteq BOOLEAN
  /\ writer \in [Writers -> [pc : {"idle", "read", "merge", "fill", "ignore", "answered", "done"},
                             apply : BOOLEAN, read : McpJson, wrote : BOOLEAN]]
  /\ mcpPhase \in {"idle", "shown", "written", "already"}

SetupInit ==
  /\ mcpJson \in McpJson
  /\ ignored \in BOOLEAN
  /\ writer = [w \in Writers |-> Resting]
  /\ mcpPhase = "idle" /\ busyMcp = FALSE
  /\ clicks = 0 /\ edits = 0 /\ everTold = FALSE
  /\ left = mcpJson /\ wiped = FALSE /\ crossed = FALSE

\* Mutant: the entry is written into a fresh object.
FreshObject(existing) == [json |-> TRUE, jig |-> TRUE, others |-> {}]

mergeMcpJson(existing) == [json |-> TRUE, jig |-> TRUE, others |-> existing.others]
McpChanged(existing)   == ~existing.jig

AtRest == \A w \in Writers : writer[w].pc # "fill"
StepTo(w, pc) == writer' = [writer EXCEPT ![w].pc = pc]

-----------------------------------------------------------------------------
(* The page: showMcp, then writeMcp.  A failed call leaves the phase alone. *)

ClickMcp ==
  /\ clicks < MaxClicks /\ ~busyMcp /\ writer[Page].pc = "idle"
  /\ mcpPhase \in {"idle", "shown"}
  /\ clicks' = clicks + 1 /\ busyMcp' = TRUE
  /\ writer' = [writer EXCEPT ![Page] = [Resting EXCEPT !.pc = "read",
                                           !.apply = (mcpPhase = "shown")]]
  /\ everTold' = (everTold \/ mcpPhase = "shown")
  /\ UNCHANGED <<mcpJson, ignored, mcpPhase, edits, left, wiped, crossed>>

\* Mutant: what changes is written.
HearsWritten(ok) ==
  /\ writer[Page].pc = "answered"
  /\ busyMcp' = FALSE
  /\ mcpPhase' = IF ~ok THEN mcpPhase
                 ELSE IF ~McpChanged(writer[Page].read) THEN "already" ELSE "written"
  /\ StepTo(Page, "idle")
  /\ UNCHANGED <<mcpJson, ignored, clicks, edits, everTold, left, wiped, crossed>>

PageHears(ok) ==
  /\ writer[Page].pc = "answered"
  /\ busyMcp' = FALSE
  /\ mcpPhase' = IF ~ok THEN mcpPhase
                 ELSE IF ~McpChanged(writer[Page].read) THEN "already"
                 ELSE IF writer[Page].apply THEN "written" ELSE "shown"
  /\ StepTo(Page, "idle")
  /\ UNCHANGED <<mcpJson, ignored, clicks, edits, everTold, left, wiped, crossed>>

\* `jigbench init`: prints the difference and always writes it.
RunInit(w) ==
  /\ w # Page /\ writer[w].pc = "idle"
  /\ writer' = [writer EXCEPT ![w] = [Resting EXCEPT !.pc = "read", !.apply = TRUE]]
  /\ everTold' = TRUE
  /\ UNCHANGED <<mcpJson, ignored, mcpPhase, busyMcp, clicks, edits, left, wiped, crossed>>

-----------------------------------------------------------------------------
(* The call. *)

\* readJsonIfPresent: a file that cannot be read or parsed is no file.
ReadConfig(w) ==
  /\ writer[w].pc = "read"
  /\ writer' = [writer EXCEPT ![w].pc = "merge", ![w].read = mcpJson]
  /\ crossed' = (crossed \/ ~AtRest)
  /\ UNCHANGED <<mcpJson, ignored, mcpPhase, busyMcp, clicks, edits, everTold, left, wiped>>

\* Mutant: shown is as good as told.
AlwaysApply(w) == McpChanged(writer[w].read)

MayWrite(w) == McpChanged(writer[w].read) /\ writer[w].apply

\* What w read, it will write.
Committed(w) == writer[w].pc = "fill" \/ (writer[w].pc = "merge" /\ MayWrite(w))

\* The answer, or the start of writeFile: the file is emptied.  init goes on
\* to .gitignore either way, the route only after it has written.
EmptyConfig(w) ==
  /\ writer[w].pc = "merge"
  /\ \/ MayWrite(w) /\ mcpJson' = NoJson /\ StepTo(w, "fill")
     \/ ~MayWrite(w) /\ UNCHANGED mcpJson
          /\ StepTo(w, IF w = Page THEN "answered" ELSE "ignore")
  /\ UNCHANGED <<ignored, mcpPhase, busyMcp, clicks, edits, everTold, left, wiped, crossed>>

FillConfig(w) ==
  /\ writer[w].pc = "fill"
  /\ mcpJson' = mergeMcpJson(writer[w].read)
  /\ writer' = [writer EXCEPT ![w].pc = "ignore", ![w].wrote = TRUE]
  /\ wiped' = FALSE
  /\ UNCHANGED <<ignored, mcpPhase, busyMcp, clicks, edits, everTold, left, crossed>>

ensureGitignoreEntry(w) ==
  /\ writer[w].pc = "ignore"
  /\ ignored' = TRUE
  /\ StepTo(w, IF w = Page THEN "answered" ELSE "done")
  /\ UNCHANGED <<mcpJson, mcpPhase, busyMcp, clicks, edits, everTold, left, wiped, crossed>>

\* Another program writes the file, whole: its own entry, or without Jig's.
OthersEdit(new) ==
  /\ edits < MaxEdits /\ edits' = edits + 1
  /\ mcpJson' = new /\ new # mcpJson
  /\ left' = new /\ wiped' = ~new.jig
  /\ crossed' = (crossed \/ \E w \in Writers : Committed(w))
  /\ UNCHANGED <<ignored, writer, mcpPhase, busyMcp, clicks, everTold>>

CallSteps(w) == ReadConfig(w) \/ EmptyConfig(w) \/ FillConfig(w) \/ ensureGitignoreEntry(w)

SetupNext ==
  \/ ClickMcp
  \/ \E ok \in BOOLEAN : PageHears(ok)
  \/ \E w \in Writers : RunInit(w) \/ CallSteps(w)
  \/ \E new \in McpJson : OthersEdit(new)

-----------------------------------------------------------------------------
\* Every write is diff-first: whatever is shown and however calls overlap, the
\* entry gets into the file only after somebody said to write it.
DiffFirst == ~mcpJson.jig /\ mcpJson'.jig /\ edits' = edits => everTold

\* "Every other key passes through untouched": however the page's calls, `jigbench init` and
\* other programs' writes follow each other, and whatever changed between the difference that
\* was shown and the call that writes, the file keeps the entries other programs left in it
\* (mcp-json.ts, setup/route.ts:110-123).  Two things do lose them, and are what `crossed`
\* excludes: a call that reads the file while another has emptied it takes it for no file, and
\* a program that writes between a call's own read and its write is overwritten.
OthersPassThrough == ~crossed /\ AtRest => mcpJson.others = left.others

\* The page says "written" only when the entry is in the file, also when other calls write it
\* at the same time, until another program's write leaves it out.
WrittenIsTrue == mcpPhase = "written" /\ AtRest => mcpJson.jig \/ wiped
=============================================================================
