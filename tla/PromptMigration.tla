--------------------------- MODULE PromptMigration ---------------------------
(***************************************************************************)
(* prompts/store.ts init(): work orders of the old ladder become prompt    *)
(* files, once.  The bench and the MCP process each open a store of the    *)
(* same .jig/ and each may migrate, at the same time too: the check for    *)
(* prompts and the listing of the work orders are two awaits.  A person    *)
(* edits prompts and work orders meanwhile, the file system refuses some   *)
(* reads and writes, and a process may be stopped between any two files.   *)
(***************************************************************************)
EXTENDS OrderLadder

CONSTANTS MgOrders,   \* work order files; the prompt of an order has its id
          MgProcs,    \* the processes that open a store
          NoFile      \* no such file, or no entry in hand

VARIABLES mgOrder,    \* .jig/work-orders: the rung in each file
          mgPrompt,   \* .jig/prompts: the prompt in each file
          mgProc      \* each process's init()
migrationVars == <<mgOrder, mgPrompt, mgProc>>

Unreadable == "unreadable"        \* a file that does not parse
StartRungs == {"marked", "in-the-shop", "scrapped"}

\* `edited`: a person has worked on it since it was written.
PromptOnDisk == [state : {"draft", "ready", "building", "built", "scrapped"}, edited : BOOLEAN]
ASSUME MgNoFile ==
  NoFile \notin MgOrders /\ NoFile \notin PromptOnDisk /\ NoFile \notin LadderStates \cup {Unreadable}

\* `overlap`: another process was migrating at the same time (history).
Down == [at |-> "down", todo |-> {}, listed |-> {}, entry |-> NoFile, raw |-> NoFile,
         skipped |-> {}, overlap |-> FALSE, index |-> {}]

MigrationTypeOK ==
  /\ mgOrder \in [MgOrders -> LadderStates \cup {Unreadable, NoFile}]
  /\ mgPrompt \in [MgOrders -> PromptOnDisk \cup {NoFile}]
  /\ mgProc \in [MgProcs -> [at : {"down", "checked", "migrating", "loading", "up"}, todo : SUBSET MgOrders,
                             listed : SUBSET MgOrders, entry : MgOrders \cup {NoFile},
                             raw : LadderStates \cup {Unreadable, NoFile},
                             skipped : SUBSET MgOrders, overlap : BOOLEAN,
                             index : SUBSET MgOrders]]

MigrationInit ==
  /\ mgOrder \in [MgOrders -> StartRungs \cup {Unreadable}]
  /\ mgPrompt = [o \in MgOrders |-> NoFile]
  /\ mgProc = [p \in MgProcs |-> Down]

PromptFiles == {o \in MgOrders : mgPrompt[o] # NoFile}
OrderFiles  == {o \in MgOrders : mgOrder[o] # NoFile}

----------------------------------------------------------------------------
(* core/src/prompt.ts migrateWorkOrder *)

\* A parsed work order has an empty log, so from which rung it was scrapped is not carried.
migrateWorkOrder(rung) ==
  LET LADDER_TO_PROMPT_STATE ==
        [r \in LadderStates |->
           CASE r \in {"marked", "drafted"} -> "draft" [] r = "released" -> "ready"
             [] r = "in-the-shop" -> "building" [] r = "trial-fit" -> "built" [] r = "scrapped" -> "scrapped"]
  IN [state |-> LADDER_TO_PROMPT_STATE[rung], edited |-> FALSE]

----------------------------------------------------------------------------
(* init *)

\* Mutant: every start migrates.
NeverAny == FALSE

hasAnyPromptFile == PromptFiles # {}

Migrating(p) == mgProc[p].at \in {"checked", "migrating"}

\* migrateIfNeeded up to hasAnyPromptFile; with a prompt there, nothing is to be done.
migrateIfNeeded(p) ==
  LET others == {q \in MgProcs : q # p /\ Migrating(q)} IN
  /\ mgProc[p].at = "down"
  /\ mgProc' = IF hasAnyPromptFile THEN [mgProc EXCEPT ![p] = [Down EXCEPT !.at = "loading"]]
               ELSE [q \in MgProcs |->
                       IF q = p THEN [Down EXCEPT !.at = "checked", !.overlap = others # {}]
                       ELSE IF q \in others THEN [mgProc[q] EXCEPT !.overlap = TRUE]
                       ELSE mgProc[q]]
  /\ UNCHANGED <<mgOrder, mgPrompt>>

\* readdir of the work orders, after whatever happened since the check.
ListOrders(p) ==
  /\ mgProc[p].at = "checked"
  /\ mgProc' = [mgProc EXCEPT ![p].at = "migrating", ![p].todo = OrderFiles,
                              ![p].listed = OrderFiles]
  /\ UNCHANGED <<mgOrder, mgPrompt>>

\* readFile of the next entry: gone since the listing is not a failure, an error is.
ReadEntry(p, o) ==
  LET here == mgProc[p] IN
  /\ here.at = "migrating" /\ here.entry = NoFile /\ o \in here.todo
  /\ \/ /\ mgOrder[o] # NoFile
        /\ mgProc' = [mgProc EXCEPT ![p].entry = o, ![p].raw = mgOrder[o], ![p].todo = @ \ {o}]
     \/ mgOrder[o] = NoFile /\ mgProc' = [mgProc EXCEPT ![p].todo = @ \ {o}]
     \/ mgProc' = [mgProc EXCEPT ![p].todo = @ \ {o}, ![p].skipped = @ \cup {o}]
  /\ UNCHANGED <<mgOrder, mgPrompt>>

\* Mutant (#37): a write that fails passes for a file that went away.
PassOver(here) == [here EXCEPT !.entry = NoFile, !.raw = NoFile]

recordMigrationSkip(here) ==
  [here EXCEPT !.entry = NoFile, !.raw = NoFile, !.skipped = @ \cup {here.entry}]

\* atomicWriteFile: the prompt is written, or the order is recorded as skipped.
WriteEntry(p) ==
  LET here == mgProc[p] IN
  /\ here.at = "migrating" /\ here.entry # NoFile
  /\ \/ /\ here.raw # Unreadable
        /\ mgPrompt' = [mgPrompt EXCEPT ![here.entry] = migrateWorkOrder(here.raw)]
        /\ mgProc' = [mgProc EXCEPT ![p].entry = NoFile, ![p].raw = NoFile]
     \/ /\ mgProc' = [mgProc EXCEPT ![p] = recordMigrationSkip(here)]
        /\ UNCHANGED mgPrompt
  /\ UNCHANGED mgOrder

MigrationDone(p) ==
  /\ mgProc[p].at = "migrating" /\ mgProc[p].entry = NoFile /\ mgProc[p].todo = {}
  /\ mgProc' = [mgProc EXCEPT ![p].at = "loading"]
  /\ UNCHANGED <<mgOrder, mgPrompt>>

\* reload: whatever is on disk by then.
loadAll(p) ==
  /\ mgProc[p].at = "loading"
  /\ mgProc' = [mgProc EXCEPT ![p].at = "up", ![p].index = PromptFiles]
  /\ UNCHANGED <<mgOrder, mgPrompt>>

----------------------------------------------------------------------------
(* Around it *)

\* A person writes over a prompt the process that serves them knows.
EditPrompt(p, o) ==
  /\ mgProc[p].at = "up" /\ o \in mgProc[p].index /\ mgPrompt[o] # NoFile
  /\ mgPrompt' = [mgPrompt EXCEPT ![o] = [state |-> "draft", edited |-> TRUE]]
  /\ UNCHANGED <<mgOrder, mgProc>>

OrderGone(o) ==
  /\ mgOrder[o] # NoFile /\ mgOrder' = [mgOrder EXCEPT ![o] = NoFile]
  /\ UNCHANGED <<mgPrompt, mgProc>>

Stopped(p) ==
  /\ mgProc[p].at # "down" /\ mgProc' = [mgProc EXCEPT ![p] = Down]
  /\ UNCHANGED <<mgOrder, mgPrompt>>

MigrationNext ==
  \/ \E p \in MgProcs : \/ migrateIfNeeded(p) \/ ListOrders(p) \/ WriteEntry(p) \/ MigrationDone(p)
                        \/ loadAll(p) \/ Stopped(p)
                        \/ \E o \in MgOrders : ReadEntry(p, o) \/ EditPrompt(p, o)
  \/ \E o \in MgOrders : OrderGone(o)

----------------------------------------------------------------------------
(* Properties *)

\* No work order is passed over in silence by the process that migrates: when it is up,
\* every order it listed is a prompt it shows, is reported by migrationSkipped(), or is gone
\* (prompts/store.ts, #37).  An order a stopped migration did not come to is not listed again
\* once there is any prompt.
AccountedFor ==
  \A p \in MgProcs : mgProc[p].at = "up" =>
    \A o \in mgProc[p].listed :
      o \in mgProc[p].index \/ o \in mgProc[p].skipped \/ mgOrder[o] = NoFile

\* A migration undoes what a person wrote only if another process was migrating at the same
\* time, whose prompt the person edited before the first came to its order: one process alone,
\* stopped and started however often, never does (prompts/store.ts hasAnyPromptFile).
EditsOutliveMigration ==
  \A o \in MgOrders :
    (mgPrompt[o] # NoFile /\ mgPrompt[o].edited /\ ~mgPrompt'[o].edited)
      => \E p \in MgProcs : mgProc[p].entry = o /\ mgProc[p].overlap
=============================================================================
