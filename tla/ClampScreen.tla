----------------------------- MODULE ClampScreen -----------------------------
(***************************************************************************)
(* The way in: App.tsx's screenHeld, ClampScreen.tsx and the unclamp of     *)
(* SetupDrawer.tsx, over a host that clamps and unclamps (BenchHost) and    *)
(* tells the page by state frames, which may be late and may be coalesced. *)
(*                                                                         *)
(* The second half is the screen's folder browser (useFolderBrowser.ts and *)
(* FolderBrowser.tsx).  Every click is a read of its own; answers come in  *)
(* any order, also after the screen is gone.                               *)
(***************************************************************************)
EXTENDS Naturals

CONSTANTS
  ScreenRepos, \* repos one may clamp
  NoRepo,      \* bench: null
  Unheard,     \* state === null: no frame has come yet
  MaxAsks      \* bound: calls the page makes

ASSUME ScreenAssumption ==
  /\ NoRepo \notin ScreenRepos /\ Unheard \notin ScreenRepos \cup {NoRepo}
  /\ MaxAsks \in Nat

VARIABLES
  clampedRepo, \* the host's bench
  seen,        \* state.bench as the page last heard it
  screenHeld,  \* App's screenHeld
  phase,       \* ClampScreen's phase
  clampResult, \* the repo of result
  checklist,   \* the repo whose checklist the screen has
  asks,        \* calls in flight
  asksMade,
  drawerOpen,  \* setupOpen
  unclamping,  \* the open drawer's call in flight, 0 for none
  went         \* has the human asked for the bench since it was last gone? (history)

screenVars == <<clampedRepo, seen, screenHeld, phase, clampResult, checklist, asks,
                asksMade, drawerOpen, unclamping, went>>

AskHost(op, repo) ==
  [n |-> asksMade + 1, op |-> op, repo |-> repo, answer |-> "none", mounted |-> TRUE]
SendAsk(op, repo) ==
  /\ asksMade < MaxAsks
  /\ asksMade' = asksMade + 1
  /\ asks' = asks \cup {AskHost(op, repo)}

Showing(bench, held) == bench = NoRepo \/ held

ScreenTypeOK ==
  /\ clampedRepo \in ScreenRepos \cup {NoRepo}
  /\ seen \in ScreenRepos \cup {NoRepo, Unheard}
  /\ {screenHeld, drawerOpen, went} \subseteq BOOLEAN
  /\ phase \in {"pick", "clamping", "clamped"}
  /\ {clampResult, checklist} \subseteq ScreenRepos \cup {NoRepo}
  /\ phase = "clamped" => clampResult # NoRepo
  /\ asks \subseteq [n : Nat, op : {"clamp", "unclamp", "setup", "drawer-unclamp"},
                     repo : ScreenRepos \cup {NoRepo}, answer : {"none", "ok", "no"}, mounted : BOOLEAN]
  /\ asksMade \in Nat /\ unclamping \in 0..MaxAsks

\* The host was started with a repo or without one.
ScreenInit ==
  /\ clampedRepo \in ScreenRepos \cup {NoRepo}
  /\ seen = Unheard
  /\ screenHeld = FALSE /\ phase = "pick" /\ clampResult = NoRepo
  /\ checklist = NoRepo
  /\ asks = {} /\ asksMade = 0 /\ drawerOpen = FALSE
  /\ unclamping = 0 /\ went = FALSE

\* The ClampScreen that is unmounted takes its state with it; the answers to
\* its calls find mounted.current false.
Unmount ==
  /\ phase' = "pick" /\ clampResult' = NoRepo /\ checklist' = NoRepo
  /\ asks' = {[a EXCEPT !.mounted = a.op = "drawer-unclamp"] : a \in asks}

\* Mutant: only the frame decides.
NeverHeld(bench) == FALSE

HeldAfter(bench) == screenHeld \/ bench = NoRepo

FrameArrives ==
  /\ seen # clampedRepo
  /\ seen' = clampedRepo
  /\ screenHeld' = HeldAfter(clampedRepo)
  /\ went' = (went /\ clampedRepo # NoRepo)
  /\ IF Showing(seen, screenHeld) /\ ~Showing(seen', screenHeld') THEN Unmount
     ELSE UNCHANGED <<phase, clampResult, checklist, asks>>
  /\ UNCHANGED <<clampedRepo, asksMade, drawerOpen, unclamping>>

\* "go to the bench" of the clamped phase, or of the "clamped already" line.
GoToBench ==
  /\ Showing(seen, screenHeld)
  /\ phase = "clamped" \/ seen \in ScreenRepos
  /\ screenHeld' = FALSE
  /\ went' = TRUE
  /\ IF seen # NoRepo THEN Unmount
     ELSE UNCHANGED <<phase, clampResult, checklist, asks>>
  /\ UNCHANGED <<clampedRepo, seen, asksMade, drawerOpen, unclamping>>

clampNow(repo) ==
  /\ Showing(seen, screenHeld) /\ phase = "pick"
  /\ SendAsk("clamp", repo)
  /\ phase' = "clamping"
  /\ UNCHANGED <<clampedRepo, seen, screenHeld, clampResult, checklist, drawerOpen,
                 unclamping, went>>

\* "clamp a different repo"; the button may be pressed again meanwhile.
unclampNow ==
  /\ Showing(seen, screenHeld) /\ phase = "clamped"
  /\ SendAsk("unclamp", NoRepo)
  /\ UNCHANGED <<clampedRepo, seen, screenHeld, phase, clampResult, checklist, drawerOpen,
                 unclamping, went>>

\* A drawer that is closed forgets the call it made.
ToggleDrawer ==
  /\ seen # Unheard
  /\ drawerOpen' = ~drawerOpen /\ unclamping' = 0
  /\ UNCHANGED <<clampedRepo, seen, screenHeld, phase, clampResult, checklist, asks, asksMade, went>>

\* The drawer's "clamp another repo" is there while the page knows of a bench
\* and it has no such call in flight.
DrawerUnclamps ==
  /\ drawerOpen /\ seen \in ScreenRepos
  /\ unclamping = 0 /\ unclamping' = asksMade + 1
  /\ SendAsk("drawer-unclamp", NoRepo)
  /\ UNCHANGED <<clampedRepo, seen, screenHeld, phase, clampResult, checklist, drawerOpen, went>>

\* The host serves a call, or refuses it (a clamp of a path it will not take).
HostServes(a) ==
  /\ a \in asks /\ a.answer = "none"
  /\ \E ok \in BOOLEAN :
       /\ asks' = (asks \ {a}) \cup {[a EXCEPT !.answer = IF ok THEN "ok" ELSE "no",
                     !.repo = IF a.op = "setup" THEN clampedRepo ELSE @]}
       /\ clampedRepo' = IF ok /\ a.op # "setup" THEN a.repo ELSE clampedRepo
  /\ UNCHANGED <<seen, screenHeld, phase, clampResult, checklist, asksMade, drawerOpen,
                 unclamping, went>>

\* Mutant: a refused clamp only says so.
SayOnly(a) ==
  UNCHANGED <<phase, clampResult, checklist, asksMade>> /\ asks' = asks \ {a}

ClampRefused(a) ==
  phase' = "pick" /\ asks' = asks \ {a} /\ UNCHANGED <<clampResult, checklist, asksMade>>

\* What clampNow and unclampNow do after their await; the checklist is read in
\* the same call once the clamp has landed.
AskAnswered(a) ==
  /\ a \in asks /\ a.answer # "none"
  /\ IF ~a.mounted
     THEN asks' = asks \ {a} /\ UNCHANGED <<phase, clampResult, checklist, asksMade>>
     ELSE \/ /\ a.op = "clamp" /\ a.answer = "ok"
             /\ phase' = "clamped" /\ clampResult' = a.repo /\ checklist' = NoRepo
             /\ asks' = (asks \ {a}) \cup {AskHost("setup", NoRepo)}
             /\ asksMade' = asksMade + 1
          \/ a.op = "clamp" /\ a.answer = "no" /\ ClampRefused(a)
          \/ /\ a.op = "unclamp" /\ a.answer = "ok"
             /\ phase' = "pick" /\ clampResult' = NoRepo /\ checklist' = NoRepo
             /\ asks' = asks \ {a} /\ UNCHANGED asksMade
          \/ /\ a.op = "setup" /\ a.answer = "ok"
             /\ checklist' = a.repo
             /\ asks' = asks \ {a} /\ UNCHANGED <<phase, clampResult, asksMade>>
          \/ /\ a.op = "drawer-unclamp" \/ (a.op # "clamp" /\ a.answer = "no")
             /\ asks' = asks \ {a} /\ UNCHANGED <<phase, clampResult, checklist, asksMade>>
  /\ drawerOpen' = (drawerOpen /\ ~(a.op = "drawer-unclamp" /\ a.answer = "ok"))
  /\ unclamping' = IF drawerOpen' /\ unclamping # a.n THEN unclamping ELSE 0
  /\ UNCHANGED <<clampedRepo, seen, screenHeld, went>>

\* Another tab clamps or unclamps.
OtherTab(repo) ==
  /\ asksMade < MaxAsks /\ asksMade' = asksMade + 1
  /\ clampedRepo' = repo /\ repo # clampedRepo
  /\ UNCHANGED <<seen, screenHeld, phase, clampResult, checklist, asks, drawerOpen,
                 unclamping, went>>

ScreenNext ==
  \/ FrameArrives \/ GoToBench \/ unclampNow \/ ToggleDrawer \/ DrawerUnclamps
  \/ \E r \in ScreenRepos : clampNow(r)
  \/ \E a \in asks : HostServes(a) \/ AskAnswered(a)
  \/ \E r \in ScreenRepos \cup {NoRepo} : OtherTab(r)

\* Every call is served and answered (the host refuses rather than hangs).
ScreenFairness ==
  WF_screenVars(\E a \in asks : HostServes(a)) /\ WF_screenVars(\E a \in asks : AskAnswered(a))

-----------------------------------------------------------------------------
\* The screen is held open from the moment the host says there is no bench
\* until the human goes to it: no clamp, of this tab or of another, and no late
\* frame takes the setup steps away.
ScreenHeld ==
  Showing(seen, screenHeld) /\ ~Showing(seen', screenHeld') => went'

\* A clamp asked for from the screen always comes to an end on it: clamped, or
\* back at the pick with the host's words.
ClampEnds == phase = "clamping" ~> phase # "clamping"

-----------------------------------------------------------------------------
(* The folder browser *)

CONSTANTS
  Folders,  \* folders one may go to; Home is the first root
  Home,
  NoFolder, \* null
  MaxReads  \* bound: reads asked for

ASSUME FolderAssumption == Home \in Folders /\ NoFolder \notin Folders /\ MaxReads \in Nat

VARIABLES
  roots,    \* fsRoots: "asked", "known", "failed"
  shown,    \* the folder whose listing is on the screen
  parent,   \* where `up` goes
  status,   \* FolderBrowserStatus
  pendingFolder, \* the folder the "reading ..." sentence names
  chosen,   \* the Clamp screen's path field
  readSeq,  \* readSeq.current
  lastAsked, \* the folder of the last read asked for (history)
  reads,    \* reads in flight: the folder each asked for
  onScreen  \* mounted.current

folderVars == <<roots, shown, parent, status, pendingFolder, chosen, readSeq,
                lastAsked, reads, onScreen>>

FolderTypeOK ==
  /\ roots \in {"asked", "known", "failed"}
  /\ {shown, parent, pendingFolder, chosen, lastAsked} \subseteq Folders \cup {NoFolder}
  /\ status \in {"reading", "ready", "failed"}
  /\ readSeq \in 0..MaxReads
  /\ reads \subseteq [seq : 1..MaxReads, folder : Folders]
  /\ onScreen \in BOOLEAN

FolderInit ==
  /\ roots = "asked" /\ status = "reading"
  /\ shown = NoFolder /\ parent = NoFolder /\ pendingFolder = NoFolder
  /\ chosen = NoFolder /\ lastAsked = NoFolder
  /\ readSeq = 0 /\ reads = {} /\ onScreen = TRUE

goTo(folder) ==
  /\ readSeq < MaxReads
  /\ readSeq' = readSeq + 1
  /\ reads' = reads \cup {[seq |-> readSeq + 1, folder |-> folder]}
  /\ status' = "reading" /\ pendingFolder' = folder /\ lastAsked' = folder

\* The effect of the first render, when fsRoots answers; nothing of it happens
\* on a screen that is gone.
RootsAnswer(answer) ==
  /\ roots = "asked" /\ onScreen
  /\ \/ answer = "roots" /\ roots' = "known" /\ goTo(Home)
     \/ /\ answer \in {"no-roots", "error"}
        /\ roots' = IF answer = "error" THEN "failed" ELSE "known"
        /\ status' = "failed"
        /\ UNCHANGED <<pendingFolder, lastAsked, readSeq, reads>>
  /\ UNCHANGED <<shown, parent, chosen, onScreen>>

\* A root's pill, `up`, refresh, and a row: only a row also fills the path.
FolderClick(folder, row) ==
  /\ onScreen
  /\ row => status = "ready"
  /\ goTo(folder)
  /\ chosen' = IF row THEN folder ELSE chosen
  /\ UNCHANGED <<roots, shown, parent, onScreen>>

\* Mutants: whichever answer comes, comes; it is compared with the next
\* number.
TakeAny(r) == onScreen
TakeNever(r) == onScreen /\ r.seq > readSeq

Current(r) == onScreen /\ r.seq = readSeq

ReadAnswers(r, ok, up) ==
  /\ r \in reads
  /\ reads' = reads \ {r}
  /\ IF ~Current(r) THEN UNCHANGED <<shown, parent, status, pendingFolder>>
     ELSE /\ pendingFolder' = NoFolder
          /\ IF ok THEN shown' = r.folder /\ parent' = up /\ status' = "ready"
             ELSE status' = "failed" /\ UNCHANGED <<shown, parent>>
  /\ UNCHANGED <<roots, chosen, readSeq, lastAsked, onScreen>>

LeaveScreen ==
  /\ onScreen /\ onScreen' = FALSE
  /\ UNCHANGED <<roots, shown, parent, status, pendingFolder, chosen, readSeq, lastAsked, reads>>

FolderNext ==
  \/ \E a \in {"roots", "no-roots", "error"} : RootsAnswer(a)
  \/ \E f \in Folders, row \in BOOLEAN : FolderClick(f, row)
  \/ \E r \in reads, ok \in BOOLEAN, up \in Folders \cup {NoFolder} : ReadAnswers(r, ok, up)
  \/ LeaveScreen

\* The server answers every read (request() turns a failure into an answer).
FolderAnswers == \E r \in reads, ok \in BOOLEAN, up \in Folders \cup {NoFolder} :
                   ReadAnswers(r, ok, up)
FolderFairness == WF_folderVars(FolderAnswers)

-----------------------------------------------------------------------------
\* Two clicks in quick succession never settle on the wrong folder: a listing
\* that is not being read is that of the last folder asked for, whatever order
\* the answers came in.
SettlesOnTheLast == status = "ready" => shown = lastAsked

\* A read always ends in words: while the screen is up, reading gives way to
\* ready or failed.
ReadingEnds ==
  (status = "reading" /\ reads # {}) ~> (status # "reading" \/ ~onScreen)
=============================================================================
