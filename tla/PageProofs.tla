----------------------------- MODULE PageProofs ------------------------------
(***************************************************************************)
(* Proofs about the parts of the bench's page, for every value of the      *)
(* constants: each part by itself, then the run that MCPage makes of them. *)
(***************************************************************************)
EXTENDS MCPage, SequenceTheorems, WellFoundedInduction, TLAPS

-----------------------------------------------------------------------------
(* Sequences                                                               *)

LEMMA NoMembers ==
  ASSUME NEW S PROVE <<>> \in Seq(S) /\ Len(<<>>) = 0 /\ DOMAIN <<>> = {}
OBVIOUS

LEMMA AppendIs ==
  ASSUME NEW S, NEW q \in Seq(S), NEW x \in S
  PROVE  LET p == Append(q, x) IN
         /\ p \in Seq(S) /\ Len(p) = Len(q) + 1 /\ p[Len(q) + 1] = x
         /\ \A i \in DOMAIN q : p[i] = q[i]
         /\ \A i \in DOMAIN p : i \in DOMAIN q \/ i = Len(q) + 1
         /\ \A i \in DOMAIN q : i \in Nat /\ 1 <= i /\ i <= Len(q) /\ i \in DOMAIN p /\ q[i] \in S
         /\ Len(q) \in Nat /\ Len(q) + 1 \in DOMAIN p
OBVIOUS

-----------------------------------------------------------------------------
(* The folder browser                                                      *)

\* A read in flight with the number of the last one asked for is that one.
ReadsInOrder ==
  \A r \in reads : r.seq <= readSeq /\ (r.seq = readSeq => r.folder = lastAsked)

FolderInv == FolderTypeOK /\ ReadsInOrder /\ SettlesOnTheLast

LEMMA FolderStart == FolderInit => FolderInv
BY FolderAssumption DEF FolderInit, FolderInv, FolderTypeOK, ReadsInOrder, SettlesOnTheLast

LEMMA GoToOK ==
  ASSUME FolderInv, NEW folder \in Folders, goTo(folder)
  PROVE  /\ readSeq' \in 0..MaxReads /\ reads' \subseteq [seq : 1..MaxReads, folder : Folders]
         /\ ReadsInOrder' /\ status' = "reading"
         /\ {pendingFolder', lastAsked'} \subseteq Folders \cup {NoFolder}
<1> DEFINE r == [seq |-> readSeq + 1, folder |-> folder]
<1>1. /\ readSeq \in 0..MaxReads /\ readSeq < MaxReads /\ MaxReads \in Nat
      /\ reads \subseteq [seq : 1..MaxReads, folder : Folders]
      /\ readSeq' = readSeq + 1 /\ reads' = reads \cup {r} /\ lastAsked' = folder
      /\ status' = "reading" /\ pendingFolder' = folder
  BY FolderAssumption DEF FolderInv, FolderTypeOK, goTo
<1>2. r \in [seq : 1..MaxReads, folder : Folders] /\ r.seq = readSeq + 1 /\ r.folder = folder
  BY <1>1
<1>3. \A s \in reads : s.seq <= readSeq /\ s.seq \in Nat
  BY <1>1 DEF FolderInv, ReadsInOrder
<1> HIDE DEF r
<1>4. ReadsInOrder'
  BY <1>1, <1>2, <1>3 DEF ReadsInOrder
<1> QED BY <1>1, <1>2, <1>4

LEMMA FolderStep == FolderInv /\ FolderNext => FolderInv'
<1> SUFFICES ASSUME FolderInv, FolderNext PROVE FolderInv'
  OBVIOUS
<1> USE DEF FolderInv, FolderTypeOK, SettlesOnTheLast
<1>1. ASSUME NEW a \in {"roots", "no-roots", "error"}, RootsAnswer(a) PROVE FolderInv'
  <2>1. CASE a = "roots" /\ roots' = "known" /\ goTo(Home)
    BY <1>1, <2>1, GoToOK, FolderAssumption DEF RootsAnswer
  <2>2. CASE a \in {"no-roots", "error"}
    BY <1>1, <2>2 DEF RootsAnswer, ReadsInOrder
  <2> QED BY <1>1, <2>1, <2>2 DEF RootsAnswer
<1>2. ASSUME NEW f \in Folders, NEW row \in BOOLEAN, FolderClick(f, row) PROVE FolderInv'
  BY <1>2, GoToOK DEF FolderClick
<1>3. ASSUME NEW r \in reads, NEW ok \in BOOLEAN, NEW up \in Folders \cup {NoFolder},
             ReadAnswers(r, ok, up)
      PROVE  FolderInv'
  <2>1. ReadsInOrder'
    BY <1>3 DEF ReadAnswers, ReadsInOrder
  <2>2. CASE ~Current(r)
    BY <1>3, <2>1, <2>2 DEF ReadAnswers
  <2>3. CASE Current(r)
    <3>1. r.folder = lastAsked /\ r.folder \in Folders
      BY <2>3 DEF Current, ReadsInOrder
    <3> QED BY <1>3, <2>1, <2>3, <3>1 DEF ReadAnswers
  <2> QED BY <2>2, <2>3
<1>4. CASE LeaveScreen
  BY <1>4 DEF LeaveScreen, ReadsInOrder
<1> QED BY <1>1, <1>2, <1>3, <1>4 DEF FolderNext

LEMMA FolderStutter == FolderInv /\ UNCHANGED folderVars => FolderInv'
BY DEF FolderInv, folderVars, FolderTypeOK, ReadsInOrder, SettlesOnTheLast

-----------------------------------------------------------------------------
(* The clamp screen                                                        *)

\* The screen that shows because there is no bench is held, or was left; a clamp names its
\* repo until it is answered.
HeldOrLeft == seen = NoRepo => screenHeld \/ went
ClampsNamed == \A a \in asks : a.op = "clamp" => a.repo \in ScreenRepos

ScreenInv == ScreenTypeOK /\ HeldOrLeft /\ ClampsNamed

LEMMA ScreenStart == ScreenInit => ScreenInv
<1> SUFFICES ASSUME ScreenInit PROVE ScreenInv
  OBVIOUS
<1>1. ScreenTypeOK
  <2>1. screenHeld = FALSE /\ drawerOpen = FALSE /\ went = FALSE
    BY DEF ScreenInit
  <2>2. {screenHeld, drawerOpen, went} \subseteq BOOLEAN
    BY <2>1
  <2>3. unclamping \in 0..MaxAsks /\ asksMade \in Nat
    BY ScreenAssumption DEF ScreenInit
  <2> QED BY <2>2, <2>3, ScreenAssumption DEF ScreenInit, ScreenTypeOK
<1>2. HeldOrLeft /\ ClampsNamed
  BY ScreenAssumption DEF ScreenInit, HeldOrLeft, ClampsNamed
<1> QED BY <1>1, <1>2 DEF ScreenInv

AskSet == [n : Nat, op : {"clamp", "unclamp", "setup", "drawer-unclamp"},
           repo : ScreenRepos \cup {NoRepo}, answer : {"none", "ok", "no"}, mounted : BOOLEAN]

LEMMA AskHostOK ==
  ASSUME asksMade \in Nat, NEW op \in {"clamp", "unclamp", "setup", "drawer-unclamp"},
         NEW repo \in ScreenRepos \cup {NoRepo}
  PROVE  AskHost(op, repo) \in AskSet /\ AskHost(op, repo).op = op /\ AskHost(op, repo).repo = repo
BY DEF AskHost, AskSet

LEMMA UnmountOK ==
  ASSUME asks \subseteq AskSet, ClampsNamed, Unmount
  PROVE  asks' \subseteq AskSet /\ ClampsNamed'
<1>1. \A a \in AskSet, m \in BOOLEAN :
        LET b == [a EXCEPT !.mounted = m] IN b \in AskSet /\ b.op = a.op /\ b.repo = a.repo
  BY DEF AskSet
<1> DEFINE Off(a) == [a EXCEPT !.mounted = (a.op = "drawer-unclamp")]
<1>2. asks' = {Off(a) : a \in asks}
  BY DEF Unmount
<1>3. \A a \in asks : Off(a) \in AskSet /\ Off(a).op = a.op /\ Off(a).repo = a.repo
  BY <1>1
<1> HIDE DEF Off
<1>4. \A b \in asks' : \E a \in asks : b = Off(a)
  BY <1>2
<1>5. \A b \in asks' : \E a \in asks : b \in AskSet /\ b.op = a.op /\ b.repo = a.repo
  BY <1>3, <1>4
<1> QED BY <1>5 DEF ClampsNamed

LEMMA ScreenStep == ScreenInv /\ ScreenNext => ScreenInv' /\ ScreenHeld
<1> SUFFICES ASSUME ScreenInv, ScreenNext PROVE ScreenInv' /\ ScreenHeld
  OBVIOUS
<1>t. /\ clampedRepo \in ScreenRepos \cup {NoRepo}
      /\ seen \in ScreenRepos \cup {NoRepo, Unheard}
      /\ screenHeld \in BOOLEAN /\ drawerOpen \in BOOLEAN /\ went \in BOOLEAN
      /\ phase \in {"pick", "clamping", "clamped"}
      /\ clampResult \in ScreenRepos \cup {NoRepo} /\ checklist \in ScreenRepos \cup {NoRepo}
      /\ phase = "clamped" => clampResult # NoRepo
      /\ asks \subseteq AskSet /\ asksMade \in Nat /\ unclamping \in 0..MaxAsks
      /\ HeldOrLeft /\ ClampsNamed
  BY DEF ScreenInv, ScreenTypeOK, AskSet
<1>q. ASSUME /\ clampedRepo' \in ScreenRepos \cup {NoRepo}
             /\ seen' \in ScreenRepos \cup {NoRepo, Unheard}
             /\ screenHeld' \in BOOLEAN /\ drawerOpen' \in BOOLEAN /\ went' \in BOOLEAN
             /\ phase' \in {"pick", "clamping", "clamped"}
             /\ clampResult' \in ScreenRepos \cup {NoRepo} /\ checklist' \in ScreenRepos \cup {NoRepo}
             /\ phase' = "clamped" => clampResult' # NoRepo
             /\ asks' \subseteq AskSet /\ asksMade' \in Nat /\ unclamping' \in 0..MaxAsks
             /\ HeldOrLeft' /\ ClampsNamed'
      PROVE  ScreenInv'
  BY <1>q DEF ScreenInv, ScreenTypeOK, AskSet
<1> HIDE DEF ScreenInv
<1>u. MaxAsks \in Nat
  BY ScreenAssumption
<1>1. CASE FrameArrives
  <2>1. /\ seen' = clampedRepo /\ screenHeld' = (screenHeld \/ clampedRepo = NoRepo)
        /\ went' = (went /\ clampedRepo # NoRepo)
        /\ UNCHANGED <<clampedRepo, asksMade, drawerOpen, unclamping>>
        /\ Unmount \/ UNCHANGED <<phase, clampResult, checklist, asks>>
    BY <1>1 DEF FrameArrives, HeldAfter
  <2>2. /\ asks' \subseteq AskSet /\ ClampsNamed' /\ phase' \in {"pick", "clamping", "clamped"}
        /\ clampResult' \in ScreenRepos \cup {NoRepo} /\ checklist' \in ScreenRepos \cup {NoRepo}
        /\ phase' = "clamped" => clampResult' # NoRepo
    <3>1. CASE Unmount
      BY <1>t, <3>1, UnmountOK DEF Unmount
    <3>2. CASE UNCHANGED <<phase, clampResult, checklist, asks>>
      BY <1>t, <3>2 DEF ClampsNamed
    <3> QED BY <2>1, <3>1, <3>2
  <2>3. screenHeld' \in BOOLEAN /\ went' \in BOOLEAN /\ HeldOrLeft'
    BY <1>t, <2>1 DEF HeldOrLeft
  <2>4. ScreenHeld
    BY <1>t, <2>1, ScreenAssumption DEF ScreenHeld, Showing, HeldOrLeft
  <2> QED BY <1>t, <1>q, <2>1, <2>2, <2>3, <2>4
<1>2. CASE GoToBench
  <2>1. /\ screenHeld' = FALSE /\ went' = TRUE
        /\ UNCHANGED <<clampedRepo, seen, asksMade, drawerOpen, unclamping>>
        /\ Unmount \/ UNCHANGED <<phase, clampResult, checklist, asks>>
    BY <1>2 DEF GoToBench
  <2>2. /\ asks' \subseteq AskSet /\ ClampsNamed' /\ phase' \in {"pick", "clamping", "clamped"}
        /\ clampResult' \in ScreenRepos \cup {NoRepo} /\ checklist' \in ScreenRepos \cup {NoRepo}
        /\ phase' = "clamped" => clampResult' # NoRepo
    <3>1. CASE Unmount
      BY <1>t, <3>1, UnmountOK DEF Unmount
    <3>2. CASE UNCHANGED <<phase, clampResult, checklist, asks>>
      BY <1>t, <3>2 DEF ClampsNamed
    <3> QED BY <2>1, <3>1, <3>2
  <2>3. ScreenHeld /\ HeldOrLeft'
    BY <2>1 DEF ScreenHeld, HeldOrLeft
  <2> QED BY <1>t, <1>q, <2>1, <2>2, <2>3
<1>k. ASSUME UNCHANGED <<seen, screenHeld, went>>
      PROVE  ScreenHeld /\ HeldOrLeft'
  BY <1>t, <1>k DEF ScreenHeld, HeldOrLeft, Showing
<1>s. ASSUME NEW op \in {"clamp", "unclamp", "drawer-unclamp"}, NEW repo \in ScreenRepos \cup {NoRepo},
             SendAsk(op, repo), op = "clamp" => repo \in ScreenRepos
      PROVE  asks' \subseteq AskSet /\ asksMade' \in Nat /\ ClampsNamed'
             /\ asksMade + 1 \in 0..MaxAsks
  BY <1>t, <1>u, <1>s, AskHostOK DEF SendAsk, ClampsNamed
<1>3. ASSUME NEW r \in ScreenRepos, clampNow(r) PROVE ScreenInv' /\ ScreenHeld
  BY <1>t, <1>q, <1>k, <1>s, <1>3 DEF clampNow
<1>4. CASE unclampNow
  BY <1>t, <1>q, <1>k, <1>s, <1>4 DEF unclampNow
<1>5. CASE ToggleDrawer
  BY <1>t, <1>u, <1>q, <1>k, <1>5 DEF ToggleDrawer, ClampsNamed
<1>6. CASE DrawerUnclamps
  BY <1>t, <1>q, <1>k, <1>s, <1>6 DEF DrawerUnclamps
<1>7. ASSUME NEW a \in asks, HostServes(a) PROVE ScreenInv' /\ ScreenHeld
  <2>1. PICK ok \in BOOLEAN :
          /\ asks' = (asks \ {a}) \cup {[a EXCEPT !.answer = IF ok THEN "ok" ELSE "no",
                        !.repo = IF a.op = "setup" THEN clampedRepo ELSE @]}
          /\ clampedRepo' = IF ok /\ a.op # "setup" THEN a.repo ELSE clampedRepo
    BY <1>7 DEF HostServes
  <2> DEFINE answer == IF ok THEN "ok" ELSE "no"
             repo == IF a.op = "setup" THEN clampedRepo ELSE a.repo
             b == [a EXCEPT !.answer = answer, !.repo = repo]
  <2>2. a \in AskSet /\ a.repo \in ScreenRepos \cup {NoRepo} /\ repo \in ScreenRepos \cup {NoRepo}
    BY <1>t DEF AskSet
  <2>3. answer \in {"ok", "no"} /\ (a.op # "setup" => repo = a.repo)
    OBVIOUS
  <2>4. asks' = (asks \ {a}) \cup {b}
    BY <2>1
  <2> HIDE DEF repo, answer
  <2>7. b \in AskSet /\ b.op = a.op /\ (a.op # "setup" => b.repo = a.repo)
    BY <2>2, <2>3 DEF AskSet
  <2> HIDE DEF b
  <2>5. asks' \subseteq AskSet /\ ClampsNamed'
    BY <1>t, <2>4, <2>7 DEF ClampsNamed
  <2>6. clampedRepo' \in ScreenRepos \cup {NoRepo}
    BY <1>t, <2>1, <2>2
  <2> QED BY <1>t, <1>q, <1>k, <1>7, <2>5, <2>6 DEF HostServes
<1>8. ASSUME NEW a \in asks, AskAnswered(a) PROVE ScreenInv' /\ ScreenHeld
  <2>1. /\ UNCHANGED <<clampedRepo, seen, screenHeld, went>>
        /\ drawerOpen' = (drawerOpen /\ ~(a.op = "drawer-unclamp" /\ a.answer = "ok"))
        /\ unclamping' = IF drawerOpen' /\ unclamping # a.n THEN unclamping ELSE 0
    BY <1>8 DEF AskAnswered
  <2>2. drawerOpen' \in BOOLEAN /\ unclamping' \in 0..MaxAsks
    BY <1>t, <1>u, <2>1
  <2>3. a \in AskSet /\ a.repo \in ScreenRepos \cup {NoRepo} /\ (a.op = "clamp" => a.repo \in ScreenRepos)
    BY <1>t DEF AskSet, ClampsNamed
  <2>4. ASSUME asks' = asks \ {a} PROVE asks' \subseteq AskSet /\ ClampsNamed'
    BY <1>t, <2>4 DEF ClampsNamed
  <2>5. CASE /\ a.op = "clamp"
             /\ phase' = "clamped" /\ clampResult' = a.repo /\ checklist' = NoRepo
             /\ asks' = (asks \ {a}) \cup {AskHost("setup", NoRepo)}
             /\ asksMade' = asksMade + 1
    <3>1. asks' \subseteq AskSet /\ ClampsNamed'
      BY <1>t, <2>5, AskHostOK DEF ClampsNamed
    <3> QED BY <1>t, <1>q, <1>k, <2>1, <2>2, <2>3, <2>5, <3>1, ScreenAssumption
  <2>6. CASE /\ asks' = asks \ {a} /\ UNCHANGED asksMade
             /\ \/ UNCHANGED <<phase, clampResult>>
                \/ phase' = "pick" /\ clampResult' \in {clampResult, NoRepo}
             /\ checklist' \in {checklist, NoRepo, a.repo}
    BY <1>t, <1>q, <1>k, <2>1, <2>2, <2>3, <2>4, <2>6
  <2> QED BY <1>8, <2>5, <2>6 DEF AskAnswered, ClampRefused
<1>9. ASSUME NEW r \in ScreenRepos \cup {NoRepo}, OtherTab(r) PROVE ScreenInv' /\ ScreenHeld
  BY <1>t, <1>q, <1>k, <1>9 DEF OtherTab, ClampsNamed
<1> QED BY <1>1, <1>2, <1>3, <1>4, <1>5, <1>6, <1>7, <1>8, <1>9 DEF ScreenNext

LEMMA ScreenStutter == ScreenInv /\ UNCHANGED screenVars => ScreenInv'
BY DEF ScreenInv, screenVars, ScreenTypeOK, HeldOrLeft, ClampsNamed

-----------------------------------------------------------------------------
(* The toolpath bar                                                        *)

\* The steps recorded are of events seen, and no event is seen that was not shown.
RecordedSoFar ==
  /\ \A i \in DOMAIN tpRec.steps : tpRec.steps[i] <= tpRec.seen
  /\ tpRec.seen <= tpShown /\ tpShown <= tpLog

\* The timers are the last steps of the last replay, and the step before the first of them
\* is the one that was posted.
ReplaySoFar ==
  /\ tpPlays + tpFetching <= MaxPlays
  /\ tpPlay.playing = (tpTimers # <<>>)
  /\ Len(tpTimers) <= PathLength
  /\ \A i \in 1 .. Len(tpTimers) :
       tpTimers[i] = [run |-> tpPlays, index |-> PathLength - Len(tpTimers) + i]
  /\ Len(tpTimers) \in 1 .. (PathLength - 1) =>
       tpPosted = [run |-> tpPlays, index |-> PathLength - Len(tpTimers)]

ToolpathInv == ToolpathTypeOK /\ RecordedOnce /\ RecordedSoFar /\ ReplaySoFar

LEMMA ToolpathStart == ToolpathInit => ToolpathInv
<1> SUFFICES ASSUME ToolpathInit PROVE ToolpathInv
  OBVIOUS
<1> USE ToolpathAssumption
<1>0. /\ tpLog = 0 /\ tpShown = 0 /\ tpFetching = 0 /\ tpPlays = 0 /\ tpSaving = FALSE
      /\ tpTimers = <<>> /\ tpPosted = NotPosted
      /\ tpPlay = [playing |-> FALSE, at |-> 0]
      /\ tpRec = [on |-> FALSE, seen |-> 0, steps |-> <<>>]
  BY DEF ToolpathInit
<1>a. /\ tpRec.steps = <<>> /\ tpRec.seen = 0 /\ tpPlay.playing = FALSE
      /\ tpPlay \in [playing : BOOLEAN, at : 0 .. PathLength]
  BY <1>0
<1>b. tpRec \in [on : BOOLEAN, seen : 0 .. MaxEvents, steps : Seq(1 .. MaxEvents)]
  <2>1. <<>> \in Seq(1 .. MaxEvents)
    BY NoMembers
  <2> QED BY <1>0, <2>1
<1>c. tpTimers \in Seq(Steps) /\ Len(tpTimers) = 0
  BY <1>0, NoMembers
<1>d. 0 \in 0 .. MaxEvents /\ 0 \in 0 .. MaxPlays
  OBVIOUS
<1>1. ToolpathTypeOK
  BY <1>0, <1>a, <1>b, <1>c, <1>d DEF ToolpathTypeOK
<1>2. RecordedOnce /\ RecordedSoFar
  BY <1>0, <1>a, NoMembers DEF RecordedOnce, RecordedSoFar
<1>3. ReplaySoFar
  <2>1. tpPlay.playing = (tpTimers # <<>>)
    BY <1>0, <1>a
  <2>2. tpPlays + tpFetching <= MaxPlays /\ Len(tpTimers) <= PathLength
    BY <1>0, <1>c
  <2> QED BY <1>c, <2>1, <2>2 DEF ReplaySoFar
<1> QED BY <1>1, <1>2, <1>3 DEF ToolpathInv

\* A step of the recorder alone, with an event that is the last of the log.
LEMMA SeeOK ==
  ASSUME NEW rec \in [on : BOOLEAN, seen : 0 .. MaxEvents, steps : Seq(1 .. MaxEvents)],
         NEW event \in 0 .. MaxEvents, rec.seen <= event,
         \A i \in DOMAIN rec.steps : rec.steps[i] <= rec.seen,
         \A i, j \in DOMAIN rec.steps : i < j => rec.steps[i] < rec.steps[j]
  PROVE  LET new == See(rec, event) IN
         /\ new \in [on : BOOLEAN, seen : 0 .. MaxEvents, steps : Seq(1 .. MaxEvents)]
         /\ new.seen <= event
         /\ \A i \in DOMAIN new.steps : new.steps[i] <= new.seen
         /\ \A i, j \in DOMAIN new.steps : i < j => new.steps[i] < new.steps[j]
<1>1. CASE rec.on /\ event # 0 /\ event # rec.seen
  <2> DEFINE steps == Append(rec.steps, event)
  <2>1. See(rec, event) = [on |-> rec.on, seen |-> event, steps |-> steps]
    BY <1>1 DEF See
  <2>2. rec.steps \in Seq(1 .. MaxEvents) /\ event \in 1 .. MaxEvents /\ MaxEvents \in Nat
        /\ rec.seen \in 0 .. MaxEvents /\ rec.seen < event
    BY <1>1, ToolpathAssumption
  <2>3. /\ steps \in Seq(1 .. MaxEvents) /\ steps[Len(rec.steps) + 1] = event
        /\ \A i \in DOMAIN rec.steps : steps[i] = rec.steps[i]
        /\ \A i \in DOMAIN steps : i \in DOMAIN rec.steps \/ i = Len(rec.steps) + 1
        /\ \A i \in DOMAIN rec.steps : i \in Nat /\ i <= Len(rec.steps)
        /\ Len(rec.steps) \in Nat
    BY <2>2, AppendIs
  <2>4. \A i \in DOMAIN rec.steps : rec.steps[i] \in 1 .. MaxEvents /\ rec.steps[i] < event
    BY <2>2
  <2> HIDE DEF steps
  <2>5. \A i \in DOMAIN steps : steps[i] <= event
    BY <2>2, <2>3, <2>4
  <2>6. ASSUME NEW i \in DOMAIN steps, NEW j \in DOMAIN steps, i < j
        PROVE  steps[i] < steps[j]
    <3>1. i \in DOMAIN rec.steps
      BY <2>3, <2>6
    <3>2. CASE j \in DOMAIN rec.steps
      BY <2>3, <2>6, <3>1, <3>2
    <3>3. CASE j = Len(rec.steps) + 1
      BY <2>3, <2>4, <3>1, <3>3
    <3> QED BY <2>3, <3>2, <3>3
  <2> QED BY <2>1, <2>2, <2>3, <2>5, <2>6
<1>2. CASE ~(rec.on /\ event # 0 /\ event # rec.seen)
  BY <1>2 DEF See
<1> QED BY <1>1, <1>2

recordVars == <<tpLog, tpShown, tpRec>>
replayVars == <<tpFetching, tpTimers, tpPlay, tpPosted, tpPlays>>

\* The recorder's half, as it is for any recorder.
RecorderOK(log, seenUpTo, rec) ==
  /\ log \in 0 .. MaxEvents /\ seenUpTo \in 0 .. MaxEvents
  /\ rec \in [on : BOOLEAN, seen : 0 .. MaxEvents, steps : Seq(1 .. MaxEvents)]
  /\ \A i, j \in DOMAIN rec.steps : i < j => rec.steps[i] < rec.steps[j]
  /\ \A i \in DOMAIN rec.steps : rec.steps[i] <= rec.seen
  /\ rec.seen <= seenUpTo /\ seenUpTo <= log

PlayerOK ==
  /\ tpFetching \in 0 .. MaxPlays
  /\ tpTimers \in Seq(Steps)
  /\ tpPlay \in [playing : BOOLEAN, at : 0 .. PathLength]
  /\ tpPosted \in Steps \cup {NotPosted}
  /\ tpPlays \in 0 .. MaxPlays
  /\ ReplaySoFar

LEMMA ToolpathHalves ==
  ToolpathInv <=> RecorderOK(tpLog, tpShown, tpRec) /\ tpSaving \in BOOLEAN /\ PlayerOK
BY DEF ToolpathInv, ToolpathTypeOK, RecordedOnce, RecordedSoFar, RecorderOK, PlayerOK

LEMMA RecorderStep ==
  ASSUME ToolpathInv,
         \/ PlateEventArrives \/ Render \/ StartRecording \/ StopRecording \/ Save
         \/ \E ok \in BOOLEAN : SaveAnswers(ok)
  PROVE  RecorderOK(tpLog', tpShown', tpRec') /\ tpSaving' \in BOOLEAN /\ UNCHANGED replayVars
<1> DEFINE R == [on : BOOLEAN, seen : 0 .. MaxEvents, steps : Seq(1 .. MaxEvents)]
<1>t. /\ tpLog \in 0 .. MaxEvents /\ tpShown \in 0 .. MaxEvents /\ tpRec \in R
      /\ \A i, j \in DOMAIN tpRec.steps : i < j => tpRec.steps[i] < tpRec.steps[j]
      /\ \A i \in DOMAIN tpRec.steps : tpRec.steps[i] <= tpRec.seen
      /\ tpRec.seen <= tpShown /\ tpShown <= tpLog
      /\ tpRec.seen \in 0 .. MaxEvents /\ tpSaving \in BOOLEAN /\ MaxEvents \in Nat
  BY ToolpathHalves, ToolpathAssumption DEF RecorderOK
<1> USE DEF replayVars
<1>e. ASSUME NEW rec \in R, rec.steps = <<>>, rec.seen \in 0 .. tpShown
      PROVE  RecorderOK(tpLog, tpShown, rec)
  BY <1>t, <1>e DEF RecorderOK
<1>1. CASE PlateEventArrives
  BY <1>t, <1>1 DEF PlateEventArrives, RecorderOK
<1>2. CASE Render
  <2>1. tpRec.seen <= tpLog
    BY <1>t
  <2>2. LET new == See(tpRec, tpLog) IN
         /\ new \in R /\ new.seen <= tpLog
         /\ \A i \in DOMAIN new.steps : new.steps[i] <= new.seen
         /\ \A i, j \in DOMAIN new.steps : i < j => new.steps[i] < new.steps[j]
    BY <1>t, <2>1, SeeOK
  <2> QED BY <1>t, <1>2, <2>2 DEF Render, RecorderOK
<1>3. CASE StartRecording
  <2> DEFINE fresh == [on |-> TRUE, seen |-> 0, steps |-> <<>>]
  <2>1. /\ fresh \in R /\ fresh.seen <= tpShown /\ DOMAIN fresh.steps = {}
    BY <1>t
  <2>2. LET new == See(fresh, tpShown) IN
         /\ new \in R /\ new.seen <= tpShown
         /\ \A i \in DOMAIN new.steps : new.steps[i] <= new.seen
         /\ \A i, j \in DOMAIN new.steps : i < j => new.steps[i] < new.steps[j]
    <3> HIDE DEF fresh
    <3> QED BY <1>t, <2>1, SeeOK
  <2> QED BY <1>t, <1>3, <2>2 DEF StartRecording, RecorderOK
<1>4. CASE StopRecording
  <2>1. /\ tpRec' \in R /\ tpRec'.steps = tpRec.steps /\ tpRec'.seen = tpRec.seen
        /\ UNCHANGED <<tpLog, tpShown, tpSaving, replayVars>>
    BY <1>t, <1>4 DEF StopRecording
  <2> QED BY <1>t, <2>1 DEF RecorderOK
<1>5. CASE Save
  BY <1>t, <1>5 DEF Save, RecorderOK
<1>6. ASSUME NEW ok \in BOOLEAN, SaveAnswers(ok)
      PROVE  RecorderOK(tpLog', tpShown', tpRec') /\ tpSaving' \in BOOLEAN /\ UNCHANGED replayVars
  <2>0. UNCHANGED <<tpLog, tpShown, replayVars>> /\ tpSaving' = FALSE
    BY <1>6 DEF SaveAnswers
  <2>1. CASE ok
    <3>1. tpRec' \in R /\ tpRec'.steps = <<>> /\ tpRec'.seen = tpRec.seen
      <4>1. tpRec' = [tpRec EXCEPT !.steps = <<>>] /\ <<>> \in Seq(1 .. MaxEvents)
        BY <1>6, <2>1, NoMembers DEF SaveAnswers
      <4> QED BY <1>t, <4>1
    <3>2. tpRec'.seen \in 0 .. tpShown
      BY <1>t, <3>1
    <3> QED BY <1>e, <2>0, <3>1, <3>2
  <2>2. CASE ~ok
    BY <1>t, <1>6, <2>0, <2>2 DEF SaveAnswers, RecorderOK
  <2> QED BY <2>1, <2>2
<1> QED BY <1>1, <1>2, <1>3, <1>4, <1>5, <1>6

LEMMA StepFields ==
  ASSUME NEW run, NEW index
  PROVE  LET s == [run |-> run, index |-> index] IN s.run = run /\ s.index = index
OBVIOUS

LEMMA PlayerStep ==
  ASSUME ToolpathInv,
         AskReplay \/ (\E empty \in BOOLEAN : Play(empty)) \/ TimerFires \/ Printed
  PROVE  PlayerOK' /\ OneReplayAtATime /\ UNCHANGED <<recordVars, tpSaving>>
<1>t. /\ tpFetching \in 0 .. MaxPlays /\ tpTimers \in Seq(Steps)
      /\ tpPlay \in [playing : BOOLEAN, at : 0 .. PathLength]
      /\ tpPosted \in Steps \cup {NotPosted} /\ tpPlays \in 0 .. MaxPlays
      /\ ReplaySoFar /\ MaxPlays \in Nat /\ PathLength \in Nat \ {0}
  BY ToolpathHalves, ToolpathAssumption DEF PlayerOK
<1> USE DEF recordVars
<1>1. CASE AskReplay
  BY <1>t, <1>1 DEF AskReplay, PlayerOK, ReplaySoFar, OneReplayAtATime
<1>2. ASSUME NEW empty \in BOOLEAN, Play(empty)
      PROVE  PlayerOK' /\ OneReplayAtATime /\ UNCHANGED <<recordVars, tpSaving>>
  <2>0. /\ tpFetching' = tpFetching - 1 /\ tpPlays' = tpPlays + 1 /\ tpFetching > 0
        /\ tpTimers' = (IF empty THEN <<>> ELSE TimersFor(tpPlays + 1))
        /\ tpPlay' = [playing |-> ~empty, at |-> 0]
        /\ UNCHANGED <<recordVars, tpSaving, tpPosted>>
    BY <1>2 DEF Play
  <2>1. /\ tpFetching' \in 0 .. MaxPlays /\ tpPlays' \in 1 .. MaxPlays
        /\ tpPlays' + tpFetching' <= MaxPlays
    BY <1>t, <2>0 DEF ReplaySoFar
  <2>2. tpPlay' \in [playing : BOOLEAN, at : 0 .. PathLength] /\ tpPlay'.playing = ~empty
    BY <1>t, <2>0
  <2>3. CASE empty
    <3>1. tpTimers' = <<>> /\ tpTimers' \in Seq(Steps) /\ Len(tpTimers') = 0
      BY <2>0, <2>3
    <3> QED BY <1>t, <2>0, <2>1, <2>2, <2>3, <3>1 DEF PlayerOK, ReplaySoFar, OneReplayAtATime
  <2>4. CASE ~empty
    <3>1. tpTimers' = [i \in 1 .. PathLength |-> [run |-> tpPlays', index |-> i]]
      BY <2>0, <2>4 DEF TimersFor
    <3>2. \A i \in 1 .. PathLength : [run |-> tpPlays', index |-> i] \in Steps
      BY <2>1 DEF Steps
    <3>3. tpTimers' \in Seq(Steps) /\ Len(tpTimers') = PathLength
      BY <1>t, <3>1, <3>2
    <3>4. tpTimers' # <<>> /\ \A i \in 1 .. PathLength : PathLength - PathLength + i = i
      BY <1>t, <3>3
    <3>5. \A i \in 1 .. Len(tpTimers') :
            tpTimers'[i] = [run |-> tpPlays', index |-> PathLength - Len(tpTimers') + i]
      BY <3>1, <3>3, <3>4
    <3>6. Len(tpTimers') <= PathLength /\ Len(tpTimers') \notin 1 .. (PathLength - 1)
      BY <1>t, <3>3
    <3> QED BY <1>t, <2>0, <2>1, <2>2, <2>4, <3>3, <3>4, <3>5, <3>6
            DEF PlayerOK, ReplaySoFar, OneReplayAtATime
  <2> QED BY <2>3, <2>4
<1>3. CASE TimerFires
  <2> DEFINE n == Len(tpTimers)
             k == PathLength - n + 1
             step == [run |-> tpPlays, index |-> k]
  <2>0. /\ tpTimers # <<>> /\ tpPosted' = Head(tpTimers) /\ tpTimers' = Tail(tpTimers)
        /\ tpPlay' = [playing |-> Head(tpTimers).index # PathLength, at |-> Head(tpTimers).index]
        /\ UNCHANGED <<recordVars, tpSaving, tpFetching, tpPlays>>
    BY <1>3 DEF TimerFires
  <2>1. /\ n \in 1 .. PathLength /\ k \in 1 .. PathLength
        /\ Head(tpTimers) = tpTimers[1] /\ Head(tpTimers) \in Steps
        /\ tpTimers' \in Seq(Steps) /\ Len(tpTimers') = n - 1
        /\ \A i \in 1 .. (n - 1) : tpTimers'[i] = tpTimers[i + 1]
    BY <1>t, <2>0 DEF ReplaySoFar
  <2>2. tpPosted' = step
    BY <1>t, <2>0, <2>1 DEF ReplaySoFar
  <2>3. step.run = tpPlays /\ step.index = k
    BY StepFields
  <2>4. /\ tpPlay' \in [playing : BOOLEAN, at : 0 .. PathLength]
        /\ tpPlay'.playing = (k # PathLength)
    BY <2>0, <2>1, <2>2, <2>3
  <2>5. (k # PathLength) = (tpTimers' # <<>>)
    BY <1>t, <2>1
  <2>6. \A i \in 1 .. (n - 1) : tpTimers'[i] = [run |-> tpPlays, index |-> PathLength - (n - 1) + i]
    <3> TAKE i \in 1 .. (n - 1)
    <3>1. i + 1 \in 1 .. n /\ PathLength - n + (i + 1) = PathLength - (n - 1) + i
      BY <1>t, <2>1
    <3>2. tpTimers[i + 1] = [run |-> tpPlays, index |-> PathLength - n + (i + 1)]
      BY <1>t, <3>1 DEF ReplaySoFar
    <3> QED BY <2>1, <3>1, <3>2
  <2>7. PathLength - (n - 1) = k
    BY <1>t, <2>1
  <2>8. ReplaySoFar'
    <3>1. tpPlays' + tpFetching' <= MaxPlays /\ tpPlays' = tpPlays
      BY <1>t, <2>0 DEF ReplaySoFar
    <3>2. tpPlay'.playing = (tpTimers' # <<>>)
      BY <2>4, <2>5
    <3>3. Len(tpTimers') <= PathLength
      BY <1>t, <2>1
    <3>4. \A i \in 1 .. Len(tpTimers') :
            tpTimers'[i] = [run |-> tpPlays', index |-> PathLength - Len(tpTimers') + i]
      BY <2>1, <2>6, <3>1
    <3>5. tpPosted' = [run |-> tpPlays', index |-> PathLength - Len(tpTimers')]
      BY <2>1, <2>2, <2>7, <3>1
    <3> QED BY <3>1, <3>2, <3>3, <3>4, <3>5 DEF ReplaySoFar
  <2>9. OneReplayAtATime
    <3>1. tpPosted'.run = tpPlays /\ tpPosted'.index = k
      BY <2>2, <2>3
    <3>2. CASE n = PathLength
      <4>1. k = 1
        BY <1>t, <3>2
      <4> QED BY <2>4, <2>5, <3>1, <4>1 DEF OneReplayAtATime
    <3>3. CASE n # PathLength
      <4>1. n \in 1 .. (PathLength - 1) /\ PathLength - n + 1 = k /\ PathLength - n \in Nat
        BY <1>t, <2>1, <3>3
      <4>2. tpPosted = [run |-> tpPlays, index |-> PathLength - n]
        BY <1>t, <4>1 DEF ReplaySoFar
      <4>3. tpPosted.run = tpPlays /\ tpPosted.index = PathLength - n
        BY <4>2
      <4> QED BY <2>4, <2>5, <3>1, <4>1, <4>3 DEF OneReplayAtATime
    <3> QED BY <3>2, <3>3
  <2>10. tpPosted' \in Steps
    BY <2>0, <2>1
  <2> QED BY <1>t, <2>0, <2>1, <2>4, <2>8, <2>9, <2>10 DEF PlayerOK
<1>4. CASE Printed
  <2>1. /\ tpTimers' = <<>> /\ tpTimers' \in Seq(Steps) /\ Len(tpTimers') = 0
        /\ tpPlay' \in [playing : BOOLEAN, at : 0 .. PathLength] /\ tpPlay'.playing = FALSE
        /\ UNCHANGED <<recordVars, tpSaving, tpFetching, tpPosted, tpPlays>>
    BY <1>t, <1>4 DEF Printed
  <2> QED BY <1>t, <2>1 DEF PlayerOK, ReplaySoFar, OneReplayAtATime
<1> QED BY <1>1, <1>2, <1>3, <1>4

LEMMA ToolpathStep == ToolpathInv /\ ToolpathNext => ToolpathInv' /\ OneReplayAtATime
<1> SUFFICES ASSUME ToolpathInv, ToolpathNext PROVE ToolpathInv' /\ OneReplayAtATime
  OBVIOUS
<1>1. ToolpathInv' <=> RecorderOK(tpLog', tpShown', tpRec') /\ tpSaving' \in BOOLEAN /\ PlayerOK'
  BY DEF ToolpathInv, ToolpathTypeOK, RecordedOnce, RecordedSoFar, RecorderOK, PlayerOK
<1>2. CASE \/ PlateEventArrives \/ Render \/ StartRecording \/ StopRecording \/ Save
           \/ \E ok \in BOOLEAN : SaveAnswers(ok)
  <2>1. RecorderOK(tpLog', tpShown', tpRec') /\ tpSaving' \in BOOLEAN /\ UNCHANGED replayVars
    BY <1>2, RecorderStep
  <2>2. PlayerOK
    BY ToolpathHalves
  <2>3. PlayerOK' /\ OneReplayAtATime
    BY <2>1, <2>2 DEF replayVars, PlayerOK, ReplaySoFar, OneReplayAtATime
  <2> QED BY <1>1, <2>1, <2>3
<1>3. CASE AskReplay \/ (\E empty \in BOOLEAN : Play(empty)) \/ TimerFires \/ Printed
  <2>1. PlayerOK' /\ OneReplayAtATime /\ UNCHANGED <<recordVars, tpSaving>>
    BY <1>3, PlayerStep
  <2>2. RecorderOK(tpLog', tpShown', tpRec') /\ tpSaving' \in BOOLEAN
    BY <2>1, ToolpathHalves DEF recordVars
  <2> QED BY <1>1, <2>1, <2>2
<1> QED BY <1>2, <1>3 DEF ToolpathNext

LEMMA ToolpathStutter == ToolpathInv /\ UNCHANGED toolpathVars => ToolpathInv'
BY DEF ToolpathInv, toolpathVars, ToolpathTypeOK, RecordedOnce, RecordedSoFar, ReplaySoFar

-----------------------------------------------------------------------------
(* The tray                                                                *)

\* A pick is handled at most once it is there, and the prompt of the one handled last is shut;
\* the timer runs with the pointer, on the order it went down on.
PicksHandled == handledPick <= trayPick /\ (handledPick = trayPick /\ trayPick # 0 => ~prompt.open)
TimerWithPointer ==
  release.on => release.of # 0 /\ pointer = [of |-> release.of, age |-> release.age]

TrayInv == TrayTypeOK /\ PicksHandled /\ WordsForThePick /\ TimerWithPointer

TrayOrderSet == [rung : TrayRungs, what : Whats]
SheetTypeOK ==
  /\ trayOrders \in Seq(TrayOrderSet) /\ Len(trayOrders) <= MaxOrders
  /\ selectedId \in 0..MaxOrders /\ expanded \in BOOLEAN /\ trayTool \in {"hand", "point"}
  /\ trayPick \in 0..MaxTrayPicks /\ handledPick \in 0..MaxTrayPicks
  /\ prompt \in [open : BOOLEAN, typedFor : 0..MaxTrayPicks]
HoldTypeOK ==
  /\ release \in [on : BOOLEAN, of : 0..MaxOrders, age : 0..TrayOath]
  /\ pointer \in [of : 0..MaxOrders, age : 0..TrayOath]

LEMMA TrayParts ==
  TrayInv <=> SheetTypeOK /\ field \in Whats /\ HoldTypeOK /\ PicksHandled /\ WordsForThePick
              /\ TimerWithPointer
BY DEF TrayInv, TrayTypeOK, SheetTypeOK, HoldTypeOK, TrayOrderSet

LEMMA TrayPartsNext ==
  TrayInv' <=> SheetTypeOK' /\ field' \in Whats /\ HoldTypeOK' /\ PicksHandled' /\ WordsForThePick'
               /\ TimerWithPointer'
BY DEF TrayInv, TrayTypeOK, SheetTypeOK, HoldTypeOK, TrayOrderSet

LEMMA TrayFacts ==
  /\ MaxOrders \in Nat \ {0} /\ MaxTrayPicks \in Nat \ {0} /\ TrayOath \in Nat \ {0}
  /\ NoTimer \in [on : BOOLEAN, of : 0..MaxOrders, age : 0..TrayOath] /\ NoTimer.on = FALSE
  /\ NoPointer \in [of : 0..MaxOrders, age : 0..TrayOath] /\ NoPointer.of = 0
BY TrayAssumption DEF NoTimer, NoPointer

LEMMA TrayStart == TrayInit => TrayInv
<1> SUFFICES ASSUME TrayInit PROVE TrayInv
  OBVIOUS
<1>0. /\ trayOrders = <<>> /\ selectedId = 0 /\ expanded = FALSE
      /\ trayTool = "hand" /\ trayPick = 0 /\ handledPick = 0
      /\ prompt = [open |-> FALSE, typedFor |-> 0]
      /\ field = "blank" /\ release = NoTimer /\ pointer = NoPointer
  BY DEF TrayInit
<1>1. trayOrders \in Seq(TrayOrderSet) /\ Len(trayOrders) = 0
  BY <1>0, NoMembers
<1>2. SheetTypeOK
  <2>1. prompt \in [open : BOOLEAN, typedFor : 0..MaxTrayPicks]
    BY <1>0, TrayFacts
  <2>2. 0 \in 0..MaxOrders /\ 0 \in 0..MaxTrayPicks /\ 0 <= MaxOrders
    BY TrayFacts
  <2> QED BY <1>0, <1>1, <2>1, <2>2 DEF SheetTypeOK
<1>3. HoldTypeOK /\ TimerWithPointer
  BY <1>0, TrayFacts DEF HoldTypeOK, TimerWithPointer
<1>4. field \in Whats /\ PicksHandled /\ WordsForThePick
  BY <1>0 DEF Whats, PicksHandled, WordsForThePick
<1> QED BY <1>2, <1>3, <1>4, TrayParts

\* The sheet shows an order that is there.
LEMMA SelectedIsThere ==
  ASSUME NEW os \in Seq(TrayOrderSet), os # <<>>, Len(os) <= MaxOrders, NEW id
  PROVE  /\ SelectedOf(os, id) \in DOMAIN os /\ SelectedOf(os, id) \in 1..MaxOrders
         /\ os[SelectedOf(os, id)].what \in Whats
<1>1. Len(os) \in DOMAIN os /\ DOMAIN os = 1..Len(os) /\ Len(os) \in Nat /\ MaxOrders \in Nat
  BY TrayFacts
<1>2. SelectedOf(os, id) \in DOMAIN os
  BY <1>1 DEF SelectedOf
<1>3. os[SelectedOf(os, id)] \in TrayOrderSet
  BY <1>2
<1> QED BY <1>1, <1>2, <1>3 DEF TrayOrderSet

\* The effects of a render keep the field, the timer and the pointer in order.
LEMMA RenderedOK ==
  ASSUME TrayInv, SheetTypeOK', Rendered
  PROVE  /\ field' \in Whats /\ HoldTypeOK' /\ TimerWithPointer' /\ SwornRelease
         /\ posted' = NoTrayRequest
<1>1. SheetShows' => trayOrders'[Selected'].what \in Whats
  <2> SUFFICES ASSUME SheetShows' PROVE trayOrders'[Selected'].what \in Whats
    OBVIOUS
  <2>1. trayOrders' \in Seq(TrayOrderSet) /\ trayOrders' # <<>> /\ Len(trayOrders') <= MaxOrders
    BY DEF SheetTypeOK, SheetShows
  <2>2. Selected' = SelectedOf(trayOrders', selectedId')
    BY DEF Selected
  <2> QED BY <2>1, <2>2, SelectedIsThere
<1>2. field' \in Whats
  BY <1>1, TrayParts DEF Rendered, Whats
<1>3. \/ UNCHANGED trayHold
      \/ release' = NoTimer /\ pointer' = NoPointer
  BY DEF Rendered, ButtonGoes
<1>4. HoldTypeOK' /\ TimerWithPointer'
  BY <1>3, TrayParts, TrayFacts DEF trayHold, HoldTypeOK, TimerWithPointer
<1>5. posted' = NoTrayRequest /\ NoTrayRequest.verb = "none"
  BY DEF Rendered, SendsNothing, NoTrayRequest, Request
<1> QED BY <1>2, <1>4, <1>5 DEF SwornRelease

\* A request that is no release.
LEMMA OtherRequest ==
  ASSUME NEW verb \in {"none", "mark", "scrap", "restore", "patch"}, NEW id,
         posted' = Request(verb, id)
  PROVE  SwornRelease
<1>1. posted'.verb = verb
  BY DEF Request
<1> QED BY <1>1 DEF SwornRelease

LEMMA TrayStep == TrayInv /\ TrayNext => TrayInv' /\ SwornRelease
<1> SUFFICES ASSUME TrayInv, TrayNext PROVE TrayInv' /\ SwornRelease
  OBVIOUS
<1>t. /\ trayOrders \in Seq(TrayOrderSet) /\ Len(trayOrders) <= MaxOrders
      /\ selectedId \in 0..MaxOrders /\ expanded \in BOOLEAN /\ trayTool \in {"hand", "point"}
      /\ trayPick \in 0..MaxTrayPicks /\ handledPick \in 0..MaxTrayPicks
      /\ prompt \in [open : BOOLEAN, typedFor : 0..MaxTrayPicks]
      /\ SheetTypeOK /\ HoldTypeOK /\ field \in Whats
      /\ PicksHandled /\ WordsForThePick /\ TimerWithPointer
      /\ DOMAIN trayOrders = 1..Len(trayOrders) /\ Len(trayOrders) \in Nat
  BY TrayParts DEF SheetTypeOK
<1>r. ASSUME SheetTypeOK', PicksHandled', WordsForThePick', Rendered
      PROVE  TrayInv' /\ SwornRelease
  BY <1>r, RenderedOK, TrayPartsNext
<1>p. ASSUME UNCHANGED <<trayTool, trayPick, handledPick, prompt>>
      PROVE  PicksHandled' /\ WordsForThePick'
  BY <1>t, <1>p DEF PicksHandled, WordsForThePick, PromptShows
<1>1. CASE OrderMarked
  <2>1. /\ Len(trayOrders) < MaxOrders /\ Rendered
        /\ trayOrders' = Append(trayOrders, [rung |-> "marked", what |-> "blank"])
        /\ UNCHANGED <<selectedId, expanded, trayTool, trayPick, handledPick, prompt>>
    BY <1>1 DEF OrderMarked
  <2>2. [rung |-> "marked", what |-> "blank"] \in TrayOrderSet
    BY DEF TrayOrderSet, TrayRungs, Whats
  <2>3. trayOrders' \in Seq(TrayOrderSet) /\ Len(trayOrders') <= MaxOrders
    BY <1>t, <2>1, <2>2, AppendIs, TrayFacts
  <2>4. SheetTypeOK'
    BY <1>t, <2>1, <2>3 DEF SheetTypeOK
  <2> QED BY <1>r, <1>p, <2>1, <2>4
<1>2. ASSUME NEW i \in DOMAIN trayOrders, NEW rung \in TrayRungs, NEW what \in Whats,
             TrayOrderMoves(i, rung, what)
      PROVE  TrayInv' /\ SwornRelease
  <2>1. /\ Rendered
        /\ trayOrders' = [trayOrders EXCEPT ![i] = [rung |-> rung, what |-> what]]
        /\ UNCHANGED <<selectedId, expanded, trayTool, trayPick, handledPick, prompt>>
    BY <1>2 DEF TrayOrderMoves
  <2>2. [rung |-> rung, what |-> what] \in TrayOrderSet
    BY DEF TrayOrderSet
  <2>3. trayOrders' \in Seq(TrayOrderSet) /\ Len(trayOrders') = Len(trayOrders)
    BY <1>t, <2>1, <2>2
  <2>4. SheetTypeOK'
    BY <1>t, <2>1, <2>3 DEF SheetTypeOK
  <2> QED BY <1>r, <1>p, <2>1, <2>4
<1>e. OpenEmpty \in [open : BOOLEAN, typedFor : 0..MaxTrayPicks] /\ OpenEmpty.typedFor = 0
  BY TrayFacts DEF OpenEmpty
<1>3. CASE PickArrives
  <2>1. /\ trayPick < MaxTrayPicks /\ trayPick' = trayPick + 1 /\ Rendered
        /\ UNCHANGED <<trayOrders, selectedId, expanded, trayTool, handledPick>>
        /\ prompt' = IF trayTool' = "point" /\ trayPick' \notin {0, handledPick} THEN OpenEmpty ELSE prompt
    BY <1>3 DEF PickArrives, PickEffect
  <2>2. trayPick' \in 0..MaxTrayPicks /\ trayPick' \notin {0, handledPick} /\ handledPick <= trayPick'
    BY <1>t, <2>1, TrayFacts DEF PicksHandled
  <2>3. SheetTypeOK'
    BY <1>t, <1>e, <2>1, <2>2 DEF SheetTypeOK
  <2>4. PicksHandled'
    BY <2>1, <2>2 DEF PicksHandled
  <2>5. WordsForThePick'
    BY <1>e, <2>1, <2>2 DEF WordsForThePick
  <2> QED BY <1>r, <2>1, <2>3, <2>4, <2>5
<1>4. CASE ToolTurns
  <2>1. /\ trayTool' = (IF trayTool = "hand" THEN "point" ELSE "hand") /\ Rendered
        /\ UNCHANGED <<trayOrders, selectedId, expanded, trayPick, handledPick>>
        /\ prompt' = IF trayTool' = "point" /\ trayPick' \notin {0, handledPick} THEN OpenEmpty ELSE prompt
    BY <1>4 DEF ToolTurns, PickEffect
  <2>2. SheetTypeOK'
    BY <1>t, <1>e, <2>1 DEF SheetTypeOK
  <2>3. PicksHandled' /\ WordsForThePick'
    BY <1>t, <1>e, <2>1 DEF PicksHandled, WordsForThePick, PromptShows
  <2> QED BY <1>r, <2>1, <2>2, <2>3
<1>n. ASSUME SendsNothing PROVE SwornRelease
  BY <1>n, OtherRequest DEF SendsNothing, NoTrayRequest
<1>h. ASSUME UNCHANGED trayHold PROVE HoldTypeOK' /\ TimerWithPointer'
  BY <1>h, <1>t DEF trayHold, HoldTypeOK, TimerWithPointer
<1>5. CASE TypePrompt
  <2>1. /\ PromptShows /\ prompt' = [prompt EXCEPT !.typedFor = trayPick] /\ SendsNothing
        /\ UNCHANGED <<trayOrders, selectedId, expanded, trayTool, trayPick, handledPick, field, trayHold>>
    BY <1>5 DEF TypePrompt
  <2>2. /\ prompt' \in [open : BOOLEAN, typedFor : 0..MaxTrayPicks] /\ prompt'.open = prompt.open
        /\ prompt'.typedFor = trayPick
    BY <1>t, <2>1
  <2>3. SheetTypeOK' /\ PicksHandled' /\ WordsForThePick'
    BY <1>t, <2>1, <2>2 DEF SheetTypeOK, PicksHandled, WordsForThePick
  <2> QED BY <1>t, <1>n, <1>h, <2>1, <2>3, TrayPartsNext
<1>6. ASSUME PromptShuts, SwornRelease PROVE TrayInv' /\ SwornRelease
  <2>1. /\ PromptShows /\ prompt' = [prompt EXCEPT !.open = FALSE] /\ handledPick' = trayPick
        /\ UNCHANGED <<trayOrders, selectedId, expanded, trayTool, trayPick, trayHold>>
        /\ field' = IF SheetShows' THEN trayOrders[Selected].what ELSE "blank"
    BY <1>6 DEF PromptShuts
  <2>2. prompt' \in [open : BOOLEAN, typedFor : 0..MaxTrayPicks] /\ prompt'.open = FALSE
    BY <1>t, <2>1
  <2>3. SheetTypeOK'
    BY <1>t, <2>1, <2>2 DEF SheetTypeOK
  <2>4. PicksHandled' /\ WordsForThePick'
    BY <1>t, <2>1, <2>2 DEF PicksHandled, WordsForThePick, PromptShows
  <2>5. field' \in Whats
    <3>1. SheetShows' => trayOrders # <<>>
      BY <2>1 DEF SheetShows
    <3> QED BY <1>t, <2>1, <3>1, SelectedIsThere DEF Selected, Whats
  <2> QED BY <1>6, <1>h, <2>1, <2>3, <2>4, <2>5, TrayPartsNext
<1>7. CASE submitMark
  BY <1>6, <1>7, OtherRequest DEF submitMark
<1>8. CASE cancelMark
  BY <1>6, <1>8, <1>n DEF cancelMark
<1>9. ASSUME NEW i \in DOMAIN trayOrders, SelectOrder(i) \/ MarkAnswers(i)
      PROVE  TrayInv' /\ SwornRelease
  <2>1. /\ selectedId' = i /\ expanded' \in {FALSE, expanded} /\ Rendered
        /\ UNCHANGED <<trayOrders, trayTool, trayPick, handledPick, prompt>>
    BY <1>9 DEF SelectOrder, MarkAnswers
  <2>2. i \in 0..MaxOrders
    BY <1>t, TrayFacts
  <2>3. SheetTypeOK'
    BY <1>t, <2>1, <2>2 DEF SheetTypeOK
  <2> QED BY <1>r, <1>p, <2>1, <2>3
<1>10. CASE Expand
  <2>1. SheetTypeOK' /\ Rendered
    BY <1>t, <1>10 DEF Expand, SheetTypeOK
  <2> QED BY <1>r, <1>p, <1>10, <2>1 DEF Expand
<1>s. ASSUME UNCHANGED <<traySheetVars, trayHold>>, field' \in Whats, SwornRelease
      PROVE  TrayInv' /\ SwornRelease
  BY <1>t, <1>p, <1>h, <1>s, TrayPartsNext DEF traySheetVars, SheetTypeOK
<1>11. ASSUME NEW i, doScrap \/ doRestore(i) \/ BlurField PROVE TrayInv' /\ SwornRelease
  <2>1. PICK verb \in {"scrap", "restore", "patch"}, id \in {Selected, i} : Send(Request(verb, id))
    BY <1>11 DEF doScrap, doRestore, BlurField
  <2> QED BY <1>t, <1>s, <2>1, OtherRequest DEF Send
<1>12. CASE TypeField
  BY <1>s, <1>n, <1>12 DEF TypeField, Whats
<1>u. ASSUME UNCHANGED <<traySheetVars, field>>, HoldTypeOK', TimerWithPointer', SwornRelease
      PROVE  TrayInv' /\ SwornRelease
  BY <1>t, <1>p, <1>u, TrayPartsNext DEF traySheetVars, SheetTypeOK
<1>13. CASE StartRelease
  <2>1. /\ release' = [on |-> TRUE, of |-> Selected, age |-> 0]
        /\ pointer' = [of |-> Selected, age |-> 0]
        /\ trayOrders # <<>> /\ SendsNothing /\ UNCHANGED <<traySheetVars, field>>
    BY <1>13 DEF StartRelease, SheetShows
  <2>2. Selected \in 1..MaxOrders
    BY <1>t, <2>1, SelectedIsThere DEF Selected
  <2> HIDE DEF Selected
  <2>3. HoldTypeOK' /\ TimerWithPointer'
    BY <2>1, <2>2, TrayFacts DEF HoldTypeOK, TimerWithPointer
  <2> QED BY <1>n, <1>u, <2>1, <2>3
<1>14. CASE TrayTick
  <2>1. /\ release.on /\ release.age < TrayOath /\ release' = [release EXCEPT !.age = release.age + 1]
        /\ pointer' = IF pointer = NoPointer THEN pointer ELSE [pointer EXCEPT !.age = pointer.age + 1]
        /\ SendsNothing /\ UNCHANGED <<traySheetVars, field>>
    BY <1>14 DEF TrayTick
  <2>2. /\ release \in [on : BOOLEAN, of : 0..MaxOrders, age : 0..TrayOath]
        /\ pointer = [of |-> release.of, age |-> release.age] /\ release.of # 0
        /\ release.of \in 0..MaxOrders /\ release.age \in 0..TrayOath
    BY <1>t, <2>1 DEF HoldTypeOK, TimerWithPointer
  <2>3. pointer.of = release.of /\ pointer.age = release.age
    BY <2>2
  <2>4. pointer # NoPointer
    BY <2>2, <2>3, TrayFacts
  <2>5. pointer' = [of |-> release.of, age |-> release.age + 1]
    BY <2>1, <2>2, <2>3, <2>4
  <2>6. /\ release' \in [on : BOOLEAN, of : 0..MaxOrders, age : 0..TrayOath]
        /\ release'.of = release.of /\ release'.age = release.age + 1
        /\ release.age + 1 \in 0..TrayOath
    BY <2>1, <2>2, TrayFacts
  <2>7. HoldTypeOK' /\ TimerWithPointer'
    BY <2>2, <2>5, <2>6 DEF HoldTypeOK, TimerWithPointer
  <2> QED BY <1>n, <1>u, <2>1, <2>7
<1>15. CASE ReleaseFires
  <2>1. /\ release.on /\ release.age = TrayOath /\ release' = NoTimer
        /\ posted' = Request("release", release.of) /\ UNCHANGED <<traySheetVars, field, pointer>>
    BY <1>15 DEF ReleaseFires, SwornOrder
  <2>2. posted'.id = release.of
    BY <2>1 DEF Request
  <2>3. SwornRelease
    BY <1>t, <2>1, <2>2 DEF SwornRelease, TimerWithPointer
  <2>4. HoldTypeOK' /\ TimerWithPointer'
    BY <1>t, <2>1, TrayFacts DEF HoldTypeOK, TimerWithPointer
  <2> QED BY <1>u, <2>1, <2>3, <2>4
<1>16. CASE StopRelease
  <2>1. HoldTypeOK' /\ TimerWithPointer'
    BY <1>t, <1>16, TrayFacts DEF StopRelease, HoldTypeOK, TimerWithPointer
  <2> QED BY <1>n, <1>u, <1>16, <2>1 DEF StopRelease
<1> QED BY <1>1, <1>2, <1>3, <1>4, <1>5, <1>7, <1>8, <1>9, <1>10, <1>11, <1>12, <1>13, <1>14,
           <1>15, <1>16
        DEF TrayNext

LEMMA TrayStutter == TrayInv /\ UNCHANGED trayVars => TrayInv' /\ SwornRelease
BY DEF TrayInv, trayVars, traySheetVars, trayHold, TrayTypeOK, PicksHandled, WordsForThePick,
       PromptShows, TimerWithPointer, SwornRelease

-----------------------------------------------------------------------------
(* The bridge to the loupe                                                 *)

\* What is on, or will be once the messages in q have arrived, is lifted by a later one.
LetGo(on, q, Raising, Lifting) ==
  /\ \A i \in DOMAIN q : q[i] \in Raising => \E j \in DOMAIN q : i < j /\ q[j] \in Lifting
  /\ on => \E j \in DOMAIN q : q[j] \in Lifting

LEMMA LetGoEmpty ==
  ASSUME NEW Raising, NEW Lifting
  PROVE  LetGo(FALSE, <<>>, Raising, Lifting)
BY NoMembers DEF LetGo

LEMMA LetGoMore ==
  ASSUME NEW S, NEW q \in Seq(S), NEW m \in S, NEW on, NEW Raising, NEW Lifting,
         LetGo(on, q, Raising, Lifting), m \notin Raising
  PROVE  LetGo(on, Append(q, m), Raising, Lifting)
<1> DEFINE p == Append(q, m)
<1>1. /\ \A i \in DOMAIN q : p[i] = q[i] /\ i \in DOMAIN p
      /\ \A i \in DOMAIN p : i \in DOMAIN q \/ i = Len(q) + 1
      /\ p[Len(q) + 1] = m
  BY AppendIs
<1> HIDE DEF p
<1>2. \A i \in DOMAIN p : p[i] \in Raising => \E j \in DOMAIN p : i < j /\ p[j] \in Lifting
  BY <1>1 DEF LetGo
<1>3. on => \E j \in DOMAIN p : p[j] \in Lifting
  BY <1>1 DEF LetGo
<1>4. LetGo(on, p, Raising, Lifting)
  BY <1>2, <1>3 DEF LetGo
<1> QED BY <1>4 DEF p

LEMMA LetGoLast ==
  ASSUME NEW S, NEW q \in Seq(S), NEW m \in S, NEW on, NEW Raising, NEW Lifting,
         m \in Lifting, m \notin Raising
  PROVE  LetGo(on, Append(q, m), Raising, Lifting)
<1> DEFINE p == Append(q, m)
<1>1. /\ \A i \in DOMAIN q : i <= Len(q) /\ i \in Nat
      /\ \A i \in DOMAIN p : i \in DOMAIN q \/ i = Len(q) + 1
      /\ p[Len(q) + 1] = m /\ Len(q) \in Nat /\ Len(q) + 1 \in DOMAIN p
  BY AppendIs
<1> HIDE DEF p
<1>2. \A i \in DOMAIN p : p[i] \in Raising => \E j \in DOMAIN p : i < j /\ p[j] \in Lifting
  <2> SUFFICES ASSUME NEW i \in DOMAIN p, p[i] \in Raising
               PROVE  i < Len(q) + 1
    BY <1>1
  <2>1. i # Len(q) + 1
    BY <1>1
  <2> QED BY <1>1, <2>1
<1>3. LetGo(on, p, Raising, Lifting)
  BY <1>1, <1>2 DEF LetGo
<1> QED BY <1>3 DEF p

LEMMA LetGoTail ==
  ASSUME NEW S, NEW q \in Seq(S), q # <<>>, NEW on, NEW now, NEW Raising, NEW Lifting,
         LetGo(on, q, Raising, Lifting),
         now => Head(q) \in Raising \/ (on /\ Head(q) \notin Lifting)
  PROVE  LetGo(now, Tail(q), Raising, Lifting)
<1> DEFINE p == Tail(q)
<1>1. /\ Head(q) = q[1] /\ 1 \in DOMAIN q /\ DOMAIN q \subseteq Nat
      /\ \A i \in DOMAIN q : i > 1 => i - 1 \in DOMAIN p /\ p[i - 1] = q[i]
      /\ \A i \in DOMAIN p : i + 1 \in DOMAIN q /\ p[i] = q[i + 1] /\ i \in Nat
      /\ \A i \in DOMAIN q : i >= 1
  OBVIOUS
<1> HIDE DEF p
<1>2. \A i \in DOMAIN p : p[i] \in Raising => \E j \in DOMAIN p : i < j /\ p[j] \in Lifting
  <2> SUFFICES ASSUME NEW i \in DOMAIN p, p[i] \in Raising
               PROVE  \E j \in DOMAIN p : i < j /\ p[j] \in Lifting
    OBVIOUS
  <2>1. i + 1 \in DOMAIN q /\ q[i + 1] \in Raising /\ i \in Nat
    BY <1>1
  <2>2. PICK j \in DOMAIN q : i + 1 < j /\ q[j] \in Lifting
    BY <2>1 DEF LetGo
  <2>3. j - 1 \in DOMAIN p /\ p[j - 1] = q[j] /\ i < j - 1
    BY <1>1, <2>1, <2>2
  <2> QED BY <2>2, <2>3
<1>3. now => \E j \in DOMAIN p : p[j] \in Lifting
  <2> SUFFICES ASSUME now PROVE \E j \in DOMAIN p : p[j] \in Lifting
    OBVIOUS
  <2>1. PICK j \in DOMAIN q : q[j] \in Lifting /\ j # 1
    <3>1. CASE Head(q) \in Raising
      BY <1>1, <3>1 DEF LetGo
    <3>2. CASE on /\ Head(q) \notin Lifting
      BY <1>1, <3>2 DEF LetGo
    <3> QED BY <3>1, <3>2
  <2>2. j \in Nat /\ j > 1
    BY <1>1, <2>1
  <2> QED BY <1>1, <2>1, <2>2
<1>4. LetGo(now, p, Raising, Lifting)
  BY <1>2, <1>3 DEF LetGo
<1> QED BY <1>4 DEF p

LoupeModes == {m \in Asks : m.type = "mode" /\ m.mode = "loupe"}
HandModes == {m \in Asks : m.type = "mode" /\ m.mode = "hand"}
Highlights == {m \in Asks : m.type = "highlight"}
Clears == {m \in Asks : m.type = "clear"}
LoupeSet == [mode : Modes, survey : 0 .. MaxSurvey, outline : BOOLEAN, boxes : BOOLEAN]
BenchSet == [mode : Modes, survey : 0 .. MaxSurvey, pick : 0 .. MaxSurvey \cup {NoPick}]

\* A document is there only while the plate is up; before it has booted it knows nothing and
\* is sent nothing; the bench in hand mode has let go of the loupe, and unless it has
\* highlighted something since, of every box, in what the loupe is or is about to be told.
FrameIsUp == lbPage # "absent" => lbStatus = "up"
BootsFresh == ~Alive => lbDown = <<>> /\ lbLoupe = BootedLoupe
NoOutlineInHand == lbLoupe.mode = "hand" => ~lbLoupe.outline
ModeLetGo == lbBench.mode = "hand" => LetGo(lbLoupe.mode = "loupe", lbDown, LoupeModes, HandModes)
BoxesLetGo == ~lbMarked => LetGo(lbLoupe.boxes, lbDown, Highlights, Clears)

BridgeInv ==
  /\ BridgeTypeOK /\ FrameIsUp /\ BootsFresh /\ NoOutlineInHand /\ ModeLetGo /\ BoxesLetGo

LEMMA BootedFields ==
  /\ BootedLoupe \in LoupeSet /\ BootedLoupe.mode = "hand" /\ BootedLoupe.outline = FALSE
  /\ BootedLoupe.boxes = FALSE /\ BootedLoupe.survey = 0
BY BridgeAssumption DEF BootedLoupe, LoupeSet, Modes

LEMMA BridgeShows == BridgeInv => HandLetsGo
<1> SUFFICES ASSUME BridgeInv, lbDown = <<>>, lbBench.mode = "hand", ~lbMarked
             PROVE  lbLoupe.mode = "hand" /\ ~lbLoupe.outline /\ ~lbLoupe.boxes
  BY DEF HandLetsGo, BridgeQuiet
<1>1. DOMAIN lbDown = {}
  BY NoMembers
<1>2. lbLoupe.mode # "loupe" /\ ~lbLoupe.boxes
  BY <1>1 DEF BridgeInv, ModeLetGo, BoxesLetGo, LetGo
<1>3. lbLoupe.mode \in Modes
  BY DEF BridgeInv, BridgeTypeOK
<1> QED BY <1>2, <1>3 DEF BridgeInv, NoOutlineInHand, Modes

\* A document that is gone or new: all of it as at boot.
LEMMA FreshOK ==
  ASSUME lbDown' = <<>>, lbLoupe' = BootedLoupe
  PROVE  /\ lbDown' \in Seq(Asks) /\ lbLoupe' \in LoupeSet
         /\ BootsFresh' /\ NoOutlineInHand' /\ ModeLetGo' /\ BoxesLetGo'
<1>1. lbDown' \in Seq(Asks)
  BY NoMembers
<1>2. (lbLoupe'.mode = "loupe") = FALSE /\ lbLoupe'.boxes = FALSE
  BY BootedFields
<1>3. /\ LetGo(lbLoupe'.mode = "loupe", lbDown', LoupeModes, HandModes)
      /\ LetGo(lbLoupe'.boxes, lbDown', Highlights, Clears)
  BY <1>2, LetGoEmpty
<1> QED BY <1>1, <1>3, BootedFields DEF BootsFresh, NoOutlineInHand, ModeLetGo, BoxesLetGo

LEMMA BridgeStart == BridgeInit => BridgeInv
<1> SUFFICES ASSUME BridgeInit PROVE BridgeInv
  OBVIOUS
<1>1. lbDown = <<>> /\ lbLoupe = BootedLoupe /\ lbBack = <<>>
  BY DEF BridgeInit
<1>2. lbDown \in Seq(Asks) /\ lbBack \in Seq(Replies)
  BY <1>1, NoMembers
<1>3. (lbLoupe.mode = "loupe") = FALSE /\ lbLoupe.boxes = FALSE
  BY <1>1, BootedFields
<1>4. /\ LetGo(lbLoupe.mode = "loupe", lbDown, LoupeModes, HandModes)
      /\ LetGo(lbLoupe.boxes, lbDown, Highlights, Clears)
  BY <1>1, <1>3, LetGoEmpty
<1>5. lbBench \in BenchSet
  BY BridgeAssumption DEF BridgeInit, BenchSet, Modes
<1>6. BridgeTypeOK
  <2>1. lbLoupe \in LoupeSet /\ 0 \in 0 .. MaxTurns
    BY <1>1, BootedFields, BridgeAssumption
  <2>2. lbStatus = "none" /\ lbPage = "absent" /\ lbMarked = FALSE /\ lbTurns = 0
    BY DEF BridgeInit
  <2> QED BY <1>2, <1>5, <2>1, <2>2 DEF BridgeTypeOK, LoupeSet, BenchSet
<1>7. FrameIsUp
  BY DEF BridgeInit, FrameIsUp
<1> QED BY <1>1, <1>4, <1>6, <1>7, BootedFields
        DEF BridgeInv, BootsFresh, NoOutlineInHand, ModeLetGo, BoxesLetGo

\* What is posted reaches the queue of a document that is there, and no other.
LEMMA OneMore ==
  ASSUME NEW S, NEW q \in Seq(S), NEW a \in S, NEW b \in S
  PROVE  /\ q \o <<>> = q
         /\ q \o <<a>> = Append(q, a)
         /\ q \o (<<a>> \o <<>>) = Append(q, a)
         /\ q \o (<<a>> \o <<b>>) = Append(Append(q, a), b)
         /\ q \o <<a, b>> = Append(Append(q, a), b)
OBVIOUS

\* A message that neither raises nor lifts anything, and no message, leave the queue let go.
LEMMA PostedOther ==
  ASSUME BridgeInv, NEW m \in Asks, m \notin LoupeModes, m \notin Highlights
  PROVE  /\ Posted(<<m>>) \in Seq(Asks)
         /\ lbBench.mode = "hand" => LetGo(lbLoupe.mode = "loupe", Posted(<<m>>), LoupeModes, HandModes)
         /\ ~lbMarked => LetGo(lbLoupe.boxes, Posted(<<m>>), Highlights, Clears)
         /\ ~Alive => Posted(<<m>>) = lbDown
<1>1. lbDown \in Seq(Asks)
  BY DEF BridgeInv, BridgeTypeOK
<1>2. Posted(<<m>>) \in {lbDown, Append(lbDown, m)} /\ (~Alive => Posted(<<m>>) = lbDown)
  BY <1>1, OneMore DEF Posted
<1>3. Append(lbDown, m) \in Seq(Asks)
  BY <1>1
<1>4. lbBench.mode = "hand" => LetGo(lbLoupe.mode = "loupe", Append(lbDown, m), LoupeModes, HandModes)
  BY <1>1, LetGoMore DEF BridgeInv, ModeLetGo
<1>5. ~lbMarked => LetGo(lbLoupe.boxes, Append(lbDown, m), Highlights, Clears)
  BY <1>1, LetGoMore DEF BridgeInv, BoxesLetGo
<1> QED BY <1>1, <1>2, <1>3, <1>4, <1>5 DEF BridgeInv, ModeLetGo, BoxesLetGo

LEMMA PostedSurvey ==
  ASSUME BridgeInv, NEW v \in 0 .. MaxSurvey
  PROVE  /\ Posted(postSurvey(v)) \in Seq(Asks)
         /\ lbBench.mode = "hand" => LetGo(lbLoupe.mode = "loupe", Posted(postSurvey(v)), LoupeModes, HandModes)
         /\ ~lbMarked => LetGo(lbLoupe.boxes, Posted(postSurvey(v)), Highlights, Clears)
         /\ ~Alive => Posted(postSurvey(v)) = lbDown
<1>1. CASE v = 0
  <2>1. lbDown \in Seq(Asks)
    BY DEF BridgeInv, BridgeTypeOK
  <2>2. lbDown \o <<>> = lbDown
    BY <2>1
  <2>3. Posted(postSurvey(v)) = lbDown
    BY <1>1, <2>2 DEF Posted, postSurvey
  <2> QED BY <2>1, <2>3 DEF BridgeInv, ModeLetGo, BoxesLetGo
<1>2. CASE v # 0
  <2> DEFINE m == [type |-> "survey", survey |-> v]
  <2>1. v \in 1 .. MaxSurvey
    BY <1>2, BridgeAssumption
  <2>2. m \in Asks /\ m.type = "survey"
    BY <2>1 DEF Asks
  <2>3. m \notin LoupeModes /\ m \notin Highlights
    BY <2>2 DEF LoupeModes, Highlights
  <2>4. postSurvey(v) = <<m>>
    BY <1>2 DEF postSurvey
  <2> HIDE DEF m
  <2> QED BY <2>2, <2>3, <2>4, PostedOther
<1> QED BY <1>1, <1>2

\* What the loupe makes of a message.
LEMMA PaintedOK ==
  ASSUME BridgeInv, NEW m \in Asks
  PROVE  LET p == Painted(m) IN
         /\ p \in LoupeSet
         /\ p.mode = "hand" => ~p.outline
         /\ p.mode = "loupe" => m \in LoupeModes \/ (lbLoupe.mode = "loupe" /\ m \notin HandModes)
         /\ p.boxes => m \in Highlights \/ (lbLoupe.boxes /\ m \notin Clears)
<1>t. lbLoupe \in LoupeSet /\ (lbLoupe.mode = "hand" => ~lbLoupe.outline)
  BY DEF BridgeInv, BridgeTypeOK, NoOutlineInHand, LoupeSet
<1>f. /\ lbLoupe.mode \in Modes /\ lbLoupe.survey \in 0 .. MaxSurvey
      /\ lbLoupe.outline \in BOOLEAN /\ lbLoupe.boxes \in BOOLEAN
      /\ lbLoupe = [mode |-> lbLoupe.mode, survey |-> lbLoupe.survey,
                    outline |-> lbLoupe.outline, boxes |-> lbLoupe.boxes]
  BY <1>t DEF LoupeSet
<1>1. CASE m.type = "mode"
  <2>1. m.mode \in Modes
    BY <1>1 DEF Asks
  <2>2. Painted(m) = [lbLoupe EXCEPT !.mode = m.mode, !.outline = @ /\ m.mode = "loupe"]
    BY <1>1 DEF Painted
  <2>3. Painted(m) = [mode |-> m.mode, survey |-> lbLoupe.survey,
                      outline |-> (lbLoupe.outline /\ m.mode = "loupe"), boxes |-> lbLoupe.boxes]
    BY <1>f, <2>2
  <2>4. (lbLoupe.outline /\ m.mode = "loupe") \in BOOLEAN
    OBVIOUS
  <2>5. Painted(m) \in LoupeSet
    BY <1>f, <2>1, <2>3, <2>4 DEF LoupeSet
  <2>6. /\ Painted(m).mode = m.mode /\ Painted(m).boxes = lbLoupe.boxes
        /\ Painted(m).outline = (lbLoupe.outline /\ m.mode = "loupe")
    BY <2>3
  <2>7. m.type # "clear" /\ m \notin Clears /\ (m.mode = "loupe" => m \in LoupeModes)
    BY <1>1 DEF Clears, LoupeModes
  <2> QED BY <2>5, <2>6, <2>7
<1>2. CASE m.type = "survey"
  <2>1. m.survey \in 0 .. MaxSurvey
    BY <1>2, BridgeAssumption DEF Asks
  <2>2. Painted(m) = [lbLoupe EXCEPT !.survey = m.survey]
    BY <1>2 DEF Painted
  <2>3. /\ Painted(m) \in LoupeSet /\ Painted(m).mode = lbLoupe.mode
        /\ Painted(m).boxes = lbLoupe.boxes /\ Painted(m).outline = lbLoupe.outline
    BY <1>t, <2>1, <2>2 DEF LoupeSet
  <2> QED BY <1>2, <1>t, <2>3 DEF HandModes, Clears
<1>3. CASE m.type = "highlight"
  <2>1. Painted(m) = [lbLoupe EXCEPT !.boxes = TRUE]
    BY <1>3 DEF Painted
  <2>2. /\ Painted(m) \in LoupeSet /\ Painted(m).mode = lbLoupe.mode
        /\ Painted(m).outline = lbLoupe.outline
    BY <1>t, <2>1 DEF LoupeSet
  <2> QED BY <1>3, <1>t, <2>2 DEF HandModes, Highlights
<1>4. CASE m.type = "clear"
  <2>1. Painted(m) = [lbLoupe EXCEPT !.boxes = FALSE, !.outline = FALSE]
    BY <1>4 DEF Painted
  <2>2. Painted(m) = [mode |-> lbLoupe.mode, survey |-> lbLoupe.survey, outline |-> FALSE, boxes |-> FALSE]
    BY <1>f, <2>1
  <2>3. /\ Painted(m) \in LoupeSet /\ Painted(m).mode = lbLoupe.mode
        /\ Painted(m).outline = FALSE /\ Painted(m).boxes = FALSE
    BY <1>f, <2>2 DEF LoupeSet
  <2> QED BY <1>4, <2>3 DEF HandModes
<1>5. CASE m.type \notin {"mode", "survey", "highlight", "clear"}
  <2>1. Painted(m) = lbLoupe
    BY <1>5 DEF Painted
  <2> QED BY <1>5, <1>t, <2>1 DEF HandModes, Clears
<1> QED BY <1>1, <1>2, <1>3, <1>4, <1>5

LEMMA AnswerOK ==
  ASSUME BridgeInv, NEW m
  PROVE  Answer(m) \in Seq(Replies)
<1>1. /\ [type |-> "reply"] \in Replies /\ [type |-> "event"] \in Replies /\ Clicked \in Replies
  <2>1. lbLoupe.survey \in 0 .. MaxSurvey
    BY DEF BridgeInv, BridgeTypeOK
  <2>2. postPick \in Replies
    BY <2>1 DEF postPick, Replies
  <2>3. [type |-> "reply"] \in Replies /\ [type |-> "event"] \in Replies
    BY DEF Replies
  <2> QED BY <2>2, <2>3 DEF Clicked
<1> HIDE DEF Clicked
<1>2. /\ <<Clicked, [type |-> "reply"]>> \in Seq(Replies) /\ <<[type |-> "reply"]>> \in Seq(Replies)
      /\ <<[type |-> "event"], [type |-> "reply"]>> \in Seq(Replies)
      /\ <<>> \in Seq(Replies)
  BY <1>1
<1> QED BY <1>2 DEF Answer

LEMMA SetModeOK ==
  ASSUME BridgeInv, NEW mode \in Modes, SetMode(mode)
  PROVE  /\ lbDown' \in Seq(Asks) /\ lbBench' \in BenchSet
         /\ BootsFresh' /\ ModeLetGo' /\ BoxesLetGo'
<1> DEFINE m == [type |-> "mode", mode |-> mode]
           c == [type |-> "clear"]
<1>0. /\ lbBench' = [lbBench EXCEPT !.mode = mode, !.pick = IF mode = "hand" THEN NoPick ELSE @]
      /\ lbDown' = Posted(<<m>> \o (IF mode = "hand" THEN <<c>> ELSE <<>>))
      /\ lbMarked' = (mode = "loupe" /\ lbMarked)
      /\ UNCHANGED <<lbStatus, lbPage, lbLoupe, lbBack, lbTurns>>
  BY DEF SetMode
<1>t. /\ lbBench \in BenchSet /\ lbDown \in Seq(Asks) /\ lbMarked \in BOOLEAN /\ mode \in {"hand", "loupe"}
      /\ lbLoupe.mode \in Modes
  BY DEF BridgeInv, BridgeTypeOK, BenchSet, Modes
<1>1. lbBench' \in BenchSet /\ lbBench'.mode = mode
  <2> DEFINE pick == IF mode = "hand" THEN NoPick ELSE lbBench.pick
  <2>1. /\ lbBench = [mode |-> lbBench.mode, survey |-> lbBench.survey, pick |-> lbBench.pick]
        /\ lbBench.survey \in 0 .. MaxSurvey /\ pick \in 0 .. MaxSurvey \cup {NoPick}
    BY <1>t DEF BenchSet
  <2>2. lbBench' = [mode |-> mode, survey |-> lbBench.survey, pick |-> pick]
    BY <1>0, <2>1
  <2> HIDE DEF pick
  <2> QED BY <2>1, <2>2 DEF BenchSet
<1>2. /\ m \in Asks /\ m.type = "mode" /\ m.mode = mode /\ c \in Asks /\ c.type = "clear"
  BY DEF Asks
<1>3. /\ m \notin Highlights /\ c \notin LoupeModes /\ c \notin Highlights /\ c \in Clears
      /\ mode = "hand" => m \in HandModes /\ m \notin LoupeModes
  BY <1>2 DEF Highlights, LoupeModes, HandModes, Clears
<1> HIDE DEF m, c
<1>4. CASE ~(lbStatus = "up" /\ Alive)
  <2>1. lbDown' = lbDown
    BY <1>0, <1>4 DEF Posted
  <2>2. ~Alive /\ lbDown = <<>> /\ lbLoupe = BootedLoupe
    BY <1>4 DEF BridgeInv, FrameIsUp, BootsFresh, Alive
  <2>3. lbLoupe' = BootedLoupe /\ lbDown' = <<>>
    BY <1>0, <2>1, <2>2
  <2> QED BY <1>1, <2>3, FreshOK
<1>5. CASE lbStatus = "up" /\ Alive /\ mode = "hand"
  <2> DEFINE p == Append(lbDown, m)
  <2>1. lbDown' = lbDown \o (<<m>> \o <<c>>)
    BY <1>0, <1>5 DEF Posted
  <2>2. lbDown' = Append(p, c) /\ p \in Seq(Asks)
    BY <1>2, <1>t, <2>1, OneMore
  <2>3. LetGo(lbLoupe.mode = "loupe", p, LoupeModes, HandModes)
    BY <1>t, <1>2, <1>3, <1>5, LetGoLast
  <2> HIDE DEF p
  <2>4. lbDown' \in Seq(Asks)
    BY <1>2, <2>2
  <2>5. LetGo(lbLoupe.mode = "loupe", lbDown', LoupeModes, HandModes)
    BY <1>2, <1>3, <2>2, <2>3, LetGoMore
  <2>6. LetGo(lbLoupe.boxes, lbDown', Highlights, Clears)
    BY <1>2, <1>3, <2>2, LetGoLast
  <2>7. ModeLetGo' /\ BoxesLetGo'
    BY <1>0, <2>5, <2>6 DEF ModeLetGo, BoxesLetGo
  <2> QED BY <1>0, <1>1, <1>5, <2>4, <2>7 DEF BootsFresh, Alive
<1>6. CASE lbStatus = "up" /\ Alive /\ mode # "hand"
  <2>1. lbDown' = lbDown \o (<<m>> \o <<>>)
    BY <1>0, <1>6 DEF Posted
  <2>2. lbDown' = Append(lbDown, m)
    BY <1>2, <1>t, <2>1, OneMore
  <2>3. lbDown' \in Seq(Asks)
    BY <1>2, <1>t, <2>2
  <2>4. ~lbMarked => LetGo(lbLoupe.boxes, lbDown', Highlights, Clears)
    BY <1>t, <1>2, <1>3, <2>2, LetGoMore DEF BridgeInv, BoxesLetGo
  <2>5. ModeLetGo' /\ BoxesLetGo'
    BY <1>0, <1>1, <1>t, <1>6, <2>4 DEF ModeLetGo, BoxesLetGo
  <2> QED BY <1>0, <1>1, <1>6, <2>3, <2>5 DEF BootsFresh, Alive
<1> QED BY <1>4, <1>5, <1>6

LEMMA BridgeStep == BridgeInv /\ BridgeNext => BridgeInv'
<1> SUFFICES ASSUME BridgeInv, BridgeNext PROVE BridgeInv'
  OBVIOUS
<1>t. /\ lbStatus \in {"none", "down", "up"} /\ lbPage \in {"absent", "loading", "booted", "loaded"}
      /\ lbBench \in BenchSet /\ lbLoupe \in LoupeSet
      /\ lbDown \in Seq(Asks) /\ lbBack \in Seq(Replies)
      /\ lbMarked \in BOOLEAN /\ lbTurns \in 0 .. MaxTurns
      /\ FrameIsUp /\ BootsFresh /\ NoOutlineInHand /\ ModeLetGo /\ BoxesLetGo
      /\ MaxTurns \in Nat /\ MaxSurvey \in Nat
  BY BridgeAssumption DEF BridgeInv, BridgeTypeOK, BenchSet, LoupeSet
<1>q. ASSUME /\ lbStatus' \in {"none", "down", "up"} /\ lbPage' \in {"absent", "loading", "booted", "loaded"}
             /\ lbBench' \in BenchSet /\ lbLoupe' \in LoupeSet
             /\ lbDown' \in Seq(Asks) /\ lbBack' \in Seq(Replies)
             /\ lbMarked' \in BOOLEAN /\ lbTurns' \in 0 .. MaxTurns
             /\ FrameIsUp' /\ BootsFresh' /\ NoOutlineInHand' /\ ModeLetGo' /\ BoxesLetGo'
      PROVE  BridgeInv'
  BY <1>q DEF BridgeInv, BridgeTypeOK, BenchSet, LoupeSet
<1>e. <<>> \in Seq(Replies)
  BY NoMembers
<1>1. ASSUME NEW plate \in {"none", "down", "up"}, PollAnswers(plate) PROVE BridgeInv'
  <2>1. /\ lbTurns < MaxTurns /\ lbTurns' = lbTurns + 1 /\ lbStatus' = plate
        /\ lbPage' = (IF plate = "up" THEN "loading" ELSE "absent")
        /\ lbDown' = <<>> /\ lbBack' = <<>> /\ lbLoupe' = BootedLoupe
        /\ UNCHANGED <<lbBench, lbMarked>>
    BY <1>1 DEF PollAnswers
  <2>2. FrameIsUp' /\ lbTurns' \in 0 .. MaxTurns
    BY <1>t, <2>1 DEF FrameIsUp
  <2> QED BY <1>t, <1>q, <1>e, <2>1, <2>2, FreshOK
<1>2. CASE PollFails
  BY <1>1, <1>2 DEF PollFails
<1>3. CASE SurveyChanges
  <2> DEFINE v == lbBench.survey + 1
  <2>1. /\ lbTurns < MaxTurns /\ lbTurns' = lbTurns + 1 /\ lbBench.survey < MaxSurvey
        /\ lbBench' = [lbBench EXCEPT !.survey = v] /\ lbDown' = Posted(postSurvey(v))
        /\ UNCHANGED <<lbStatus, lbPage, lbLoupe, lbBack, lbMarked>>
    BY <1>3 DEF SurveyChanges
  <2>2. v \in 0 .. MaxSurvey /\ lbTurns' \in 0 .. MaxTurns
    BY <1>t, <2>1 DEF BenchSet
  <2>3. lbBench' \in BenchSet /\ lbBench'.mode = lbBench.mode
    BY <1>t, <2>1, <2>2 DEF BenchSet
  <2> HIDE DEF v
  <2>4. /\ lbDown' \in Seq(Asks)
        /\ lbBench.mode = "hand" => LetGo(lbLoupe.mode = "loupe", lbDown', LoupeModes, HandModes)
        /\ ~lbMarked => LetGo(lbLoupe.boxes, lbDown', Highlights, Clears)
        /\ ~Alive => lbDown' = lbDown
    BY <2>1, <2>2, PostedSurvey
  <2>5. FrameIsUp' /\ BootsFresh' /\ NoOutlineInHand' /\ ModeLetGo' /\ BoxesLetGo'
    BY <1>t, <2>1, <2>3, <2>4 DEF FrameIsUp, BootsFresh, NoOutlineInHand, ModeLetGo, BoxesLetGo, Alive
  <2> QED BY <1>t, <1>q, <2>1, <2>2, <2>3, <2>4, <2>5
<1>4. ASSUME NEW mode \in Modes, SetMode(mode) PROVE BridgeInv'
  <2>1. UNCHANGED <<lbStatus, lbPage, lbLoupe, lbBack, lbTurns>> /\ lbMarked' = (mode = "loupe" /\ lbMarked)
    BY <1>4 DEF SetMode
  <2>2. lbMarked' \in BOOLEAN /\ FrameIsUp' /\ NoOutlineInHand'
    BY <1>t, <2>1 DEF FrameIsUp, NoOutlineInHand
  <2> QED BY <1>t, <1>q, <1>4, <2>1, <2>2, SetModeOK
<1>5. ASSUME NEW type \in {"highlight", "clear", "navigate", "click", "fill", "query"}, Ask(type)
      PROVE  BridgeInv'
  <2> DEFINE m == [type |-> type]
  <2>0. /\ lbDown' = Posted(<<m>>) /\ lbMarked' = (lbMarked \/ type = "highlight")
        /\ UNCHANGED <<lbStatus, lbPage, lbBench, lbLoupe, lbBack, lbTurns>>
    BY <1>5 DEF Ask
  <2>1. m \in Asks /\ m.type = type
    BY DEF Asks
  <2>2. m \notin LoupeModes /\ (type # "highlight" => m \notin Highlights)
    BY <2>1 DEF LoupeModes, Highlights
  <2> HIDE DEF m
  <2>3. lbMarked' \in BOOLEAN /\ FrameIsUp' /\ NoOutlineInHand'
    BY <1>t, <2>0 DEF FrameIsUp, NoOutlineInHand
  <2>4. /\ lbDown' \in Seq(Asks) /\ (~Alive => lbDown' = lbDown)
        /\ lbBench.mode = "hand" => LetGo(lbLoupe.mode = "loupe", lbDown', LoupeModes, HandModes)
        /\ type # "highlight" /\ ~lbMarked => LetGo(lbLoupe.boxes, lbDown', Highlights, Clears)
    <3>1. Posted(<<m>>) \in {lbDown, Append(lbDown, m)} /\ (~Alive => Posted(<<m>>) = lbDown)
      BY <1>t, <2>1, OneMore DEF Posted
    <3>2. Append(lbDown, m) \in Seq(Asks)
      BY <1>t, <2>1
    <3>3. lbBench.mode = "hand" => LetGo(lbLoupe.mode = "loupe", Append(lbDown, m), LoupeModes, HandModes)
      BY <1>t, <2>1, <2>2, LetGoMore DEF ModeLetGo
    <3>4. type # "highlight" /\ ~lbMarked => LetGo(lbLoupe.boxes, Append(lbDown, m), Highlights, Clears)
      BY <1>t, <2>1, <2>2, LetGoMore DEF BoxesLetGo
    <3> QED BY <1>t, <2>0, <3>1, <3>2, <3>3, <3>4 DEF ModeLetGo, BoxesLetGo
  <2>5. BootsFresh' /\ ModeLetGo' /\ BoxesLetGo'
    BY <1>t, <2>0, <2>4 DEF BootsFresh, ModeLetGo, BoxesLetGo, Alive
  <2> QED BY <1>t, <1>q, <2>0, <2>3, <2>4, <2>5
<1>6. CASE BenchReceives
  <2> DEFINE m == Head(lbBack)
  <2>1. /\ lbBack # <<>> /\ lbBack' = Tail(lbBack)
        /\ lbBench' = (IF m.type = "pick" THEN [lbBench EXCEPT !.pick = m.survey] ELSE lbBench)
        /\ lbDown' \in {lbDown, Posted(postSurvey(lbBench.survey))}
        /\ UNCHANGED <<lbStatus, lbPage, lbLoupe, lbMarked, lbTurns>>
    BY <1>6 DEF BenchReceives
  <2>2. m \in Replies /\ lbBack' \in Seq(Replies)
    BY <1>t, <2>1
  <2>3. m.type = "pick" => m.survey \in 0 .. MaxSurvey
    BY <2>2 DEF Replies
  <2>4. lbBench' \in BenchSet /\ lbBench'.mode = lbBench.mode /\ lbBench.survey \in 0 .. MaxSurvey
    BY <1>t, <2>1, <2>3 DEF BenchSet
  <2>5. /\ lbDown' \in Seq(Asks) /\ (~Alive => lbDown' = lbDown)
        /\ lbBench.mode = "hand" => LetGo(lbLoupe.mode = "loupe", lbDown', LoupeModes, HandModes)
        /\ ~lbMarked => LetGo(lbLoupe.boxes, lbDown', Highlights, Clears)
    BY <1>t, <2>1, <2>4, PostedSurvey DEF ModeLetGo, BoxesLetGo
  <2>6. FrameIsUp' /\ BootsFresh' /\ NoOutlineInHand' /\ ModeLetGo' /\ BoxesLetGo'
    BY <1>t, <2>1, <2>4, <2>5 DEF FrameIsUp, BootsFresh, NoOutlineInHand, ModeLetGo, BoxesLetGo, Alive
  <2> QED BY <1>t, <1>q, <2>1, <2>2, <2>4, <2>5, <2>6
<1>7. CASE FrameLoads
  <2>1. /\ lbPage = "booted" /\ lbPage' = "loaded" /\ lbDown' = Posted(postSurvey(lbBench.survey))
        /\ UNCHANGED <<lbStatus, lbBench, lbLoupe, lbBack, lbMarked, lbTurns>>
    BY <1>7 DEF FrameLoads
  <2>2. lbBench.survey \in 0 .. MaxSurvey
    BY <1>t DEF BenchSet
  <2>3. /\ lbDown' \in Seq(Asks)
        /\ lbBench.mode = "hand" => LetGo(lbLoupe.mode = "loupe", lbDown', LoupeModes, HandModes)
        /\ ~lbMarked => LetGo(lbLoupe.boxes, lbDown', Highlights, Clears)
    BY <2>1, <2>2, PostedSurvey
  <2>4. FrameIsUp' /\ BootsFresh' /\ NoOutlineInHand' /\ ModeLetGo' /\ BoxesLetGo'
    BY <1>t, <2>1, <2>3 DEF FrameIsUp, BootsFresh, NoOutlineInHand, ModeLetGo, BoxesLetGo, Alive
  <2> QED BY <1>t, <1>q, <2>1, <2>3, <2>4
<1>8. CASE LoupeBoots
  <2>1. /\ lbPage = "loading" /\ lbPage' = "booted" /\ lbLoupe' = BootedLoupe
        /\ lbBack' = <<[type |-> "ready"]>> /\ lbDown' = <<>>
        /\ UNCHANGED <<lbStatus, lbBench, lbMarked, lbTurns>>
    BY <1>8 DEF LoupeBoots
  <2>2. [type |-> "ready"] \in Replies
    BY DEF Replies
  <2>3. lbBack' \in Seq(Replies) /\ FrameIsUp'
    BY <1>t, <2>1, <2>2 DEF FrameIsUp
  <2> QED BY <1>t, <1>q, <2>1, <2>3, FreshOK
<1>9. ASSUME Alive, Reloaded, UNCHANGED <<lbStatus, lbBench, lbMarked>>, lbTurns < MaxTurns, lbTurns' = lbTurns + 1
      PROVE  BridgeInv'
  <2>1. lbPage' = "loading" /\ lbDown' = <<>> /\ lbBack' = <<>> /\ lbLoupe' = BootedLoupe
    BY <1>9 DEF Reloaded
  <2>2. FrameIsUp' /\ lbTurns' \in 0 .. MaxTurns
    BY <1>t, <1>9, <2>1 DEF FrameIsUp, Alive
  <2> QED BY <1>t, <1>q, <1>e, <1>9, <2>1, <2>2, FreshOK
<1>10. CASE AppReloads
  BY <1>9, <1>10 DEF AppReloads
<1>11. CASE UserClicks \/ UserTypes
  <2>1. \E m \in Replies : lbBack' = Append(lbBack, m)
    <3>1. [type |-> "event"] \in Replies /\ postPick \in Replies
      BY <1>t DEF Replies, postPick, LoupeSet
    <3> QED BY <1>11, <3>1 DEF UserClicks, UserTypes, Clicked
  <2>2. lbBack' \in Seq(Replies)
    BY <1>t, <2>1
  <2>3. UNCHANGED <<lbStatus, lbPage, lbBench, lbLoupe, lbDown, lbMarked, lbTurns>>
    BY <1>11 DEF UserClicks, UserTypes
  <2>4. FrameIsUp' /\ BootsFresh' /\ NoOutlineInHand' /\ ModeLetGo' /\ BoxesLetGo'
    BY <1>t, <2>3 DEF FrameIsUp, BootsFresh, NoOutlineInHand, ModeLetGo, BoxesLetGo, Alive
  <2> QED BY <1>t, <1>q, <2>2, <2>3, <2>4
<1>12. CASE UserHovers
  <2>1. /\ Alive /\ lbLoupe.mode = "loupe" /\ lbLoupe' = [lbLoupe EXCEPT !.outline = TRUE]
        /\ UNCHANGED <<lbStatus, lbPage, lbBench, lbDown, lbBack, lbMarked, lbTurns>>
    BY <1>12 DEF UserHovers
  <2>2. lbLoupe' \in LoupeSet /\ lbLoupe'.mode = lbLoupe.mode /\ lbLoupe'.boxes = lbLoupe.boxes
    BY <1>t, <2>1 DEF LoupeSet
  <2>3. FrameIsUp' /\ BootsFresh' /\ NoOutlineInHand' /\ ModeLetGo' /\ BoxesLetGo'
    BY <1>t, <2>1, <2>2 DEF FrameIsUp, BootsFresh, NoOutlineInHand, ModeLetGo, BoxesLetGo, Alive
  <2> QED BY <1>t, <1>q, <2>1, <2>2, <2>3
\* A message of the queue is taken: the loupe is what it makes of it.
<1>m. ASSUME /\ Alive /\ lbDown # <<>> /\ lbDown' = Tail(lbDown) /\ lbBack' \in Seq(Replies)
             /\ lbLoupe' = Painted(Head(lbDown))
             /\ UNCHANGED <<lbStatus, lbPage, lbBench, lbMarked, lbTurns>>
      PROVE  BridgeInv'
  <2> DEFINE m == Head(lbDown)
  <2>1. m \in Asks /\ lbDown' \in Seq(Asks)
    BY <1>t, <1>m
  <2>2. /\ lbLoupe' \in LoupeSet /\ (lbLoupe'.mode = "hand" => ~lbLoupe'.outline)
        /\ lbLoupe'.mode = "loupe" => m \in LoupeModes \/ (lbLoupe.mode = "loupe" /\ m \notin HandModes)
        /\ lbLoupe'.boxes => m \in Highlights \/ (lbLoupe.boxes /\ m \notin Clears)
    <3> HIDE DEF m
    <3>1. lbLoupe' = Painted(m)
      BY <1>m DEF m
    <3> QED BY <2>1, <3>1, PaintedOK
  <2>3. lbBench.mode = "hand" => LetGo(lbLoupe'.mode = "loupe", Tail(lbDown), LoupeModes, HandModes)
    BY <1>t, <1>m, <2>2, LetGoTail DEF ModeLetGo
  <2>4. ~lbMarked => LetGo(lbLoupe'.boxes, Tail(lbDown), Highlights, Clears)
    BY <1>t, <1>m, <2>2, LetGoTail DEF BoxesLetGo
  <2> HIDE DEF m
  <2>5. FrameIsUp' /\ BootsFresh' /\ NoOutlineInHand' /\ ModeLetGo' /\ BoxesLetGo'
    BY <1>t, <1>m, <2>2, <2>3, <2>4 DEF FrameIsUp, BootsFresh, NoOutlineInHand, ModeLetGo, BoxesLetGo, Alive
  <2> QED BY <1>t, <1>q, <1>m, <2>1, <2>2, <2>5
<1>13. CASE PlateReceives
  <2>1. /\ Alive /\ lbDown # <<>> /\ lbDown' = Tail(lbDown) /\ lbBack' = lbBack \o Answer(Head(lbDown))
        /\ lbLoupe' = Painted(Head(lbDown))
        /\ UNCHANGED <<lbStatus, lbPage, lbBench, lbMarked, lbTurns>>
    BY <1>13 DEF PlateReceives
  <2>2. Answer(Head(lbDown)) \in Seq(Replies)
    BY AnswerOK
  <2>3. lbBack' \in Seq(Replies)
    BY <1>t, <2>1, <2>2
  <2> QED BY <1>m, <2>1, <2>3
<1>14. ASSUME NEW sameOrigin \in BOOLEAN, PlateNavigates(sameOrigin) PROVE BridgeInv'
  <2>0. /\ Alive /\ lbDown # <<>> /\ Head(lbDown).type = "navigate"
        /\ UNCHANGED <<lbStatus, lbBench, lbMarked>>
    BY <1>14 DEF PlateNavigates
  <2>1. CASE sameOrigin /\ lbTurns < MaxTurns
    BY <1>9, <1>14, <2>0, <2>1 DEF PlateNavigates
  <2>2. CASE ~(sameOrigin /\ lbTurns < MaxTurns)
    <3>1. lbDown' = Tail(lbDown) /\ UNCHANGED <<lbPage, lbBack, lbLoupe, lbTurns>>
      BY <1>14, <2>2 DEF PlateNavigates
    <3>2. Painted(Head(lbDown)) = lbLoupe
      BY <2>0 DEF Painted
    <3> QED BY <1>t, <1>m, <2>0, <3>1, <3>2
  <2> QED BY <2>1, <2>2
<1> QED BY <1>1, <1>2, <1>3, <1>4, <1>5, <1>6, <1>7, <1>8, <1>10, <1>11, <1>12, <1>13, <1>14
        DEF BridgeNext, BridgeDelivers, BridgeUser

LEMMA BridgeStutter == BridgeInv /\ UNCHANGED bridgeVars => BridgeInv'
BY DEF BridgeInv, bridgeVars, BridgeTypeOK, FrameIsUp, BootsFresh, NoOutlineInHand, ModeLetGo,
       BoxesLetGo, Alive

-----------------------------------------------------------------------------
(* The tab's socket                                                        *)

SocketSet == [of : 0..MaxEffects, is : {"connecting", "open", "closing", "closed"}]

SocketsTypeOK ==
  /\ hostUp \in BOOLEAN /\ connected \in BOOLEAN
  /\ effects \in 1..MaxEffects /\ sockets \in [Sockets -> SocketSet]
  /\ socketVar \in Sockets \cup {NoSocket}
  /\ retries \in [1..MaxEffects -> Nat] /\ retryDelay \in Delays

\* The last effect has at most the socket it names; what listens is of the last effect; a
\* timer is its only one, and waits until its socket is closed.
OneSocket == \A s \in Sockets : sockets[s].is # "closed" /\ sockets[s].of = effects => s = socketVar
LastListens ==
  \A s \in Sockets : sockets[s].of <= effects
                     /\ (sockets[s].is \in {"connecting", "open"} => sockets[s].of = effects)
TimerWaits ==
  \A e \in 1..MaxEffects : retries[e] > 0 =>
    /\ e = effects /\ retries[e] = 1
    /\ \A s \in Sockets : sockets[s].is # "closed" => sockets[s].of # effects

EarInv == SocketsTypeOK /\ OneSocket /\ LastListens /\ TimerWaits

LEMMA EarShows == EarInv => OneEar
BY DEF EarInv, OneSocket, LastListens, TimerWaits, OneEar

LEMMA SocketFacts ==
  /\ MaxEffects \in Nat \ {0} /\ LogbookLimit \in Nat \ {0} /\ TailLimit \in Nat \ {0}
  /\ MaxFrames \in Nat /\ NoSocket \notin Sockets
  /\ NotMade \in SocketSet /\ NotMade.is = "closed" /\ NotMade.of = 0
BY SocketAssumption DEF NotMade, SocketSet

LEMMA SocketFields ==
  ASSUME NEW e \in 0..MaxEffects, NEW is \in {"connecting", "open", "closing", "closed"}
  PROVE  LET x == [of |-> e, is |-> is] IN x \in SocketSet /\ x.of = e /\ x.is = is
BY DEF SocketSet

\* A socket set to another state.
LEMMA TurnedTo ==
  ASSUME NEW ss \in [Sockets -> SocketSet], NEW s \in Sockets,
         NEW is \in {"connecting", "open", "closing", "closed"}
  PROVE  LET tt == [ss EXCEPT ![s].is = is] IN
         /\ tt \in [Sockets -> SocketSet]
         /\ tt[s].is = is /\ tt[s].of = ss[s].of
         /\ \A x \in Sockets : x # s => tt[x] = ss[x]
         /\ \A x \in Sockets : tt[x].of = ss[x].of
<1> DEFINE row == [ss[s] EXCEPT !.is = is]
           tt == [ss EXCEPT ![s] = row]
<1>1. ss[s] \in SocketSet
  OBVIOUS
<1>2. row \in SocketSet /\ row.is = is /\ row.of = ss[s].of
  BY <1>1 DEF SocketSet
<1>3. [ss EXCEPT ![s].is = is] = tt
  OBVIOUS
<1> HIDE DEF row
<1>4. tt \in [Sockets -> SocketSet] /\ tt[s] = row /\ \A x \in Sockets : x # s => tt[x] = ss[x]
  BY <1>2
<1> HIDE DEF tt
<1> QED BY <1>2, <1>3, <1>4

\* close() turns the socket it names to closing, if that listens, and no other.
LEMMA ClosingOK ==
  ASSUME NEW ss \in [Sockets -> SocketSet], NEW s \in Sockets \cup {NoSocket}
  PROVE  /\ Closing(ss, s) \in [Sockets -> SocketSet]
         /\ \A x \in Sockets : /\ Closing(ss, s)[x].of = ss[x].of
                               /\ x # s => Closing(ss, s)[x] = ss[x]
                               /\ Closing(ss, s)[x].is = "closed" <=> ss[x].is = "closed"
                               /\ Closing(ss, s)[x].is \in {"connecting", "open"} =>
                                    x # s /\ ss[x].is \in {"connecting", "open"}
<1>1. CASE s # NoSocket /\ ss[s].is \in {"connecting", "open"}
  <2>1. s \in Sockets /\ Closing(ss, s) = [ss EXCEPT ![s].is = "closing"]
    BY <1>1 DEF Closing
  <2> DEFINE tt == [ss EXCEPT ![s].is = "closing"]
  <2>2. /\ tt \in [Sockets -> SocketSet] /\ tt[s].is = "closing"
        /\ \A x \in Sockets : x # s => tt[x] = ss[x]
        /\ \A x \in Sockets : tt[x].of = ss[x].of
    BY <2>1, TurnedTo
  <2> HIDE DEF tt
  <2>3. ASSUME NEW x \in Sockets
        PROVE  /\ tt[x].of = ss[x].of /\ (x # s => tt[x] = ss[x])
               /\ tt[x].is = "closed" <=> ss[x].is = "closed"
               /\ tt[x].is \in {"connecting", "open"} => x # s /\ ss[x].is \in {"connecting", "open"}
    <3>1. CASE x = s
      BY <1>1, <2>2, <3>1
    <3>2. CASE x # s
      BY <2>2, <3>2
    <3> QED BY <3>1, <3>2
  <2> QED BY <2>1, <2>2, <2>3 DEF tt
<1>2. CASE ~(s # NoSocket /\ ss[s].is \in {"connecting", "open"})
  BY <1>2, SocketFacts DEF Closing
<1> QED BY <1>1, <1>2

LEMMA EarStart == JigSocketInit => EarInv
<1> SUFFICES ASSUME JigSocketInit PROVE EarInv
  OBVIOUS
<1>1. PICK s \in Sockets :
        /\ sockets = [x \in Sockets |-> IF x = s THEN [of |-> 1, is |-> "connecting"] ELSE NotMade]
        /\ socketVar = s
  BY DEF JigSocketInit
<1>2. /\ hostUp \in BOOLEAN /\ connected = FALSE /\ effects = 1 /\ retryDelay = 1
      /\ retries = [e \in 1..MaxEffects |-> 0]
  BY DEF JigSocketInit
<1>3. 1 \in 0..MaxEffects /\ 1 \in 1..MaxEffects
  BY SocketFacts
<1>4. /\ sockets \in [Sockets -> SocketSet]
      /\ sockets[s].of = 1 /\ \A x \in Sockets : x # s => sockets[x] = NotMade
  BY <1>1, <1>3, SocketFacts, SocketFields
<1>5. SocketsTypeOK
  BY <1>1, <1>2, <1>3, <1>4 DEF SocketsTypeOK, Delays
<1>6. OneSocket /\ LastListens
  BY <1>1, <1>2, <1>4, SocketFacts DEF OneSocket, LastListens
<1>7. TimerWaits
  BY <1>2 DEF TimerWaits
<1> QED BY <1>5, <1>6, <1>7 DEF EarInv

LEMMA EarStep ==
  ASSUME EarInv,
         \/ \E s \in Sockets : OnOpen(s) \/ OnError(s) \/ OnClose(s)
         \/ \E e \in 1..MaxEffects : RetryFires(e)
         \/ RunAgain
         \/ HostTurns
  PROVE  EarInv' /\ UNCHANGED <<frameVars, noteVars>>
<1>t. /\ hostUp \in BOOLEAN /\ connected \in BOOLEAN
      /\ effects \in 1..MaxEffects /\ sockets \in [Sockets -> SocketSet]
      /\ socketVar \in Sockets \cup {NoSocket}
      /\ retries \in [1..MaxEffects -> Nat] /\ retryDelay \in Delays
      /\ OneSocket /\ LastListens /\ TimerWaits /\ MaxEffects \in Nat
      /\ effects \in 0..MaxEffects
  BY SocketFacts DEF EarInv, SocketsTypeOK
<1>r. \A e \in 1..MaxEffects : e # effects => retries[e] = 0
  BY <1>t DEF TimerWaits
<1>d. 1 \in Delays /\ Doubled(retryDelay) \in Delays
  BY <1>t DEF Delays, Doubled
<1>q. ASSUME SocketsTypeOK', OneSocket', LastListens', TimerWaits' PROVE EarInv'
  BY <1>q DEF EarInv
\* Sockets that turn, none of which begins to listen or comes to be.
<1>k. ASSUME sockets' \in [Sockets -> SocketSet], UNCHANGED <<effects, socketVar, retries>>,
             \A x \in Sockets : /\ sockets'[x].of = sockets[x].of
                                /\ sockets'[x].is = "closed" <=> sockets[x].is = "closed"
                                /\ sockets'[x].is \in {"connecting", "open"} =>
                                     sockets[x].is \in {"connecting", "open"}
      PROVE  OneSocket' /\ LastListens' /\ TimerWaits'
  BY <1>t, <1>k DEF OneSocket, LastListens, TimerWaits
<1>1. ASSUME NEW s \in Sockets, OnOpen(s) PROVE EarInv' /\ UNCHANGED <<frameVars, noteVars>>
  <2>1. /\ sockets[s].is = "connecting" /\ sockets' = [sockets EXCEPT ![s].is = "open"]
        /\ connected' = TRUE /\ retryDelay' = 1
        /\ UNCHANGED <<hostUp, effects, socketVar, retries, frameVars, noteVars>>
    BY <1>1 DEF OnOpen
  <2> DEFINE tt == [sockets EXCEPT ![s].is = "open"]
  <2>b. /\ tt \in [Sockets -> SocketSet] /\ tt[s].is = "open"
        /\ \A x \in Sockets : x # s => tt[x] = sockets[x]
        /\ \A x \in Sockets : tt[x].of = sockets[x].of
    BY <1>t, TurnedTo
  <2>c. sockets' = tt
    BY <2>1
  <2> HIDE DEF tt
  <2>2. /\ sockets' \in [Sockets -> SocketSet] /\ sockets'[s].is = "open"
        /\ \A x \in Sockets : sockets'[x].of = sockets[x].of /\ (x # s => sockets'[x] = sockets[x])
    BY <2>b, <2>c
  <2>a. ASSUME NEW x \in Sockets
        PROVE  /\ sockets'[x].is = "closed" <=> sockets[x].is = "closed"
               /\ sockets'[x].is \in {"connecting", "open"} => sockets[x].is \in {"connecting", "open"}
    <3>1. CASE x = s
      BY <2>1, <2>2, <3>1
    <3>2. CASE x # s
      BY <2>2, <3>2
    <3> QED BY <3>1, <3>2
  <2>3. OneSocket' /\ LastListens' /\ TimerWaits'
    BY <1>k, <2>1, <2>2, <2>a
  <2>4. SocketsTypeOK'
    BY <1>t, <1>d, <2>1, <2>2 DEF SocketsTypeOK
  <2> QED BY <1>q, <2>1, <2>3, <2>4
<1>2. ASSUME NEW s \in Sockets, OnError(s) PROVE EarInv' /\ UNCHANGED <<frameVars, noteVars>>
  <2> DEFINE named == IF sockets[s].of = effects THEN socketVar ELSE NoSocket
             first == Closing(sockets, s)
  <2>1. /\ sockets' = Closing(first, named)
        /\ UNCHANGED <<hostUp, effects, socketVar, retries, retryDelay, connected, frameVars, noteVars>>
    BY <1>2 DEF OnError
  <2>2. named \in Sockets \cup {NoSocket} /\ s \in Sockets \cup {NoSocket}
    BY <1>t
  <2>3. /\ first \in [Sockets -> SocketSet]
        /\ \A x \in Sockets : /\ first[x].of = sockets[x].of
                              /\ first[x].is = "closed" <=> sockets[x].is = "closed"
                              /\ first[x].is \in {"connecting", "open"} =>
                                   sockets[x].is \in {"connecting", "open"}
    BY <1>t, <2>2, ClosingOK
  <2> HIDE DEF first, named
  <2>4. /\ sockets' \in [Sockets -> SocketSet]
        /\ \A x \in Sockets : /\ sockets'[x].of = first[x].of
                              /\ sockets'[x].is = "closed" <=> first[x].is = "closed"
                              /\ sockets'[x].is \in {"connecting", "open"} =>
                                   first[x].is \in {"connecting", "open"}
    BY <2>1, <2>2, <2>3, ClosingOK
  <2>5. OneSocket' /\ LastListens' /\ TimerWaits'
    BY <1>k, <2>1, <2>3, <2>4
  <2>6. SocketsTypeOK'
    BY <1>t, <2>1, <2>4 DEF SocketsTypeOK
  <2> QED BY <1>q, <2>1, <2>5, <2>6
<1>3. ASSUME NEW s \in Sockets, OnClose(s) PROVE EarInv' /\ UNCHANGED <<frameVars, noteVars>>
  <2> DEFINE e == sockets[s].of
  <2>1. /\ sockets[s].is = "closing" /\ sockets' = [sockets EXCEPT ![s] = NotMade] /\ connected' = FALSE
        /\ retries' = (IF e = effects THEN [retries EXCEPT ![e] = retries[e] + 1] ELSE retries)
        /\ retryDelay' = (IF e = effects THEN Doubled(retryDelay) ELSE retryDelay)
        /\ UNCHANGED <<hostUp, effects, socketVar, frameVars, noteVars>>
    BY <1>3 DEF OnClose, Retries
  <2>2. /\ sockets' \in [Sockets -> SocketSet] /\ sockets'[s] = NotMade
        /\ \A x \in Sockets : x # s => sockets'[x] = sockets[x]
    BY <1>t, <2>1, SocketFacts
  <2>3. OneSocket' /\ LastListens'
    BY <1>t, <2>1, <2>2, SocketFacts DEF OneSocket, LastListens
  <2>4. retries' \in [1..MaxEffects -> Nat] /\ TimerWaits'
    <3>1. CASE e = effects
      <4>1. retries[effects] = 0 /\ retries[effects] + 1 = 1
        BY <1>t, <2>1, <3>1 DEF TimerWaits
      <4>2. retries' = [retries EXCEPT ![effects] = 1]
        BY <2>1, <3>1, <4>1
      <4>3. /\ retries' \in [1..MaxEffects -> Nat] /\ retries'[effects] = 1
            /\ \A d \in 1..MaxEffects : d # effects => retries'[d] = 0
        BY <1>t, <1>r, <4>2
      <4>4. s = socketVar
        BY <1>t, <2>1, <3>1 DEF OneSocket
      <4>5. \A x \in Sockets : sockets'[x].is # "closed" => sockets'[x].of # effects
        BY <1>t, <2>2, <4>4, SocketFacts DEF OneSocket
      <4> QED BY <2>1, <4>3, <4>5 DEF TimerWaits
    <3>2. CASE e # effects
      BY <1>t, <2>1, <2>2, <3>2, SocketFacts DEF TimerWaits
    <3> QED BY <3>1, <3>2
  <2>5. SocketsTypeOK'
    BY <1>t, <1>d, <2>1, <2>2, <2>4 DEF SocketsTypeOK
  <2> QED BY <1>q, <2>1, <2>3, <2>4, <2>5
<1>4. ASSUME NEW e \in 1..MaxEffects, RetryFires(e) PROVE EarInv' /\ UNCHANGED <<frameVars, noteVars>>
  <2>1. /\ retries[e] > 0 /\ retries' = [retries EXCEPT ![e] = retries[e] - 1]
        /\ UNCHANGED <<hostUp, effects, retryDelay, connected, frameVars, noteVars>>
    BY <1>4 DEF RetryFires
  <2>2. /\ e = effects /\ retries[e] - 1 = 0
        /\ \A s \in Sockets : sockets[s].is # "closed" => sockets[s].of # effects
    BY <1>t, <2>1 DEF TimerWaits
  <2>3. /\ retries' \in [1..MaxEffects -> Nat]
        /\ \A d \in 1..MaxEffects : retries'[d] = 0
    BY <1>t, <1>r, <2>1, <2>2
  <2>4. PICK s \in Sockets : /\ sockets[s].is = "closed" /\ socketVar' = s
                             /\ sockets' = [sockets EXCEPT ![s] = [of |-> e, is |-> "connecting"]]
    BY <1>4, <2>2 DEF RetryFires, Retries, Connected
  <2>5. /\ sockets' \in [Sockets -> SocketSet] /\ sockets'[s].of = effects
        /\ \A x \in Sockets : x # s => sockets'[x] = sockets[x]
    BY <1>t, <2>2, <2>4, SocketFields
  <2>6. OneSocket' /\ LastListens' /\ TimerWaits'
    BY <1>t, <2>1, <2>2, <2>3, <2>4, <2>5 DEF OneSocket, LastListens, TimerWaits
  <2>7. SocketsTypeOK'
    BY <1>t, <2>1, <2>3, <2>4, <2>5 DEF SocketsTypeOK
  <2> QED BY <1>q, <2>1, <2>6, <2>7
<1>5. CASE RunAgain
  <2> DEFINE next == effects + 1
             left == Closing(sockets, socketVar)
  <2>1. /\ effects < MaxEffects /\ effects' = next
        /\ retries' = [retries EXCEPT ![effects] = TimersLeft(effects)]
        /\ Connected(left, next) /\ retryDelay' = 1
        /\ UNCHANGED <<hostUp, connected, frameVars, noteVars>>
    BY <1>5 DEF RunAgain
  <2>2. TimersLeft(effects) = 0
    BY <1>t DEF TimersLeft, TimerWaits
  <2>3. retries' \in [1..MaxEffects -> Nat] /\ \A d \in 1..MaxEffects : retries'[d] = 0
    BY <1>t, <1>r, <2>1, <2>2
  <2>4. /\ left \in [Sockets -> SocketSet]
        /\ \A x \in Sockets : /\ left[x].of = sockets[x].of
                              /\ left[x].is \in {"connecting", "open"} =>
                                   x # socketVar /\ sockets[x].is \in {"connecting", "open"}
    BY <1>t, ClosingOK
  <2> HIDE DEF left
  <2>5. \A x \in Sockets : left[x].is \notin {"connecting", "open"} /\ left[x].of < next
                           /\ left[x].of \in Nat
    BY <1>t, <2>4 DEF OneSocket, LastListens, SocketSet
  <2>6. PICK s \in Sockets : /\ socketVar' = s
                             /\ sockets' = [left EXCEPT ![s] = [of |-> next, is |-> "connecting"]]
    BY <2>1 DEF Connected
  <2>7. next \in 1..MaxEffects /\ next \in 0..MaxEffects
    BY <1>t, <2>1
  <2> HIDE DEF next
  <2>8. /\ sockets' \in [Sockets -> SocketSet] /\ sockets'[s].of = next
        /\ \A x \in Sockets : x # s => sockets'[x] = left[x]
    BY <2>4, <2>6, <2>7, SocketFields
  <2>9. OneSocket' /\ LastListens' /\ TimerWaits'
    BY <2>1, <2>3, <2>5, <2>6, <2>7, <2>8 DEF OneSocket, LastListens, TimerWaits
  <2>10. SocketsTypeOK'
    BY <1>t, <1>d, <2>1, <2>3, <2>6, <2>7, <2>8 DEF SocketsTypeOK
  <2> QED BY <1>q, <2>1, <2>9, <2>10
<1>6. CASE HostTurns
  <2>1. /\ hostUp' = ~hostUp
        /\ sockets' = [s \in Sockets |-> IF hostUp /\ sockets[s].is = "open"
                                         THEN [sockets[s] EXCEPT !.is = "closing"] ELSE sockets[s]]
        /\ UNCHANGED <<effects, socketVar, retries, retryDelay, connected, frameVars, noteVars>>
    BY <1>6 DEF HostTurns
  <2>2. \A x \in SocketSet : LET y == [x EXCEPT !.is = "closing"] IN
          y \in SocketSet /\ y.of = x.of /\ y.is = "closing"
    BY DEF SocketSet
  <2>3. /\ sockets' \in [Sockets -> SocketSet]
        /\ \A x \in Sockets : /\ sockets'[x].of = sockets[x].of
                              /\ sockets'[x].is = "closed" <=> sockets[x].is = "closed"
                              /\ sockets'[x].is \in {"connecting", "open"} =>
                                   sockets[x].is \in {"connecting", "open"}
    BY <1>t, <2>1, <2>2
  <2>4. OneSocket' /\ LastListens' /\ TimerWaits'
    BY <1>k, <2>1, <2>3
  <2>5. SocketsTypeOK'
    BY <1>t, <2>1, <2>3 DEF SocketsTypeOK
  <2> QED BY <1>q, <2>1, <2>4, <2>5
<1> QED BY <1>1, <1>2, <1>3, <1>4, <1>5, <1>6

\* p is what is left of q when its first k members are dropped.
LeftOf(p, q, k) ==
  /\ k \in Nat /\ DOMAIN p \subseteq Nat /\ DOMAIN q \subseteq Nat
  /\ \A i \in DOMAIN p : i + k \in DOMAIN q /\ p[i] = q[i + k]
  /\ \A j \in DOMAIN q : j > k => j - k \in DOMAIN p

LEMMA NewestOK ==
  ASSUME NEW S, NEW q \in Seq(S), NEW n \in Nat \ {0}
  PROVE  /\ Newest(q, n) \in Seq(S) /\ Len(Newest(q, n)) <= n
         /\ \E k \in Nat : LeftOf(Newest(q, n), q, k)
<1>1. CASE Len(q) <= n
  <2>1. Newest(q, n) = q
    BY <1>1 DEF Newest
  <2>2. LeftOf(q, q, 0)
    BY DEF LeftOf
  <2> QED BY <1>1, <2>1, <2>2
<1>2. CASE ~(Len(q) <= n)
  <2> DEFINE k == Len(q) - n
             p == SubSeq(q, k + 1, Len(q))
  <2>1. Newest(q, n) = p
    BY <1>2 DEF Newest
  <2>2. k \in Nat /\ Len(q) \in Nat /\ k + n = Len(q) /\ k + 1 \in 1..Len(q) /\ Len(q) \in 1..Len(q)
    BY <1>2
  <2>3. /\ p \in Seq(S) /\ Len(p) = n /\ \A i \in 1..n : p[i] = q[i + k]
    BY <2>2
  <2>4. DOMAIN p = 1..n /\ DOMAIN q = 1..Len(q)
    BY <2>3
  <2> HIDE DEF p
  <2>5. LeftOf(p, q, k)
    BY <2>2, <2>3, <2>4 DEF LeftOf
  <2> QED BY <2>1, <2>2, <2>3, <2>5
<1> QED BY <1>1, <1>2

\* Numbers that rise, and what is left of them.
RisingNumbers(q) == \A i, j \in DOMAIN q : i < j => q[i] < q[j]
NumbersOf(q) == {q[i] : i \in DOMAIN q}

LEMMA EndsCompare ==
  ASSUME NEW Z \in SUBSET Nat, NEW X, NEW Y, EndOf(X, Z), EndOf(Y, Z)
  PROVE  EndOf(X, Y) \/ EndOf(Y, X)
<1>0. X \subseteq Z /\ Y \subseteq Z
  BY DEF EndOf
<1>1. CASE X \subseteq Y
  BY <1>0, <1>1 DEF EndOf
<1>2. CASE ~(X \subseteq Y)
  <2>1. PICK x \in X : x \notin Y
    BY <1>2
  <2>2. \A y \in Y : x < y
    BY <1>0, <2>1 DEF EndOf
  <2>3. Y \subseteq X
    <3> SUFFICES ASSUME NEW y \in Y, y \notin X PROVE FALSE
      OBVIOUS
    <3>1. y < x /\ x < y /\ x \in Nat /\ y \in Nat
      BY <1>0, <2>1, <2>2 DEF EndOf
    <3> QED BY <3>1
  <2> QED BY <1>0, <2>3 DEF EndOf
<1> QED BY <1>1, <1>2

LEMMA EndOfEnd ==
  ASSUME NEW Z \in SUBSET Nat, NEW X, NEW Y, EndOf(X, Y), EndOf(Y, Z)
  PROVE  EndOf(X, Z)
BY DEF EndOf

\* Both sets get the same later number, and each keeps an end of what it has.
LEMMA EndsStayEnds ==
  ASSUME NEW A \in SUBSET Nat, NEW T \in SUBSET Nat, EndOf(T, A) \/ EndOf(A, T),
         NEW new \in SUBSET Nat, \A x \in new, y \in A \cup T : y < x,
         NEW A2, NEW T2, EndOf(A2, A \cup new), EndOf(T2, T \cup new)
  PROVE  EndOf(T2, A2) \/ EndOf(A2, T2)
<1>1. CASE EndOf(T, A)
  <2>1. EndOf(T \cup new, A \cup new)
    BY <1>1 DEF EndOf
  <2>2. EndOf(T2, A \cup new)
    BY <2>1, EndOfEnd
  <2> QED BY <2>2, EndsCompare
<1>2. CASE EndOf(A, T)
  <2>1. EndOf(A \cup new, T \cup new)
    BY <1>2 DEF EndOf
  <2>2. EndOf(A2, T \cup new)
    BY <2>1, EndOfEnd
  <2> QED BY <2>2, EndsCompare
<1> QED BY <1>1, <1>2

LEMMA LeftRising ==
  ASSUME NEW p, NEW q, NEW k, LeftOf(p, q, k), RisingNumbers(q)
  PROVE  RisingNumbers(p) /\ EndOf(NumbersOf(p), NumbersOf(q))
<1>1. RisingNumbers(p)
  BY DEF LeftOf, RisingNumbers
<1>2. NumbersOf(p) \subseteq NumbersOf(q)
  BY DEF LeftOf, NumbersOf
<1>3. ASSUME NEW x \in NumbersOf(p), NEW y \in NumbersOf(q) \ NumbersOf(p) PROVE y < x
  <2>1. PICK i \in DOMAIN p : x = q[i + k] /\ i + k \in DOMAIN q /\ i \in Nat
    BY <1>3 DEF NumbersOf, LeftOf
  <2>2. PICK j \in DOMAIN q : y = q[j] /\ j \in Nat
    BY <1>3 DEF NumbersOf, LeftOf
  <2>3. ~(j > k)
    <3> SUFFICES ASSUME j > k PROVE FALSE
      OBVIOUS
    <3>1. j - k \in DOMAIN p /\ (j - k) + k = j
      BY <2>2 DEF LeftOf
    <3>2. p[j - k] = y
      BY <2>2, <3>1 DEF LeftOf
    <3> QED BY <1>3, <3>1, <3>2 DEF NumbersOf
  <2>4. j < i + k
    <3>1. i >= 1 \/ i = 0
      BY <2>1
    <3>2. i + k # j
      BY <1>3, <2>1, <2>2 DEF NumbersOf, LeftOf
    <3> QED BY <2>1, <2>2, <2>3, <3>2 DEF LeftOf
  <2> QED BY <2>1, <2>2, <2>4 DEF RisingNumbers
<1> QED BY <1>2, <1>1, <1>3 DEF EndOf

\* The rows of the app, and what is left of them.
LEMMA LeftRows ==
  ASSUME NEW p, NEW q, NEW k, LeftOf(p, q, k), Rising(q)
  PROVE  Rising(p) /\ EndOf(AppLines(p), AppLines(q))
<1>1. Rising(p)
  BY DEF LeftOf, Rising
<1>2. \A x \in AppLines(p) : \E i \in DOMAIN p : p[i].of = "app" /\ x = p[i].n
  BY DEF AppLines
<1>3. \A y \in AppLines(q) : \E j \in DOMAIN q : q[j].of = "app" /\ y = q[j].n
  BY DEF AppLines
<1>4. AppLines(p) \subseteq AppLines(q)
  BY DEF LeftOf, AppLines
<1>5. ASSUME NEW x \in AppLines(p), NEW y \in AppLines(q) \ AppLines(p) PROVE y < x
  <2>1. PICK i \in DOMAIN p : /\ x = q[i + k].n /\ q[i + k].of = "app" /\ i + k \in DOMAIN q
                              /\ i \in Nat
    BY <1>2 DEF LeftOf
  <2>2. PICK j \in DOMAIN q : y = q[j].n /\ q[j].of = "app" /\ j \in Nat
    BY <1>3 DEF LeftOf
  <2>3. ~(j > k)
    <3> SUFFICES ASSUME j > k PROVE FALSE
      OBVIOUS
    <3>1. j - k \in DOMAIN p /\ (j - k) + k = j
      BY <2>2 DEF LeftOf
    <3>2. p[j - k] = q[j]
      BY <3>1 DEF LeftOf
    <3> QED BY <1>5, <2>2, <3>1, <3>2 DEF AppLines
  <2>4. i + k # j
    <3> SUFFICES ASSUME i + k = j PROVE FALSE
      OBVIOUS
    <3>1. p[i] = q[j]
      BY <2>1 DEF LeftOf
    <3> QED BY <1>5, <2>1, <2>2, <3>1 DEF AppLines
  <2>5. j < i + k
    BY <2>1, <2>2, <2>3, <2>4 DEF LeftOf
  <2> QED BY <2>1, <2>2, <2>5 DEF Rising
<1> QED BY <1>1, <1>4, <1>5 DEF EndOf

LEMMA RowNumbers == \A r \in Rows : r.n \in Nat
BY SocketFacts DEF Rows

LEMMA SeqMembers ==
  ASSUME NEW S, NEW q \in Seq(S) PROVE \A i \in DOMAIN q : q[i] \in S
OBVIOUS

\* A logbook with frames up to f and lines up to l, in order.
BookOK(rows, f, l) ==
  /\ rows \in Seq(Rows) /\ Rising(rows)
  /\ \A i \in DOMAIN rows : /\ rows[i].of = "Claude" => rows[i].n <= f
                            /\ rows[i].of = "app" => rows[i].n <= l

LEMMA AppendRow ==
  ASSUME NEW f \in Nat, NEW l \in Nat, NEW f2 \in Nat, NEW l2 \in Nat, f <= f2, l <= l2,
         NEW q, BookOK(q, f, l), NEW r \in Rows,
         r.of = "Claude" => f < r.n /\ r.n <= f2,
         r.of = "app" => l < r.n /\ r.n <= l2
  PROVE  /\ BookOK(Append(q, r), f2, l2)
         /\ AppLines(Append(q, r)) = AppLines(q) \cup IF r.of = "app" THEN {r.n} ELSE {}
<1> DEFINE p == Append(q, r)
<1>1. /\ q \in Seq(Rows) /\ p \in Seq(Rows) /\ p[Len(q) + 1] = r
      /\ \A i \in DOMAIN q : p[i] = q[i] /\ i \in DOMAIN p /\ i \in Nat /\ i <= Len(q)
      /\ \A i \in DOMAIN p : i \in DOMAIN q \/ i = Len(q) + 1
      /\ Len(q) \in Nat /\ Len(q) + 1 \in DOMAIN p
  BY AppendIs DEF BookOK
<1>2. \A i \in DOMAIN q : q[i] \in Rows /\ q[i].n \in Nat
  BY <1>1, SeqMembers, RowNumbers
<1> HIDE DEF p
<1>3. Rising(p)
  <2> SUFFICES ASSUME NEW i \in DOMAIN p, NEW j \in DOMAIN p, i < j, p[i].of = p[j].of,
                      p[i].of \in {"Claude", "app"}
               PROVE  p[i].n < p[j].n
    BY DEF Rising
  <2>1. i \in DOMAIN q
    BY <1>1
  <2>2. CASE j \in DOMAIN q
    BY <1>1, <2>1, <2>2 DEF BookOK, Rising
  <2>3. CASE j = Len(q) + 1
    <3>1. p[j] = r /\ p[i] = q[i] /\ q[i].n \in Nat /\ r.n \in Nat
      BY <1>1, <1>2, <2>1, <2>3, SocketFacts DEF Rows
    <3> QED BY <2>1, <3>1 DEF BookOK
  <2> QED BY <1>1, <2>2, <2>3
<1>4. ASSUME NEW i \in DOMAIN p
      PROVE  /\ p[i].of = "Claude" => p[i].n <= f2
             /\ p[i].of = "app" => p[i].n <= l2
  <2>1. CASE i \in DOMAIN q
    BY <1>1, <1>2, <2>1 DEF BookOK
  <2>2. CASE i = Len(q) + 1
    BY <1>1, <2>2
  <2> QED BY <1>1, <2>1, <2>2
<1>5. AppLines(p) = AppLines(q) \cup IF r.of = "app" THEN {r.n} ELSE {}
  <2>1. AppLines(p) \subseteq AppLines(q) \cup IF r.of = "app" THEN {r.n} ELSE {}
    <3> SUFFICES ASSUME NEW x \in AppLines(p), x \notin AppLines(q) PROVE r.of = "app" /\ x = r.n
      OBVIOUS
    <3>1. PICK i \in DOMAIN p : p[i].of = "app" /\ x = p[i].n
      BY DEF AppLines
    <3>2. i \notin DOMAIN q
      BY <1>1, <3>1 DEF AppLines
    <3> QED BY <1>1, <3>1, <3>2
  <2>2. AppLines(q) \subseteq AppLines(p)
    <3> SUFFICES ASSUME NEW x \in AppLines(q) PROVE x \in AppLines(p)
      OBVIOUS
    <3>1. PICK i \in DOMAIN q : q[i].of = "app" /\ x = q[i].n
      BY DEF AppLines
    <3>2. i \in DOMAIN p /\ p[i].of = "app" /\ x = p[i].n
      BY <1>1, <3>1
    <3> QED BY <3>2 DEF AppLines
  <2>3. r.of = "app" => r.n \in AppLines(p)
    BY <1>1 DEF AppLines
  <2> QED BY <2>1, <2>2, <2>3
<1>6. BookOK(p, f2, l2)
  BY <1>1, <1>3, <1>4 DEF BookOK
<1> QED BY <1>5, <1>6 DEF p

\* A render appends at most one row of each kind.
LEMMA RowNoted ==
  ASSUME NEW f \in Nat, NEW l \in Nat, NEW f2 \in Nat, NEW l2 \in Nat, f <= f2, l <= l2,
         NEW q, BookOK(q, f, l), NEW condition \in BOOLEAN, NEW of, NEW n,
         condition => [of |-> of, n |-> n] \in Rows,
         condition /\ of = "Claude" => f < n /\ n <= f2,
         condition /\ of = "app" => l < n /\ n <= l2
  PROVE  /\ BookOK(q \o Row(condition, of, n), f2, l2)
         /\ AppLines(q \o Row(condition, of, n))
              = AppLines(q) \cup IF condition /\ of = "app" THEN {n} ELSE {}
<1> DEFINE r == [of |-> of, n |-> n]
<1>0. q \in Seq(Rows) /\ \A i \in DOMAIN q : q[i] \in Rows /\ q[i].n \in Nat
  BY SeqMembers, RowNumbers DEF BookOK
<1>1. CASE condition
  <2>1. r \in Rows /\ r.of = of /\ r.n = n
    BY <1>1
  <2>2. q \o Row(condition, of, n) = Append(q, r)
    BY <1>0, <1>1, <2>1 DEF Row
  <2> HIDE DEF r
  <2>3. (r.of = "Claude" => f < r.n /\ r.n <= f2) /\ (r.of = "app" => l < r.n /\ r.n <= l2)
    BY <1>1, <2>1
  <2>4. /\ BookOK(Append(q, r), f2, l2)
        /\ AppLines(Append(q, r)) = AppLines(q) \cup IF r.of = "app" THEN {r.n} ELSE {}
    BY <2>1, <2>3, AppendRow
  <2> QED BY <1>1, <2>1, <2>2, <2>4
<1>2. CASE ~condition
  <2>1. q \o Row(condition, of, n) = q
    BY <1>0, <1>2 DEF Row
  <2>2. BookOK(q, f2, l2)
    BY <1>0 DEF BookOK
  <2> QED BY <1>2, <2>1, <2>2
<1> QED BY <1>1, <1>2

LEMMA FrameNoted ==
  ASSUME NEW f \in Nat, NEW l \in Nat, NEW f2 \in Nat, f <= f2,
         NEW q, BookOK(q, f, l), NEW condition \in BOOLEAN, NEW n,
         condition => [of |-> "Claude", n |-> n] \in Rows, condition => f < n /\ n <= f2
  PROVE  /\ BookOK(q \o Row(condition, "Claude", n), f2, l)
         /\ AppLines(q \o Row(condition, "Claude", n)) = AppLines(q)
<1> DEFINE of == "Claude"
<1>0. l <= l /\ of # "app"
  OBVIOUS
<1>1. (condition /\ of = "Claude" => f < n /\ n <= f2) /\ (condition /\ of = "app" => l < n /\ n <= l)
      /\ (condition => [of |-> of, n |-> n] \in Rows)
  BY <1>0
<1> HIDE DEF of
<1>2. /\ BookOK(q \o Row(condition, of, n), f2, l)
      /\ AppLines(q \o Row(condition, of, n)) = AppLines(q) \cup IF condition /\ of = "app" THEN {n} ELSE {}
  BY <1>0, <1>1, RowNoted
<1> QED BY <1>0, <1>2 DEF of

LEMMA LineNoted ==
  ASSUME NEW f \in Nat, NEW l \in Nat, NEW l2 \in Nat, l <= l2,
         NEW q, BookOK(q, f, l), NEW condition \in BOOLEAN, NEW n,
         condition => [of |-> "app", n |-> n] \in Rows, condition => l < n /\ n <= l2
  PROVE  /\ BookOK(q \o Row(condition, "app", n), f, l2)
         /\ AppLines(q \o Row(condition, "app", n)) = AppLines(q) \cup IF condition THEN {n} ELSE {}
<1> DEFINE of == "app"
<1>0. f <= f /\ of = "app" /\ of # "Claude"
  OBVIOUS
<1>1. (condition /\ of = "Claude" => f < n /\ n <= f) /\ (condition /\ of = "app" => l < n /\ n <= l2)
      /\ (condition => [of |-> of, n |-> n] \in Rows)
  BY <1>0
<1> HIDE DEF of
<1>2. /\ BookOK(q \o Row(condition, of, n), f, l2)
      /\ AppLines(q \o Row(condition, of, n)) = AppLines(q) \cup IF condition /\ of = "app" THEN {n} ELSE {}
  BY <1>0, <1>1, RowNoted
<1> QED BY <1>0, <1>2 DEF of

NotedSet == [frame : 0..MaxFrames, line : 0..MaxFrames, tail : 0..MaxFrames,
             word : TargetWords \cup {"unheard"}]

\* What is noted was heard, the tail and the logbook of the same lines.
HeardFirst ==
  /\ lastBuild <= framesSent /\ lastLine <= framesSent
  /\ noted.frame <= lastBuild /\ noted.line <= lastLine /\ noted.tail = noted.line

FramesTypeOK ==
  /\ target \in TargetWords \cup {"unheard"}
  /\ lastBuild \in 0..MaxFrames /\ lastLine \in 0..MaxFrames /\ framesSent \in 0..MaxFrames

BookInv ==
  /\ noted \in NotedSet
  /\ BookOK(logbook, noted.frame, noted.line) /\ Len(logbook) <= LogbookLimit
  /\ tail \in Seq(1..MaxFrames) /\ Len(tail) <= TailLimit
  /\ RisingNumbers(tail) /\ \A x \in NumbersOf(tail) : x <= noted.line
  /\ EndOf(NumbersOf(tail), AppLines(logbook)) \/ EndOf(AppLines(logbook), NumbersOf(tail))

SocketInv == EarInv /\ FramesTypeOK /\ HeardFirst /\ BookInv

LEMMA SocketShows == SocketInv => JigSocketTypeOK /\ OneEar /\ NotedOnce
<1>1. BookInv => NotedOnce
  BY DEF BookInv, BookOK, RisingNumbers, NumbersOf, NotedOnce
<1>2. SocketInv => JigSocketTypeOK
  BY DEF SocketInv, EarInv, SocketsTypeOK, SocketSet, FramesTypeOK, BookInv, BookOK, NotedSet,
         JigSocketTypeOK
<1> QED BY <1>1, <1>2, EarShows DEF SocketInv

LEMMA SocketStart == JigSocketInit => SocketInv
<1> SUFFICES ASSUME JigSocketInit PROVE SocketInv
  OBVIOUS
<1>1. /\ target = "unheard" /\ lastBuild = 0 /\ lastLine = 0 /\ framesSent = 0
      /\ noted = [frame |-> 0, line |-> 0, tail |-> 0, word |-> "unheard"]
      /\ logbook = <<>> /\ tail = <<>>
  BY DEF JigSocketInit
<1>2. noted \in NotedSet /\ noted.frame = 0 /\ noted.line = 0 /\ noted.tail = 0
  BY <1>1, SocketFacts DEF NotedSet
<1>3. /\ logbook \in Seq(Rows) /\ tail \in Seq(1..MaxFrames) /\ Len(logbook) = 0 /\ Len(tail) = 0
      /\ DOMAIN logbook = {} /\ DOMAIN tail = {}
  BY <1>1, NoMembers
<1>4. NumbersOf(tail) = {} /\ BookOK(logbook, 0, 0) /\ RisingNumbers(tail)
  BY <1>3 DEF NumbersOf, BookOK, Rising, RisingNumbers
<1>5. BookInv
  BY <1>2, <1>3, <1>4, SocketFacts DEF BookInv, EndOf
<1>6. HeardFirst /\ FramesTypeOK
  BY <1>1, <1>2, SocketFacts DEF HeardFirst, FramesTypeOK
<1> QED BY <1>5, <1>6, EarStart DEF SocketInv

LEMMA NumbersAppended ==
  ASSUME NEW S \in SUBSET Nat, NEW q \in Seq(S), NEW x \in S, RisingNumbers(q), \A y \in NumbersOf(q) : y < x
  PROVE  RisingNumbers(Append(q, x)) /\ NumbersOf(Append(q, x)) = NumbersOf(q) \cup {x}
<1> DEFINE p == Append(q, x)
<1>1. /\ p[Len(q) + 1] = x
      /\ \A i \in DOMAIN q : p[i] = q[i] /\ i \in DOMAIN p /\ i \in Nat /\ i <= Len(q)
      /\ \A i \in DOMAIN p : i \in DOMAIN q \/ i = Len(q) + 1
      /\ Len(q) \in Nat /\ Len(q) + 1 \in DOMAIN p
  BY AppendIs
<1> HIDE DEF p
<1>2. RisingNumbers(p)
  <2> SUFFICES ASSUME NEW i \in DOMAIN p, NEW j \in DOMAIN p, i < j PROVE p[i] < p[j]
    BY DEF RisingNumbers
  <2>1. i \in DOMAIN q
    BY <1>1
  <2>2. CASE j \in DOMAIN q
    BY <1>1, <2>1, <2>2 DEF RisingNumbers
  <2>3. CASE j = Len(q) + 1
    BY <1>1, <2>1, <2>3 DEF NumbersOf
  <2> QED BY <1>1, <2>2, <2>3
<1>3. NumbersOf(p) = NumbersOf(q) \cup {x}
  BY <1>1 DEF NumbersOf
<1> QED BY <1>2, <1>3 DEF p

LEMMA RenderStep ==
  ASSUME SocketInv, RenderFrames
  PROVE  BookInv' /\ HeardFirst' /\ UNCHANGED <<socketVars, frameVars>>
<1> DEFINE one == IsNew(lastBuild, noted.frame)
           two == IsNew(lastLine, noted.line)
           q1 == logbook \o Row(one, "Claude", lastBuild)
           q2 == q1 \o Row(two, "app", lastLine)
           q3 == q2 \o Row(WordLogged, target, 0)
           new == IF two THEN {lastLine} ELSE {}
<1>t. /\ lastBuild \in 0..MaxFrames /\ lastLine \in 0..MaxFrames /\ MaxFrames \in Nat
      /\ lastBuild \in Nat /\ lastLine \in Nat
      /\ target \in TargetWords \cup {"unheard"} /\ noted \in NotedSet
      /\ noted.frame \in Nat /\ noted.line \in Nat /\ noted.tail = noted.line
      /\ noted.frame <= lastBuild /\ noted.line <= lastLine
      /\ BookOK(logbook, noted.frame, noted.line) /\ tail \in Seq(1..MaxFrames) /\ Len(tail) <= TailLimit
      /\ RisingNumbers(tail) /\ \A x \in NumbersOf(tail) : x <= noted.line
  BY SocketFacts DEF SocketInv, FramesTypeOK, HeardFirst, BookInv, NotedSet
<1>b. one \in BOOLEAN /\ two \in BOOLEAN /\ WordLogged \in BOOLEAN
  BY DEF IsNew, WordLogged
<1>n. /\ one => lastBuild \in 1..MaxFrames /\ noted.frame < lastBuild
      /\ two => lastLine \in 1..MaxFrames /\ noted.line < lastLine
      /\ WordLogged => target \in TargetWords
  BY <1>t DEF IsNew, WordLogged, WordChanged
<1>w. target # "Claude" /\ target # "app"
  BY <1>t DEF TargetWords
<1>r. /\ one => [of |-> "Claude", n |-> lastBuild] \in Rows
      /\ two => [of |-> "app", n |-> lastLine] \in Rows
      /\ WordLogged => [of |-> target, n |-> 0] \in Rows
  BY <1>n, <1>t DEF Rows
<1>0. /\ logbook' = Newest(q3, LogbookLimit)
      /\ tail' = (IF WordLogged /\ target \in {"none", "down"} THEN <<>>
                  ELSE IF two THEN Newest(Append(tail, lastLine), TailLimit) ELSE tail)
      /\ noted' = [frame |-> lastBuild, line |-> lastLine, tail |-> lastLine, word |-> target]
      /\ UNCHANGED <<socketVars, frameVars>>
  BY <1>t DEF RenderFrames
<1> HIDE DEF one, two
<1>1. BookOK(q1, lastBuild, noted.line) /\ AppLines(q1) = AppLines(logbook)
  <2>1. one => noted.frame < lastBuild /\ lastBuild <= lastBuild
    BY <1>n, <1>t
  <2> QED BY <1>t, <1>b, <1>r, <2>1, FrameNoted
<1> HIDE DEF q1
<1>2. BookOK(q2, lastBuild, lastLine) /\ AppLines(q2) = AppLines(logbook) \cup new
  <2>1. two => noted.line < lastLine /\ lastLine <= lastLine
    BY <1>n, <1>t
  <2> QED BY <1>t, <1>b, <1>r, <1>1, <2>1, LineNoted
<1> HIDE DEF q2
<1>3. BookOK(q3, lastBuild, lastLine) /\ AppLines(q3) = AppLines(logbook) \cup new
  <2>1. /\ BookOK(q2 \o Row(WordLogged, target, 0), lastBuild, lastLine)
        /\ AppLines(q2 \o Row(WordLogged, target, 0))
             = AppLines(q2) \cup IF WordLogged /\ target = "app" THEN {0} ELSE {}
    BY <1>t, <1>b, <1>r, <1>2, <1>w, RowNoted
  <2> QED BY <1>2, <1>w, <2>1
<1> HIDE DEF q3
<1>4. PICK k \in Nat : LeftOf(logbook', q3, k)
  BY <1>0, <1>3, SocketFacts, NewestOK DEF BookOK
<1>5. logbook' \in Seq(Rows) /\ Len(logbook') <= LogbookLimit
  BY <1>0, <1>3, SocketFacts, NewestOK DEF BookOK
<1>6. Rising(logbook') /\ EndOf(AppLines(logbook'), AppLines(logbook) \cup new)
  BY <1>3, <1>4, LeftRows DEF BookOK
<1>7. BookOK(logbook', lastBuild, lastLine)
  <2>1. \A i \in DOMAIN logbook' : i + k \in DOMAIN q3 /\ logbook'[i] = q3[i + k]
    BY <1>4 DEF LeftOf
  <2> QED BY <1>3, <1>5, <1>6, <2>1 DEF BookOK
<1>8. \A x \in AppLines(logbook) \cup NumbersOf(tail) : x \in Nat /\ x <= noted.line
  <2>1. \A i \in DOMAIN logbook : logbook[i].n \in Nat
    BY <1>t, SeqMembers, RowNumbers DEF BookOK
  <2>2. \A x \in AppLines(logbook) : x \in Nat /\ x <= noted.line
    BY <1>t, <2>1 DEF AppLines, BookOK
  <2>3. \A x \in NumbersOf(tail) : x \in Nat
    BY <1>t, SeqMembers DEF NumbersOf
  <2> QED BY <1>t, <2>2, <2>3
<1>9. /\ tail' \in Seq(1..MaxFrames) /\ Len(tail') <= TailLimit
      /\ RisingNumbers(tail') /\ \A x \in NumbersOf(tail') : x <= lastLine
      /\ NumbersOf(tail') = {} \/ EndOf(NumbersOf(tail'), NumbersOf(tail) \cup new)
  <2>1. CASE WordLogged /\ target \in {"none", "down"}
    <3>1. tail' = <<>>
      BY <1>0, <2>1
    <3>2. tail' \in Seq(1..MaxFrames) /\ Len(tail') = 0 /\ DOMAIN tail' = {}
      BY <3>1, NoMembers
    <3> QED BY <3>2, SocketFacts DEF RisingNumbers, NumbersOf
  <2>2. CASE ~(WordLogged /\ target \in {"none", "down"}) /\ two
    <3> DEFINE q == Append(tail, lastLine)
    <3>1. tail' = Newest(q, TailLimit)
      BY <1>0, <2>2
    <3>2. lastLine \in 1..MaxFrames /\ 1..MaxFrames \in SUBSET Nat /\ new = {lastLine}
          /\ \A y \in NumbersOf(tail) : y < lastLine
      BY <1>t, <1>n, <1>8, <2>2
    <3>3. RisingNumbers(q) /\ NumbersOf(q) = NumbersOf(tail) \cup new /\ q \in Seq(1..MaxFrames)
      BY <1>t, <3>2, NumbersAppended
    <3> HIDE DEF q
    <3>4. tail' \in Seq(1..MaxFrames) /\ Len(tail') <= TailLimit
      BY <3>1, <3>3, NewestOK, SocketFacts
    <3>5. PICK m \in Nat : LeftOf(tail', q, m)
      BY <3>1, <3>3, NewestOK, SocketFacts
    <3>6. RisingNumbers(tail') /\ EndOf(NumbersOf(tail'), NumbersOf(tail) \cup new)
      BY <3>3, <3>5, LeftRising
    <3>7. \A x \in NumbersOf(tail') : x <= lastLine
      <4>1. NumbersOf(tail') \subseteq NumbersOf(tail) \cup {lastLine}
        BY <3>2, <3>6 DEF EndOf
      <4>2. \A x \in NumbersOf(tail) : x <= lastLine
        BY <1>t, <1>8
      <4> HIDE DEF new
      <4> QED BY <1>t, <4>1, <4>2
    <3> QED BY <3>4, <3>6, <3>7
  <2>3. CASE ~(WordLogged /\ target \in {"none", "down"}) /\ ~two
    <3>1. tail' = tail /\ new = {}
      BY <1>0, <2>3
    <3>2. EndOf(NumbersOf(tail), NumbersOf(tail) \cup {})
      BY DEF EndOf
    <3>3. \A x \in NumbersOf(tail) : x <= lastLine
      BY <1>t, <1>8
    <3> QED BY <1>t, <3>1, <3>2, <3>3
  <2> QED BY <2>1, <2>2, <2>3
<1>10. \/ EndOf(NumbersOf(tail'), AppLines(logbook')) \/ EndOf(AppLines(logbook'), NumbersOf(tail'))
  <2>1. CASE NumbersOf(tail') = {}
    BY <2>1 DEF EndOf
  <2>2. CASE EndOf(NumbersOf(tail'), NumbersOf(tail) \cup new)
    <3>1. /\ AppLines(logbook) \in SUBSET Nat /\ NumbersOf(tail) \in SUBSET Nat /\ new \in SUBSET Nat
      BY <1>8, <1>t
    <3>2. \A x \in new, y \in AppLines(logbook) \cup NumbersOf(tail) : y < x
      BY <1>8, <1>n, <1>t
    <3>3. EndOf(NumbersOf(tail), AppLines(logbook)) \/ EndOf(AppLines(logbook), NumbersOf(tail))
      BY DEF SocketInv, BookInv
    <3> HIDE DEF new
    <3> QED BY <1>6, <2>2, <3>1, <3>2, <3>3, EndsStayEnds
  <2> QED BY <1>9, <2>1, <2>2
<1>11. noted' \in NotedSet /\ noted'.frame = lastBuild /\ noted'.line = lastLine /\ noted'.tail = lastLine
  BY <1>0, <1>t DEF NotedSet
<1>12. UNCHANGED <<lastBuild, lastLine, framesSent>>
  BY <1>0 DEF frameVars
<1>13. HeardFirst'
  BY <1>t, <1>11, <1>12 DEF SocketInv, HeardFirst
<1>14. BookInv'
  BY <1>5, <1>7, <1>9, <1>10, <1>11 DEF BookInv
<1> QED BY <1>0, <1>13, <1>14

LEMMA SocketStep == SocketInv /\ JigSocketNext => SocketInv'
<1> SUFFICES ASSUME SocketInv, JigSocketNext PROVE SocketInv'
  OBVIOUS
<1>1. ASSUME EarInv', UNCHANGED <<frameVars, noteVars>> PROVE SocketInv'
  BY <1>1 DEF SocketInv, frameVars, noteVars, FramesTypeOK, HeardFirst, BookInv
<1>2. ASSUME UNCHANGED socketVars PROVE EarInv'
  BY <1>2 DEF SocketInv, EarInv, socketVars, SocketsTypeOK, OneSocket, LastListens, TimerWaits
<1>3. CASE \/ \E s \in Sockets : OnOpen(s) \/ OnError(s) \/ OnClose(s)
           \/ \E e \in 1..MaxEffects : RetryFires(e)
           \/ RunAgain
           \/ HostTurns
  <2>1. EarInv' /\ UNCHANGED <<frameVars, noteVars>>
    BY <1>3, EarStep DEF SocketInv
  <2> QED BY <1>1, <2>1
<1>4. ASSUME NEW s \in Sockets, OnMessage(s) PROVE SocketInv'
  <2>1. /\ framesSent < MaxFrames /\ framesSent' = framesSent + 1
        /\ \/ /\ \E w \in TargetWords : target' = w
              /\ UNCHANGED <<lastBuild, lastLine>>
           \/ lastBuild' = framesSent + 1 /\ UNCHANGED <<target, lastLine>>
           \/ lastLine' = lastLine + 1 /\ UNCHANGED <<target, lastBuild>>
           \/ UNCHANGED <<target, lastBuild, lastLine>>
        /\ UNCHANGED <<socketVars, noteVars>>
    BY <1>4 DEF OnMessage
  <2>2. /\ lastBuild \in 0..MaxFrames /\ lastLine \in 0..MaxFrames /\ framesSent \in 0..MaxFrames
        /\ MaxFrames \in Nat /\ target \in TargetWords \cup {"unheard"} /\ HeardFirst
        /\ noted.frame \in Nat /\ noted.line \in Nat /\ BookInv
    BY SocketFacts DEF SocketInv, FramesTypeOK, BookInv, NotedSet
  <2>3. FramesTypeOK'
    BY <2>1, <2>2 DEF FramesTypeOK, HeardFirst
  <2>4. HeardFirst'
    BY <2>1, <2>2 DEF HeardFirst, noteVars
  <2>5. BookInv'
    BY <2>1, <2>2 DEF noteVars, BookInv
  <2> QED BY <1>2, <2>1, <2>3, <2>4, <2>5 DEF SocketInv
<1>5. CASE RenderFrames
  <2>1. BookInv' /\ HeardFirst' /\ UNCHANGED <<socketVars, frameVars>>
    BY <1>5, RenderStep
  <2> QED BY <1>2, <2>1 DEF SocketInv, FramesTypeOK, frameVars
<1> QED BY <1>3, <1>4, <1>5 DEF JigSocketNext

LEMMA SocketStutter == SocketInv /\ UNCHANGED jigSocketVars => SocketInv'
BY DEF SocketInv, jigSocketVars, socketVars, frameVars, noteVars, EarInv, SocketsTypeOK, OneSocket,
       LastListens, TimerWaits, FramesTypeOK, HeardFirst, BookInv

-----------------------------------------------------------------------------
(* The prompt card                                                         *)

LEMMA RemoveAtIs ==
  ASSUME NEW S, NEW q \in Seq(S), NEW i \in DOMAIN q
  PROVE  /\ RemoveAt(q, i) \in Seq(S)
         /\ \A k \in DOMAIN RemoveAt(q, i) :
              /\ (IF k < i THEN k ELSE k + 1) \in DOMAIN q
              /\ RemoveAt(q, i)[k] = q[IF k < i THEN k ELSE k + 1]
<1> DEFINE a == SubSeq(q, 1, i - 1)
           b == SubSeq(q, i + 1, Len(q))
<1>1. i \in 1 .. Len(q) /\ Len(q) \in Nat /\ DOMAIN q = 1 .. Len(q)
  OBVIOUS
<1>2. /\ a \in Seq(S) /\ Len(a) = i - 1 /\ \A k \in 1 .. i - 1 : a[k] = q[k]
      /\ b \in Seq(S) /\ Len(b) = Len(q) - i /\ \A k \in 1 .. Len(q) - i : b[k] = q[i + k]
  <2>1. /\ i - 1 \in Int /\ i + 1 \in Int /\ 1 \in Int /\ Len(q) \in Int
        /\ \A k \in 1 .. i - 1 : q[k] \in S
        /\ \A k \in i + 1 .. Len(q) : q[k] \in S
    BY <1>1
  <2>2. /\ a \in Seq(S) /\ Len(a) = IF 1 <= i - 1 THEN (i - 1) - 1 + 1 ELSE 0
        /\ \A k \in 1 .. (i - 1) - 1 + 1 : a[k] = q[1 + k - 1]
    BY <2>1, SubSeqProperties DEF a
  <2>3. /\ b \in Seq(S) /\ Len(b) = IF i + 1 <= Len(q) THEN Len(q) - (i + 1) + 1 ELSE 0
        /\ \A k \in 1 .. Len(q) - (i + 1) + 1 : b[k] = q[(i + 1) + k - 1]
    BY <2>1, SubSeqProperties DEF b
  <2> HIDE DEF a, b
  <2>4. /\ Len(a) = i - 1 /\ \A k \in 1 .. i - 1 : a[k] = q[k]
    BY <1>1, <2>2
  <2>5. Len(b) = Len(q) - i
    BY <1>1, <2>3
  <2>6. ASSUME NEW k \in 1 .. Len(q) - i PROVE b[k] = q[i + k]
    <3>1. k \in 1 .. Len(q) - (i + 1) + 1 /\ (i + 1) + k - 1 = i + k
      BY <1>1
    <3> QED BY <2>3, <3>1
  <2> QED BY <2>2, <2>3, <2>4, <2>5, <2>6
<1> HIDE DEF a, b
<1> DEFINE c == a \o b
<1>3. /\ c \in Seq(S) /\ Len(c) = Len(a) + Len(b)
      /\ \A k \in 1 .. Len(a) + Len(b) : c[k] = IF k <= Len(a) THEN a[k] ELSE b[k - Len(a)]
  BY <1>2, ConcatProperties
<1>4. RemoveAt(q, i) = c
  BY DEF RemoveAt, a, b
<1> HIDE DEF c
<1>5. DOMAIN c = 1 .. Len(a) + Len(b) /\ Len(a) + Len(b) = Len(q) - 1
  BY <1>1, <1>2, <1>3
<1>6. ASSUME NEW k \in 1 .. Len(q) - 1
      PROVE  /\ (IF k < i THEN k ELSE k + 1) \in DOMAIN q
             /\ c[k] = q[IF k < i THEN k ELSE k + 1]
  <2>1. CASE k < i
    <3>1. c[k] = q[k] /\ k \in DOMAIN q
      BY <1>1, <1>2, <1>3, <1>5, <2>1
    <3> QED BY <2>1, <3>1
  <2>2. CASE ~(k < i)
    <3>1. c[k] = b[k - (i - 1)] /\ k - (i - 1) \in 1 .. Len(q) - i
      BY <1>1, <1>2, <1>3, <1>5, <2>2
    <3>2. b[k - (i - 1)] = q[k + 1]
      <4>1. i + (k - (i - 1)) = k + 1
        BY <1>1
      <4> QED BY <1>2, <3>1, <4>1
    <3>3. k + 1 \in DOMAIN q
      BY <1>1
    <3> QED BY <2>2, <3>1, <3>2, <3>3
  <2> QED BY <2>1, <2>2
<1> QED BY <1>3, <1>4, <1>5, <1>6

LEMMA MinOf ==
  ASSUME NEW S \in SUBSET Nat, S # {}
  PROVE  Min(S) \in S
<1> DEFINE R == OpToRel(<, Nat)
<1>1. \E x \in S : \A y \in S : <<y, x>> \notin R
  <2> HIDE DEF R
  <2>1. IsWellFoundedOn(R, Nat)
    BY NatLessThanWellFounded DEF R
  <2> QED BY <2>1, WFMin
<1>2. \A x, y \in Nat : <<y, x>> \notin R => x <= y
  BY DEF OpToRel
<1>3. \E x \in S : \A y \in S : x <= y
  BY <1>1, <1>2
<1> QED BY <1>3 DEF Min

CardStates == {"draft", "ready", "building", "built", "scrapped"}
CardOps == {"list", "create", "edit", "polish", "build", "scrap", "restore", "ready"}
TypedSet == [target : CardTargets, of : Benches \cup {NoCard}]
PromptSet == [id : Nat, target : CardTargets, words : Nat, state : CardStates, from : CardStates]
ListSet == [of : Benches, id : Nat, target : CardTargets, words : Nat, state : CardStates,
            from : CardStates]
FetchSet == [op : CardOps, id : Nat, words : Nat, target : CardTargets \cup {NoCard},
             at : Benches \cup {NoCard}, answer : Seq(ListSet)]

\* The bench has a prompt with this number, on this target.
HasPrompt(prompts, id, t) == \E i \in DOMAIN prompts : prompts[i].id = id /\ prompts[i].target = t

\* A prompt the page has, or is being told of, is on the bench it is of.
OnServer(r, stores) == r.of \in Benches /\ HasPrompt(stores[r.of], r.id, r.target)

\* The words a prompt has were typed, and for its target unless it is one of the exceptions.
WordsHonest(b, p, typed, both) ==
  /\ p.words \in DOMAIN typed
  /\ \/ <<b, p.id>> \in both
     \/ typed[p.words].of \notin {b, NoCard}
     \/ typed[p.words].target = p.target

\* What a call carries: a create the words for its target, an edit words for the target of the
\* prompt with that number on the bench whose list it was sent from.
CallHonest(f, stores, typed) ==
  /\ f.op = "create" => /\ f.target \in CardTargets /\ f.words \in DOMAIN typed
                        /\ typed[f.words].target = f.target
                        /\ f.at # NoCard => f.id <= Len(stores[f.at]) + 1
  /\ f.op = "edit" => /\ f.words \in DOMAIN typed /\ typed[f.words].of \in Benches
                      /\ HasPrompt(stores[typed[f.words].of], f.id, typed[f.words].target)
  /\ \A i \in DOMAIN f.answer : OnServer(f.answer[i], stores)

CardTyped ==
  /\ card \in [target : CardTargets \cup {NoCard}, open : BOOLEAN, text : Nat]
  /\ card.open => card.target \in CardTargets
  /\ typedFor \in Seq(TypedSet) /\ bench \in Benches
FilesHonest ==
  /\ files \in [Benches -> Seq(PromptSet)]
  /\ \A b \in Benches : \A i \in DOMAIN files[b] :
       WordsHonest(b, files[b][i], typedFor, shared) /\ files[b][i].id <= Len(files[b])
ListHonest    == list \in Seq(ListSet) /\ \A i \in DOMAIN list : OnServer(list[i], files)
FetchesHonest == fetches \in Seq(FetchSet) /\ \A n \in DOMAIN fetches : CallHonest(fetches[n], files, typedFor)

\* A number is had by two prompts, by a prompt and a create still writing, or by two of those,
\* only if the creates overlapped.
NumbersHonest ==
  /\ NumbersApart
  /\ \A n \in DOMAIN fetches : Writing(fetches[n]) =>
       \A i \in DOMAIN files[fetches[n].at] :
         files[fetches[n].at][i].id = fetches[n].id => <<fetches[n].at, fetches[n].id>> \in shared
  /\ \A n, m \in DOMAIN fetches :
       /\ n # m /\ Writing(fetches[n]) /\ Writing(fetches[m])
       /\ fetches[n].at = fetches[m].at /\ fetches[n].id = fetches[m].id
       => <<fetches[n].at, fetches[n].id>> \in shared

CardInv == CardTyped /\ FilesHonest /\ ListHonest /\ FetchesHonest /\ NumbersHonest

\* At most one timer is armed: that of the hold that is on.
HoldInv ==
  /\ hold \in [on : BOOLEAN, captured : BOOLEAN, held : 0 .. Oath]
  /\ timers = IF hold.on THEN {Oath - hold.held} ELSE {}

LEMMA HoldStart == CardInit => HoldInv
BY CardAssumption DEF CardInit, HoldInv, NoHold

LEMMA HoldStutter == HoldInv /\ UNCHANGED holdVars => HoldInv'
BY DEF HoldInv, holdVars

LEMMA HoldStep == HoldInv /\ CardNext => HoldInv'
<1> SUFFICES ASSUME HoldInv, CardNext PROVE HoldInv'
  OBVIOUS
<1>0. UNCHANGED holdVars => HoldInv'
  BY HoldStutter
<1>n. NoHold \in [on : BOOLEAN, captured : BOOLEAN, held : 0 .. Oath] /\ ~NoHold.on
  BY CardAssumption DEF NoHold
<1>o. hold \in [on : BOOLEAN, captured : BOOLEAN, held : 0 .. Oath] /\ Oath \in Nat \ {0}
      /\ timers = IF hold.on THEN {Oath - hold.held} ELSE {}
  BY CardAssumption DEF HoldInv
<1>1. ASSUME NEW captured \in BOOLEAN, StartHold(captured) PROVE HoldInv'
  <2>1. timers = {}
    BY <1>1, <1>o DEF StartHold
  <2> QED BY <1>1, <1>o, <2>1 DEF StartHold, HoldInv
<1>2. ASSUME NEW r \in BOOLEAN, CancelHold(r) PROVE HoldInv'
  <2>1. timers' = {} /\ hold' = NoHold
    BY <1>2, <1>o DEF CancelHold
  <2> QED BY <1>n, <2>1 DEF HoldInv
<1>3. CASE HoldTick
  <2>1. hold.on /\ timers = {Oath - hold.held} /\ Oath - hold.held # 0
    BY <1>3, <1>o DEF HoldTick
  <2>2. timers' = {Oath - hold.held - 1}
    BY <1>3, <2>1 DEF HoldTick
  <2>3. /\ hold' = [hold EXCEPT !.held = hold.held + 1]
        /\ hold.held + 1 \in 0 .. Oath /\ Oath - hold.held - 1 = Oath - (hold.held + 1)
    BY <1>3, <1>o, <2>1 DEF HoldTick
  <2>4. hold' \in [on : BOOLEAN, captured : BOOLEAN, held : 0 .. Oath]
        /\ hold'.on /\ hold'.held = hold.held + 1
    BY <1>o, <2>1, <2>3
  <2> QED BY <2>2, <2>3, <2>4 DEF HoldInv
<1>4. CASE HoldCompletes
  <2>1. timers' = {} /\ hold' = NoHold
    BY <1>4, <1>o DEF HoldCompletes
  <2> QED BY <1>n, <2>1 DEF HoldInv
<1>5. CASE \/ \E t \in CardTargets : OpenCard(t)
           \/ CloseCard \/ handleCardTextChange \/ (\E i \in DOMAIN list : onRefine(list[i]))
           \/ \E i \in DOMAIN list, op \in {"polish", "build", "scrap", "restore"} :
                CardAsk(op, list[i])
           \/ \E n \in DOMAIN fetches :
                CreateBegins(n) \/ ServeFetch(n) \/ RefuseFetch(n) \/ AnswerLands(n)
           \/ \E b \in Benches : Reclamp(b)
           \/ \E b \in Benches : \E i \in DOMAIN files[b], state \in {"built", "ready"} :
                BuildEnds(b, i, state)
  <2>1. UNCHANGED holdVars
    BY <1>5 DEF OpenCard, CloseCard, handleCardTextChange, CardAsk, ServeFetch, RefuseFetch,
               AnswerLands, BuildEnds, onRefine, CreateBegins, Reclamp
  <2> QED BY <1>0, <2>1
<1> QED BY <1>1, <1>2, <1>3, <1>4, <1>5 DEF CardNext

LEMMA HoldShows == HoldInv => FullOath
BY CardAssumption DEF HoldInv, FullOath, HoldCompletes



LEMMA CallIs ==
  ASSUME NEW op \in CardOps, NEW id \in Nat, NEW words \in Nat, NEW tg \in CardTargets \cup {NoCard}
  PROVE  LET f == CardCall(op, id, words, tg) IN
         /\ f \in FetchSet /\ f.op = op /\ f.id = id /\ f.words = words /\ f.target = tg
         /\ f.at = NoCard /\ DOMAIN f.answer = {}
<1> DEFINE none == <<>>
<1>1. none \in Seq(ListSet) /\ DOMAIN none = {}
  BY NoMembers
<1>2. CardCall(op, id, words, tg)
        = [op |-> op, id |-> id, words |-> words, target |-> tg, at |-> NoCard, answer |-> none]
  BY DEF CardCall
<1> HIDE DEF none
<1> QED BY <1>1, <1>2 DEF FetchSet

LEMMA CardStart == CardInit => CardInv
<1> SUFFICES ASSUME CardInit PROVE CardInv
  OBVIOUS
<1> DEFINE none == <<>>
           first == CardCall("list", 0, 0, NoCard)
<1>1. /\ card = [target |-> NoCard, open |-> FALSE, text |-> 0]
      /\ typedFor = none /\ list = none /\ files = [b \in Benches |-> none]
      /\ fetches = <<first>> /\ bench \in Benches
  BY CardAssumption DEF CardInit
<1>2. /\ none \in Seq(TypedSet) /\ none \in Seq(PromptSet) /\ none \in Seq(ListSet)
      /\ DOMAIN none = {} /\ Len(none) = 0
  BY NoMembers
<1>3. first \in FetchSet /\ first.op = "list" /\ first.at = NoCard /\ DOMAIN first.answer = {}
  BY CallIs DEF CardOps
<1> HIDE DEF none, first
<1>4. CardTyped /\ FilesHonest /\ ListHonest
  BY <1>1, <1>2 DEF CardTyped, FilesHonest, ListHonest
<1>5. fetches \in Seq(FetchSet) /\ \A n \in DOMAIN fetches : fetches[n] = first
  BY <1>1, <1>3
<1>6. CallHonest(first, files, typedFor)
  BY <1>3 DEF CallHonest
<1>7. FetchesHonest
  BY <1>5, <1>6 DEF FetchesHonest
<1>8. NumbersHonest
  <2>1. \A n \in DOMAIN fetches : ~Writing(fetches[n])
    BY <1>3, <1>5 DEF Writing
  <2>2. NumbersApart
    BY <1>1, <1>2 DEF NumbersApart
  <2> QED BY <2>1, <2>2 DEF NumbersHonest
<1> QED BY <1>4, <1>7, <1>8 DEF CardInv

LEMMA CardStutter == CardInv /\ UNCHANGED cardVars => CardInv'
<1> SUFFICES ASSUME CardInv, UNCHANGED cardVars PROVE CardInv'
  OBVIOUS
<1>1. UNCHANGED <<card, typedFor, list, files, fetches, bench, shared>>
  BY DEF cardVars, benchVars
<1>2. CardTyped' /\ FilesHonest' /\ ListHonest'
  BY <1>1 DEF CardInv, CardTyped, FilesHonest, ListHonest
<1>3. FetchesHonest'
  BY <1>1 DEF CardInv, FetchesHonest
<1>4. NumbersHonest'
  BY <1>1 DEF CardInv, NumbersHonest, NumbersApart
<1> QED BY <1>2, <1>3, <1>4 DEF CardInv

LEMMA WritingAt ==
  ASSUME NEW q \in Seq(FetchSet), NEW n \in DOMAIN q, Writing(q[n])
  PROVE  q[n].at \in Benches
<1>1. q[n] \in FetchSet
  OBVIOUS
<1> QED BY <1>1 DEF FetchSet, Writing

\* Prompts are only added, a prompt keeps its number and its target, what was typed for and
\* which numbers are shared stays on record.
OnlyMore ==
  /\ \A b \in Benches : Len(files[b]) \in Nat /\ Len(files'[b]) \in Nat /\ Len(files[b]) <= Len(files'[b])
  /\ \A b \in Benches : \A id, t : HasPrompt(files[b], id, t) => HasPrompt(files'[b], id, t)
  /\ \A w \in DOMAIN typedFor : w \in DOMAIN typedFor' /\ typedFor'[w] = typedFor[w]
  /\ shared \subseteq shared'

LEMMA StaysHonest ==
  ASSUME OnlyMore
  PROVE  /\ \A r : OnServer(r, files) => OnServer(r, files')
         /\ \A f \in FetchSet : CallHonest(f, files, typedFor) => CallHonest(f, files', typedFor')
         /\ \A b \in Benches : \A p : WordsHonest(b, p, typedFor, shared) => WordsHonest(b, p, typedFor', shared')
<1>1. \A r : OnServer(r, files) => OnServer(r, files')
  BY DEF OnlyMore, OnServer
<1>2. ASSUME NEW f \in FetchSet, CallHonest(f, files, typedFor) PROVE CallHonest(f, files', typedFor')
  <2>1. f.op = "create" => /\ f.target \in CardTargets /\ f.words \in DOMAIN typedFor'
                           /\ typedFor'[f.words].target = f.target
    BY <1>2 DEF CallHonest, OnlyMore
  <2>2. f.op = "create" /\ f.at # NoCard => f.id <= Len(files'[f.at]) + 1
    <3>1. f.at # NoCard => f.at \in Benches /\ f.id \in Nat
      BY DEF FetchSet
    <3>2. f.op = "create" /\ f.at # NoCard => f.id <= Len(files[f.at]) + 1
      BY <1>2 DEF CallHonest
    <3>3. f.at # NoCard => /\ Len(files[f.at]) \in Nat /\ Len(files'[f.at]) \in Nat
                           /\ Len(files[f.at]) <= Len(files'[f.at])
      BY <3>1 DEF OnlyMore
    <3> QED BY <3>1, <3>2, <3>3
  <2>3. f.op = "edit" => /\ f.words \in DOMAIN typedFor' /\ typedFor'[f.words].of \in Benches
                         /\ HasPrompt(files'[typedFor'[f.words].of], f.id, typedFor'[f.words].target)
    BY <1>2 DEF CallHonest, OnlyMore
  <2>4. \A i \in DOMAIN f.answer : OnServer(f.answer[i], files')
    BY <1>1, <1>2 DEF CallHonest
  <2> QED BY <2>1, <2>2, <2>3, <2>4 DEF CallHonest
<1>3. \A b \in Benches : \A p : WordsHonest(b, p, typedFor, shared) => WordsHonest(b, p, typedFor', shared')
  BY DEF OnlyMore, WordsHonest
<1> QED BY <1>1, <1>2, <1>3

LEMMA SameMore == ASSUME FilesHonest, UNCHANGED <<files, typedFor>>, shared \subseteq shared' PROVE OnlyMore
<1>1. \A b \in Benches : Len(files[b]) \in Nat
  BY DEF FilesHonest
<1> QED BY <1>1 DEF OnlyMore, FilesHonest

\* The prompts have the numbers they had, and every create still writing is one of those
\* that were.
LEMMA NumbersStay ==
  ASSUME NumbersHonest, FetchesHonest, FetchesHonest', NEW J \in [DOMAIN fetches' -> Int],
         shared \subseteq shared',
         \A b \in Benches : DOMAIN files'[b] = DOMAIN files[b],
         \A b \in Benches : \A i \in DOMAIN files[b] : files'[b][i].id = files[b][i].id,
         \A k, l \in DOMAIN fetches' : J[k] = J[l] => k = l,
         \A k \in DOMAIN fetches' : Writing(fetches'[k]) =>
           /\ J[k] \in DOMAIN fetches /\ Writing(fetches[J[k]])
           /\ fetches[J[k]].at = fetches'[k].at /\ fetches[J[k]].id = fetches'[k].id
  PROVE  NumbersHonest'
<1>1. NumbersApart'
  BY DEF NumbersHonest, NumbersApart
<1>2. \A k \in DOMAIN fetches' : Writing(fetches'[k]) => fetches'[k].at \in Benches
  BY WritingAt DEF FetchesHonest
<1>3. ASSUME NEW k \in DOMAIN fetches', Writing(fetches'[k]), NEW i \in DOMAIN files'[fetches'[k].at],
             files'[fetches'[k].at][i].id = fetches'[k].id
      PROVE  <<fetches'[k].at, fetches'[k].id>> \in shared'
  <2> DEFINE b == fetches'[k].at
  <2>1. b \in Benches /\ J[k] \in DOMAIN fetches /\ Writing(fetches[J[k]])
        /\ fetches[J[k]].at = b /\ fetches[J[k]].id = fetches'[k].id
    BY <1>2, <1>3
  <2>2. i \in DOMAIN files[b] /\ files[b][i].id = fetches'[k].id
    BY <1>3, <2>1
  <2>3. <<fetches[J[k]].at, fetches[J[k]].id>> \in shared
    BY <2>1, <2>2 DEF NumbersHonest
  <2> QED BY <2>1, <2>3
<1>4. ASSUME NEW k \in DOMAIN fetches', NEW l \in DOMAIN fetches', k # l,
             Writing(fetches'[k]), Writing(fetches'[l]),
             fetches'[k].at = fetches'[l].at, fetches'[k].id = fetches'[l].id
      PROVE  <<fetches'[k].at, fetches'[k].id>> \in shared'
  <2>1. J[k] # J[l]
    BY <1>4
  <2>2. <<fetches[J[k]].at, fetches[J[k]].id>> \in shared
    BY <1>4, <2>1 DEF NumbersHonest
  <2> QED BY <1>4, <2>2
<1> QED BY <1>1, <1>3, <1>4 DEF NumbersHonest

\* A call is sent: those in flight stay honest, and the new one is.
LEMMA SentHonest ==
  ASSUME FetchesHonest, OnlyMore, NEW f \in FetchSet, CallHonest(f, files', typedFor'),
         fetches' = Append(fetches, f)
  PROVE  FetchesHonest'
<1>1. /\ fetches' \in Seq(FetchSet)
      /\ \A i \in DOMAIN fetches' : i \in DOMAIN fetches \/ i = Len(fetches) + 1
      /\ \A i \in DOMAIN fetches : fetches'[i] = fetches[i]
      /\ fetches'[Len(fetches) + 1] = f
  BY AppendIs DEF FetchesHonest
<1>2. ASSUME NEW i \in DOMAIN fetches' PROVE CallHonest(fetches'[i], files', typedFor')
  <2>1. CASE i \in DOMAIN fetches
    <3>1. CallHonest(fetches[i], files', typedFor')
      BY <2>1, StaysHonest DEF FetchesHonest
    <3> QED BY <1>1, <2>1, <3>1
  <2> QED BY <1>1, <2>1
<1> QED BY <1>1, <1>2 DEF FetchesHonest

LEMMA SentNumbers ==
  ASSUME FetchesHonest, FetchesHonest', NumbersHonest, NEW f \in FetchSet, f.at = NoCard,
         fetches' = Append(fetches, f), shared \subseteq shared',
         \A b \in Benches : DOMAIN files'[b] = DOMAIN files[b],
         \A b \in Benches : \A i \in DOMAIN files[b] : files'[b][i].id = files[b][i].id
  PROVE  NumbersHonest'
<1>1. /\ \A i \in DOMAIN fetches' : i \in DOMAIN fetches \/ i = Len(fetches) + 1
      /\ \A i \in DOMAIN fetches : fetches'[i] = fetches[i]
      /\ fetches'[Len(fetches) + 1] = f
      /\ DOMAIN fetches' \subseteq Int
  BY AppendIs DEF FetchesHonest
<1>2. ~Writing(f)
  BY DEF Writing
<1> DEFINE J == [k \in DOMAIN fetches' |-> k]
<1>3. /\ J \in [DOMAIN fetches' -> Int]
      /\ \A k \in DOMAIN fetches' : J[k] = k
  BY <1>1
<1>4. \A k \in DOMAIN fetches' : Writing(fetches'[k]) => k \in DOMAIN fetches /\ fetches'[k] = fetches[k]
  BY <1>1, <1>2
<1> HIDE DEF J
<1> QED BY <1>3, <1>4, NumbersStay

LEMMA DroppedHonest ==
  ASSUME FetchesHonest, FilesHonest, NumbersHonest, UNCHANGED <<files, typedFor, shared>>,
         NEW n \in DOMAIN fetches, fetches' = RemoveAt(fetches, n)
  PROVE  FetchesHonest' /\ NumbersHonest'
<1> DEFINE from(k) == IF k < n THEN k ELSE k + 1
           J == [k \in DOMAIN fetches' |-> from(k)]
<1>1. /\ fetches' \in Seq(FetchSet)
      /\ \A k \in DOMAIN fetches' : from(k) \in DOMAIN fetches /\ fetches'[k] = fetches[from(k)]
  BY RemoveAtIs DEF FetchesHonest
<1>2. DOMAIN fetches' \subseteq Nat /\ n \in Nat
  BY <1>1 DEF FetchesHonest
<1>3. /\ \A k \in DOMAIN fetches' : from(k) \in Int
      /\ \A k, l \in DOMAIN fetches' : from(k) = from(l) => k = l
  BY <1>2
<1> HIDE DEF from
<1>4. \A j \in DOMAIN fetches : CallHonest(fetches[j], files', typedFor')
  BY DEF FetchesHonest
<1>5. \A k \in DOMAIN fetches' : CallHonest(fetches'[k], files', typedFor')
  BY <1>1, <1>4
<1>6. FetchesHonest'
  BY <1>1, <1>5 DEF FetchesHonest
<1>7. J \in [DOMAIN fetches' -> Int] /\ \A k \in DOMAIN fetches' : J[k] = from(k)
  BY <1>3
<1> HIDE DEF J
<1>8. NumbersHonest'
  <2>1. \A k, l \in DOMAIN fetches' : J[k] = J[l] => k = l
    BY <1>3, <1>7
  <2>2. \A k \in DOMAIN fetches' : J[k] \in DOMAIN fetches /\ fetches'[k] = fetches[J[k]]
    BY <1>1, <1>7
  <2> QED BY <1>6, <1>7, <2>1, <2>2, NumbersStay
<1> QED BY <1>6, <1>8

LEMMA MatchedKnown ==
  ASSUME ListHonest, matchedPrompt # NoCard
  PROVE  /\ matchedPrompt \in ListSet /\ OnServer(matchedPrompt, files)
         /\ matchedPrompt.target = card.target
<1>1. Shown # {} /\ matchedPrompt = list[Min(Shown)]
  BY DEF matchedPrompt
<1>2. Shown \subseteq DOMAIN list /\ Shown \in SUBSET Nat
  BY DEF Shown, ListHonest
<1>3. Min(Shown) \in Shown
  BY <1>1, <1>2, MinOf
<1>4. \A i \in Shown : list[i] \in ListSet /\ OnServer(list[i], files) /\ list[i].target = card.target
  BY <1>2 DEF ListHonest, Shown, targetsMatch
<1> QED BY <1>1, <1>3, <1>4

\* The words are typed for the target the card is on, and that is the target of the prompt
\* they are sent to, on the bench its list was read from.
LEMMA TextStep == CardInv /\ handleCardTextChange => CardInv'
<1> SUFFICES ASSUME CardInv, handleCardTextChange PROVE CardInv'
  OBVIOUS
<1> DEFINE w == Len(typedFor) + 1
           edit == CardCall("edit", matchedPrompt.id, w, NoCard)
           new == CardCall("create", 0, w, card.target)
           typed(o) == [target |-> card.target, of |-> o]
<1>1. /\ card.target \in CardTargets /\ typedFor \in Seq(TypedSet) /\ bench \in Benches
      /\ card \in [target : CardTargets \cup {NoCard}, open : BOOLEAN, text : Nat]
      /\ FilesHonest /\ ListHonest /\ FetchesHonest /\ NumbersHonest
  BY DEF CardInv, CardTyped, handleCardTextChange
<1>2. /\ UNCHANGED <<list, files, settled, bench, shared>>
      /\ \/ /\ matchedPrompt # NoCard /\ fetches' = Append(fetches, edit) /\ card' = card
            /\ typedFor' = Append(typedFor, typed(matchedPrompt.of))
         \/ /\ fetches' = Append(fetches, new) /\ card' = [card EXCEPT !.text = w]
            /\ typedFor' = Append(typedFor, typed(NoCard))
  BY DEF handleCardTextChange, Fetch, benchVars
<1>3. matchedPrompt # NoCard => /\ matchedPrompt.id \in Nat /\ matchedPrompt.of \in Benches
                                /\ HasPrompt(files[matchedPrompt.of], matchedPrompt.id, card.target)
  BY <1>1, MatchedKnown DEF OnServer, ListSet
<1> HIDE DEF matchedPrompt
<1>4. PICK o \in Benches \cup {NoCard} :
        /\ typedFor' = Append(typedFor, typed(o))
        /\ \/ /\ matchedPrompt # NoCard /\ fetches' = Append(fetches, edit) /\ card' = card
              /\ o = matchedPrompt.of
           \/ fetches' = Append(fetches, new) /\ card' = [card EXCEPT !.text = w]
  BY <1>2, <1>3
<1>5. typed(o) \in TypedSet /\ typed(o).target = card.target /\ typed(o).of = o
  BY <1>1 DEF TypedSet
<1> HIDE DEF typed
<1>6. /\ typedFor' \in Seq(TypedSet) /\ w \in DOMAIN typedFor' /\ w \in Nat
      /\ typedFor'[w].target = card.target /\ typedFor'[w].of = o
      /\ \A i \in DOMAIN typedFor : i \in DOMAIN typedFor' /\ typedFor'[i] = typedFor[i]
  BY <1>1, <1>4, <1>5, AppendIs
<1> HIDE DEF w
<1>7. OnlyMore
  <2>1. \A b \in Benches : Len(files[b]) \in Nat
    BY <1>1 DEF FilesHonest
  <2> QED BY <1>2, <1>6, <2>1 DEF OnlyMore
<1>8. CardTyped'
  <2>1. /\ card' \in [target : CardTargets \cup {NoCard}, open : BOOLEAN, text : Nat]
        /\ card'.target = card.target
    BY <1>1, <1>4, <1>6
  <2> QED BY <1>1, <1>2, <1>6, <2>1 DEF CardTyped
<1>9. FilesHonest' /\ ListHonest'
  <2>1. \A b \in Benches : \A i \in DOMAIN files[b] : WordsHonest(b, files[b][i], typedFor', shared')
    BY <1>1, <1>7, StaysHonest DEF FilesHonest
  <2> QED BY <1>1, <1>2, <1>7, <2>1, StaysHonest DEF FilesHonest, ListHonest
<1>10. FetchesHonest' /\ NumbersHonest'
  <2>1. CASE /\ matchedPrompt # NoCard /\ fetches' = Append(fetches, edit) /\ o = matchedPrompt.of
    <3>1. /\ edit \in FetchSet /\ edit.op = "edit" /\ edit.id = matchedPrompt.id /\ edit.words = w
          /\ edit.at = NoCard /\ DOMAIN edit.answer = {}
      BY <1>3, <1>6, <2>1, CallIs DEF CardOps
    <3> HIDE DEF edit
    <3>2. CallHonest(edit, files', typedFor')
      BY <1>2, <1>3, <1>6, <2>1, <3>1 DEF CallHonest
    <3>3. FetchesHonest'
      BY <1>1, <1>7, <2>1, <3>1, <3>2, SentHonest
    <3> QED BY <1>1, <1>2, <2>1, <3>1, <3>3, SentNumbers
  <2>2. CASE fetches' = Append(fetches, new)
    <3>1. /\ new \in FetchSet /\ new.op = "create" /\ new.target = card.target /\ new.words = w
          /\ new.at = NoCard /\ DOMAIN new.answer = {}
      BY <1>1, <1>6, CallIs DEF CardOps
    <3> HIDE DEF new
    <3>2. CallHonest(new, files', typedFor')
      BY <1>1, <1>6, <3>1 DEF CallHonest
    <3>3. FetchesHonest'
      BY <1>1, <1>7, <2>2, <3>1, <3>2, SentHonest
    <3> QED BY <1>1, <1>2, <2>2, <3>1, <3>3, SentNumbers
  <2> QED BY <1>4, <2>1, <2>2
<1> QED BY <1>8, <1>9, <1>10 DEF CardInv

\* A call without words: about a prompt the page has, or for the list.
LEMMA CallSent ==
  ASSUME FilesHonest, FetchesHonest, NumbersHonest, OnlyMore,
         NEW op \in CardOps \ {"create", "edit"}, NEW id \in Nat, Fetch(op, id, 0, NoCard),
         \A b \in Benches : DOMAIN files'[b] = DOMAIN files[b],
         \A b \in Benches : \A i \in DOMAIN files[b] : files'[b][i].id = files[b][i].id
  PROVE  FetchesHonest' /\ NumbersHonest'
<1> DEFINE f == CardCall(op, id, 0, NoCard)
<1>1. f \in FetchSet /\ f.op = op /\ f.id = id /\ f.at = NoCard /\ DOMAIN f.answer = {}
  BY CallIs
<1>2. fetches' = Append(fetches, f)
  BY DEF Fetch
<1> HIDE DEF f
<1>3. CallHonest(f, files', typedFor')
  BY <1>1 DEF CallHonest
<1>4. FetchesHonest'
  BY <1>1, <1>2, <1>3, SentHonest
<1> QED BY <1>1, <1>2, <1>4, SentNumbers DEF OnlyMore

LEMMA RewrittenIs ==
  ASSUME NEW f \in FetchSet, NEW p \in PromptSet,
         f.op \in {"edit", "ready", "build", "scrap", "restore"}
  PROVE  /\ Rewritten(f, p) \in PromptSet /\ Rewritten(f, p).target = p.target
         /\ Rewritten(f, p).id = p.id
         /\ Rewritten(f, p).words = IF f.op = "edit" THEN f.words ELSE p.words
<1>1. f.words \in Nat /\ p.state \in CardStates /\ p.from \in CardStates
  BY DEF FetchSet, PromptSet
<1>2. CASE f.op = "edit"
  <2>1. Rewritten(f, p) = [p EXCEPT !.words = f.words]
    BY <1>2 DEF Rewritten
  <2> QED BY <1>1, <1>2, <2>1 DEF PromptSet
<1>3. CASE f.op # "edit"
  <2> DEFINE s == IF f.op = "restore" THEN p.from
                  ELSE [ready |-> "ready", build |-> "building", scrap |-> "scrapped"][f.op]
  <2>1. s \in CardStates
    BY <1>1, <1>3 DEF CardStates
  <2>2. Rewritten(f, p) = [p EXCEPT !.from = p.state, !.state = s]
    BY <1>3 DEF Rewritten
  <2> HIDE DEF s
  <2>3. Rewritten(f, p) = [id |-> p.id, target |-> p.target, words |-> p.words, state |-> s,
                           from |-> p.state]
    BY <2>2 DEF PromptSet
  <2> QED BY <1>1, <1>3, <2>1, <2>3 DEF PromptSet
<1> QED BY <1>2, <1>3

LEMMA HolderIs ==
  ASSUME NEW prompts \in Seq(PromptSet), NEW id, Holders(prompts, id) # {}
  PROVE  Holder(prompts, id) \in DOMAIN prompts /\ prompts[Holder(prompts, id)].id = id
<1>1. Holders(prompts, id) \in SUBSET Nat
  BY DEF Holders
<1>2. Holder(prompts, id) \in Holders(prompts, id)
  BY <1>1, MinOf DEF Holder
<1> QED BY <1>2 DEF Holders

\* The next number is above all there are, and not more than one above their count.
LEMMA NextIdIs ==
  ASSUME NEW prompts \in Seq(PromptSet), \A i \in DOMAIN prompts : prompts[i].id <= Len(prompts)
  PROVE  /\ nextId(prompts) \in Nat /\ nextId(prompts) <= Len(prompts) + 1
         /\ \A i \in DOMAIN prompts : prompts[i].id # nextId(prompts)
<1> DEFINE S == {n \in 1 .. Len(prompts) + 1 : \A i \in DOMAIN prompts : prompts[i].id < n}
<1>1. \A i \in DOMAIN prompts : prompts[i].id \in Nat
  <2>1. \A i \in DOMAIN prompts : prompts[i] \in PromptSet
    OBVIOUS
  <2> QED BY <2>1 DEF PromptSet
<1>2. Len(prompts) + 1 \in S
  BY <1>1
<1>3. S \in SUBSET Nat
  OBVIOUS
<1> HIDE DEF S
<1>4. Min(S) \in S
  BY <1>2, <1>3, MinOf
<1>5. nextId(prompts) = Min(S)
  BY DEF nextId, S
<1> QED BY <1>1, <1>4, <1>5 DEF S

\* A create that begins has a number no prompt of the bench has.
LEMMA BeginStep ==
  ASSUME CardInv, NEW n \in DOMAIN fetches, CreateBegins(n)
  PROVE  CardInv'
<1>1. PICK id : id = nextId(files[bench])
  OBVIOUS
<1>2. /\ fetches[n].op = "create" /\ fetches[n].at = NoCard
      /\ fetches' = [fetches EXCEPT ![n].at = bench, ![n].id = id]
      /\ shared' = IF \E m \in DOMAIN fetches : /\ Writing(fetches[m])
                                                /\ fetches[m].at = bench /\ fetches[m].id = id
                   THEN shared \cup {<<bench, id>>} ELSE shared
      /\ UNCHANGED <<card, typedFor, list, files, bench>>
  BY <1>1 DEF CreateBegins, pageVars
<1>3. /\ CardTyped /\ FilesHonest /\ ListHonest /\ FetchesHonest /\ NumbersHonest
      /\ bench \in Benches /\ files[bench] \in Seq(PromptSet)
      /\ \A i \in DOMAIN files[bench] : files[bench][i].id <= Len(files[bench])
  BY DEF CardInv, CardTyped, FilesHonest
<1>4. /\ id \in Nat /\ id <= Len(files[bench]) + 1
      /\ \A i \in DOMAIN files[bench] : files[bench][i].id # id
  BY <1>1, <1>3, NextIdIs
<1>5. shared \subseteq shared'
  BY <1>2
<1>6. OnlyMore
  BY <1>2, <1>3, <1>5, SameMore
<1>7. PICK g : g = [fetches[n] EXCEPT !.at = bench, !.id = id]
  OBVIOUS
<1>8. fetches \in Seq(FetchSet) /\ fetches[n] \in FetchSet /\ CallHonest(fetches[n], files, typedFor)
  BY <1>3 DEF FetchesHonest
<1>9. /\ g \in FetchSet /\ g.op = "create" /\ g.at = bench /\ g.id = id /\ g.words = fetches[n].words
      /\ g.target = fetches[n].target /\ g.answer = fetches[n].answer
  BY <1>2, <1>3, <1>4, <1>7, <1>8 DEF FetchSet
<1>10. /\ fetches' \in Seq(FetchSet) /\ DOMAIN fetches' = DOMAIN fetches
       /\ \A k \in DOMAIN fetches : fetches'[k] = IF k = n THEN g ELSE fetches[k]
  <2>1. fetches' = [fetches EXCEPT ![n] = g]
    BY <1>2, <1>7
  <2> QED BY <1>8, <1>9, <2>1
<1>11. CallHonest(g, files', typedFor')
  <2>1. CallHonest(fetches[n], files', typedFor')
    BY <1>6, <1>8, StaysHonest
  <2> QED BY <1>2, <1>4, <1>9, <2>1 DEF CallHonest
<1>12. FetchesHonest'
  <2>1. \A k \in DOMAIN fetches : CallHonest(fetches[k], files', typedFor')
    BY <1>3, <1>6, StaysHonest DEF FetchesHonest
  <2> QED BY <1>10, <1>11, <2>1 DEF FetchesHonest
<1>13. CardTyped' /\ ListHonest'
  BY <1>2, <1>3 DEF CardTyped, ListHonest
<1>14. FilesHonest'
  <2>1. \A b \in Benches : \A i \in DOMAIN files[b] : WordsHonest(b, files[b][i], typedFor', shared')
    BY <1>3, <1>6, StaysHonest DEF FilesHonest
  <2> QED BY <1>2, <1>3, <2>1 DEF FilesHonest
<1>15. NumbersHonest'
  <2>1. NumbersApart'
    BY <1>2, <1>3, <1>5 DEF NumbersHonest, NumbersApart
  <2>2. ASSUME NEW k \in DOMAIN fetches, Writing(fetches'[k]),
               NEW i \in DOMAIN files[fetches'[k].at], files[fetches'[k].at][i].id = fetches'[k].id
        PROVE  <<fetches'[k].at, fetches'[k].id>> \in shared'
    <3>1. k # n
      BY <1>4, <1>9, <1>10, <2>2
    <3> QED BY <1>3, <1>5, <1>10, <2>2, <3>1 DEF NumbersHonest
  <2>3. ASSUME NEW k \in DOMAIN fetches, NEW l \in DOMAIN fetches, k # l,
               Writing(fetches'[k]), Writing(fetches'[l]),
               fetches'[k].at = fetches'[l].at, fetches'[k].id = fetches'[l].id
        PROVE  <<fetches'[k].at, fetches'[k].id>> \in shared'
    <3>1. CASE k # n /\ l # n
      BY <1>3, <1>5, <1>10, <2>3, <3>1 DEF NumbersHonest
    <3>2. ASSUME NEW m \in DOMAIN fetches, m # n, Writing(fetches'[m]),
                 fetches'[m].at = bench, fetches'[m].id = id
          PROVE  <<bench, id>> \in shared'
      <4>1. fetches'[m] = fetches[m]
        BY <1>10, <3>2
      <4> QED BY <1>2, <3>2, <4>1
    <3>3. CASE k = n \/ l = n
      <4>1. fetches'[n].at = bench /\ fetches'[n].id = id
        BY <1>9, <1>10
      <4> QED BY <2>3, <3>2, <3>3, <4>1
    <3> QED BY <3>1, <3>3
  <2>4. files' = files /\ DOMAIN fetches' = DOMAIN fetches
    BY <1>2, <1>10
  <2> QED BY <2>1, <2>2, <2>3, <2>4 DEF NumbersHonest
<1> QED BY <1>12, <1>13, <1>14, <1>15 DEF CardInv

\* What the bench does with a call other than a create: its prompts keep number and target,
\* and the words of one may be those of the edit.
LEMMA ServedIs ==
  ASSUME NEW f \in FetchSet, f.op # "create", NEW prompts \in Seq(PromptSet), Grants(f, prompts)
  PROVE  /\ Served(f, prompts) \in Seq(PromptSet) /\ DOMAIN Served(f, prompts) = DOMAIN prompts
         /\ f.op # "list" => Holders(prompts, f.id) # {}
         /\ \A i \in DOMAIN prompts :
              /\ Served(f, prompts)[i].id = prompts[i].id
              /\ Served(f, prompts)[i].target = prompts[i].target
              /\ \/ Served(f, prompts)[i].words = prompts[i].words
                 \/ f.op = "edit" /\ prompts[i].id = f.id /\ Served(f, prompts)[i].words = f.words
<1>1. f.op # "list" => Holders(prompts, f.id) # {}
  BY DEF Grants
<1>2. CASE f.op \in {"list", "polish"}
  BY <1>1, <1>2 DEF Served
<1>3. CASE f.op \in {"edit", "ready", "build", "scrap", "restore"}
  <2> DEFINE h == Holder(prompts, f.id)
             q == Rewritten(f, prompts[h])
  <2>1. h \in DOMAIN prompts /\ prompts[h].id = f.id /\ prompts[h] \in PromptSet
    BY <1>1, <1>3, HolderIs
  <2>2. /\ q \in PromptSet /\ q.target = prompts[h].target /\ q.id = prompts[h].id
        /\ q.words = IF f.op = "edit" THEN f.words ELSE prompts[h].words
    BY <1>3, <2>1, RewrittenIs
  <2>3. Served(f, prompts) = [prompts EXCEPT ![h] = q]
    BY <1>3 DEF Served
  <2> HIDE DEF h, q
  <2>4. /\ [prompts EXCEPT ![h] = q] \in Seq(PromptSet)
        /\ DOMAIN [prompts EXCEPT ![h] = q] = DOMAIN prompts
        /\ \A i \in DOMAIN prompts : [prompts EXCEPT ![h] = q][i] = IF i = h THEN q ELSE prompts[i]
    BY <2>1, <2>2
  <2> QED BY <1>1, <2>1, <2>2, <2>3, <2>4
<1>4. f.op \in CardOps
  BY DEF FetchSet
<1> QED BY <1>2, <1>3, <1>4 DEF CardOps

LEMMA CardRecordIs ==
  ASSUME NEW b \in Benches, NEW p \in PromptSet
  PROVE  LET r == CardRecord(b, p) IN
         r \in ListSet /\ r.of = b /\ r.id = p.id /\ r.target = p.target
BY DEF CardRecord, PromptSet, ListSet

\* The answer tells of prompts the bench has.
LEMMA AnsweredHonest ==
  ASSUME NEW b \in Benches, NEW prompts \in Seq(PromptSet), NEW f \in FetchSet,
         f.op = "create" => prompts # <<>>,
         f.op \notin {"list", "create"} => Holders(prompts, f.id) # {}
  PROVE  /\ Answered(f, b, prompts) \in Seq(ListSet)
         /\ \A i \in DOMAIN Answered(f, b, prompts) :
              LET r == Answered(f, b, prompts)[i] IN r.of = b /\ HasPrompt(prompts, r.id, r.target)
<1>1. ASSUME NEW r \in ListSet, r.of = b, HasPrompt(prompts, r.id, r.target),
             Answered(f, b, prompts) = <<r>>
      PROVE  /\ Answered(f, b, prompts) \in Seq(ListSet)
             /\ \A i \in DOMAIN Answered(f, b, prompts) : Answered(f, b, prompts)[i] = r
  <2>1. <<r>> \in Seq(ListSet) /\ \A i \in DOMAIN <<r>> : <<r>>[i] = r
    OBVIOUS
  <2> QED BY <1>1, <2>1
<1>2. ASSUME NEW i \in DOMAIN prompts
      PROVE  LET r == CardRecord(b, prompts[i]) IN
             r \in ListSet /\ r.of = b /\ HasPrompt(prompts, r.id, r.target)
  <2>1. prompts[i] \in PromptSet
    OBVIOUS
  <2> QED BY <2>1, CardRecordIs DEF HasPrompt
<1>3. CASE f.op = "list"
  <2> DEFINE a == [i \in DOMAIN prompts |-> CardRecord(b, prompts[i])]
  <2>1. DOMAIN prompts = 1 .. Len(prompts) /\ Len(prompts) \in Nat
    OBVIOUS
  <2>2. a \in Seq(ListSet)
    BY <1>2, <2>1
  <2>3. Answered(f, b, prompts) = a
    BY <1>3 DEF Answered
  <2> QED BY <1>2, <2>2, <2>3
<1>4. CASE f.op = "create"
  <2>1. Len(prompts) \in DOMAIN prompts
    BY <1>4
  <2>2. Answered(f, b, prompts) = <<CardRecord(b, prompts[Len(prompts)])>>
    BY <1>4 DEF Answered
  <2> QED BY <1>1, <1>2, <2>1, <2>2
<1>5. CASE f.op \notin {"list", "create"}
  <2> DEFINE h == Holder(prompts, f.id)
             r == CardRecord(b, prompts[h])
             q == [r EXCEPT !.words = Polished(Origin(r.words))]
  <2>1. h \in DOMAIN prompts
    BY <1>5, HolderIs
  <2>2. r \in ListSet /\ r.of = b /\ HasPrompt(prompts, r.id, r.target)
    BY <1>2, <2>1
  <2>3. Answered(f, b, prompts) = IF f.op = "polish" THEN <<q>> ELSE <<r>>
    BY <1>5 DEF Answered
  <2> HIDE DEF r
  <2>4. r.words \in Nat
    BY <2>2 DEF ListSet
  <2>5. Polished(Origin(r.words)) \in Nat
    BY <2>4, CardAssumption DEF Polished, Origin
  <2>6. q \in ListSet /\ q.of = r.of /\ q.id = r.id /\ q.target = r.target
    BY <2>2, <2>5 DEF ListSet
  <2> HIDE DEF q
  <2> QED BY <1>1, <2>2, <2>3, <2>6
<1> QED BY <1>3, <1>4, <1>5

\* The bench a call is served by has its prompts in order afterwards, as those of the others.
LEMMA ServedHonest ==
  ASSUME CardInv, NEW n \in DOMAIN fetches, NEW f \in FetchSet, f = fetches[n], f.answer = <<>>,
         NEW b \in Benches, f.op = "create" => b = f.at, f.op # "create" => b = bench,
         Grants(f, files[b]), files' = [files EXCEPT ![b] = Served(f, files[b])],
         UNCHANGED <<typedFor, shared>>
  PROVE  /\ FilesHonest' /\ OnlyMore /\ NumbersApart'
         /\ f.op = "create" => files'[b] # <<>>
         /\ f.op \notin {"list", "create"} => Holders(files'[b], f.id) # {}
<1>1. /\ files \in [Benches -> Seq(PromptSet)] /\ files[b] \in Seq(PromptSet)
      /\ \A c \in Benches : \A i \in DOMAIN files[c] :
           WordsHonest(c, files[c][i], typedFor, shared) /\ files[c][i].id <= Len(files[c])
      /\ CallHonest(f, files, typedFor) /\ NumbersHonest /\ NumbersApart
  BY DEF CardInv, FilesHonest, FetchesHonest, NumbersHonest
<1>2. CASE f.op = "create"
  <2> DEFINE p == [id |-> f.id, target |-> f.target, words |-> f.words, state |-> "draft",
                   from |-> "draft"]
  <2>1. /\ f.target \in CardTargets /\ f.words \in Nat /\ f.id \in Nat /\ f.at = b /\ f.at # NoCard
        /\ f.words \in DOMAIN typedFor /\ typedFor[f.words].target = f.target
        /\ f.id <= Len(files[b]) + 1
    BY <1>1, <1>2, CardAssumption DEF CallHonest, FetchSet
  <2>2. p \in PromptSet /\ p.words = f.words /\ p.target = f.target /\ p.id = f.id
    BY <2>1 DEF PromptSet, CardStates
  <2>3. files' = [files EXCEPT ![b] = Append(files[b], p)]
    BY <1>2 DEF Served
  <2>4. WordsHonest(b, p, typedFor, shared)
    BY <2>1, <2>2 DEF WordsHonest
  <2> HIDE DEF p
  <2>5. PICK new : new = Append(files[b], p)
    OBVIOUS
  <2>6. /\ new \in Seq(PromptSet) /\ Len(new) = Len(files[b]) + 1 /\ new[Len(files[b]) + 1] = p
        /\ \A i \in DOMAIN files[b] : i \in DOMAIN new /\ new[i] = files[b][i]
        /\ \A i \in DOMAIN new : i \in DOMAIN files[b] \/ i = Len(files[b]) + 1
        /\ Len(files[b]) \in Nat
    BY <1>1, <2>2, <2>5, AppendIs
  <2>7. /\ files' \in [Benches -> Seq(PromptSet)]
        /\ \A c \in Benches : files'[c] = IF c = b THEN new ELSE files[c]
    BY <1>1, <2>3, <2>5, <2>6
  <2>8. \A i \in DOMAIN new : WordsHonest(b, new[i], typedFor, shared) /\ new[i].id <= Len(new)
    <3>1. ASSUME NEW i \in DOMAIN files[b] PROVE new[i].id <= Len(new)
      <4>1. files[b][i] \in PromptSet /\ files[b][i].id <= Len(files[b])
        BY <1>1
      <4> QED BY <2>6, <4>1 DEF PromptSet
    <3> QED BY <1>1, <2>1, <2>2, <2>4, <2>6, <3>1
  <2>9. FilesHonest'
    BY <1>1, <2>7, <2>8 DEF FilesHonest
  <2>10. OnlyMore
    <3>1. \A c \in Benches : Len(files[c]) \in Nat
      BY <1>1
    <3>2. \A id, t : HasPrompt(files[b], id, t) => HasPrompt(new, id, t)
      BY <2>6 DEF HasPrompt
    <3> QED BY <2>6, <2>7, <3>1, <3>2 DEF OnlyMore
  <2>11. NumbersApart'
    <3>1. Writing(fetches[n]) /\ fetches[n].at = b /\ fetches[n].id = f.id
      BY <1>2, <2>1 DEF Writing
    <3>2. \A i \in DOMAIN files[b] : files[b][i].id = f.id => <<b, f.id>> \in shared
      BY <1>1, <3>1 DEF NumbersHonest
    <3>3. ASSUME NEW i \in DOMAIN new, NEW j \in DOMAIN new, i # j, new[i].id = new[j].id
          PROVE  <<b, new[i].id>> \in shared
      <4>1. CASE i \in DOMAIN files[b] /\ j \in DOMAIN files[b]
        BY <1>1, <2>6, <3>3, <4>1 DEF NumbersApart
      <4>2. CASE i \notin DOMAIN files[b] \/ j \notin DOMAIN files[b]
        <5>1. new[i].id = f.id
          BY <2>2, <2>6, <3>3, <4>2
        <5>2. \E k \in DOMAIN files[b] : files[b][k].id = f.id
          BY <2>6, <3>3, <4>2, <5>1
        <5> QED BY <3>2, <5>1, <5>2
      <4> QED BY <4>1, <4>2
    <3> QED BY <1>1, <2>7, <3>3 DEF NumbersApart
  <2>12. files'[b] # <<>>
    BY <2>6, <2>7
  <2> QED BY <1>2, <2>9, <2>10, <2>11, <2>12
<1>3. CASE f.op # "create"
  <2>1. PICK new : new = Served(f, files[b])
    OBVIOUS
  <2>2. /\ new \in Seq(PromptSet) /\ DOMAIN new = DOMAIN files[b]
        /\ f.op # "list" => Holders(files[b], f.id) # {}
        /\ \A i \in DOMAIN files[b] :
             /\ new[i].id = files[b][i].id /\ new[i].target = files[b][i].target
             /\ \/ new[i].words = files[b][i].words
                \/ f.op = "edit" /\ files[b][i].id = f.id /\ new[i].words = f.words
    BY <1>1, <1>3, <2>1, ServedIs
  <2>3. /\ files' \in [Benches -> Seq(PromptSet)]
        /\ \A c \in Benches : files'[c] = IF c = b THEN new ELSE files[c]
    BY <1>1, <2>1, <2>2
  <2>4. Len(new) = Len(files[b]) /\ Len(new) \in Nat
    BY <1>1, <2>2
  <2>5. ASSUME NEW i \in DOMAIN files[b] PROVE WordsHonest(b, new[i], typedFor, shared)
    <3>1. WordsHonest(b, files[b][i], typedFor, shared)
      BY <1>1
    <3>2. CASE new[i].words = files[b][i].words
      BY <2>2, <3>1, <3>2 DEF WordsHonest
    <3>3. CASE f.op = "edit" /\ files[b][i].id = f.id /\ new[i].words = f.words
      <4>1. /\ f.words \in DOMAIN typedFor /\ typedFor[f.words].of \in Benches
            /\ HasPrompt(files[typedFor[f.words].of], f.id, typedFor[f.words].target)
        BY <1>1, <3>3 DEF CallHonest
      <4>2. CASE typedFor[f.words].of = b
        <5>1. PICK j \in DOMAIN files[b] : files[b][j].id = f.id /\ files[b][j].target = typedFor[f.words].target
          BY <4>1, <4>2 DEF HasPrompt
        <5>2. i = j \/ <<b, f.id>> \in shared
          BY <1>1, <3>3, <5>1 DEF NumbersApart
        <5> QED BY <2>2, <3>3, <4>1, <5>1, <5>2 DEF WordsHonest
      <4>3. CASE typedFor[f.words].of # b
        BY <3>3, <4>1, <4>3, CardAssumption DEF WordsHonest
      <4> QED BY <4>2, <4>3
    <3> QED BY <2>2, <3>2, <3>3
  <2>6. FilesHonest'
    <3>1. \A i \in DOMAIN new : WordsHonest(b, new[i], typedFor, shared) /\ new[i].id <= Len(new)
      BY <1>1, <2>2, <2>4, <2>5
    <3> QED BY <1>1, <2>3, <3>1 DEF FilesHonest
  <2>7. OnlyMore
    <3>1. \A c \in Benches : Len(files[c]) \in Nat
      BY <1>1
    <3>2. \A id, t : HasPrompt(files[b], id, t) => HasPrompt(new, id, t)
      BY <2>2 DEF HasPrompt
    <3> QED BY <2>3, <2>4, <3>1, <3>2 DEF OnlyMore
  <2>8. NumbersApart'
    BY <1>1, <2>2, <2>3 DEF NumbersApart
  <2>9. f.op # "list" => Holders(files'[b], f.id) # {}
    BY <2>2, <2>3 DEF Holders
  <2> QED BY <1>3, <2>6, <2>7, <2>8, <2>9
<1> QED BY <1>2, <1>3

LEMMA ServeStep ==
  ASSUME CardInv, NEW n \in DOMAIN fetches, ServeFetch(n)
  PROVE  CardInv'
<1>1. PICK f : f = fetches[n]
  OBVIOUS
<1>2. PICK b : b = IF f.op = "create" THEN f.at ELSE bench
  OBVIOUS
<1>3. PICK a : a = Answered(f, b, files'[b])
  OBVIOUS
<1>4. /\ f.answer = <<>> /\ (f.op = "create" => f.at # NoCard) /\ Grants(f, files[b])
      /\ files' = [files EXCEPT ![b] = Served(f, files[b])]
      /\ fetches' = [fetches EXCEPT ![n].answer = a]
      /\ UNCHANGED <<card, typedFor, list, bench, shared>>
  BY <1>1, <1>2, <1>3 DEF ServeFetch, pageVars, benchVars
<1>5. /\ fetches \in Seq(FetchSet) /\ f \in FetchSet /\ CallHonest(f, files, typedFor)
      /\ NumbersHonest /\ b \in Benches
  <2>1. fetches \in Seq(FetchSet) /\ f \in FetchSet /\ CallHonest(f, files, typedFor) /\ NumbersHonest
    BY <1>1 DEF CardInv, FetchesHonest
  <2>2. f.op = "create" => f.at \in Benches
    BY <1>4, <2>1 DEF FetchSet
  <2> QED BY <1>2, <2>1, <2>2 DEF CardInv, CardTyped
<1>6. /\ FilesHonest' /\ OnlyMore /\ NumbersApart'
      /\ f.op = "create" => files'[b] # <<>>
      /\ f.op \notin {"list", "create"} => Holders(files'[b], f.id) # {}
  BY <1>1, <1>2, <1>4, <1>5, ServedHonest
<1>7. a \in Seq(ListSet) /\ \A i \in DOMAIN a : OnServer(a[i], files')
  <2>1. files'[b] \in Seq(PromptSet)
    BY <1>5, <1>6 DEF FilesHonest
  <2> QED BY <1>3, <1>5, <1>6, <2>1, AnsweredHonest DEF OnServer
<1>8. a # <<>> \/ f.op = "list"
  BY <1>3, <1>4 DEF Answered
<1>9. PICK g : g = [f EXCEPT !.answer = a]
  OBVIOUS
<1>10. /\ g \in FetchSet /\ g.op = f.op /\ g.id = f.id /\ g.words = f.words /\ g.target = f.target
       /\ g.at = f.at /\ g.answer = a
  BY <1>5, <1>7, <1>9 DEF FetchSet
<1>11. CallHonest(g, files', typedFor')
  <2>1. CallHonest(f, files', typedFor')
    BY <1>5, <1>6, StaysHonest
  <2> QED BY <1>7, <1>10, <2>1 DEF CallHonest
<1>12. /\ fetches' \in Seq(FetchSet) /\ DOMAIN fetches' = DOMAIN fetches
       /\ \A i \in DOMAIN fetches : fetches'[i] = IF i = n THEN g ELSE fetches[i]
  BY <1>1, <1>4, <1>5, <1>9, <1>10
<1>13. FetchesHonest'
  <2>1. \A i \in DOMAIN fetches : CallHonest(fetches[i], files', typedFor')
    BY <1>6, StaysHonest DEF CardInv, FetchesHonest
  <2> QED BY <1>11, <1>12, <2>1 DEF FetchesHonest
<1>14. ListHonest'
  BY <1>4, <1>6, StaysHonest DEF CardInv, ListHonest
<1>15. CardTyped'
  BY <1>4 DEF CardInv, CardTyped
<1>16. NumbersHonest'
  <2>1. ~Writing(g)
    BY <1>8, <1>10 DEF Writing
  <2>2. \A k \in DOMAIN fetches : Writing(fetches'[k]) => k # n /\ fetches'[k] = fetches[k]
    BY <1>12, <2>1
  <2>3. ASSUME NEW k \in DOMAIN fetches, Writing(fetches'[k]), NEW i \in DOMAIN files'[fetches'[k].at],
               files'[fetches'[k].at][i].id = fetches'[k].id
        PROVE  <<fetches'[k].at, fetches'[k].id>> \in shared'
    <3>1. k # n /\ fetches'[k] = fetches[k] /\ Writing(fetches[k]) /\ fetches[k].at \in Benches
      BY <1>5, <2>2, <2>3, WritingAt
    <3> DEFINE c == fetches[k].at
    <3>2. CASE \E j \in DOMAIN files[c] : files[c][j].id = fetches[k].id
      BY <1>4, <1>5, <2>3, <3>1, <3>2 DEF NumbersHonest
    <3>3. CASE ~\E j \in DOMAIN files[c] : files[c][j].id = fetches[k].id
      <4>1. f.op = "create" /\ c = b /\ f.id = fetches[k].id
        <5>1. c = b
          BY <1>4, <2>3, <3>1, <3>3 DEF CardInv, FilesHonest
        <5>2. files[b] \in Seq(PromptSet) /\ files'[b] = Served(f, files[b])
          BY <1>4, <1>5 DEF CardInv, FilesHonest
        <5>3. f.op = "create"
          <6>1. SUFFICES ASSUME f.op # "create" PROVE FALSE
            OBVIOUS
          <6>2. /\ DOMAIN files'[b] = DOMAIN files[b]
                /\ \A j \in DOMAIN files[b] : files'[b][j].id = files[b][j].id
            BY <1>4, <1>5, <5>2, <6>1, ServedIs
          <6> QED BY <2>3, <3>1, <3>3, <5>1, <6>2
        <5> DEFINE p == [id |-> f.id, target |-> f.target, words |-> f.words, state |-> "draft",
                         from |-> "draft"]
        <5>4. files'[b] = Append(files[b], p) /\ p.id = f.id
          BY <5>2, <5>3 DEF Served
        <5>5. p \in PromptSet
          BY <1>5, <5>3 DEF CallHonest, FetchSet, PromptSet, CardStates
        <5> HIDE DEF p
        <5>6. \/ i \in DOMAIN files[b] /\ files'[b][i] = files[b][i]
              \/ files'[b][i] = p
          BY <2>3, <3>1, <5>1, <5>2, <5>4, <5>5, AppendIs
        <5> QED BY <2>3, <3>1, <3>3, <5>1, <5>3, <5>4, <5>6
      <4>2. Writing(fetches[n]) /\ fetches[n].at = b
        BY <1>1, <1>2, <1>4, <4>1 DEF Writing
      <4> QED BY <1>1, <1>4, <1>5, <2>3, <3>1, <4>1, <4>2 DEF NumbersHonest
    <3> QED BY <3>2, <3>3
  <2>4. \A k, l \in DOMAIN fetches :
          /\ k # l /\ Writing(fetches'[k]) /\ Writing(fetches'[l])
          /\ fetches'[k].at = fetches'[l].at /\ fetches'[k].id = fetches'[l].id
          => <<fetches'[k].at, fetches'[k].id>> \in shared'
    BY <1>4, <1>5, <2>2 DEF NumbersHonest
  <2> QED BY <1>6, <1>12, <2>3, <2>4 DEF NumbersHonest
<1> QED BY <1>6, <1>13, <1>14, <1>15, <1>16 DEF CardInv

LEMMA LandStep ==
  ASSUME CardInv, NEW n \in DOMAIN fetches, AnswerLands(n)
  PROVE  CardInv'
<1> DEFINE f == fetches[n]
           a == f.answer
<1>1. /\ a # <<>> /\ fetches' = RemoveAt(fetches, n)
      /\ list' = IF f.op = "list" THEN a
                 ELSE IF f.op = "create" THEN Append(list, a[1])
                 ELSE patchLocal(f.op, f.id, a[1])
      /\ UNCHANGED <<card, typedFor, files, bench, shared>>
  BY DEF AnswerLands, pageVars, benchVars
<1>2. f \in FetchSet /\ a \in Seq(ListSet) /\ \A i \in DOMAIN a : OnServer(a[i], files)
  <2>1. f \in FetchSet /\ CallHonest(f, files, typedFor)
    BY DEF CardInv, FetchesHonest
  <2>2. a \in Seq(ListSet)
    BY <2>1 DEF FetchSet
  <2> QED BY <2>1, <2>2 DEF CallHonest
<1> HIDE DEF f, a
<1>3. a[1] \in ListSet /\ OnServer(a[1], files)
  <2>1. 1 \in DOMAIN a
    BY <1>1, <1>2
  <2> QED BY <1>2, <2>1
<1>4. list \in Seq(ListSet) /\ \A i \in DOMAIN list : OnServer(list[i], files)
  BY DEF CardInv, ListHonest
<1>5. list' \in Seq(ListSet) /\ \A i \in DOMAIN list' : OnServer(list'[i], files)
  <2>1. CASE f.op = "list"
    BY <1>1, <1>2, <2>1
  <2>2. CASE f.op = "create"
    <3>1. list' = Append(list, a[1])
      BY <1>1, <2>2
    <3>2. /\ list' \in Seq(ListSet) /\ list'[Len(list) + 1] = a[1]
          /\ \A i \in DOMAIN list : list'[i] = list[i]
          /\ \A i \in DOMAIN list' : i \in DOMAIN list \/ i = Len(list) + 1
      BY <1>3, <1>4, <3>1, AppendIs
    <3> QED BY <1>3, <1>4, <3>2
  <2>3. CASE f.op \notin {"list", "create"}
    <3> DEFINE new(i) == IF list[i].id = f.id THEN Patched(f.op, list[i], a[1]) ELSE list[i]
    <3>1. list' = [i \in DOMAIN list |-> new(i)]
      BY <1>1, <2>3 DEF patchLocal
    <3>2. ASSUME NEW p \in ListSet, OnServer(p, files)
          PROVE  Patched(f.op, p, a[1]) \in ListSet /\ OnServer(Patched(f.op, p, a[1]), files)
      <4>1. CASE f.op = "polish"
        <5> DEFINE q == [p EXCEPT !.words = a[1].words]
        <5>1. q \in ListSet /\ q.of = p.of /\ q.id = p.id /\ q.target = p.target
          BY <1>3 DEF ListSet
        <5>2. Patched(f.op, p, a[1]) = q
          BY <4>1 DEF Patched
        <5> HIDE DEF q
        <5> QED BY <3>2, <5>1, <5>2 DEF OnServer
      <4>2. CASE f.op = "build"
        <5> DEFINE q == [p EXCEPT !.state = "building"]
        <5>1. q \in ListSet /\ q.of = p.of /\ q.id = p.id /\ q.target = p.target
          BY DEF ListSet, CardStates
        <5>2. Patched(f.op, p, a[1]) = q
          BY <4>2 DEF Patched
        <5> HIDE DEF q
        <5> QED BY <3>2, <5>1, <5>2 DEF OnServer
      <4>3. CASE f.op \notin {"polish", "build"}
        BY <1>3, <4>3 DEF Patched
      <4> QED BY <4>1, <4>2, <4>3
    <3>3. \A i \in DOMAIN list : new(i) \in ListSet /\ OnServer(new(i), files)
      BY <1>4, <3>2
    <3>4. DOMAIN list = 1 .. Len(list) /\ Len(list) \in Nat
      BY <1>4
    <3> HIDE DEF new
    <3> QED BY <3>1, <3>3, <3>4
  <2> QED BY <2>1, <2>2, <2>3
<1>6. FetchesHonest' /\ NumbersHonest'
  BY <1>1, DroppedHonest DEF CardInv
<1>7. FilesHonest' /\ CardTyped'
  BY <1>1 DEF CardInv, FilesHonest, CardTyped
<1> QED BY <1>1, <1>5, <1>6, <1>7 DEF CardInv, ListHonest

LEMMA EndsStep ==
  ASSUME CardInv, NEW b \in Benches, NEW i \in DOMAIN files[b], NEW state \in {"built", "ready"},
         BuildEnds(b, i, state)
  PROVE  CardInv'
<1> DEFINE p == files[b][i]
           q == [p EXCEPT !.state = state]
<1>1. /\ files \in [Benches -> Seq(PromptSet)] /\ files[b] \in Seq(PromptSet) /\ p \in PromptSet
      /\ \A c \in Benches : \A k \in DOMAIN files[c] :
           WordsHonest(c, files[c][k], typedFor, shared) /\ files[c][k].id <= Len(files[c])
  BY DEF CardInv, FilesHonest
<1>2. q \in PromptSet /\ q.id = p.id /\ q.target = p.target /\ q.words = p.words
  BY <1>1 DEF PromptSet, CardStates
<1>3. /\ files' = [files EXCEPT ![b] = [files[b] EXCEPT ![i] = q]]
      /\ UNCHANGED <<card, typedFor, list, bench, shared>>
  BY DEF BuildEnds, pageVars, benchVars
<1> HIDE DEF q
<1>4. PICK new : new = [files[b] EXCEPT ![i] = q]
  OBVIOUS
<1>5. /\ new \in Seq(PromptSet) /\ DOMAIN new = DOMAIN files[b] /\ Len(new) = Len(files[b])
      /\ \A k \in DOMAIN files[b] : new[k] = IF k = i THEN q ELSE files[b][k]
  BY <1>1, <1>2, <1>4
<1>6. /\ files' \in [Benches -> Seq(PromptSet)]
      /\ \A c \in Benches : files'[c] = IF c = b THEN new ELSE files[c]
  BY <1>1, <1>3, <1>4, <1>5
<1>7. /\ \A c \in Benches : DOMAIN files'[c] = DOMAIN files[c]
      /\ \A c \in Benches : \A k \in DOMAIN files[c] :
           /\ files'[c][k].id = files[c][k].id /\ files'[c][k].target = files[c][k].target
           /\ files'[c][k].words = files[c][k].words
  BY <1>2, <1>5, <1>6
<1>8. OnlyMore
  <2>1. \A c \in Benches : Len(files[c]) \in Nat /\ Len(files'[c]) = Len(files[c])
    <3>1. \A c \in Benches : Len(files[c]) \in Nat
      BY <1>1
    <3> QED BY <1>5, <1>6, <3>1
  <2>2. \A c \in Benches : \A id, t : HasPrompt(files[c], id, t) => HasPrompt(files'[c], id, t)
    BY <1>7 DEF HasPrompt
  <2> QED BY <1>3, <2>1, <2>2 DEF OnlyMore
<1>9. FilesHonest'
  <2>1. \A c \in Benches : Len(files'[c]) = Len(files[c])
    BY <1>5, <1>6
  <2>2. \A c \in Benches : \A k \in DOMAIN files[c] : WordsHonest(c, files'[c][k], typedFor, shared)
    BY <1>1, <1>7 DEF WordsHonest
  <2> QED BY <1>1, <1>3, <1>6, <1>7, <2>1, <2>2 DEF FilesHonest
<1>10. CardTyped' /\ ListHonest'
  BY <1>3, <1>8, StaysHonest DEF CardInv, CardTyped, ListHonest
<1>11. FetchesHonest' /\ NumbersHonest'
  <2>1. CASE Fetch("list", 0, 0, NoCard)
    BY <1>7, <1>8, <2>1, CallSent DEF CardInv, CardOps
  <2>2. CASE UNCHANGED <<settled, fetches, asked>>
    <3>1. FetchesHonest'
      BY <1>8, <2>2, StaysHonest DEF CardInv, FetchesHonest
    <3>2. NumbersHonest'
      <4>1. \A n \in DOMAIN fetches : Writing(fetches[n]) => fetches[n].at \in Benches
        BY WritingAt DEF CardInv, FetchesHonest
      <4>2. NumbersApart'
        BY <1>3, <1>7 DEF CardInv, NumbersHonest, NumbersApart
      <4> QED BY <1>3, <1>7, <2>2, <4>1, <4>2 DEF CardInv, NumbersHonest
    <3> QED BY <3>1, <3>2
  <2> QED BY <2>1, <2>2 DEF BuildEnds
<1> QED BY <1>9, <1>10, <1>11 DEF CardInv

LEMMA CardStep == CardInv /\ CardNext => CardInv'
<1> SUFFICES ASSUME CardInv, CardNext PROVE CardInv'
  OBVIOUS
<1>t. CardTyped /\ FilesHonest /\ ListHonest /\ FetchesHonest /\ NumbersHonest
  BY DEF CardInv
<1>r. ASSUME UNCHANGED <<files, list, typedFor, bench, shared, fetches>>,
             card' \in [target : CardTargets \cup {NoCard}, open : BOOLEAN, text : Nat],
             card'.open => card'.target \in CardTargets
      PROVE  CardInv'
  BY <1>t, <1>r DEF CardInv, CardTyped, FilesHonest, ListHonest, FetchesHonest, NumbersHonest, NumbersApart
<1>k. ASSUME UNCHANGED <<files, list, typedFor, shared, card>>, bench' \in Benches,
             FetchesHonest', NumbersHonest'
      PROVE  CardInv'
  BY <1>t, <1>k DEF CardInv, CardTyped, FilesHonest, ListHonest
<1>s. ASSUME UNCHANGED <<files, list, typedFor, shared, card>>, bench' \in Benches,
             NEW op \in CardOps \ {"create", "edit"}, NEW id \in Nat, Fetch(op, id, 0, NoCard)
      PROVE  CardInv'
  <2>1. OnlyMore
    BY <1>t, <1>s, SameMore
  <2>2. FetchesHonest' /\ NumbersHonest'
    BY <1>t, <1>s, <2>1, CallSent
  <2> QED BY <1>k, <1>s, <2>2
<1>b. bench \in Benches
  BY <1>t DEF CardTyped
<1>1. ASSUME NEW t \in CardTargets, OpenCard(t) PROVE CardInv'
  <2>1. /\ UNCHANGED <<files, list, typedFor, bench, shared, fetches>>
        /\ card' = [target |-> t, open |-> TRUE, text |-> 0]
    BY <1>1 DEF OpenCard, netVars, benchVars
  <2> QED BY <1>r, <1>t, <2>1
<1>2. CASE CloseCard
  <2>1. /\ UNCHANGED <<files, list, typedFor, bench, shared, fetches>>
        /\ card' = [card EXCEPT !.open = FALSE]
    BY <1>2 DEF CloseCard, netVars, benchVars
  <2> QED BY <1>r, <1>t, <2>1 DEF CardTyped
<1>3. CASE handleCardTextChange
  BY <1>3, TextStep
<1>4. ASSUME NEW i \in DOMAIN list, onRefine(list[i]) PROVE CardInv'
  <2>1. /\ UNCHANGED <<files, list, typedFor, bench, shared, fetches>>
        /\ card' = [card EXCEPT !.text = list[i].words]
    BY <1>4 DEF onRefine, netVars, benchVars
  <2>2. list[i].words \in Nat
    <3>1. list[i] \in ListSet
      BY <1>t DEF ListHonest
    <3> QED BY <3>1 DEF ListSet
  <2> QED BY <1>r, <1>t, <2>1, <2>2 DEF CardTyped
<1>5. ASSUME NEW i \in DOMAIN list, NEW op \in {"polish", "build", "scrap", "restore"},
             CardAsk(op, list[i])
      PROVE  CardInv'
  <2>1. /\ UNCHANGED <<files, list, typedFor, bench, shared, card>>
        /\ Fetch(op, list[i].id, 0, NoCard)
    BY <1>5 DEF CardAsk, pageVars, benchVars
  <2>2. list[i].id \in Nat /\ op \in CardOps \ {"create", "edit"}
    <3>1. list[i] \in ListSet
      BY <1>t DEF ListHonest
    <3> QED BY <3>1 DEF ListSet, CardOps
  <2> QED BY <1>b, <1>s, <2>1, <2>2
<1>6. CASE \/ \E captured \in BOOLEAN : StartHold(captured)
           \/ \E r \in BOOLEAN : CancelHold(r)
           \/ HoldTick
  <2>1. UNCHANGED <<files, list, typedFor, bench, shared, fetches, card>>
    BY <1>6 DEF StartHold, CancelHold, HoldTick, pageVars, netVars, benchVars
  <2> QED BY <1>r, <1>t, <2>1 DEF CardTyped
<1>7. CASE HoldCompletes
  <2>1. UNCHANGED <<files, list, typedFor, bench, shared, card>>
    BY <1>7 DEF HoldCompletes, pageVars, benchVars
  <2>2. CASE matchedPrompt # NoCard /\ Fetch("ready", matchedPrompt.id, 0, NoCard)
    <3>1. matchedPrompt.id \in Nat
      BY <1>t, <2>2, MatchedKnown DEF ListSet
    <3>2. "ready" \in CardOps \ {"create", "edit"}
      BY DEF CardOps
    <3> HIDE DEF matchedPrompt
    <3> QED BY <1>b, <1>s, <2>1, <2>2, <3>1, <3>2
  <2>3. CASE UNCHANGED <<fetches, asked>>
    BY <1>r, <1>t, <2>1, <2>3 DEF CardTyped
  <2> QED BY <1>7, <2>2, <2>3 DEF HoldCompletes
<1>8. ASSUME NEW n \in DOMAIN fetches, CreateBegins(n) PROVE CardInv'
  BY <1>8, BeginStep
<1>9. ASSUME NEW n \in DOMAIN fetches, ServeFetch(n) PROVE CardInv'
  BY <1>9, ServeStep
<1>10. ASSUME NEW n \in DOMAIN fetches, RefuseFetch(n) PROVE CardInv'
  <2>1. UNCHANGED <<files, list, typedFor, bench, shared, card>> /\ fetches' = RemoveAt(fetches, n)
    BY <1>10 DEF RefuseFetch, pageVars, benchVars
  <2> QED BY <1>b, <1>k, <1>t, <2>1, DroppedHonest
<1>11. ASSUME NEW n \in DOMAIN fetches, AnswerLands(n) PROVE CardInv'
  BY <1>11, LandStep
<1>12. ASSUME NEW b \in Benches, Reclamp(b) PROVE CardInv'
  <2>1. UNCHANGED <<files, list, typedFor, shared, card>> /\ bench' = b /\ Fetch("list", 0, 0, NoCard)
    BY <1>12 DEF Reclamp, pageVars
  <2>2. "list" \in CardOps \ {"create", "edit"}
    BY DEF CardOps
  <2> QED BY <1>12, <1>s, <2>1, <2>2
<1>13. ASSUME NEW b \in Benches, NEW i \in DOMAIN files[b], NEW state \in {"built", "ready"},
              BuildEnds(b, i, state)
       PROVE  CardInv'
  BY <1>13, EndsStep
<1> QED BY <1>1, <1>2, <1>3, <1>4, <1>5, <1>6, <1>7, <1>8, <1>9, <1>10, <1>11, <1>12, <1>13 DEF CardNext

LEMMA CardShows == CardInv /\ HoldInv => CardTypeOK /\ WordsStayWithTheirTarget /\ NumbersApart
<1> SUFFICES ASSUME CardInv, HoldInv PROVE CardTypeOK /\ WordsStayWithTheirTarget /\ NumbersApart
  OBVIOUS
<1>1. Oath \in Nat /\ Oath # 0
  BY CardAssumption
<1>2. timers \subseteq 0 .. Oath
  BY <1>1 DEF HoldInv
<1>3. \A i \in DOMAIN list : list[i].of \in Benches
  BY DEF CardInv, ListHonest, OnServer
<1>4. CardTypeOK
  BY <1>2, <1>3 DEF CardInv, HoldInv, CardTyped, CardTypeOK, TypedSet
<1>5. WordsStayWithTheirTarget
  BY DEF CardInv, FilesHonest, WordsHonest, WordsStayWithTheirTarget
<1> QED BY <1>4, <1>5 DEF CardInv, NumbersHonest

-----------------------------------------------------------------------------
(* The run: each part by itself, the others at rest                        *)

\* What every part keeps, whichever moves.
PageInv ==
  /\ BridgeInv /\ ToolpathInv /\ CardInv /\ HoldInv /\ FolderInv /\ ScreenInv /\ TrayInv
  /\ SocketInv

LEMMA PageRunStart == PageInit => PageInv
BY BridgeStart, ToolpathStart, CardStart, HoldStart, FolderStart, ScreenStart, TrayStart, SocketStart
   DEF PageInit, PageInv

\* In a step of the run each part takes one of its steps, or is as it was.
LEMMA PartsMove ==
  ASSUME [PageNext]_pageRunVars
  PROVE  /\ BridgeNext \/ UNCHANGED bridgeVars
         /\ ToolpathNext \/ UNCHANGED toolpathVars
         /\ CardNext \/ UNCHANGED cardVars
         /\ FolderNext \/ UNCHANGED folderVars
         /\ ScreenNext \/ UNCHANGED screenVars
         /\ TrayNext \/ UNCHANGED trayVars
         /\ JigSocketNext \/ UNCHANGED jigSocketVars
<1>1. CASE UNCHANGED pageRunVars
  BY <1>1 DEF pageRunVars
<1>2. CASE PageNext
  BY <1>2 DEF PageNext, OthersRest, Rests
<1> QED BY <1>1, <1>2

LEMMA PageStep ==
  ASSUME PageInv, [PageNext]_pageRunVars
  PROVE  PageInv' /\ FullOath /\ SwornRelease /\ OneReplayAtATime /\ ScreenHeld
<1>1. BridgeInv'
  BY PartsMove, BridgeStep, BridgeStutter DEF PageInv
<1>2. ToolpathInv' /\ OneReplayAtATime
  <2>1. ASSUME UNCHANGED toolpathVars PROVE OneReplayAtATime
    BY <2>1 DEF PageInv, ToolpathInv, ReplaySoFar, toolpathVars, OneReplayAtATime
  <2> QED BY <2>1, PartsMove, ToolpathStep, ToolpathStutter DEF PageInv
<1>3. CardInv'
  BY PartsMove, CardStep, CardStutter DEF PageInv
<1>4. HoldInv' /\ FullOath
  <2>1. UNCHANGED cardVars => UNCHANGED holdVars
    BY DEF cardVars, holdVars
  <2> QED BY <2>1, PartsMove, HoldStep, HoldStutter, HoldShows DEF PageInv
<1>5. FolderInv'
  BY PartsMove, FolderStep, FolderStutter DEF PageInv
<1>6. ScreenInv' /\ ScreenHeld
  <2>1. UNCHANGED screenVars => ScreenHeld
    BY DEF screenVars, ScreenHeld
  <2> QED BY <2>1, PartsMove, ScreenStep, ScreenStutter DEF PageInv
<1>7. TrayInv' /\ SwornRelease
  BY PartsMove, TrayStep, TrayStutter DEF PageInv
<1>8. SocketInv'
  BY PartsMove, SocketStep, SocketStutter DEF PageInv
<1> QED BY <1>1, <1>2, <1>3, <1>4, <1>5, <1>6, <1>7, <1>8 DEF PageInv

\* For any targets, benches and however many changes, calls and picks, creates that overlap
\* included: a prompt's file has words typed for another target only if two creates overlapped
\* and took its number, or if the words were typed into the list of another bench; prompts
\* share a number only after such an overlap; and what the tray's prompt holds was typed for
\* the pick it is about (App.tsx, prompts/usePrompts.ts, prompts/store.ts create,
\* orders/TrayRegion.tsx).
THEOREM WordsInPlace == PageRun => []WordsStayInPlace
<1>1. PageInv => WordsStayInPlace
  BY CardShows DEF PageInv, TrayInv, WordsStayInPlace
<1> QED BY <1>1, PageRunStart, PageStep, PTL DEF PageRun

\* However sockets, renders, recordings and reads overtake each other: one socket is listened
\* to and no frame is noted twice, no event becomes two steps, the browser shows the folder
\* asked for last, and in hand mode nothing of the loupe is left on the plate (hooks/useJigState.ts,
\* logbook/useLogbook.ts, toolpath/, clamp/useFolderBrowser.ts, plate/usePlateBridge.ts).
THEOREM EachOnce == PageRun => []OneOfEach
<1>1. PageInv => OneOfEach
  BY SocketShows, BridgeShows DEF PageInv, BridgeInv, ToolpathInv, FolderInv, ScreenInv, OneOfEach
<1> QED BY <1>1, PageRunStart, PageStep, PTL DEF PageRun

\* However often a hold is begun, let go and begun again, for an oath of any length, replays of
\* any length and frames in any order: on the card as in the tray no hold completes before its
\* own whole oath, the tray's releases the order it began on (the card's makes ready what the
\* card shows by then), one replay drives the plate, and no frame takes the clamp screen away
\* (prompts/useReadyHold.ts, orders/TrayRegion.tsx, toolpath/useToolpathReplay.ts, App.tsx).
THEOREM PagePromises == PageRun => PromisesKept
<1>1. PageRun => [][FullOath /\ SwornRelease /\ OneReplayAtATime /\ ScreenHeld]_pageRunVars
  <2>1. PageInv /\ [PageNext]_pageRunVars
          => [FullOath /\ SwornRelease /\ OneReplayAtATime /\ ScreenHeld]_pageRunVars
    BY PageStep
  <2> QED BY <2>1, PageRunStart, PageStep, PTL DEF PageRun
<1> QED BY <1>1, PTL DEF PromisesKept

=============================================================================
