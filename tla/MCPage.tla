------------------------------- MODULE MCPage -------------------------------
(***************************************************************************)
(* Model checking of the parts of the bench's page, as MCServer does it    *)
(* for the server: `part` names the one that moves.                        *)
(***************************************************************************)
EXTENDS LoupeBridge, ToolpathPlay, PromptCard, ClampScreen, Tray, JigSocket

VARIABLE part
Parts == {"bridge", "toolpath", "card", "folder", "screen", "tray", "socket"}

Unless(p, rest) == part # p => rest

PageInit ==
  /\ part \in Parts
  /\ BridgeInit
  /\ ToolpathInit
  /\ CardInit
  /\ FolderInit
  /\ Unless("screen", clampedRepo = NoRepo) /\ ScreenInit
  /\ TrayInit
  /\ Unless("socket", hostUp = FALSE /\ socketVar = CHOOSE s \in Sockets : TRUE) /\ JigSocketInit

\* Every part but p stays as it is.
Rests(p, q, vars) == IF p = q THEN TRUE ELSE UNCHANGED vars
OthersRest(p) ==
  /\ Rests(p, "bridge", bridgeVars)
  /\ Rests(p, "toolpath", toolpathVars)
  /\ Rests(p, "card", cardVars)
  /\ Rests(p, "folder", folderVars)
  /\ Rests(p, "screen", screenVars)
  /\ Rests(p, "tray", trayVars)
  /\ Rests(p, "socket", jigSocketVars)

PageNext ==
  /\ UNCHANGED part
  /\ \/ part = "bridge" /\ BridgeNext /\ OthersRest("bridge")
     \/ part = "toolpath" /\ ToolpathNext /\ OthersRest("toolpath")
     \/ part = "card" /\ CardNext /\ OthersRest("card")
     \/ part = "folder" /\ FolderNext /\ OthersRest("folder")
     \/ part = "screen" /\ ScreenNext /\ OthersRest("screen")
     \/ part = "tray" /\ TrayNext /\ OthersRest("tray")
     \/ part = "socket" /\ JigSocketNext /\ OthersRest("socket")

pageRunVars == <<part, bridgeVars, toolpathVars, cardVars, folderVars, screenVars,
                 trayVars, jigSocketVars>>

\* The fairness each part states for itself, while it is the one that moves.
PageRun ==
  /\ PageInit /\ [][PageNext]_pageRunVars
  /\ WF_bridgeVars(part = "bridge" /\ BenchReceives)
  /\ WF_bridgeVars(part = "bridge" /\ FrameLoads)
  /\ WF_bridgeVars(part = "bridge" /\ LoupeBoots)
  /\ WF_bridgeVars(part = "bridge" /\ (PlateReceives \/ \E sameOrigin \in BOOLEAN : PlateNavigates(sameOrigin)))
  /\ WF_folderVars(part = "folder" /\ FolderAnswers)
  /\ WF_screenVars(part = "screen" /\ \E a \in asks : HostServes(a))
  /\ WF_screenVars(part = "screen" /\ \E a \in asks : AskAnswered(a))
  /\ WF_jigSocketVars(part = "socket" /\ \E s \in Sockets : OnOpen(s))
  /\ WF_jigSocketVars(part = "socket" /\ \E s \in Sockets : OnClose(s))
  /\ WF_jigSocketVars(part = "socket" /\ \E e \in 1..MaxEffects : RetryFires(e))
----------------------------------------------------------------------------
(* Properties: what the modules say, each of the part that moves; one at rest stays at a   *)
(* first state of its own.                                                                *)

\* What was typed stays with the target or the pick it was meant for, whatever answers come
\* late and whatever is picked meanwhile; creates that overlap may take one number for two
\* prompts, and the list of a bench let go may be typed into, and only then words go astray.
WordsStayInPlace ==
  /\ part = "card" => CardTypeOK /\ WordsStayWithTheirTarget /\ NumbersApart
  /\ part = "tray" => TrayTypeOK /\ WordsForThePick

\* One of each and the last one asked for: one socket, every frame noted once, every event
\* recorded once, the folder asked for last, and nothing left of the loupe in hand mode.
OneOfEach ==
  /\ part = "socket" => JigSocketTypeOK /\ OneEar /\ NotedOnce
  /\ part = "toolpath" => ToolpathTypeOK /\ RecordedOnce
  /\ part = "folder" => FolderTypeOK /\ SettlesOnTheLast
  /\ part = "bridge" => BridgeTypeOK /\ HandLetsGo
  /\ part = "screen" => ScreenTypeOK

\* Timers and late frames do only what was asked: a hold completes after its own whole oath,
\* in the tray for the order it began on; one replay drives the plate, the clamp screen stays
\* until left.
PromisesKept == [][FullOath /\ SwornRelease /\ OneReplayAtATime /\ ScreenHeld]_pageRunVars

\* The survey reaches the loupe, a read and a clamp end in words, a tab finds its server again.
PageSettles == SurveyArrives /\ ReadingEnds /\ ClampEnds /\ TabReconnects
=============================================================================
