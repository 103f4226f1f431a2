------------------------------ MODULE MCServer ------------------------------
(***************************************************************************)
(* Model checking of the parts of the server that share no state: one run  *)
(* explores each of them by itself.  `part` names the one that moves; the  *)
(* others stay at rest, so that their states add up and do not multiply.   *)
(***************************************************************************)
EXTENDS ShopLink, RequestGate, PathGuard, RecentBenches, Plate, FixtureData,
        FixtureStore, SheetStore, SetupWrite, TrialFit, TLC

VARIABLE part
Parts == {"shop", "gate", "guard", "recent", "plate", "data", "fixtures", "sheets",
          "setup", "mirror"}

\* Paths and directories of the bench's dist, and of a directory named like it.
MCDist     == <<"dist">>
MCSiblings == {<<"dist2">>}
MCFiles    == {<<"dist", "index.html">>, <<"dist2", "a">>}
MCDirs     == {<<>>, <<"dist">>, <<"dist2">>, <<"dist", "dist">>}

Unless(p, rest) == part # p => rest

ServerInit ==
  /\ part \in Parts
  /\ ShopInit
  /\ Unless("guard", pgCwd = "local" /\ pgWin = FALSE /\ pgLink = "dirA") /\ GuardInit
  /\ RecentInit
  /\ Unless("fixtures", fxDisk = [f \in FixtureIds |-> "absent"]) /\ FixtureInit
  /\ Unless("sheets", ssKind = "sketches") /\ SheetInit
  /\ Unless("setup", mcpJson = NoJson /\ ignored = FALSE) /\ SetupInit
  /\ TrialFitInit
  /\ Unless("gate", gaBound = Unset /\ gaMode = "static") /\ GateInit
  /\ Unless("plate", plTarget = NoTarget /\ plPolicy = [xfo |-> FALSE, fa |-> NotSent, ss |-> NotSent]) /\ PlateInit
  /\ Unless("data", fdEndpoints = <<>> /\ fdGraph = [r \in Refs |-> {}]) /\ FixtureDataInit

\* Every part but p stays as it is.
Rests(p, q, vars) == IF p = q THEN TRUE ELSE UNCHANGED vars
OthersRest(p) ==
  /\ Rests(p, "shop", shopVars)
  /\ Rests(p, "gate", gateVars)
  /\ Rests(p, "guard", guardVars)
  /\ Rests(p, "recent", recentVars)
  /\ Rests(p, "plate", plateVars)
  /\ Rests(p, "data", fixtureDataVars)
  /\ Rests(p, "fixtures", fixtureVars)
  /\ Rests(p, "sheets", sheetVars)
  /\ Rests(p, "setup", setupVars)
  /\ Rests(p, "mirror", trialFitVars)

ServerNext ==
  /\ UNCHANGED part
  /\ \/ part = "shop" /\ ShopNext /\ OthersRest("shop")
     \/ part = "gate" /\ GateNext /\ OthersRest("gate")
     \/ part = "guard" /\ GuardNext /\ OthersRest("guard")
     \/ part = "recent" /\ RecentNext /\ OthersRest("recent")
     \/ part = "plate" /\ PlateNext /\ OthersRest("plate")
     \/ part = "data" /\ FixtureDataNext /\ OthersRest("data")
     \/ part = "fixtures" /\ FixtureNext /\ OthersRest("fixtures")
     \/ part = "sheets" /\ SheetNext /\ OthersRest("sheets")
     \/ part = "setup" /\ SetupNext /\ OthersRest("setup")
     \/ part = "mirror" /\ TrialFitNext /\ OthersRest("mirror")

serverRunVars == <<part, shopVars, gateVars, guardVars, recentVars, plateVars,
                   fixtureDataVars, fixtureVars, sheetVars, setupVars, trialFitVars>>

\* The fairness each part states for itself, while it is the one that moves.
ServerRun ==
  /\ ServerInit /\ [][ServerNext]_serverRunVars
  /\ WF_shopVars(part = "shop" /\ ServerStep)
  /\ WF_shopVars(part = "shop" /\ WriteStep)
  /\ WF_shopVars(part = "shop" /\ TimePasses)
  /\ \A c \in PlCalls : WF_plateVars(part = "plate" /\ PlateServes(c))
  /\ WF_plateVars(part = "plate" /\ PlateClosed)
----------------------------------------------------------------------------
(* Properties: what the modules say, each of the part that moves; one at rest stays at a   *)
(* first state of its own.                                                                *)

\* No foreign Origin and no name that can be rebound reaches a route, and the gates decide in
\* their order; a page path never leads out of dist; and wherever the caller's link moves, a
\* path leads to no share, to no .jig and to no other directory than the one checked, as long
\* as that directory itself is not replaced (same-origin.ts, http.ts, bench-serve.ts, fs/).
RequestsStayWithin ==
  /\ part = "gate" => GateTypeOK /\ NoForeignOrigin /\ ForeignLosesOnTheGate /\ ServedInsideDist
  /\ part = "guard" => GuardTypeOK /\ SharesNeverRead /\ OneDirectoryListed /\ ClampOutsideJig

\* Whatever writes fail and wherever a process stops: a loaded fixture is live and every
\* fixture listed has a file, however calls overlap; a sheet in memory is its file, unless two
\* calls on that very sheet overlapped; the list of recent benches is well formed; and a
\* configuration keeps other programs' entries and holds Jig's when the page says so, as far as
\* nobody wrote it between a call's read and its write.
MemoryAndFilesAgree ==
  /\ part = "fixtures" => FixtureTypeOK /\ LoadedIsLive /\ NeverOnlyInMemory
  /\ part = "sheets" => SheetTypeOK /\ MemoryIsDisk
  /\ part = "recent" => RecentTypeOK /\ RecentWellFormed
  /\ part = "setup" => SetupTypeOK /\ OthersPassThrough /\ WrittenIsTrue

\* What the bench shows is so: a wired shop is alive, the plate reports every header it had to
\* change, fixtures agree with themselves and answer what their proof says, and the mirror is
\* one, left open by nothing but a close that overtook its start.
ShownIsTrue ==
  /\ part = "shop" => ShopTypeOK /\ WiredMeansAlive
  /\ part = "plate" => PlateTypeOK /\ EmbedHonest
  /\ part = "data" => ItemsAgreeWithList /\ ProofIsAnswered /\ DereferenceComplete
  /\ part = "mirror" => TrialFitTypeOK /\ OneMirror /\ MirrorLeaksOnlyByOverlap

\* No step jumps its turn: nothing is served before the gate, no document is half written, a
\* place is taken only by an overlap, and nothing is written before it was asked for.
ServerStepsInOrder ==
  [][GateFirst /\ NeverHalfWritten /\ PlaceTakenOnlyByOverlap /\ DiffFirst]_serverRunVars

\* A tab hears of a shop that came or went, without a file event if need be; a plate that is
\* told to close closes, with the sockets it upgraded, unless the app owes it an answer.
ServerSettles == TabsHearOfTheShop /\ PlateClosesDown
=============================================================================
