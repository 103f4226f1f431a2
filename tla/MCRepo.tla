------------------------------- MODULE MCRepo -------------------------------
(***************************************************************************)
(* Model checking of what is read from a clamped repo and its app, and of  *)
(* what is kept in its .jig: docs, survey, context, the app to start, the  *)
(* prompt files, snapshots and forms of the app's page, and the sheet on   *)
(* which a sketch is drawn.  As in MCServer, `part` names the one that     *)
(* moves.                                                                  *)
(***************************************************************************)
EXTENDS DocsClamp, Survey, TargetDetect, PromptMigration,
        PromptFile, ReleaseSnapshot, FormFill, SketchDesk, TLC

VARIABLE part
Parts == {"chunks", "docs", "survey", "context", "detect", "migration", "file",
          "snapshot", "fill", "sketch"}

\* Docs in a repo, in a directory the walk leaves out, outside the repo; one is a link.
MCDocs    == {<<"repo", "docs", ".md">>, <<"repo", "docs", ".bin">>, <<"out", ".pdf">>,
              <<"repo", "node_modules", "lib", ".md">>, <<"repo", ".md">>}
MCLinks   == {<<"repo", ".md">>}
MCFolders == {<<"repo", "docs">>, <<"link">>, <<"link", "docs">>, <<"out">>, <<"repo", "gone">>}

\* The page that stands for all while another part moves: its elements side by side.
AtRestPage ==
  /\ ffUp = [e \in Elements |-> IF e = 1 THEN 0 ELSE 1]
  /\ ffKind = [e \in Elements |-> IF e = 1 THEN "body" ELSE "div"]

Unless(p, rest) == part # p => rest

RepoInit ==
  /\ part \in Parts
  /\ Unless("chunks", dkKind = "md") /\ DocInit
  /\ Unless("docs", dcRepo = RealRepo) /\ DocsClampInit
  /\ Unless("survey", smRepo = [a \in Adapters |-> NoSurvey]) /\ SurveyInit
  /\ SurveyContextInit
  /\ Unless("migration", mgOrder = [o \in MgOrders |-> Unreadable]) /\ MigrationInit
  /\ PromptFileInit
  /\ Unless("snapshot", rsPlate = FALSE) /\ SnapshotInit
  /\ Unless("detect", tdRepo = CHOOSE repo \in RepoFiles : TRUE) /\ DetectInit
  /\ Unless("fill", AtRestPage) /\ FillInit
  /\ SketchInit

\* Every part but p stays as it is.
Rests(p, q, vars) == IF p = q THEN TRUE ELSE UNCHANGED vars
OthersRest(p) ==
  /\ Rests(p, "chunks", docVars)
  /\ Rests(p, "docs", docsClampVars)
  /\ Rests(p, "survey", surveyVars)
  /\ Rests(p, "context", surveyContextVars)
  /\ Rests(p, "detect", detectVars)
  /\ Rests(p, "migration", migrationVars)
  /\ Rests(p, "file", promptFileVars)
  /\ Rests(p, "snapshot", snapshotVars)
  /\ Rests(p, "fill", fillVars)
  /\ Rests(p, "sketch", sketchVars)

RepoNext ==
  /\ UNCHANGED part
  /\ \/ part = "chunks" /\ DocNext /\ OthersRest("chunks")
     \/ part = "docs" /\ DocsClampNext /\ OthersRest("docs")
     \/ part = "survey" /\ SurveyNext /\ OthersRest("survey")
     \/ part = "context" /\ SurveyContextNext /\ OthersRest("context")
     \/ part = "detect" /\ DetectNext /\ OthersRest("detect")
     \/ part = "migration" /\ MigrationNext /\ OthersRest("migration")
     \/ part = "file" /\ PromptFileNext /\ OthersRest("file")
     \/ part = "snapshot" /\ SnapshotNext /\ OthersRest("snapshot")
     \/ part = "fill" /\ FillNext /\ OthersRest("fill")
     \/ part = "sketch" /\ SketchNext /\ OthersRest("sketch")

repoRunVars == <<part, docVars, docsClampVars, surveyVars, surveyContextVars, detectVars,
                 migrationVars, promptFileVars, snapshotVars, fillVars, sketchVars>>

RepoRun == RepoInit /\ [][RepoNext]_repoRunVars
----------------------------------------------------------------------------
(* Properties: what the modules say, each of the part that moves; one at rest stays at a   *)
(* first state of its own.                                                                *)

\* What is kept in .jig leads back to what it was made from: a work order that a migration listed
\* and came to its end with is a prompt, a reported skip or gone, a sketch on the sheet is the one that was opened, with its elements
\* where they were drawn, the references of the docs index find their files again, and the file
\* of a prompt gives back its state and its requirement, whatever was said in it.
JigFilesReadBack ==
  /\ part = "migration" => MigrationTypeOK /\ AccountedFor
  /\ part = "sketch" => SketchTypeOK /\ PrintedIsThisSheet /\ DrawnWhereItStands /\ HotspotsHaveElements
  /\ part = "docs" => DocsClampTypeOK /\ RefsReadBack
  /\ part = "file" => StateSurvivesWords /\ RequirementSurvives

\* What is cut or written line by line is whole when it is read: the chunks of a doc have every
\* line once, under its own headings, and a prompt's builds are those that were written; what
\* a first reading loses, no second reading loses more of.
TextsReadBack ==
  /\ part = "chunks" => DocTypeOK /\ LinesKept /\ PathIsAncestry /\ PlainChunksFull /\ BudgetSpent
  /\ part = "file" => PromptFileTypeOK /\ HistorySurvives /\ SecondReadingAgrees

\* The survey keeps the adapters' schemas apart, and a run undisturbed between its two writes
\* leaves survey and gauges of one run, whatever was mixed before; a shop face names only files
\* the survey proves, a prompt's context also the file that is claimed by a pick nothing
\* matches, and both name the same component.
SurveyIsTrusted ==
  /\ part = "survey" => SurveyTypeOK /\ MergedApart /\ SurveyAndGaugesAgree
  /\ part = "context" => SurveyContextTypeOK /\ FilesProven /\ FaceAndContextAgree

\* What the bench does to the app is what it says: it starts a script of the repo on a port
\* that can be bound, asks once for a snapshot, which it cleans of what its expressions find,
\* and fills only fields of the form it was told of unless the page changed before that form.
AppAsItSaid ==
  /\ part = "detect" => DetectTypeOK /\ OnlyTheReposOwn /\ PortCanBeBound
  /\ part = "snapshot" => SnapshotTypeOK /\ AskedOnce /\ SnapshotCleaned
  /\ part = "fill" => FillTypeOK /\ PickComesBack /\ FillStaysInForm /\ FilledIsStored

\* An index is replaced by a whole walk or not at all, a plain start runs what the screen was
\* told, and a migration undoes an edit only where two processes migrated at once.
RepoStepsWhole == [][WholeOrNothing /\ StartsWhatItSaid /\ EditsOutliveMigration]_repoRunVars
=============================================================================
