----------------------------- MODULE TargetDetect -----------------------------
(***************************************************************************)
(* What "Start the app" would run, and what it runs (target/detect.ts and  *)
(* POST /api/target/start of target/route.ts).  Detection reads the        *)
(* clamped repo's own files and the survey's hint; the repo may change     *)
(* between the moment the Clamp screen is told and the moment a person     *)
(* starts the app, where a behaviour ends.                                 *)
(***************************************************************************)
EXTENDS Naturals

CONSTANTS Spelled,      \* script names every platform takes
          Split,        \* script names cmd.exe would re-parse
          Dashed,       \* script names that read as an option
          HintScripts,  \* what an adapter's hint may name
          Nothing       \* no value

VARIABLES tdRepo,    \* package.json's scripts, angular.json, the repo's own ng, the hint
          tdReport,  \* what the Clamp screen was told
          tdSame,    \* the repo has not changed since
          tdStarted  \* the last answer of POST /api/target/start
detectVars == <<tdRepo, tdReport, tdSame, tdStarted>>

ScriptNames == Spelled \cup Split \cup Dashed
Priority == <<"start", "dev", "serve">>   \* PACKAGE_JSON_SCRIPT_PRIORITY
ASSUME DetectNames == /\ {Priority[n] : n \in DOMAIN Priority} \subseteq Spelled
                      /\ Nothing \notin Nat \cup ScriptNames

DefaultGuess == 4200
Infinite == 65536                 \* what JSON's 1e999 is to the rule: a number, not a port
Configured == 4300
Hinted == 5173
AskedPort == 5000
isValidPort(port) == port # Nothing /\ port \in 1 .. 65535

\* angular.json: none, one that does not parse, or one with a port or without.
AngularFiles == [kind : {"none", "corrupt"}, port : {Nothing}]
                \cup [kind : {"read"}, port : {Nothing, Infinite, Configured}]
RepoFiles == [scripts : SUBSET ScriptNames, angular : AngularFiles, ng : BOOLEAN, win : BOOLEAN,
              hint : [script : HintScripts \cup {Nothing}, port : {Nothing, Infinite, Hinted}]]
Sources == {"survey", "package.json", "angular.json"}
Detected == [source : Sources, script : ScriptNames \cup {Nothing}, port : Nat, fetch : BOOLEAN]
Refusal == [refused : {"port", "script", "nothing-to-start"}]
Started == [repo : RepoFiles, script : ScriptNames \cup {Nothing}, port : Nat, fetch : BOOLEAN, plain : BOOLEAN]

DetectTypeOK ==
  /\ tdRepo \in RepoFiles /\ tdSame \in BOOLEAN
  /\ tdReport \in Detected \cup {Nothing}
  /\ tdStarted \in Started \cup Refusal \cup {Nothing}

DetectInit == tdRepo \in RepoFiles /\ tdReport = Nothing /\ tdSame = FALSE /\ tdStarted = Nothing

----------------------------------------------------------------------------
(* detect.ts *)

\* #81: a dash is an option to every argv; #37: on win32 only what cmd.exe cannot re-parse.
isRunnableScriptName(name, win) == name \notin Dashed /\ (win => name \in Spelled)

packageJsonScriptNames(repo) == {s \in repo.scripts : isRunnableScriptName(s, repo.win)}

\* An out-of-range port of the hint is no port; it does not cost the hint its script.
readDevServerHint(repo) ==
  [repo.hint EXCEPT !.port = IF isValidPort(@) THEN @ ELSE Nothing]

angularConfiguredPort(repo) ==
  IF repo.angular.kind = "none" THEN Nothing
  ELSE IF repo.angular.kind = "read" /\ isValidPort(repo.angular.port) THEN repo.angular.port
  ELSE DefaultGuess

Or(port, otherwise) == IF port = Nothing THEN otherwise ELSE port

\* The preferred script, else the first of the priority the repo has.
packageJsonScript(repo, preferred) ==
  LET names == packageJsonScriptNames(repo)
      ranks == {n \in DOMAIN Priority : Priority[n] \in names}
  IN IF preferred \in names THEN preferred
     ELSE IF ranks = {} THEN Nothing
     ELSE Priority[CHOOSE n \in ranks : \A k \in ranks : n <= k]

\* Mutant (#37): the hint's own script is run without asking the repo.
HintTrusted(repo) == readDevServerHint(repo).script # Nothing

HintNamed(repo) == readDevServerHint(repo).script \in packageJsonScriptNames(repo)

hasLocalAngularCli(repo) == repo.ng

\* Mutant (#81): the port of the hint as it came.
HintPortRaw(repo) == repo.hint.port

HintPort(repo) == readDevServerHint(repo).port

npm(source, script, port) == [source |-> source, script |-> script, port |-> port, fetch |-> FALSE]

\* The three tiers; Nothing is the honest "nothing to start".
detectDevScript(repo) ==
  LET hint    == readDevServerHint(repo)
      angular == angularConfiguredPort(repo)
      script  == packageJsonScript(repo, hint.script)
  IN IF HintNamed(repo) THEN npm("survey", hint.script, Or(HintPort(repo), Or(angular, DefaultGuess)))
     ELSE IF script # Nothing THEN npm("package.json", script, Or(angular, DefaultGuess))
     ELSE IF angular # Nothing /\ hasLocalAngularCli(repo)
     THEN [source |-> "angular.json", script |-> Nothing, port |-> angular, fetch |-> ~repo.ng]
     ELSE Nothing

----------------------------------------------------------------------------
(* The bench *)

\* POST /api/clamp and GET /api/setup: summarizeDetectedTarget.
Report ==
  /\ tdStarted = Nothing
  /\ tdReport' = detectDevScript(tdRepo) /\ tdSame' = TRUE
  /\ UNCHANGED <<tdRepo, tdStarted>>

\* A person edits the repo, or installs into it.
RepoChanges ==
  /\ tdStarted = Nothing
  /\ \/ \E s \in tdRepo.scripts : tdRepo' = [tdRepo EXCEPT !.scripts = @ \ {s}]
     \/ tdRepo' = [tdRepo EXCEPT !.ng = ~@]
  /\ tdSame' = FALSE
  /\ UNCHANGED <<tdReport, tdStarted>>

\* Mutant: the start detects without the survey.
WithoutTheHint == detectDevScript([tdRepo EXCEPT !.hint = [script |-> Nothing, port |-> Nothing]])

DetectedNow == detectDevScript(tdRepo)

\* POST /api/target/start: a bad port, then the script the request names, then the detected.
Run(script, port) ==
  LET detected == DetectedNow
      spec(name, p, fetch) ==
        [repo |-> tdRepo, script |-> name, port |-> Or(port, p), fetch |-> fetch,
         plain |-> script = Nothing /\ port = Nothing]
  IN IF port # Nothing /\ ~isValidPort(port) THEN [refused |-> "port"]
     ELSE IF script # Nothing /\ script \notin packageJsonScriptNames(tdRepo) THEN [refused |-> "script"]
     ELSE IF script # Nothing THEN spec(script, IF detected = Nothing THEN DefaultGuess ELSE detected.port, FALSE)
     ELSE IF detected # Nothing THEN spec(detected.script, detected.port, detected.fetch)
     ELSE [refused |-> "nothing-to-start"]

StartTarget(script, port) ==
  /\ tdStarted = Nothing
  /\ tdStarted' = Run(script, port)
  /\ UNCHANGED <<tdRepo, tdReport, tdSame>>

DetectNext ==
  \/ Report \/ RepoChanges
  \/ \E script \in HintScripts \cup {Nothing}, port \in {Nothing, Infinite, AskedPort} : StartTarget(script, port)

----------------------------------------------------------------------------
(* Properties *)

Ran == tdStarted # Nothing /\ tdStarted \notin Refusal

\* Whatever asked for it, a script that runs is one the repo's package.json names at that
\* moment, spelled so that no shell reads it as anything else; and ng runs only from the
\* repo's own install (detect.ts #17, #37, #81).
OnlyTheReposOwn ==
  Ran => /\ ~tdStarted.fetch
         /\ tdStarted.script # Nothing =>
              /\ tdStarted.script \in tdStarted.repo.scripts
              /\ isRunnableScriptName(tdStarted.script, tdStarted.repo.win)

\* No configured value, however wrong, becomes a port the runner waits for in vain: what is
\* reported and what is started have a port that can be bound, and it is the configured one
\* where the repo has one (detect.ts #81, valid-port.ts).
PortCanBeBound ==
  /\ tdReport # Nothing =>
       /\ isValidPort(tdReport.port)
       /\ (tdSame /\ tdReport.source # "survey" /\ tdRepo.angular.port = Configured)
            => tdReport.port = Configured
  /\ Ran => isValidPort(tdStarted.port)

\* What the Clamp screen was told is what a plain start runs, as long as the repo is the
\* same (target/route.ts detects again; host.ts clamp, setup/route.ts report).
StartsWhatItSaid ==
  (Ran' /\ tdStarted' # tdStarted /\ tdStarted'.plain /\ tdSame)
    => /\ tdReport # Nothing
       /\ tdStarted'.script = tdReport.script /\ tdStarted'.port = tdReport.port
=============================================================================
