SPECIFICATION RepoRun
CONSTANTS
  MaxLines = 5
  WordsPerChunk = 3
  MaxBudget = 3
  DcCalls = {c1, c2}
  DcCliCalls = {c2}
  DcFiles <- MCDocs
  DcLinks <- MCLinks
  DcFolders <- MCFolders
  NoIndex = NoIndex
  SmRuns = {r1, r2}
  SmRefs = {s1}
  SmGauges = {g1}
  NoSurvey = NoSurvey
  ScNames = {n1, n2}
  ScFiles = {f1, f2}
  ScNouns = {n1, w}
  Unnamed = Unnamed
  NotYet = NotYet
  Spelled = {"start", "dev", "serve"}
  Split = {"x&y"}
  Dashed = {"-x"}
  HintScripts = {"dev", "x&y"}
  Nothing = Nothing
  MgOrders = {o1, o2}
  MgProcs = {p1, p2}
  NoFile = NoFile
  MaxSaid = 3
  MaxTexts = 2
  NotScrapped = NotScrapped
  RsOrders = {o1, o2}
  NoOrder = NoOrder
  FfElements = 4
  Unknown = Unknown
  MaxSketches = 2
  MaxElements = 2
  MaxSketchCalls = 3
  NoSketch = NoSketch
INVARIANTS
  JigFilesReadBack
  TextsReadBack
  SurveyIsTrusted
  AppAsItSaid
PROPERTIES
  RepoStepsWhole
CHECK_DEADLOCK FALSE
