SPECIFICATION FairServiceSpec
CONSTANTS
  b1 = b1  b2 = b2  p1 = p1  p2 = p2  r1 = r1  r2 = r2  m1 = m1
  t1 = t1  t2 = t2
  None = None
  Prompts <- TwoPrompts
  Builds <- TwoBuilds
  BenchRequests <- OneRequest
  McpRequests <- NoRequest
  Texts <- TwoTexts
  Reread <- AllKept
  MaxInFlight = 1
  Scrappable <- FromThePane
  MayRestart = FALSE
  WritesMayFail = FALSE
INVARIANTS
  BuildingMeansRunning
PROPERTIES
  LadderRespected
  BuildLands
CHECK_DEADLOCK FALSE
