SPECIFICATION ServiceSpec
CONSTANTS
  b1 = b1  b2 = b2  p1 = p1  p2 = p2  r1 = r1  r2 = r2  m1 = m1
  t1 = t1  t2 = t2
  None = None
  Prompts <- OnePrompt
  Builds <- OneBuild
  BenchRequests <- OneRequest
  McpRequests <- NoRequest
  Texts <- OneText
  Reread <- OneKept
  MaxInFlight = 1
  Scrappable <- FromAnyone
  MayRestart = FALSE
  WritesMayFail = FALSE
PROPERTIES
  FinishNeverResurrects
CHECK_DEADLOCK FALSE
