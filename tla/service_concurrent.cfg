SPECIFICATION ServiceSpec
CONSTANTS
  b1 = b1  b2 = b2  p1 = p1  p2 = p2  r1 = r1  r2 = r2  m1 = m1
  t1 = t1  t2 = t2
  None = None
  Prompts <- OnePrompt
  Builds <- TwoBuilds
  BenchRequests <- OneRequest
  McpRequests <- OneMark
  Texts <- OneText
  Reread <- OneKept
  MaxInFlight = 2
  Scrappable <- FromAnyone
  MayRestart = TRUE
  WritesMayFail = TRUE
INVARIANTS
  ServiceTypeOK
  RecordsConsistent
  ApartOnlyIfCrossed
SYMMETRY BuildSymmetry
CHECK_DEADLOCK FALSE
