SPECIFICATION FairRunnerSpec
CONSTANTS
  b1 = b1
  b2 = b2
  b3 = b3
  p1 = p1
  p2 = p2
  None = None
  Builds <- MCTwoBuilds
  Prompts <- MCOnePrompt
  SpawnMayFail = TRUE
PROPERTIES
  CancelSticks
  BuildSettles
CHECK_DEADLOCK FALSE
