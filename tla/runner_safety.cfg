SPECIFICATION RunnerSpec
CONSTANTS
  b1 = b1
  b2 = b2
  b3 = b3
  p1 = p1
  p2 = p2
  None = None
  Builds <- MCBuilds
  Prompts <- MCPrompts
  SpawnMayFail = FALSE
INVARIANTS
  RunnerTypeOK
  OneBuildAtATime
  SlotIsHonest
  AtMostOneNotice
PROPERTIES
  ImplementsSlot
SYMMETRY Symmetry
CHECK_DEADLOCK FALSE
