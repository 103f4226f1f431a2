SPECIFICATION FairHostSpec
CONSTANTS
  Boot = Boot
  None = None
  Clamps = {c1, c2}
  Unclamps = {x1}
  Starts = {s1, s2}
  Stops = {o1}
  Urls = {u1}
  Runners = {Boot, c1, c2}
  Stoppers = {s1, s2, o1, c1, c2, x1}
  PipesHeld = FALSE
  Overtakes = TRUE
  CreateMayFail = TRUE
INVARIANTS
  LastAskedWins
CHECK_DEADLOCK FALSE
