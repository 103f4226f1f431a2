SPECIFICATION PageRun
CONSTANTS
  MaxQueue = 1
  MaxTurns = 3
  MaxSurvey = 2
  NoPick = NoPick
  MaxEvents = 4
  MaxPlays = 3
  PathLength = 2
  Named = {n1}
  Nameless = Nameless
  NoCard = NoCard
  Benches = {b1, b2}
  MaxTyped = 2
  MaxFetches = 3
  MaxFlying = 2
  Oath = 1
  Folders = {f1, f2}
  Home = f1
  NoFolder = NoFolder
  MaxReads = 4
  ScreenRepos = {a, b}
  NoRepo = NoRepo
  Unheard = Unheard
  MaxAsks = 3
  MaxOrders = 2
  MaxTrayPicks = 2
  TrayOath = 1
  Sockets = {s1, s2}
  MaxEffects = 2
  MaxFrames = 3
  LogbookLimit = 2
  TailLimit = 1
  NoSocket = NoSocket
INVARIANTS
  WordsStayInPlace
  OneOfEach
PROPERTIES
  PromisesKept
  PageSettles
CHECK_DEADLOCK FALSE
