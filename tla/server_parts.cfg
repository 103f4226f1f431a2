SPECIFICATION ServerRun
CONSTANTS
  Clients = {c1}
  Reloads = {r1, r2}
  StaleAfter = 3
  None = None
  Idle = Idle
  Loopback = {"localhost"}
  Wildcard = {"0.0.0.0"}
  OtherIps = {"192.0.2.1"}
  DnsNames = {"elsewhere", "lan"}
  Ports = {80, 4600}
  Bodies = {"none", "json", "malformed", "too-large", "other"}
  Unset = Unset
  Absent = Absent
  Opaque = Opaque
  Dist <- MCDist
  Siblings <- MCSiblings
  Segments = {"..", "a", "dist", "dist2"}
  Files <- MCFiles
  Dirs <- MCDirs
  Entries = {"a", ".b", "sys"}
  Hidden = {".b"}
  Flagged = {"sys"}
  Nowhere = Nowhere
  Repos = {a, b, c}
  Urls = {u1}
  Calls = {k1, k2, k3}
  MaxRecent = 2
  NoUrl = NoUrl
  PlTargets = {t1, t2}
  PlCalls = {q1}
  NoTarget = NoTarget
  Refs = {s1, s2, s3}
  UnknownRef = UnknownRef
  ListSize = 2
  MaxEndpoints = 2
  FixtureIds = {f1, f2}
  FixtureCalls = {x1, x2}
  NoFixture = NoFixture
  SheetCalls = {d1, d2, d3}
  MaxSheet = 3
  WriteTries = 2
  RenameTries = 2
  NoSheet = NoSheet
  Garbled = Garbled
  Writers = {w1, page}
  Page = page
  Servers = {e1}
  MaxClicks = 3
  MaxEdits = 1
  TfCalls = {c1, c2, c3}
  TfTargets = {t1, t2}
  NoMirror = NoMirror
INVARIANTS
  RequestsStayWithin
  MemoryAndFilesAgree
  ShownIsTrue
PROPERTIES
  ServerStepsInOrder
  ServerSettles
CHECK_DEADLOCK FALSE
