\* Every service of the main process; the calls may be used up.
SPECIFICATION MCSpec
CONSTANTS
  w1 = w1  w2 = w2  n1 = n1  s1 = s1  s2 = s2  b1 = b1  a1 = a1
  Writers = {w1, w2, n1}
  Expected <- Approved
  Paths = {p1}
  Path <- OnePath
  Edits <- OtherContent
  IoFails = TRUE
  Crashes = TRUE
  GatewayCalls = {l1, l2, l3}
  MaxRestarts = 1
  Users = {u1, u2}
  Folders = {f1}
  Selects = {s1, s2}
  Unbinds = {b1}
  FolderReads = {}
  Runs = {a1}
  Names = {"h", "w", "d", "in", "up", "out", "back", "x"}
  Root <- Workspace
  Links <- SomeLinks
  Requests <- ShortPaths
  MaxRead = 2
  MaxSize = 3
  Hashes = {"h", "k"}
  MaxWrite = 2
INVARIANTS Mutex  ReceiptsAreTaken
PROPERTIES  EveryWriteEnds LatestIntentWins BindingsKept MutationsEnd
CHECK_DEADLOCK FALSE
