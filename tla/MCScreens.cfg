\* Every screen; the user stops clicking some time.
SPECIFICATION MCSpec
CONSTANTS
  Parts = {"lists", "late", "work", "ending", "detail", "repeated", "replaced", "panel", "threads", "contexts"}
  a = a  b = b  p = p  q = q  t = t  u = u  x = x  y = y  z = z  c1 = c1  c2 = c2  c3 = c3
  Members = {a, b}
  Projects = {p, q}
  Tasks = {t, u}
  ProjectOf <- OneTaskEach
  ShellCalls = {c1, c2, c3}
  MaxActs = 3
  Artifacts = {f}
  ViewCalls = {c1, c2}
  MaxKeys = 2
  MaxSwitches = 2
  MaxRemounts = 1
  PanelCalls = {c1, c2}
  MaxTries = 2
  MaxSelections = 1
  MaxRetries = 2
  Conversations <- TwoAndOne
  TalkCalls = {c1, c2}
  PageSize = 2
  MaxMessages = 2
  MaxTaps = 5
 
PROPERTIES RetryKeepsKey 
CHECK_DEADLOCK FALSE
