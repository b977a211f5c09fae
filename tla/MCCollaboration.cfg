\* Messages of one conversation by two authors, and of two conversations; the
\* slots, keys and clock may be used up.
SPECIFICATION SmallSpec
CONSTANTS
  u = u  v = v  c = c  d = d
  Users = {u, v}
  ProjectMembers = {u}
  Conversations = {c, d}
  Types = {"AI_THREAD", "PROJECT", "TASK", "HUMAN_GROUP", "HUMAN_DM"}
  Keys = {k, l}
  Contents = {"x", "y"}
  Slots = {s, t}
  PageSize = 1
  MaxTime = 3
INVARIANTS PagesMissNothing ConversationsHold
CHECK_DEADLOCK FALSE
