\* Tasks of two projects, members that change, and lists read meanwhile; the
\* tasks and changes may be used up.
SPECIFICATION SmallSpec
CONSTANTS
  p = p  q = q  u = u  v = v
  Users = {u, v}
  Projects = {p, q}
  Tasks = {a, b}
  Slots = {s1, s2}
  Clients = {c}
  MaxChanges = 2
INVARIANTS DependenciesAreStartable ProjectsHold
CHECK_DEADLOCK FALSE
