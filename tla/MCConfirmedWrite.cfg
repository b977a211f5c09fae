\* One request, two employees and two folders.
SPECIFICATION SmallSpec
CONSTANTS
  e = e  o = o
  Users = {e, o}
  Writes = {w1}
  Folders = {f1, f2}
  Calls = {c1, c2}
  Faulty = TRUE
  Signed = e
  Full = TRUE
INVARIANTS OneShot 
PROPERTIES   CalmRunsAreReported
