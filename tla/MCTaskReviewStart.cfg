\* The contract's answer to a repeated START, against two racing requests.
SPECIFICATION SmallSpec
CONSTANTS
  e = e  o = o  t1 = t1  t2 = t2  a1 = a1
  Clients = {c1, c2}
  Users = {e, o}
  InitRole <- PairRole
  Administered = {}
  Tasks = {t1, t2}
  Results = {r1}
  Keys = {k1}
  Artifacts = {a1}
  ArtifactTask <- AllOfFirstTask
  Comments = {m1}
INVARIANTS RepeatStartIsConflict
