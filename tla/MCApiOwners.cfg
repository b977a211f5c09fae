\* Two owners disable each other.
SPECIFICATION ApiSpec
CONSTANTS
  MaxRuns = 2  MaxActs = 2
  Parts = {"accounts"}
  olga = olga  omar = omar  ann = ann
  q1 = q1  q2 = q2  q3 = q3  q4 = q4  k1 = k1  k2 = k2  i1 = i1  i2 = i2  i3 = i3  i4 = i4  i5 = i5
  Users = {olga, omar, ann}
  Role <- TwoOwners
  Sessions = {s1, s2}
  MaxChanges = 3
  Departments = {"d"}
  Perms = {"DEPARTMENT:ASSIGN"}
  Targets = {omar}
  Writable = {"override", "member", "grant", "run"}
  MaxCommits = 3
  Requests = {q1, q2, q3, q4}
  Keys = {k1, k2}
  Key <- SharedKey
  Fingerprint <- TwoPrints
  CallIds = {i1, i2, i3, i4, i5}
  Batches <- ManyCalls
  Withdrawn = TRUE
  DbFails = TRUE
  Crashes = TRUE
INVARIANTS AnActiveOwner
CHECK_DEADLOCK FALSE
