\* Every part; the sessions, keys and runs may be used up.
SPECIFICATION ApiSpec
CONSTANTS
  MaxRuns = 2  MaxActs = 2
  Parts = {"accounts", "control", "race", "limits", "smooth", "seed"}
  olga = olga  omar = omar  ann = ann
  q1 = q1  q2 = q2  q3 = q3  q4 = q4  k1 = k1  k2 = k2  i1 = i1  i2 = i2  i3 = i3  i4 = i4  i5 = i5
  Users = {olga, omar, ann}
  Role <- Officers
  Sessions = {s1, s2}
  MaxChanges = 3
  Departments = {"d"}
  Perms = {"DEPARTMENT:ASSIGN"}
  Targets = {omar}
  Writable = {"override", "member", "grant", "run"}
  MaxCommits = 3
  Requests = {q1, q2, q3, q4}
  Keys = {k1, k2}
  Key <- SharedKey
  Fingerprint <- TwoPrints
  CallIds = {i1, i2, i3, i4, i5}
  Batches <- ManyCalls
  Withdrawn = TRUE
  DbFails = TRUE
  Crashes = TRUE
PROPERTIES AccountsAreSafe  ModelRunsHold ModelRunsEnd 
CHECK_DEADLOCK FALSE
