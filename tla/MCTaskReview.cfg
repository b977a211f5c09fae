\* Two requests race on two competing candidates, the first of which may
\* belong to a Task that another one waits for.
SPECIFICATION SmallSpec
CONSTANTS
  e = e  o = o  t1 = t1  t2 = t2  a1 = a1
  Clients = {c1, c2}
  Users = {e, o}
  InitRole <- PairRole
  Administered = {o}
  Tasks = {t1, t2}
  Results = {r1, r2}
  Keys = {k1}
  Artifacts = {a1, a2}
  ArtifactTask <- AllOfFirstTask
  Comments = {m1}
INVARIANTS TaskResultAgreement NoWaitCycle DependenciesHonoured
PROPERTIES AnswersHold ImplementsLifecycle EveryRequestEnds
