\* Two requests race on a write, a read or an invalid write, whose employee
\* may lose the membership, and which a colleague may name.
SPECIFICATION SmallSpec
CONSTANTS
  e = e  g = g  w = w  f = f  x = x  ok = ok  bad = bad
  Clients = {c1, c2}
  Users = {e, g}
  Administered = {e}
  Runs = {w, f, x}
  Tool <- OneRead
  Malformed = {x}
  Receipts = {ok, bad}
  Outcome <- ReceiptOutcome
  Artifacts = {a1, a2}
INVARIANTS RowsAgree ArtifactProvenance NoWaitCycle
PROPERTIES RunsHold ImplementsRunLifecycle EveryRequestEnds
