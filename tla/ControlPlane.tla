----------------------------- MODULE ControlPlane -----------------------------
(***************************************************************************)
(* The organization's control plane: Departments and their members,        *)
(* Permission Overrides, the Agent catalog, and the runs it admits.  Every *)
(* operation is a transaction at RepeatableRead that decides in its        *)
(* snapshot and writes one row; it fails when that row was written since.  *)
(* An override stands for one resource and action of a user at a scope.    *)
(* All memberships are active.                                             *)
(***************************************************************************)
EXTENDS Naturals, Sequences

CONSTANTS
  Users,
  Role,          \* OrganizationMembership.role
  Departments,
  Perms,         \* bound: the permissions overridden, of {"DEPARTMENT:MANAGE",
                 \* "DEPARTMENT:ASSIGN", "AGENT:MANAGE", "AGENT:ASSIGN", "AGENT:EXECUTE"}
  Targets,       \* bound: the users whose rows are written
  Writable,      \* bound: the kinds of rows that are written
  MaxCommits     \* bound: transactions that commit a change

Scopes == {"org"} \cup Departments

Overrides == {"override"} \X Users \X Scopes \X Perms
Members == {"member"} \X Users
DepartmentRows == {"department"} \X Departments
Grants == {"grant"} \X (Scopes \cup Users)
Runs == {"run"} \X Users
Agent == <<"agent">>
AllRows == Overrides \cup Members \cup DepartmentRows \cup Grants \cup Runs \cup {Agent}
Rows == {row \in AllRows: row[1] \in Writable /\ (row # Agent => row[2] \notin Users \ Targets)}

Values(row) ==
  CASE row[1] = "override" -> {"NONE", "ALLOW", "DENY"}
    [] row[1] = "member" -> {"NONE"} \cup Departments
    [] row[1] \in {"department", "agent"} -> {"NONE", "ACTIVE", "DISABLED"}
    [] row[1] = "grant" -> {"NONE", "ACTIVE"}
    [] row[1] = "run" -> {"NONE", "STARTED"}

VARIABLES
  db,      \* committed rows
  tx,      \* the transaction each user has open, with its snapshot
  audit,   \* AuditEvent
  commits

vars == <<db, tx, audit, commits>>

Closed == [row |-> <<>>, value |-> "NONE", seen |-> <<>>, log |-> 0, stale |-> {}]
Open(u) == tx[u] # Closed

TypeOK ==
  /\ \A row \in Rows: db[row] \in Values(row)
  /\ \A u \in Users: Open(u) => tx[u].row \in Rows /\ tx[u].value \in Values(tx[u].row) /\ tx[u].stale \subseteq Rows
  /\ \A i \in DOMAIN audit: audit[i].actor \in Users /\ {audit[i].before, audit[i].after} \subseteq Values(audit[i].row)
  /\ commits \in 0..MaxCommits

(* The first Departments and Agents are the seed's. *)
Init ==
  /\ \E new \in SUBSET (Rows \cap (DepartmentRows \cup {Agent})):
       db = [row \in AllRows |->
               IF row \in (DepartmentRows \cup {Agent, <<"grant", "org">>}) \ new THEN "ACTIVE" ELSE "NONE"]
  /\ tx = [u \in Users |-> Closed]
  /\ audit = <<>> /\ commits = 0

-----------------------------------------------------------------------------
(* evaluatePermission *)

Matching(seen, u, scope, p) ==
  {seen[o]: o \in {q \in Overrides: q[2] = u /\ q[3] \in {scope, "org"} /\ q[4] = p}}

RoleAllows(u, p) ==
  \/ Role[u] \in {"OWNER", "ADMIN"}
  \/ p = "AGENT:EXECUTE"

(* Mutant: the first matching override decides. *)
EvaluateAllowFirst(seen, u, scope, p) ==
  \/ "ALLOW" \in Matching(seen, u, scope, p)
  \/ "DENY" \notin Matching(seen, u, scope, p) /\ RoleAllows(u, p)

Evaluate(seen, u, scope, p) ==
  /\ "DENY" \notin Matching(seen, u, scope, p)
  /\ "ALLOW" \in Matching(seen, u, scope, p) \/ RoleAllows(u, p)

-----------------------------------------------------------------------------
(* What each operation decides in its snapshot: may u write value to row?   *)

ActiveDepartment(seen, d) == seen[<<"department", d>>] = "ACTIVE"
ScopeExists(seen, scope) == scope \in Departments => ActiveDepartment(seen, scope)
DepartmentScope(seen, u) == IF seen[<<"member", u>>] = "NONE" THEN "org" ELSE seen[<<"member", u>>]

PutOverride(seen, u, row, value) ==
  /\ value # "NONE" /\ Role[u] # "MEMBER"
  /\ ScopeExists(seen, row[3])

RemoveOverride(seen, u, row, value) ==
  value = "NONE" /\ Role[u] # "MEMBER" /\ seen[row] # "NONE"

CreateDepartment(seen, u, row, value) ==
  value = "ACTIVE" /\ seen[row] = "NONE" /\ Evaluate(seen, u, "org", "DEPARTMENT:MANAGE")

UpdateDepartment(seen, u, row, value) ==
  value # "NONE" /\ seen[row] # "NONE" /\ Evaluate(seen, u, row[2], "DEPARTMENT:MANAGE")

AssignEmployee(seen, u, row, value) ==
  /\ value # "NONE" /\ ActiveDepartment(seen, value)
  /\ Evaluate(seen, u, value, "DEPARTMENT:ASSIGN")

CreateAgent(seen, u, row, value) ==
  value = "ACTIVE" /\ seen[row] = "NONE" /\ Evaluate(seen, u, "org", "AGENT:MANAGE")

UpdateAgent(seen, u, row, value) ==
  value # "NONE" /\ seen[row] # "NONE" /\ Evaluate(seen, u, "org", "AGENT:MANAGE")

(* Its scope is looked up when it is added, not when it is removed. *)
GrantAgent(seen, u, row, value) ==
  /\ seen[Agent] # "NONE" /\ Evaluate(seen, u, "org", "AGENT:ASSIGN")
  /\ IF value = "NONE" THEN seen[row] # "NONE" ELSE ScopeExists(seen, row[2])

(* createCatalogRun, authorizeModelRun *)
Granted(seen, u) ==
  \E scope \in {"org", u, DepartmentScope(seen, u)}: seen[<<"grant", scope>>] = "ACTIVE"

(* Mutant: the permission is enough. *)
StartRunPermitted(seen, u, row, value) ==
  /\ row[2] = u /\ value = "STARTED" /\ seen[Agent] = "ACTIVE"
  /\ Evaluate(seen, u, DepartmentScope(seen, u), "AGENT:EXECUTE")

StartRun(seen, u, row, value) ==
  /\ row[2] = u /\ value = "STARTED" /\ seen[Agent] = "ACTIVE"
  /\ Granted(seen, u)
  /\ Evaluate(seen, u, DepartmentScope(seen, u), "AGENT:EXECUTE")

Allowed(seen, u, row, value) ==
  CASE row[1] = "override" -> PutOverride(seen, u, row, value) \/ RemoveOverride(seen, u, row, value)
    [] row[1] = "member" -> AssignEmployee(seen, u, row, value)
    [] row[1] = "department" -> CreateDepartment(seen, u, row, value) \/ UpdateDepartment(seen, u, row, value)
    [] row[1] = "agent" -> CreateAgent(seen, u, row, value) \/ UpdateAgent(seen, u, row, value)
    [] row[1] = "grant" -> GrantAgent(seen, u, row, value)
    [] row[1] = "run" -> StartRun(seen, u, row, value)

-----------------------------------------------------------------------------
Begin(u, row, value) ==
  /\ ~Open(u) /\ commits < MaxCommits
  /\ value \in Values(row)
  /\ tx' = [tx EXCEPT ![u] = [row |-> row, value |-> value, seen |-> db, log |-> Len(audit), stale |-> {}]]
  /\ UNCHANGED <<db, audit, commits>>

(* What the event says of the change; updates of a Department or an Agent    *)
(* append none, nor do writes that change nothing.                          *)
Event(u) ==
  LET t == tx[u]
      before == t.seen[t.row]
  IN IF \/ before = t.value \/ t.row[1] = "run"
        \/ t.row[1] \in {"department", "agent"} /\ before # "NONE"
     THEN <<>>
     ELSE <<[actor |-> u, row |-> t.row, before |-> before, after |-> t.value]>>

(* Mutant: the last writer wins. *)
ConflictsNever(u) == FALSE

Conflicts(u) == tx[u].row \in tx[u].stale

Reject(u) ==
  /\ Open(u)
  /\ ~Allowed(tx[u].seen, u, tx[u].row, tx[u].value) \/ Conflicts(u)
  /\ tx' = [tx EXCEPT ![u] = Closed]
  /\ UNCHANGED <<db, audit, commits>>

(* The insert of a department's name that exists by now fails as well; that *)
(* is a row in stale here.                                                  *)
Commit(u) ==
  /\ Open(u) /\ commits < MaxCommits
  /\ Allowed(tx[u].seen, u, tx[u].row, tx[u].value) /\ ~Conflicts(u)
  /\ db' = [db EXCEPT ![tx[u].row] = tx[u].value]
  /\ audit' = audit \o Event(u) /\ commits' = commits + 1
  /\ tx' = [w \in Users |-> IF w = u THEN Closed
                            ELSE IF Open(w) THEN [tx[w] EXCEPT !.stale = @ \cup {tx[u].row}] ELSE tx[w]]

Next ==
  \E u \in Users:
    \/ \E row \in Rows: \E value \in Values(row): Begin(u, row, value)
    \/ Reject(u) \/ Commit(u)

Spec == Init /\ [][Next]_vars

-----------------------------------------------------------------------------
(* What the first n events of the log tell of a row, if anything: what the  *)
(* last of them that is about it has left.                                  *)
LastAbout(row, i, n) == i \in 1..n /\ audit[i].row = row /\ \A j \in i + 1..n: audit[j].row # row

Told(row, n) == {audit[i].after: i \in {j \in 1..n: LastAbout(row, j, n)}}

(* The events of a row tell its history: each starts from what the one      *)
(* before it left, changes something, and the last one left what the row    *)
(* holds, though the before image comes from a snapshot.                    *)
ChainOf(row) ==
  /\ \A i \in 1..Len(audit): audit[i].row = row
       => audit[i].before # audit[i].after /\ Told(row, i - 1) \subseteq {audit[i].before}
  /\ Told(row, Len(audit)) \subseteq {db[row]}

AuditChain == \A row \in Rows: row[1] \in {"override", "member", "grant"} => ChainOf(row)

(* "Records successful Admin API Department, ... Agent Definition ...       *)
(* mutations": nothing but the audited transactions changes a row.          *)
AllAudited ==
  [][\A row \in Rows \ Runs: db'[row] # db[row] => Len(audit') = Len(audit) + 1 /\ audit'[Len(audit')].row = row]_vars

(* "Matching DENY wins over matching ALLOW", told from the log alone: what  *)
(* the events before a transaction left of its author's overrides, at the   *)
(* scope of the row or at the organization's, and the role account for it.  *)
Needed(row) ==
  CASE row[1] = "department" -> "DEPARTMENT:MANAGE" [] row[1] = "member" -> "DEPARTMENT:ASSIGN"
    [] row[1] = "agent" -> "AGENT:MANAGE" [] row[1] = "grant" -> "AGENT:ASSIGN"
    [] row[1] = "run" -> "AGENT:EXECUTE" [] OTHER -> "none"

ScopeOf(u, t) ==
  CASE t.row[1] = "department" -> IF t.seen[t.row] = "NONE" THEN "org" ELSE t.row[2]
    [] t.row[1] = "member" -> t.value [] t.row[1] = "run" -> DepartmentScope(t.seen, u) [] OTHER -> "org"

AuthorityIsLogged ==
  [][\A u \in Users: Open(u) /\ ~Open(u)' /\ db' # db /\ Needed(tx[u].row) \in Perms =>
       LET effects == UNION {Told(<<"override", u, scope, Needed(tx[u].row)>>, tx[u].log): scope \in {"org", ScopeOf(u, tx[u])}}
       IN "DENY" \notin effects /\ ("ALLOW" \in effects \/ RoleAllows(u, Needed(tx[u].row)))]_vars

(* "An allow override never creates an assignment": a run starts only under *)
(* an assignment to the organization, the user or the user's department.    *)
RunsAreAssigned ==
  [][\A u \in Users: Open(u) /\ ~Open(u)' /\ db'[<<"run", u>>] # db[<<"run", u>>]
       => \E scope \in Scopes \cup Users:
            tx[u].seen[<<"grant", scope>>] = "ACTIVE"
              /\ (scope \in Users => scope = u)
              /\ (scope \in Departments => tx[u].seen[<<"member", u>>] = scope)]_vars
===============================================================================
