----------------------------- MODULE ProjectTasks ------------------------------
(***************************************************************************)
(* Projects, their members and the creation of tasks.  A project is stored *)
(* with its owner in one transaction.  A task is created at RepeatableRead:*)
(* the creator, the assignee and the dependencies are looked up in the     *)
(* transaction's snapshot, while the foreign keys of the rows it inserts   *)
(* are checked against what has committed by then.  No API adds or removes *)
(* members; the seed and database administration do.  A list is read by    *)
(* several statements, each of which sees what has committed.              *)
(***************************************************************************)
EXTENDS Naturals, FiniteSets

CONSTANTS
  Users, Projects, Tasks,
  Slots,        \* bound: transactions that are open at a time
  Clients,      \* bound: reads that are open at a time
  MaxChanges    \* bound: changes of members

ASSUME ProjectTasksAssumption ==
  /\ "none" \notin Users \cup Projects /\ MaxChanges \in Nat

VARIABLES
  stored,    \* projects that are stored
  role,      \* role[p][u]: the role of a member, or NONE
  task,      \* tasks, or NoTask
  tx,        \* open transactions
  read,      \* open reads of a project's tasks
  changes

vars == <<stored, role, task, tx, read, changes>>

Roles == {"OWNER", "MEMBER", "REVIEWER"}
Requests == [by: Users, project: Projects, assignee: Users \cup {"none"}, depends: SUBSET Tasks]
NoTask == [project |-> "none"]
NoTx == [step |-> "none"]
NoRead == [step |-> "none"]
Rows == [project: Projects, assignee: Users \cup {"none"}, depends: SUBSET Tasks]

Members(p) == {u \in Users: role[p][u] # "NONE"}
TasksOf(p) == {t \in Tasks: task[t].project = p}

TypeOK ==
  /\ stored \subseteq Projects
  /\ role \in [Projects -> [Users -> Roles \cup {"NONE"}]]
  /\ task \in [Tasks -> Rows \cup {NoTask}]
  /\ DOMAIN tx = Slots /\ \A s \in Slots: tx[s].step \in {"none", "project", "owner", "task"}
  /\ \A c \in Clients: read[c].step \in {"none", "tasks", "assignments", "dependencies", "shown"}
  /\ changes \in 0..MaxChanges

Init ==
  /\ stored = {}
  /\ role = [p \in Projects |-> [u \in Users |-> "NONE"]]
  /\ task = [t \in Tasks |-> NoTask]
  /\ tx = [s \in Slots |-> NoTx]
  /\ read = [c \in Clients |-> NoRead]
  /\ changes = 0

-----------------------------------------------------------------------------
(* Creating a project *)

Set(s, record) == tx' = [tx EXCEPT ![s] = record]
End(s) == Set(s, NoTx)
New(p) == p \notin stored /\ \A s \in Slots: tx[s].step \in {"project", "owner"} => tx[s].project # p

(* Mutant: the rows are inserted without a transaction. *)
InsertProjectAtOnce(s, p, u) ==
  /\ tx[s] = NoTx /\ New(p)
  /\ stored' = stored \cup {p}
  /\ Set(s, [step |-> "project", project |-> p, by |-> u])
  /\ UNCHANGED <<role, task, read, changes>>

InsertProject(s, p, u) ==
  /\ tx[s] = NoTx /\ New(p)
  /\ Set(s, [step |-> "project", project |-> p, by |-> u])
  /\ UNCHANGED <<stored, role, task, read, changes>>

InsertOwner(s) ==
  /\ tx[s].step = "project"
  /\ Set(s, [tx[s] EXCEPT !.step = "owner"])
  /\ UNCHANGED <<stored, role, task, read, changes>>

(* Mutant: the member has the role of the organization's administrators. *)
CommitProjectOfAdmin(s) ==
  /\ tx[s].step = "owner"
  /\ stored' = stored \cup {tx[s].project}
  /\ role' = [role EXCEPT ![tx[s].project][tx[s].by] = "ADMIN"]
  /\ End(s)
  /\ UNCHANGED <<task, read, changes>>

CommitProject(s) ==
  /\ tx[s].step = "owner"
  /\ stored' = stored \cup {tx[s].project}
  /\ role' = [role EXCEPT ![tx[s].project][tx[s].by] = "OWNER"]
  /\ End(s)
  /\ UNCHANGED <<task, read, changes>>

(* Not by the API.  Who owns a project stays; who has a task cannot leave   *)
(* (task_assignments references project_members, on delete restrict).       *)
ChangeMember(p, u, r) ==
  /\ p \in stored /\ role[p][u] # "OWNER" /\ r \in {"MEMBER", "REVIEWER", "NONE"} \ {role[p][u]}
  /\ r = "NONE" => \A t \in TasksOf(p): task[t].assignee # u
  /\ changes < MaxChanges /\ changes' = changes + 1
  /\ role' = [role EXCEPT ![p][u] = r]
  /\ UNCHANGED <<stored, task, tx, read>>

-----------------------------------------------------------------------------
(* Creating a task *)

(* The snapshot: the members, and the tasks of the project. *)
Begin(s, request) ==
  /\ tx[s] = NoTx
  /\ Set(s, [step |-> "task", request |-> request,
             members |-> Members(request.project), tasks |-> TasksOf(request.project)])
  /\ UNCHANGED <<stored, role, task, read, changes>>

(* Mutant: dependencies are not looked up: any stored task will do. *)
AcceptableElsewhere(s) ==
  LET r == tx[s].request IN
  /\ r.by \in tx[s].members
  /\ r.assignee \in tx[s].members \cup {"none"}
  /\ \A d \in r.depends: task[d] # NoTask

(* Else NOT_FOUND, for the creator and the dependencies, or a refusal of    *)
(* the assignee.                                                            *)
Acceptable(s) ==
  LET r == tx[s].request IN
  /\ r.by \in tx[s].members
  /\ r.assignee \in tx[s].members \cup {"none"}
  /\ r.depends \subseteq tx[s].tasks

(* Mutant: the assignment does not reference the member. *)
ReferencedAnyhow(s) == TRUE

(* The foreign key of the assignment. *)
Referenced(s) == tx[s].request.assignee \in Members(tx[s].request.project) \cup {"none"}

Row(r) == [project |-> r.project, assignee |-> r.assignee, depends |-> r.depends]

(* The id is made for the request (randomUUID): nobody has it yet. *)
CommitTask(s, t) ==
  /\ tx[s].step = "task" /\ Acceptable(s) /\ Referenced(s)
  /\ task[t] = NoTask
  /\ task' = [task EXCEPT ![t] = Row(tx[s].request)]
  /\ End(s)
  /\ UNCHANGED <<stored, role, read, changes>>

(* The request is refused, a foreign key is violated, or the connection is  *)
(* lost.                                                                    *)
Abort(s) ==
  /\ tx[s] # NoTx
  /\ End(s)
  /\ UNCHANGED <<stored, role, task, read, changes>>

-----------------------------------------------------------------------------
(* listByProjectForMember: the membership, then tasks, their assignments    *)
(* and their dependencies, one statement each.                              *)

Reading(c, record) ==
  /\ read' = [read EXCEPT ![c] = record]
  /\ UNCHANGED <<stored, role, task, tx, changes>>

(* The membership is checked: NOT_FOUND for others. *)
List(c, p, u) ==
  /\ read[c] = NoRead /\ u \in Members(p)
  /\ Reading(c, [step |-> "tasks", project |-> p, before |-> TasksOf(p)])

ReadTasks(c) ==
  LET r == read[c] IN
  /\ r.step = "tasks"
  /\ Reading(c, [step |-> "assignments", project |-> r.project, before |-> r.before,
                 rows |-> TasksOf(r.project)])

ReadAssignments(c) ==
  LET r == read[c] IN
  /\ r.step = "assignments"
  /\ Reading(c, [step |-> "dependencies", before |-> r.before, project |-> r.project,
                 assignee |-> [t \in r.rows |-> task[t].assignee]])

(* Mutant: the tasks are read with their dependencies. *)
ReadDependenciesOfAll(c) ==
  LET r == read[c]
      assignee(t) == IF t \in DOMAIN r.assignee THEN r.assignee[t] ELSE "none"
  IN /\ r.step = "dependencies"
     /\ Reading(c, [step |-> "shown", before |-> r.before, shown |-> [t \in TasksOf(r.project) |->
          [project |-> r.project, assignee |-> assignee(t), depends |-> task[t].depends]]])

ReadDependencies(c) ==
  LET r == read[c] IN
  /\ r.step = "dependencies"
  /\ Reading(c, [step |-> "shown", before |-> r.before, shown |-> [t \in DOMAIN r.assignee |->
       [project |-> r.project, assignee |-> r.assignee[t], depends |-> task[t].depends]]])

Answer(c) == read[c].step = "shown" /\ Reading(c, NoRead)

Next ==
  \/ \E s \in Slots:
       \/ \E p \in Projects, u \in Users: InsertProject(s, p, u)
       \/ InsertOwner(s) \/ CommitProject(s)
       \/ \E request \in Requests: Begin(s, request)
       \/ \E t \in Tasks: CommitTask(s, t)
       \/ Abort(s)
  \/ \E p \in Projects, u \in Users:
       \/ \E r \in Roles \cup {"NONE"}: ChangeMember(p, u, r)
       \/ \E c \in Clients: List(c, p, u)
  \/ \E c \in Clients: ReadTasks(c) \/ ReadAssignments(c) \/ ReadDependencies(c) \/ Answer(c)

Spec == Init /\ [][Next]_vars

-----------------------------------------------------------------------------
(* A project that anybody can meet has exactly one owner, though it and its *)
(* owner are two inserts and the connection may be lost between them.       *)
ProjectsAreOwned ==
  \A p \in Projects: Cardinality({u \in Users: role[p][u] = "OWNER"}) = IF p \in stored THEN 1 ELSE 0

(* Who a task is assigned to is a member, though the membership was read    *)
(* from an earlier snapshot and may end while the task is created.          *)
AssigneesAreMembers ==
  \A p \in Projects: \A t \in TasksOf(p): task[t].assignee \in Members(p) \cup {"none"}

(* A task can be started some day: what it waits for are tasks of its       *)
(* project, and no tasks wait for each other.                               *)
DependenciesAreStartable ==
  /\ \A p \in Projects: \A t \in TasksOf(p): task[t].depends \subseteq TasksOf(p)
  /\ \A S \in SUBSET {t \in Tasks: task[t] # NoTask}: S # {} => \E t \in S: task[t].depends \cap S = {}

(* A list shows every task that was there when it was asked for, and each   *)
(* task whole, though tasks are created between its statements.             *)
ListsAreWhole ==
  \A c \in Clients: read[c].step = "shown" =>
    /\ read[c].before \subseteq DOMAIN read[c].shown
    /\ \A t \in DOMAIN read[c].shown: read[c].shown[t] = task[t]

(* The lists that are read beside writing transactions are whole, and the   *)
(* rows agree: projects have their owner, tasks their assignee, who is a    *)
(* member.                                                                  *)
ProjectsHold == TypeOK /\ ProjectsAreOwned /\ AssigneesAreMembers /\ ListsAreWhole
===============================================================================
