--------------------------- MODULE ProjectTasksProofs ---------------------------
(****************************************************************************)
(* Proofs about ProjectTasks, for every set of projects, members, tasks and *)
(* transactions: tasks are assigned to members and wait for tasks that can  *)
(* be settled.  The invariant says what a transaction may rely on.  Its     *)
(* snapshot of the tasks is never wrong, as tasks are only added; that of   *)
(* the members may be, so that the foreign key keeps assignees members.     *)
(****************************************************************************)
EXTENDS ProjectTasks, FiniteSetTheorems, TLAPS

Tables ==
  /\ role \in [Projects -> [Users -> Roles \cup {"NONE"}]]
  /\ task \in [Tasks -> Rows \cup {NoTask}]
  /\ DOMAIN tx = Slots

(* What a transaction has seen of the tasks is still there. *)
Snapshots ==
  \A s \in Slots: tx[s].step = "task" =>
    /\ tx[s].request \in Requests
    /\ tx[s].tasks \subseteq TasksOf(tx[s].request.project)

(* The first half of DependenciesAreStartable. *)
InProject == \A p \in Projects: \A t \in TasksOf(p): task[t].depends \subseteq TasksOf(p)

(* The second half. *)
Stored == {t \in Tasks: task[t] # NoTask}
NoCircle == \A S \in SUBSET Stored: S # {} => \E t \in S: task[t].depends \cap S = {}

IInv == Tables /\ Snapshots /\ AssigneesAreMembers /\ InProject /\ NoCircle

LEMMA StoredIsOfProject ==
  ASSUME Tables, NEW t \in Tasks
  PROVE task[t] # NoTask <=> \E p \in Projects: t \in TasksOf(p)
BY ProjectTasksAssumption DEF Tables, Rows, NoTask, TasksOf

LEMMA InitIInv == Init => IInv
<1> SUFFICES ASSUME Init PROVE IInv
  OBVIOUS
<1> USE ProjectTasksAssumption DEF Init
<1>1. Tables /\ Snapshots
  BY DEF Tables, Snapshots, NoTx
<1>2. \A p \in Projects: TasksOf(p) = {}
  BY DEF TasksOf, NoTask
<1>3. AssigneesAreMembers /\ InProject
  BY <1>2 DEF AssigneesAreMembers, InProject
<1>4. NoCircle
  BY DEF NoCircle, Stored
<1> QED BY <1>1, <1>3, <1>4 DEF IInv

(* Steps that write neither members nor tasks.                              *)
LEMMA Unwritten ==
  ASSUME IInv, UNCHANGED <<role, task>>, DOMAIN tx' = Slots, Snapshots'
  PROVE IInv'
BY DEF IInv, Tables, AssigneesAreMembers, InProject, NoCircle, Stored, Members, TasksOf

(* A transaction that takes a snapshot, makes an insert or ends.            *)
LEMMA OneTransaction ==
  ASSUME IInv, UNCHANGED task, NEW s \in Slots, NEW record, Set(s, record),
         record.step = "task" =>
           record.request \in Requests /\ record.tasks \subseteq TasksOf(record.request.project)
  PROVE DOMAIN tx' = Slots /\ Snapshots'
BY DEF IInv, Tables, Snapshots, Set, TasksOf

LEMMA ProjectIInv ==
  ASSUME IInv, NEW s \in Slots, CommitProject(s)
  PROVE IInv'
<1> USE DEF CommitProject
<1>1. Tables'
  BY DEF IInv, Tables, Roles, End, Set
<1>2. Snapshots'
  BY OneTransaction DEF End, NoTx
<1>3. \A p \in Projects: Members(p) \subseteq Members(p)'
  BY DEF IInv, Tables, Members
<1>4. AssigneesAreMembers'
  BY <1>3 DEF IInv, AssigneesAreMembers, TasksOf
<1>5. InProject' /\ NoCircle'
  BY DEF IInv, InProject, NoCircle, Stored, TasksOf
<1> QED BY <1>1, <1>2, <1>4, <1>5 DEF IInv

(* A member leaves only when no task is assigned to it.                     *)
LEMMA MembersIInv ==
  ASSUME IInv, NEW p \in Projects, NEW u \in Users, NEW r \in Roles \cup {"NONE"}, ChangeMember(p, u, r)
  PROVE IInv'
<1> USE DEF ChangeMember
<1>1. Tables' /\ Snapshots'
  BY DEF IInv, Tables, Snapshots, TasksOf
<1>2. AssigneesAreMembers'
  <2> SUFFICES ASSUME NEW q \in Projects, NEW t \in TasksOf(q)
               PROVE task[t].assignee \in Members(q)' \cup {"none"}
    BY DEF AssigneesAreMembers, TasksOf
  <2>1. task[t].assignee \in Members(q) \cup {"none"}
    BY DEF IInv, AssigneesAreMembers
  <2>2. CASE r # "NONE" \/ q # p
    BY <2>1, <2>2 DEF IInv, Tables, Members, Roles
  <2>3. CASE r = "NONE" /\ q = p
    BY <2>1, <2>3 DEF IInv, Tables, Members
  <2> QED BY <2>2, <2>3
<1>3. InProject' /\ NoCircle'
  BY DEF IInv, InProject, NoCircle, Stored, TasksOf
<1> QED BY <1>1, <1>2, <1>3 DEF IInv

(* A new task waits for tasks of its snapshot, and none waits for it.       *)
LEMMA TaskIInv ==
  ASSUME IInv, NEW s \in Slots, NEW t \in Tasks, CommitTask(s, t)
  PROVE IInv'
<1> DEFINE r == tx[s].request
<1> USE DEF CommitTask
<1>1. r \in Requests /\ r.depends \subseteq TasksOf(r.project)
  BY DEF IInv, Snapshots, Acceptable
<1>2. /\ Row(r) \in Rows /\ Row(r).project = r.project
      /\ Row(r).assignee = r.assignee /\ Row(r).depends = r.depends
  BY <1>1 DEF Row, Rows, Requests
<1>3. task' = [task EXCEPT ![t] = Row(r)] /\ task' \in [Tasks -> Rows \cup {NoTask}] /\ task'[t] = Row(r)
  BY <1>2 DEF IInv, Tables
<1>4. Tables'
  BY <1>3 DEF IInv, Tables, End, Set
<1>5. \A p \in Projects: TasksOf(p)' = TasksOf(p) \cup (IF p = r.project THEN {t} ELSE {})
  BY <1>2, <1>3, ProjectTasksAssumption DEF IInv, Tables, TasksOf, NoTask
<1>6. Snapshots'
  <2> SUFFICES ASSUME NEW o \in Slots, tx'[o].step = "task"
               PROVE (tx[o].request \in Requests /\ tx[o].tasks \subseteq TasksOf(tx[o].request.project))'
    BY DEF Snapshots
  <2>1. tx'[o] = tx[o]
    BY DEF IInv, Tables, End, Set, NoTx
  <2>2. tx[o].request \in Requests /\ tx[o].tasks \subseteq TasksOf(tx[o].request.project)
    BY <2>1 DEF IInv, Snapshots
  <2>3. tx[o].request.project \in Projects
    BY <2>2 DEF Requests
  <2>4. PICK q \in Projects: q = tx[o].request.project
    BY <2>3
  <2>5. tx[o].tasks \subseteq TasksOf(q)'
    BY <1>5, <2>2, <2>4
  <2> QED BY <2>1, <2>2, <2>4, <2>5 DEF TasksOf
<1>7. AssigneesAreMembers'
  <2>1. \A p \in Projects: Members(p)' = Members(p)
    BY DEF Members
  <2>2. task'[t].assignee \in Members(r.project) \cup {"none"}
    BY <1>2, <1>3 DEF Referenced
  <2>3. \A o \in Tasks \ {t}: task'[o] = task[o]
    BY <1>3 DEF IInv, Tables
  <2>4. \A p \in Projects: t \notin TasksOf(p)
    BY ProjectTasksAssumption DEF TasksOf, NoTask
  <2>5. \A p \in Projects: TasksOf(p) \subseteq Tasks \ {t}
    BY <2>4 DEF TasksOf
  <2> SUFFICES ASSUME NEW p \in Projects, NEW o \in TasksOf(p)'
               PROVE task'[o].assignee \in Members(p) \cup {"none"}
    BY <2>1 DEF AssigneesAreMembers
  <2>6. CASE o \in TasksOf(p)
    BY <2>3, <2>5, <2>6 DEF IInv, AssigneesAreMembers
  <2>7. CASE o \notin TasksOf(p)
    <3>1. p = r.project /\ o = t
      BY <1>5, <2>7
    <3> QED BY <2>2, <3>1
  <2> QED BY <2>6, <2>7
<1>8. InProject'
  <2>1. \A o \in Tasks \ {t}: task'[o] = task[o]
    BY <1>3 DEF IInv, Tables
  <2>2. \A p \in Projects: TasksOf(p) \subseteq Tasks \ {t}
    BY ProjectTasksAssumption DEF TasksOf, NoTask
  <2> SUFFICES ASSUME NEW p \in Projects, NEW o \in TasksOf(p)'
               PROVE task'[o].depends \subseteq TasksOf(p)'
    BY DEF InProject
  <2>3. CASE o \in TasksOf(p)
    BY <1>5, <2>1, <2>2, <2>3 DEF IInv, InProject
  <2>4. CASE o \notin TasksOf(p)
    <3>1. p = r.project /\ o = t
      BY <1>5, <2>4
    <3> QED BY <1>1, <1>2, <1>3, <1>5, <3>1
  <2> QED BY <2>3, <2>4
<1>9. NoCircle'
  <2>1. Stored' = Stored \cup {t} /\ t \notin Stored
    BY <1>2, <1>3, ProjectTasksAssumption DEF IInv, Tables, Stored, Rows, NoTask
  <2>2. \A o \in Stored: task'[o] = task[o] /\ t \notin task[o].depends
    <3> SUFFICES ASSUME NEW o \in Stored PROVE task'[o] = task[o] /\ t \notin task[o].depends
      OBVIOUS
    <3>1. PICK p \in Projects: o \in TasksOf(p)
      BY StoredIsOfProject DEF IInv, Stored
    <3>2. task[o].depends \subseteq TasksOf(p)
      BY <3>1 DEF IInv, InProject
    <3>3. t \notin TasksOf(p)
      BY ProjectTasksAssumption DEF TasksOf, NoTask
    <3>4. o # t
      BY <2>1
    <3> QED BY <1>3, <3>2, <3>3, <3>4 DEF IInv, Tables, Stored
  <2>3. t \notin task'[t].depends
    BY <1>1, <1>2, <1>3, ProjectTasksAssumption DEF TasksOf, NoTask, Requests
  <2> SUFFICES ASSUME NEW S \in SUBSET Stored', S # {}
               PROVE \E o \in S: task'[o].depends \cap S = {}
    BY DEF NoCircle
  <2>4. CASE S = {t}
    BY <2>3, <2>4
  <2>5. CASE S # {t}
    <3>1. S \ {t} \in SUBSET Stored /\ S \ {t} # {}
      BY <2>1, <2>5
    <3>2. PICK o \in S \ {t}: task[o].depends \cap (S \ {t}) = {}
      BY <3>1 DEF IInv, NoCircle
    <3> QED BY <2>2, <3>1, <3>2
  <2> QED BY <2>4, <2>5
<1> QED BY <1>4, <1>6, <1>7, <1>8, <1>9 DEF IInv

LEMMA NextIInv == IInv /\ [Next]_vars => IInv'
<1> SUFFICES ASSUME IInv, [Next]_vars PROVE IInv'
  OBVIOUS
<1>1. ASSUME NEW s \in Slots, NEW p \in Projects, NEW u \in Users, InsertProject(s, p, u) PROVE IInv'
  <2>1. DOMAIN tx' = Slots /\ Snapshots'
    BY <1>1, OneTransaction DEF InsertProject
  <2> QED BY <1>1, <2>1, Unwritten DEF InsertProject
<1>2. ASSUME NEW s \in Slots, InsertOwner(s) PROVE IInv'
  <2>1. DOMAIN tx' = Slots /\ Snapshots'
    BY <1>2 DEF InsertOwner, IInv, Tables, Snapshots, Set, TasksOf
  <2> QED BY <1>2, <2>1, Unwritten DEF InsertOwner
<1>3. ASSUME NEW s \in Slots, NEW request \in Requests, Begin(s, request) PROVE IInv'
  <2>1. DOMAIN tx' = Slots /\ Snapshots'
    BY <1>3, OneTransaction DEF Begin
  <2> QED BY <1>3, <2>1, Unwritten DEF Begin
<1>4. ASSUME NEW s \in Slots, Abort(s) PROVE IInv'
  <2>1. DOMAIN tx' = Slots /\ Snapshots'
    BY <1>4, OneTransaction DEF Abort, End, NoTx
  <2> QED BY <1>4, <2>1, Unwritten DEF Abort
<1>5. ASSUME UNCHANGED <<role, task, tx>> PROVE IInv'
  <2>1. DOMAIN tx' = Slots /\ Snapshots'
    BY <1>5 DEF IInv, Tables, Snapshots, TasksOf
  <2> QED BY <1>5, <2>1, Unwritten
<1>6. CASE \E s \in Slots:
             \/ \E p \in Projects, u \in Users: InsertProject(s, p, u)
             \/ InsertOwner(s) \/ CommitProject(s)
             \/ \E request \in Requests: Begin(s, request)
             \/ \E t \in Tasks: CommitTask(s, t)
             \/ Abort(s)
  BY <1>1, <1>2, <1>3, <1>4, <1>6, ProjectIInv, TaskIInv
<1>7. CASE \E p \in Projects, u \in Users:
             \/ \E r \in Roles \cup {"NONE"}: ChangeMember(p, u, r)
             \/ \E c \in Clients: List(c, p, u)
  BY <1>5, <1>7, MembersIInv DEF List, Reading
<1>8. CASE \E c \in Clients: ReadTasks(c) \/ ReadAssignments(c) \/ ReadDependencies(c) \/ Answer(c)
  BY <1>5, <1>8 DEF ReadTasks, ReadAssignments, ReadDependencies, Answer, Reading
<1>9. CASE UNCHANGED vars
  BY <1>5, <1>9 DEF vars
<1> QED BY <1>6, <1>7, <1>8, <1>9 DEF Next

LEMMA Invariance == Spec => []IInv
BY InitIInv, NextIInv, PTL DEF Spec

(* Who a task is assigned to is a member, although createForMember reads    *)
(* the members from a snapshot.                                             *)
THEOREM AssigneesStayMembers == Spec => []AssigneesAreMembers
<1>1. IInv => AssigneesAreMembers
  BY DEF IInv
<1> QED BY <1>1, Invariance, PTL

(* No task waits for one of another project, or for itself in a circle,     *)
(* although clients choose the dependencies.                                *)
THEOREM TasksAreStartable == Spec => []DependenciesAreStartable
<1>1. IInv => DependenciesAreStartable
  BY DEF IInv, InProject, NoCircle, Stored, DependenciesAreStartable
<1> QED BY <1>1, Invariance, PTL

-----------------------------------------------------------------------------
(* Owners and lists.                                                        *)

Owners(p) == {u \in Users: role[p][u] = "OWNER"}

NewProjects == [step: {"project", "owner"}, project: Projects, by: Users]

(* Two transactions never create one project, which nobody meets till then. *)
Creating ==
  \A s \in Slots: tx[s].step \in {"project", "owner"} =>
    /\ tx[s] \in NewProjects
    /\ tx[s].project \notin stored
    /\ \A o \in Slots \ {s}: tx[o].step \in {"project", "owner"} => tx[o].project # tx[s].project

Owned ==
  \A p \in Projects:
    IF p \in stored THEN \E u \in Users: Owners(p) = {u} ELSE Owners(p) = {}

(* What the statements of a list have read so far is what is stored: a task *)
(* does not change once it is there.                                        *)
ListSoFar(c) ==
  LET r == read[c] IN
  /\ r.step \in {"tasks", "assignments", "dependencies"} => r.project \in Projects
  /\ r.step = "tasks" => r.before \subseteq TasksOf(r.project)
  /\ r.step = "assignments" => r.before \subseteq r.rows /\ r.rows \subseteq TasksOf(r.project)
  /\ r.step = "dependencies" =>
       /\ r.before \subseteq DOMAIN r.assignee /\ DOMAIN r.assignee \subseteq TasksOf(r.project)
       /\ \A t \in DOMAIN r.assignee: r.assignee[t] = task[t].assignee
  /\ r.step = "shown" =>
       /\ r.before \subseteq DOMAIN r.shown /\ DOMAIN r.shown \subseteq Stored
       /\ \A t \in DOMAIN r.shown: r.shown[t] = task[t]

Lists == DOMAIN read = Clients /\ \A c \in Clients: ListSoFar(c)

Whole == TypeOK /\ Creating /\ Owned /\ Lists

LEMMA InitWhole == Init => Whole
<1> SUFFICES ASSUME Init PROVE Whole
  OBVIOUS
<1> USE ProjectTasksAssumption DEF Init
<1>1. TypeOK
  BY DEF TypeOK, NoTx, NoRead
<1>2. Creating /\ Owned
  BY DEF Creating, Owned, Owners, NoTx
<1>3. Lists
  BY DEF Lists, ListSoFar, NoRead
<1> QED BY <1>1, <1>2, <1>3 DEF Whole

(* A task that is stored stays as it is. *)
TasksKept == \A t \in Stored: task'[t] = task[t]

LEMMA NextTasksKept == Tables /\ [Next]_vars => TasksKept
<1> SUFFICES ASSUME Tables, [Next]_vars PROVE TasksKept
  OBVIOUS
<1>1. CASE UNCHANGED task
  BY <1>1 DEF TasksKept
<1>2. ASSUME NEW s \in Slots, NEW t \in Tasks, CommitTask(s, t) PROVE TasksKept
  BY <1>2 DEF CommitTask, TasksKept, Stored, Tables
<1> QED BY <1>1, <1>2 DEF Next, vars, InsertProject, InsertOwner, CommitProject, Begin, Abort,
           ChangeMember, List, ReadTasks, ReadAssignments, ReadDependencies, Answer, Reading

(* A list that is not read on says what it said. *)
LEMMA ListStays ==
  ASSUME Tables, TasksKept, Tables', NEW c \in Clients, ListSoFar(c), read'[c] = read[c]
  PROVE  ListSoFar(c)'
<1> DEFINE r == read[c]
<1>1. ASSUME NEW p \in Projects PROVE TasksOf(p) \subseteq Stored /\ TasksOf(p) \subseteq TasksOf(p)'
  <2>1. TasksOf(p) \subseteq Stored
    BY StoredIsOfProject DEF TasksOf, Stored
  <2> QED BY <2>1 DEF TasksKept, TasksOf
<1>2. Stored \subseteq Stored'
  BY DEF TasksKept, Stored
<1>3. ASSUME r.step = "tasks" PROVE ListSoFar(c)'
  BY <1>1, <1>3 DEF ListSoFar
<1>4. ASSUME r.step = "assignments" PROVE ListSoFar(c)'
  BY <1>1, <1>4 DEF ListSoFar
<1>5. ASSUME r.step = "dependencies" PROVE ListSoFar(c)'
  <2>1. r.project \in Projects /\ DOMAIN r.assignee \subseteq TasksOf(r.project)
    BY <1>5 DEF ListSoFar
  <2>2. \A t \in DOMAIN r.assignee: task'[t] = task[t]
    BY <1>1, <2>1 DEF TasksKept
  <2> QED BY <1>1, <1>5, <2>1, <2>2 DEF ListSoFar
<1>6. ASSUME r.step = "shown" PROVE ListSoFar(c)'
  BY <1>2, <1>6 DEF ListSoFar, TasksKept
<1>7. CASE r.step \notin {"tasks", "assignments", "dependencies", "shown"}
  BY <1>7 DEF ListSoFar
<1> QED BY <1>3, <1>4, <1>5, <1>6, <1>7

(* The next statement of a list. *)
LEMMA ListGoesOn ==
  ASSUME Tables, TypeOK, DOMAIN read = Clients, NEW c \in Clients, ListSoFar(c),
         \/ \E p \in Projects, u \in Users: List(c, p, u)
         \/ ReadTasks(c) \/ ReadAssignments(c) \/ ReadDependencies(c) \/ Answer(c)
  PROVE  ListSoFar(c)' /\ read'[c].step \in {"none", "tasks", "assignments", "dependencies", "shown"}
<1> DEFINE r == read[c]
<1>1. \A record: Reading(c, record) => read'[c] = record /\ UNCHANGED task
  BY DEF Reading
<1>2. ASSUME NEW p \in Projects, NEW u \in Users, List(c, p, u) PROVE ListSoFar(c)' /\ r'.step = "tasks"
  BY <1>1, <1>2 DEF List, ListSoFar, TasksOf
<1>3. CASE ReadTasks(c)
  BY <1>1, <1>3 DEF ReadTasks, ListSoFar, TasksOf
<1>4. CASE ReadAssignments(c)
  BY <1>1, <1>4 DEF ReadAssignments, ListSoFar, TasksOf
<1>5. CASE ReadDependencies(c)
  <2> DEFINE shown == [t \in DOMAIN r.assignee |->
               [project |-> r.project, assignee |-> r.assignee[t], depends |-> task[t].depends]]
  <2>1. /\ r.step = "dependencies" /\ UNCHANGED task
        /\ read'[c] = [step |-> "shown", before |-> r.before, shown |-> shown]
    BY <1>1, <1>5 DEF ReadDependencies
  <2>2. r.project \in Projects /\ DOMAIN r.assignee \subseteq TasksOf(r.project)
    BY <2>1 DEF ListSoFar
  <2>3. ASSUME NEW t \in DOMAIN r.assignee PROVE t \in Stored /\ shown[t] = task[t]
    <3>1. t \in Tasks /\ task[t].project = r.project /\ t \in Stored
      BY <2>2, StoredIsOfProject DEF TasksOf, Stored
    <3>2. task[t] \in Rows
      BY <3>1 DEF Tables, Stored
    <3>3. r.assignee[t] = task[t].assignee
      BY <2>1 DEF ListSoFar
    <3> QED BY <3>1, <3>2, <3>3 DEF Rows
  <2>4. r.before \subseteq DOMAIN r.assignee
    BY <2>1 DEF ListSoFar
  <2> HIDE DEF shown
  <2>5. DOMAIN shown = DOMAIN r.assignee
    BY DEF shown
  <2> QED BY <2>1, <2>3, <2>4, <2>5 DEF ListSoFar, Stored
<1>6. CASE Answer(c)
  BY <1>1, <1>6 DEF Answer, ListSoFar, NoRead
<1> QED BY <1>2, <1>3, <1>4, <1>5, <1>6

(* Every statement of a list changes one list and nothing else. *)
Listing(c) ==
  \/ \E p \in Projects, u \in Users: List(c, p, u)
  \/ ReadTasks(c) \/ ReadAssignments(c) \/ ReadDependencies(c) \/ Answer(c)

LEMMA ListingWhole ==
  ASSUME IInv, IInv', Whole, TasksKept, NEW c \in Clients, Listing(c)
  PROVE  Whole'
<1>1. UNCHANGED <<stored, role, task, tx, changes>> /\ \E record: read' = [read EXCEPT ![c] = record]
  BY DEF Listing, List, ReadTasks, ReadAssignments, ReadDependencies, Answer, Reading
<1>2. DOMAIN read' = Clients /\ \A d \in Clients \ {c}: read'[d] = read[d]
  BY <1>1 DEF Whole, Lists
<1>3. ListSoFar(c)' /\ read'[c].step \in {"none", "tasks", "assignments", "dependencies", "shown"}
  BY ListGoesOn DEF IInv, Whole, Lists, Listing
<1>4. ASSUME NEW d \in Clients \ {c} PROVE ListSoFar(d)'
  BY <1>2, ListStays DEF IInv, Whole, Lists
<1>5. Lists'
  BY <1>2, <1>3, <1>4 DEF Lists
<1>6. TypeOK'
  BY <1>1, <1>2, <1>3 DEF Whole, TypeOK
<1>7. Creating' /\ Owned'
  BY <1>1 DEF Whole, Creating, Owned, Owners
<1> QED BY <1>5, <1>6, <1>7 DEF Whole

(* The lists while a transaction moves or the members change. *)
LEMMA WritingLists ==
  ASSUME IInv, IInv', Whole, TasksKept, UNCHANGED read
  PROVE  Lists'
BY ListStays DEF IInv, Whole, Lists

(* A transaction that is begun, goes on or ends without creating a project. *)
LEMMA MovingWhole ==
  ASSUME IInv, IInv', Whole, TasksKept, UNCHANGED <<stored, role, read, changes>>,
         NEW s \in Slots, NEW record, Set(s, record), record.step \in {"none", "task"}
  PROVE  Whole'
<1>1. DOMAIN tx' = Slots /\ \A o \in Slots: tx'[o] = IF o = s THEN record ELSE tx[o]
  BY DEF Set, IInv, Tables
<1>2. TypeOK'
  BY <1>1 DEF Whole, TypeOK, IInv, Tables
<1>3. Creating'
  BY <1>1 DEF Whole, Creating
<1>4. Owned'
  BY DEF Whole, Owned, Owners
<1> QED BY <1>2, <1>3, <1>4, WritingLists DEF Whole

(* The two inserts of a project. *)
LEMMA InsertingWhole ==
  ASSUME IInv, IInv', Whole, TasksKept, NEW s \in Slots,
         InsertOwner(s) \/ \E p \in Projects, u \in Users: InsertProject(s, p, u)
  PROVE  Whole'
<1>1. /\ UNCHANGED <<stored, role, task, read, changes>>
      /\ \E record \in NewProjects:
           /\ Set(s, record) /\ record.project \notin stored
           /\ \A o \in Slots \ {s}: tx[o].step \in {"project", "owner"} => tx[o].project # record.project
  <2>1. CASE \E p \in Projects, u \in Users: InsertProject(s, p, u)
    <3>1. PICK p \in Projects, u \in Users: InsertProject(s, p, u)
      BY <2>1
    <3> DEFINE record == [step |-> "project", project |-> p, by |-> u]
    <3>2. record \in NewProjects /\ record.project = p
      BY DEF NewProjects
    <3>3. Set(s, record) /\ New(p) /\ UNCHANGED <<stored, role, task, read, changes>>
      BY <3>1 DEF InsertProject
    <3> HIDE DEF record
    <3> QED BY <3>2, <3>3 DEF New
  <2>2. CASE InsertOwner(s)
    <3> DEFINE record == [tx[s] EXCEPT !.step = "owner"]
    <3>1. tx[s] \in NewProjects /\ tx[s].step = "project"
      BY <2>2 DEF InsertOwner, Whole, Creating
    <3>2. record \in NewProjects /\ record.project = tx[s].project
      BY <3>1 DEF NewProjects
    <3>3. Set(s, record) /\ UNCHANGED <<stored, role, task, read, changes>>
      BY <2>2 DEF InsertOwner
    <3> HIDE DEF record
    <3> QED BY <3>1, <3>2, <3>3 DEF Whole, Creating
  <2> QED BY <2>1, <2>2
<1>2. PICK record \in NewProjects:
           /\ Set(s, record) /\ record.project \notin stored
           /\ \A o \in Slots \ {s}: tx[o].step \in {"project", "owner"} => tx[o].project # record.project
  BY <1>1
<1>3. DOMAIN tx' = Slots /\ \A o \in Slots: tx'[o] = IF o = s THEN record ELSE tx[o]
  BY <1>2 DEF Set, IInv, Tables
<1>4. TypeOK'
  <2>1. record.step \in {"project", "owner"}
    BY DEF NewProjects
  <2> QED BY <1>1, <1>3, <2>1 DEF Whole, TypeOK
<1>5. Creating'
  BY <1>1, <1>2, <1>3 DEF Whole, Creating
<1>6. Owned'
  BY <1>1 DEF Whole, Owned, Owners
<1> QED BY <1>1, <1>4, <1>5, <1>6, WritingLists DEF Whole

(* The project appears with its owner. *)
LEMMA CommitProjectWhole ==
  ASSUME IInv, IInv', Whole, TasksKept, NEW s \in Slots, CommitProject(s)
  PROVE  Whole'
<1>0. tx[s] \in NewProjects /\ tx[s].step = "owner" /\ tx[s].project \notin stored
  BY DEF CommitProject, Whole, Creating
<1>1. PICK p \in Projects, u \in Users: p = tx[s].project /\ u = tx[s].by /\ p \notin stored
  BY <1>0 DEF NewProjects
<1>2. DOMAIN tx' = Slots /\ \A o \in Slots: tx'[o] = IF o = s THEN NoTx ELSE tx[o]
  BY DEF CommitProject, End, Set, IInv, Tables
<1>3. /\ stored' = stored \cup {p} /\ role' = [role EXCEPT ![p][u] = "OWNER"]
      /\ UNCHANGED <<task, read, changes>>
  BY <1>1 DEF CommitProject
<1>4. TypeOK'
  BY <1>1, <1>2, <1>3 DEF Whole, TypeOK, IInv, Tables, NoTx
<1>5. Creating'
  <2>1. ASSUME NEW o \in Slots, tx'[o].step \in {"project", "owner"}
        PROVE  o # s /\ tx'[o] = tx[o] /\ tx[o].project # p
    <3>1. o # s
      BY <1>2, <2>1 DEF NoTx
    <3> QED BY <1>0, <1>1, <1>2, <2>1, <3>1 DEF Whole, Creating
  <2> QED BY <1>3, <2>1 DEF Whole, Creating
<1>6. Owned'
  <2>1. \A q \in Projects, v \in Users:
          role'[q][v] = IF q = p /\ v = u THEN "OWNER" ELSE role[q][v]
    BY <1>1, <1>3 DEF IInv, Tables
  <2>2. Owners(p) = {}
    BY <1>1 DEF Whole, Owned
  <2>3. Owners(p)' = {u}
    BY <1>1, <2>1, <2>2 DEF Owners
  <2>4. ASSUME NEW q \in Projects, q # p PROVE Owners(q)' = Owners(q) /\ (q \in stored' <=> q \in stored)
    BY <1>3, <2>1, <2>4 DEF Owners
  <2> QED BY <1>1, <1>3, <2>3, <2>4 DEF Whole, Owned
<1> QED BY <1>3, <1>4, <1>5, <1>6, WritingLists DEF Whole

(* Who owns a project stays its only owner. *)
LEMMA ChangeMemberWhole ==
  ASSUME IInv, IInv', Whole, TasksKept,
         NEW p \in Projects, NEW u \in Users, NEW r \in Roles \cup {"NONE"}, ChangeMember(p, u, r)
  PROVE  Whole'
<1>1. /\ role' = [role EXCEPT ![p][u] = r] /\ r # "OWNER" /\ role[p][u] # "OWNER"
      /\ UNCHANGED <<stored, task, tx, read>> /\ changes' = changes + 1 /\ changes < MaxChanges
  BY DEF ChangeMember
<1>2. TypeOK'
  BY <1>1, ProjectTasksAssumption DEF Whole, TypeOK, IInv, Tables
<1>3. Creating'
  BY <1>1 DEF Whole, Creating
<1>4. Owned'
  <2>1. \A q \in Projects, v \in Users:
          role'[q][v] = IF q = p /\ v = u THEN r ELSE role[q][v]
    BY <1>1 DEF IInv, Tables
  <2>2. \A q \in Projects: Owners(q)' = Owners(q)
    BY <1>1, <2>1 DEF Owners
  <2> QED BY <1>1, <2>2 DEF Whole, Owned
<1> QED BY <1>1, <1>2, <1>3, <1>4, WritingLists DEF Whole

LEMMA NextWhole == IInv /\ IInv' /\ Whole /\ [Next]_vars => Whole'
<1> SUFFICES ASSUME IInv, IInv', Whole, [Next]_vars PROVE Whole'
  OBVIOUS
<1>1. TasksKept
  BY NextTasksKept DEF IInv
<1>2. ASSUME NEW s \in Slots,
             \/ \E p \in Projects, u \in Users: InsertProject(s, p, u)
             \/ InsertOwner(s) \/ CommitProject(s)
             \/ \E request \in Requests: Begin(s, request)
             \/ \E t \in Tasks: CommitTask(s, t)
             \/ Abort(s)
      PROVE  Whole'
  <2>1. CASE \E request \in Requests: Begin(s, request)
    BY <1>1, <2>1, MovingWhole DEF Begin
  <2>2. CASE Abort(s) \/ \E t \in Tasks: CommitTask(s, t)
    BY <1>1, <2>2, MovingWhole DEF Abort, CommitTask, End, NoTx
  <2> QED BY <1>1, <1>2, <2>1, <2>2, InsertingWhole, CommitProjectWhole
<1>3. ASSUME NEW p \in Projects, NEW u \in Users, NEW r \in Roles \cup {"NONE"}, ChangeMember(p, u, r)
      PROVE  Whole'
  BY <1>1, <1>3, ChangeMemberWhole
<1>4. ASSUME NEW c \in Clients, Listing(c) PROVE Whole'
  BY <1>1, <1>4, ListingWhole
<1>5. CASE UNCHANGED vars
  <2>1. Lists'
    BY <1>1, <1>5, WritingLists DEF vars
  <2> QED BY <1>5, <2>1 DEF Whole, TypeOK, Creating, Owned, Owners, vars
<1> QED BY <1>2, <1>3, <1>4, <1>5 DEF Next, Listing

(* A project that anybody meets has one owner, assignees are members, and a *)
(* list shows every task that was there, whole, although it is read by      *)
(* several statements while transactions commit.                            *)
THEOREM ProjectsAreConsistent == Spec => []ProjectsHold
<1>1. Spec => []Whole
  BY InitWhole, NextWhole, Invariance, PTL DEF Spec
<1>2. ASSUME Whole PROVE ProjectsAreOwned
  <2> SUFFICES ASSUME NEW p \in Projects
               PROVE  Cardinality(Owners(p)) = IF p \in stored THEN 1 ELSE 0
    BY DEF ProjectsAreOwned, Owners
  <2>1. CASE p \in stored
    <3>1. PICK u \in Users: Owners(p) = {u}
      BY <1>2, <2>1 DEF Whole, Owned
    <3> QED BY <2>1, <3>1, FS_Singleton
  <2>2. CASE p \notin stored
    BY <1>2, <2>2, FS_EmptySet DEF Whole, Owned
  <2> QED BY <2>1, <2>2
<1>3. ASSUME Whole PROVE TypeOK /\ ListsAreWhole
  BY <1>3 DEF Whole, Lists, ListSoFar, ListsAreWhole
<1>4. IInv /\ Whole => ProjectsHold
  BY <1>2, <1>3 DEF IInv, ProjectsHold
<1> QED BY <1>1, <1>4, Invariance, PTL
================================================================================
