------------------------------- MODULE SeedDemo -------------------------------
(***************************************************************************)
(* The demo seed: a script of upserts without a transaction, run again on  *)
(* the database it seeded before, after a crash or after the demo was      *)
(* used.  A row stands for the columns that others change or that a unique *)
(* index covers; an upsert sets them, or keeps them when the row exists.   *)
(***************************************************************************)
EXTENDS Naturals, Sequences

CONSTANTS
  MaxRuns,   \* bound: runs of the script
  MaxActs    \* bound: operations of the demo's users

VARIABLES
  table,     \* rows by <<table, key>>
  pc,        \* the next upsert, 0: no run
  outcome,   \* of the last run
  runs, acts

ASSUME SeedAssumption == {MaxRuns, MaxActs} \subseteq Nat

vars == <<table, pc, outcome, runs, acts>>

-----------------------------------------------------------------------------
(* The script. *)

Row(kind, key, refs, value) == [id |-> <<kind, key>>, refs |-> refs, value |-> value, keep |-> FALSE]
Kept(kind, key, refs, value) == [Row(kind, key, refs, value) EXCEPT !.keep = TRUE]

AccountRow(p) == <<Row("user", p, {}, "set"), Row("account", p, {<<"user", p>>}, "ACTIVE")>>
AccountRows == AccountRow("employee") \o AccountRow("reviewer") \o AccountRow("admin")

MemberRow(p) == Row("member", p, {<<"organization", "demo">>, <<"user", p>>}, "ACTIVE")
OrganizationRows ==
  <<Row("organization", "demo", {}, "ACTIVE"),
    MemberRow("admin"), MemberRow("employee"), MemberRow("reviewer"),
    Row("department", "product", {<<"organization", "demo">>}, "Product"),
    Row("department", "research", {<<"organization", "demo">>}, "Research"),
    Row("assigned", "employee", {<<"member", "employee">>, <<"department", "product">>}, "product"),
    Row("assigned", "reviewer", {<<"member", "reviewer">>, <<"department", "research">>}, "research")>>

ProjectRows ==
  <<Row("project", "demo", {}, "ACTIVE"),
    Row("projectMember", "employee", {<<"project", "demo">>, <<"user", "employee">>}, "OWNER"),
    Row("projectMember", "reviewer", {<<"project", "demo">>, <<"user", "reviewer">>}, "REVIEWER")>>

AgentRows ==
  <<Row("agent", "research", {<<"organization", "demo">>}, "research-agent"),
    Row("version", "research", {<<"agent", "research">>}, "ACTIVE"),
    Row("agent", "writer", {<<"organization", "demo">>}, "file-writer-agent"),
    Row("version", "writer", {<<"agent", "writer">>}, "ACTIVE"),
    Kept("agentAssignment", "research", {<<"agent", "research">>}, "seeded"),
    Kept("agentAssignment", "writer", {<<"agent", "writer">>}, "seeded")>>

TaskRow(t, status) ==
  <<Row("task", t, {<<"project", "demo">>}, status),
    Row("assignee", t, {<<"task", t>>, <<"projectMember", "employee">>}, "employee")>>

TaskRows ==
  TaskRow("research", "IN_PROGRESS") \o TaskRow("review", "READY_FOR_REVIEW")
    \o TaskRow("accepted", "ACCEPTED") \o TaskRow("follow-up", "TODO")
    \o <<Row("dependency", "follow-up", {<<"task", "follow-up">>, <<"task", "accepted">>}, "set")>>

seedArtifact(t) ==
  <<Row("run", t, {<<"user", "employee">>, <<"task", t>>}, "SUCCEEDED"),
    Row("call", t, {<<"run", t>>}, "SUCCEEDED"),
    Row("artifact", t, {<<"task", t>>, <<"run", t>>, <<"call", t>>}, "set")>>

(* Mutant: the draft has been submitted. *)
ResultRowsSubmitted ==
  <<Row("result", "review", {<<"task", "review">>, <<"user", "employee">>}, "HUMAN_REVIEW"),
    Row("link", "review", {<<"result", "review">>, <<"artifact", "review">>}, "set"),
    Row("result", "accepted", {<<"task", "accepted">>, <<"user", "employee">>}, "ACCEPTED"),
    Row("link", "accepted", {<<"result", "accepted">>, <<"artifact", "accepted">>}, "set"),
    Row("result", "draft", {<<"task", "research">>, <<"user", "employee">>}, "HUMAN_REVIEW"),
    Row("review", "accepted", {<<"result", "accepted">>, <<"user", "reviewer">>}, "ACCEPT")>>

(* The draft has no link: its artifact is another task's. *)
ResultRows ==
  <<Row("result", "review", {<<"task", "review">>, <<"user", "employee">>}, "HUMAN_REVIEW"),
    Row("link", "review", {<<"result", "review">>, <<"artifact", "review">>}, "set"),
    Row("result", "accepted", {<<"task", "accepted">>, <<"user", "employee">>}, "ACCEPTED"),
    Row("link", "accepted", {<<"result", "accepted">>, <<"artifact", "accepted">>}, "set"),
    Row("result", "draft", {<<"task", "research">>, <<"user", "employee">>}, "CANDIDATE"),
    Row("review", "accepted", {<<"result", "accepted">>, <<"user", "reviewer">>}, "ACCEPT")>>

ModelRows ==
  <<Row("run", "model", {<<"user", "employee">>, <<"task", "research">>}, "SUCCEEDED"),
    Row("invocation", "model", {<<"run", "model">>, <<"user", "employee">>}, "COMPLETED")>>

CollaborationRows ==
  <<Row("conversation", "group", {<<"organization", "demo">>, <<"user", "employee">>}, "set"),
    Kept("participant", "employee", {<<"conversation", "group">>, <<"user", "employee">>}, "set"),
    Kept("participant", "reviewer", {<<"conversation", "group">>, <<"user", "reviewer">>}, "set"),
    Row("message", "employee", {<<"conversation", "group">>, <<"user", "employee">>}, "set"),
    Row("message", "reviewer", {<<"conversation", "group">>, <<"user", "reviewer">>}, "set"),
    Kept("notification", "reviewer", {<<"organization", "demo">>, <<"user", "reviewer">>}, "UNREAD"),
    Kept("notification", "employee", {<<"organization", "demo">>, <<"user", "employee">>}, "UNREAD"),
    Row("reminder", "review", {<<"organization", "demo">>, <<"user", "reviewer">>}, "SCHEDULED"),
    Row("event", "launch", {<<"organization", "demo">>, <<"user", "employee">>}, "set")>>

(* Mutant: the artifacts before their tasks. *)
ScriptSwapped ==
  AccountRows \o OrganizationRows \o ProjectRows \o AgentRows
    \o seedArtifact("review") \o seedArtifact("accepted") \o TaskRows
    \o ResultRows \o ModelRows \o CollaborationRows

Script ==
  AccountRows \o OrganizationRows \o ProjectRows \o AgentRows \o TaskRows
    \o seedArtifact("review") \o seedArtifact("accepted")
    \o ResultRows \o ModelRows \o CollaborationRows

Seeded == {Script[i].id: i \in DOMAIN Script}
KeptIds == {Script[i].id: i \in {j \in DOMAIN Script: Script[j].keep}}

-----------------------------------------------------------------------------
Exists(kind, key) == <<kind, key>> \in DOMAIN table
Is(kind, key, value) == Exists(kind, key) /\ table[<<kind, key>>] = value
With(rows) == [id \in DOMAIN table \cup DOMAIN rows |->
                 IF id \in DOMAIN rows THEN rows[id] ELSE table[id]]
Set(kind, key, value) == [id \in {<<kind, key>>} |-> value]

(* departments(organization, name) and agent_definitions(organization, key). *)
Taken(row) ==
  /\ row.id[1] \in {"department", "agent"}
  /\ \E id \in DOMAIN table \ {row.id}: id[1] = row.id[1] /\ table[id] = row.value

Outcomes == {"none", "running", "done", "failed", "crashed"}
TypeOK ==
  /\ pc \in 0..Len(Script) /\ outcome \in Outcomes /\ (pc # 0 <=> outcome = "running")
  /\ runs \in 0..MaxRuns /\ acts \in 0..MaxActs
  /\ \A t \in {"research", "review", "accepted", "follow-up"}: Exists("task", t)
       => table[<<"task", t>>] \in {"TODO", "IN_PROGRESS", "READY_FOR_REVIEW", "ACCEPTED"}

Init ==
  /\ table = [id \in {} |-> "none"]
  /\ pc = 0 /\ outcome = "none" /\ runs = 0 /\ acts = 0

Start ==
  /\ pc = 0 /\ runs < MaxRuns
  /\ pc' = 1 /\ runs' = runs + 1 /\ outcome' = "running"
  /\ UNCHANGED <<table, acts>>

(* Mutant: every column is set again. *)
UpsertAll(row) == With([id \in {row.id} |-> row.value])

Upsert(row) ==
  IF row.keep /\ row.id \in DOMAIN table THEN table ELSE With([id \in {row.id} |-> row.value])

(* Mutant: assignments are looked up by their own id, not by their tuple. *)
ViolatesById(row) ==
  \/ ~(row.refs \subseteq DOMAIN table)
  \/ Taken(row)
  \/ row.id[1] = "agentAssignment" /\ row.id \in DOMAIN table /\ table[row.id] = "reassigned"

Violates(row) == ~(row.refs \subseteq DOMAIN table) \/ Taken(row)

(* One awaited upsert; an error ends the process. *)
Step ==
  /\ pc # 0
  /\ LET row == Script[pc]
         last == pc = Len(Script)
     IN IF Violates(row)
        THEN pc' = 0 /\ outcome' = "failed" /\ UNCHANGED table
        ELSE /\ table' = Upsert(row)
             /\ pc' = IF last THEN 0 ELSE pc + 1
             /\ outcome' = IF last THEN "done" ELSE "running"
  /\ UNCHANGED <<runs, acts>>

Crash ==
  /\ pc # 0
  /\ pc' = 0 /\ outcome' = "crashed"
  /\ UNCHANGED <<table, runs, acts>>

-----------------------------------------------------------------------------
(* The demo's users, between and during the runs. *)

Act(rows) ==
  /\ acts < MaxActs
  /\ acts' = acts + 1
  /\ table' = With(rows)
  /\ UNCHANGED <<pc, outcome, runs>>

SignedIn(p) == Is("account", p, "ACTIVE") /\ Exists("member", p)
TaskOf == [review |-> "review", accepted |-> "accepted", draft |-> "research"]

SubmitDraft ==
  /\ SignedIn("employee")
  /\ Is("result", "draft", "CANDIDATE") /\ Is("task", "research", "IN_PROGRESS")
  /\ Act([id \in {<<"result", "draft">>, <<"task", "research">>} |->
            IF id[1] = "result" THEN "HUMAN_REVIEW" ELSE "READY_FOR_REVIEW"])

Decide(r, decision) ==
  /\ SignedIn("reviewer") /\ Exists("projectMember", "reviewer")
  /\ ~Exists("review", r)
  /\ Is("result", r, "HUMAN_REVIEW") /\ Is("task", TaskOf[r], "READY_FOR_REVIEW")
  /\ Act([id \in {<<"result", r>>, <<"task", TaskOf[r]>>, <<"review", r>>} |->
            IF id[1] = "review" THEN decision
            ELSE IF decision = "ACCEPT" THEN "ACCEPTED"
            ELSE IF id[1] = "result" THEN "REWORK" ELSE "IN_PROGRESS"])

StartFollowUp ==
  /\ SignedIn("employee") /\ Is("task", "follow-up", "TODO") /\ Exists("assignee", "follow-up")
  /\ Exists("dependency", "follow-up") => Is("task", "accepted", "ACCEPTED")
  /\ Act(Set("task", "follow-up", "IN_PROGRESS"))

MarkRead(p) ==
  /\ SignedIn(p) /\ Is("notification", p, "UNREAD")
  /\ Act(Set("notification", p, "READ"))

CompleteReminder ==
  /\ SignedIn("reviewer") /\ Is("reminder", "review", "SCHEDULED")
  /\ Act(Set("reminder", "review", "COMPLETED"))

SendMessage ==
  /\ SignedIn("reviewer") /\ Exists("participant", "reviewer")
  /\ Act(Set("message", "own", "own"))

DisableEmployee ==
  /\ SignedIn("admin") /\ Is("account", "employee", "ACTIVE") /\ Exists("member", "employee")
  /\ Act(Set("account", "employee", "DISABLED"))

(* Of this organization, under a name no other department has. *)
CreateDepartment ==
  /\ SignedIn("admin") /\ ~Exists("department", "own") /\ ~Taken(Row("department", "own", {}, "Product"))
  /\ Act(Set("department", "own", "Product"))

RenameDepartment ==
  /\ SignedIn("admin") /\ Is("department", "product", "Product")
  /\ Act(Set("department", "product", "Renamed"))

CreateAgent ==
  /\ SignedIn("admin") /\ ~Exists("agent", "own") /\ ~Taken(Row("agent", "own", {}, "research-agent"))
  /\ Act(Set("agent", "own", "research-agent"))

Reassign ==
  /\ SignedIn("admin") /\ Is("agentAssignment", "research", "seeded")
  /\ Act(Set("agentAssignment", "research", "reassigned"))

Next ==
  \/ Start \/ Step \/ Crash
  \/ SubmitDraft \/ (\E r \in {"review", "draft"}, d \in {"ACCEPT", "REWORK"}: Decide(r, d))
  \/ StartFollowUp \/ (\E p \in {"employee", "reviewer"}: MarkRead(p)) \/ CompleteReminder
  \/ SendMessage \/ DisableEmployee \/ CreateDepartment \/ RenameDepartment \/ CreateAgent
  \/ Reassign

Spec == Init /\ [][Next]_vars

-----------------------------------------------------------------------------
(* A run stops at an error only where somebody gave a name or key of the    *)
(* script to a row of their own: the order of the upserts, the keys they    *)
(* look rows up by, and what an interrupted run left, never stop it.        *)
FailsOnlyOnNames ==
  outcome = "failed" => Is("department", "own", "Product") \/ Is("agent", "own", "research-agent")

(* A run leaves alone the rows it did not write, and what users did to the  *)
(* columns its updates do not name ("a stable-ID upsert [that] does not     *)
(* delete unrelated data").                                                 *)
UnrelatedKept ==
  [][acts' = acts => \A id \in DOMAIN table:
       id \in DOMAIN table' /\ (id \in KeptIds \/ id \notin Seeded => table'[id] = table[id])]_vars

(* "Connected, production-valid walkthrough state": after a run, a result   *)
(* in review can be decided.                                                *)
Reviewable ==
  outcome = "done" => \A r \in DOMAIN TaskOf:
    Is("result", r, "HUMAN_REVIEW")
      => Is("task", TaskOf[r], "READY_FOR_REVIEW") /\ ~Exists("review", r)

(* Whatever the crashes before it, a run that is not interrupted leaves     *)
(* every row of the script.                                                 *)
Repaired == outcome = "done" => Seeded \subseteq DOMAIN table

(* The seed fails only where users took its names, leaves alone what it did *)
(* not write, leaves after its first run what can be reviewed, and repairs  *)
(* what interrupted runs have left.                                         *)
SeedRepairs ==
  /\ [](TypeOK /\ FailsOnlyOnNames /\ Repaired /\ (runs = 1 => Reviewable))
  /\ UnrelatedKept
===============================================================================
