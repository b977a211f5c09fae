------------------------------ MODULE TaskReview ------------------------------
(***************************************************************************)
(* Tasks, Result candidates and their Human Review in PostgreSQL:          *)
(* TaskRepository.createForMember and startForMember, and the three        *)
(* operations of ResultRepository, run by concurrent API requests.         *)
(*                                                                         *)
(* Every operation is one REPEATABLE READ transaction.  A transaction      *)
(* reads from the snapshot its first statement takes, so all its checks    *)
(* happen in one Begin step.  Its writes are statements of their own: an   *)
(* UPDATE waits for the row's lock, and fails when another transaction     *)
(* has committed a change of that row since the snapshot (Prisma's P2034). *)
(* Nobody sees a write before the COMMIT.  The catch blocks of the         *)
(* repositories answer from a second, later snapshot: the Recover steps.   *)
(*                                                                         *)
(* One Project.  Titles, descriptions, assignees, priorities, deadlines    *)
(* and timestamps steer none of these operations and are left out.         *)
(***************************************************************************)
EXTENDS Integers, FiniteSets, Sequences

CONSTANTS
  Clients,       \* API requests that run at the same time
  Users,
  InitRole,      \* the ProjectMember role of each user, "NONE" for outsiders
  Administered,  \* the users whose membership or override changes meanwhile
  Tasks,         \* Task ids (UUIDs; one is used by one createForMember)
  Results,       \* Result ids
  Keys,          \* Idempotency-Key values
  Artifacts,
  ArtifactTask,  \* the Task each registered Artifact belongs to
  Comments       \* normalized review comments

Roles == {"OWNER", "REVIEWER", "MEMBER", "NONE"}
Decisions == {"ACCEPT", "REWORK"}
TaskStatuses == {"TODO", "IN_PROGRESS", "READY_FOR_REVIEW", "ACCEPTED", "CLOSED"}
ResultStatuses == {"CANDIDATE", "HUMAN_REVIEW", "ACCEPTED", "REWORK"}

ASSUME ConstantsAssumption ==
  /\ InitRole \in [Users -> Roles]
  /\ Administered \subseteq Users
  /\ ArtifactTask \in [Artifacts -> Tasks]
  /\ Tasks \cap Results = {}

VARIABLES
  role,       \* ProjectMember rows
  denied,     \* the users with a RESULT:REVIEW override of effect DENY
  task,       \* status of each Task, "NONE" before it is created
  dependsOn,  \* TaskDependency rows, written with the Task only
  result,     \* Result rows
  review,     \* Review rows, unique per Result
  pc,         \* what each client's transaction does next
  tx,         \* the values its callback holds
  stale,      \* rows others changed and committed since its snapshot
  reply       \* the last answer of each client

vars == <<role, denied, task, dependsOn, result, review, pc, tx, stale, reply>>
rows == <<role, denied, task, dependsOn, result, review>>

-----------------------------------------------------------------------------
(* Rows, transactions and replies.                                         *)

NoResult == [status |-> "NONE"]
ResultRow == [status: ResultStatuses, task: Tasks, creator: Users, key: Keys,
              artifacts: SUBSET Artifacts]
NoReview == [decision |-> "NONE"]
ReviewRow == [reviewer: Users, decision: Decisions, comment: Comments]

NoTx == [op |-> "NONE"]
StartTx == [op: {"START"}, user: Users, task: Tasks]
CreateTx == [op: {"CREATE"}, user: Users, task: Tasks, result: Results,
             key: Keys, artifacts: SUBSET Artifacts]
SubmitTx == [op: {"SUBMIT"}, user: Users, task: Tasks, result: Results]
DecideTx == [op: {"DECIDE"}, user: Users, task: Tasks, result: Results,
             decision: Decisions, comment: Comments]
Tx == StartTx \cup CreateTx \cup SubmitTx \cup DecideTx

NoReply == [code |-> "NONE"]
Rejection(code) == [code |-> code]
RejectionCodes == {"NOT_FOUND", "FORBIDDEN", "INVALID_STATE", "BLOCKED", "ERROR"}
Created(new, t) ==
  [code |-> IF new THEN "CREATED" ELSE "REPLAYED", tx |-> t]
Reviewed(new, t) ==
  [code |-> IF new THEN "REVIEWED" ELSE "REVIEW_REPLAYED", tx |-> t]
Replies ==
  {NoReply}
    \cup {Rejection(code): code \in RejectionCodes}
    \cup [code: {"TASK_CREATED", "STARTED"}, task: Tasks]
    \cup [code: {"CREATED", "REPLAYED", "IDEMPOTENCY_CONFLICT"}, tx: CreateTx]
    \cup [code: {"SUBMITTED"}, user: Users, result: Results]
    \cup [code: {"REVIEWED", "REVIEW_REPLAYED", "REVIEW_CONFLICT"}, tx: DecideTx]

Rows == Tasks \cup Results

TypeOK ==
  /\ role \in [Users -> Roles]
  /\ denied \subseteq Users
  /\ task \in [Tasks -> TaskStatuses \cup {"NONE"}]
  /\ dependsOn \in [Tasks -> SUBSET Tasks]
  /\ result \in [Results -> ResultRow \cup {NoResult}]
  /\ review \in [Results -> ReviewRow \cup {NoReview}]
  /\ pc \in [Clients -> {"idle", "insert", "result", "task", "commit", "recover"}]
  /\ tx \in [Clients -> Tx \cup {NoTx}]
  /\ stale \in [Clients -> SUBSET Rows]
  /\ reply \in [Clients -> Replies]

Init ==
  /\ role = InitRole
  /\ denied = {}
  /\ task = [t \in Tasks |-> "NONE"]
  /\ dependsOn = [t \in Tasks |-> {}]
  /\ result = [r \in Results |-> NoResult]
  /\ review = [r \in Results |-> NoReview]
  /\ pc = [c \in Clients |-> "idle"]
  /\ tx = [c \in Clients |-> NoTx]
  /\ stale = [c \in Clients |-> {}]
  /\ reply = [c \in Clients |-> NoReply]

-----------------------------------------------------------------------------
(* The Task state machine.                                                 *)

Transitions ==
  [START |-> [from |-> "TODO", to |-> "IN_PROGRESS"],
   SUBMIT_FOR_REVIEW |-> [from |-> "IN_PROGRESS", to |-> "READY_FOR_REVIEW"],
   REQUEST_REWORK |-> [from |-> "READY_FOR_REVIEW", to |-> "IN_PROGRESS"],
   ACCEPT_AFTER_HUMAN_REVIEW |-> [from |-> "READY_FOR_REVIEW", to |-> "ACCEPTED"],
   CLOSE |-> [from |-> "ACCEPTED", to |-> "CLOSED"]]

(* The action a transaction applies to its Task. *)
TaskAction(t) ==
  CASE t.op = "START" -> "START"
    [] t.op = "SUBMIT" -> "SUBMIT_FOR_REVIEW"
    [] t.op = "DECIDE" -> IF t.decision = "ACCEPT" THEN "ACCEPT_AFTER_HUMAN_REVIEW"
                          ELSE "REQUEST_REWORK"

(* Mutant: a Task handed in for review already unblocks the next one. *)
BlockedUntilReview(t) ==
  {d \in dependsOn[t]: task[d] \notin {"READY_FOR_REVIEW", "ACCEPTED", "CLOSED"}}

BlockingDependencies(t) == {d \in dependsOn[t]: task[d] \notin {"ACCEPTED", "CLOSED"}}

(* The status the conditional update of a Result expects, and the one it   *)
(* writes (submitResultForHumanReview, decideResultReview).                *)
ResultFrom(t) == IF t.op = "SUBMIT" THEN "CANDIDATE" ELSE "HUMAN_REVIEW"

(* Mutant: the decision is stored as the Result's status. *)
DecisionAsStatus(t) == IF t.op = "SUBMIT" THEN "HUMAN_REVIEW" ELSE t.decision

ResultTo(t) ==
  CASE t.op = "SUBMIT" -> "HUMAN_REVIEW"
    [] t.op = "DECIDE" -> IF t.decision = "ACCEPT" THEN "ACCEPTED" ELSE "REWORK"

-----------------------------------------------------------------------------
(* Transactions.                                                           *)

(* Mutant: the rework path updates the Task first. *)
TaskFirstOnRework(t) ==
  CASE t.op = "START" -> <<"task">>
    [] t.op = "DECIDE" /\ t.decision = "REWORK" -> <<"task", "result">>
    [] OTHER -> <<"result", "task">>

(* The order of a transaction's UPDATE statements. *)
UpdateOrder(t) == IF t.op = "START" THEN <<"task">> ELSE <<"result", "task">>

FirstUpdate(t) == Head(UpdateOrder(t))
AfterUpdate(t, done) ==
  IF done = UpdateOrder(t)[Len(UpdateOrder(t))] THEN "commit" ELSE UpdateOrder(t)[2]

(* The rows and index entries the open transaction of c has written. *)
IndexEntry(t) == <<t.user, t.task, t.key>>
LockedBy(c) ==
  CASE pc[c] \in {"result", "task"} /\ pc[c] # FirstUpdate(tx[c])
         -> {IF FirstUpdate(tx[c]) = "result" THEN tx[c].result ELSE tx[c].task}
    [] pc[c] = "commit" /\ tx[c].op \in {"SUBMIT", "DECIDE"} -> {tx[c].result, tx[c].task}
    [] pc[c] = "commit" /\ tx[c].op = "START" -> {tx[c].task}
    [] pc[c] = "commit" /\ tx[c].op = "CREATE" -> {IndexEntry(tx[c])}
    [] OTHER -> {}

Unlocked(c, row) == \A d \in Clients \ {c}: row \notin LockedBy(d)

(* Mutant: an unconditional UPDATE at READ COMMITTED (persistTransition).  *)
UnconditionalUpdate(c, row, status, expected) == TRUE

(* UPDATE ... WHERE id = row AND status = expected hits the row: nobody    *)
(* changed it since the snapshot, and it has the status.                   *)
UpdateHits(c, row, status, expected) ==
  row \notin stale[c] /\ status = expected

(* First statement: the checks passed on the snapshot, the writes follow. *)
Open(c, t, next) ==
  /\ pc' = [pc EXCEPT ![c] = next]
  /\ tx' = [tx EXCEPT ![c] = t]
  /\ stale' = [stale EXCEPT ![c] = {}]
  /\ reply' = [reply EXCEPT ![c] = NoReply]
  /\ UNCHANGED rows

Begin(c, t) == Open(c, t, FirstUpdate(t))

(* The callback returned before any write. *)
Answer(c, answer) ==
  /\ reply' = [reply EXCEPT ![c] = answer]
  /\ UNCHANGED <<rows, pc, tx, stale>>

Advance(c, next) ==
  /\ pc' = [pc EXCEPT ![c] = next]
  /\ UNCHANGED <<rows, tx, stale, reply>>

(* The request of c is over.  If it committed, written are the rows it     *)
(* changed: the snapshots of the other open transactions are older.        *)
Close(c, answer, written) ==
  /\ pc' = [pc EXCEPT ![c] = "idle"]
  /\ tx' = [tx EXCEPT ![c] = NoTx]
  /\ reply' = [reply EXCEPT ![c] = answer]
  /\ stale' = [d \in Clients |->
                 IF d = c THEN {}
                 ELSE IF pc[d] \in {"result", "task"} THEN stale[d] \cup written
                 ELSE stale[d]]

-----------------------------------------------------------------------------
(* TaskRepository                                                          *)

(* createForMember writes a new Task and its dependency rows; nobody can   *)
(* compete for either, so it is one step.                                  *)
CreateTask(c, u, t, deps) ==
  /\ pc[c] = "idle"
  /\ task[t] = "NONE"
  /\ \/ /\ role[u] = "NONE" \/ \E d \in deps: task[d] = "NONE"
        /\ Answer(c, Rejection("NOT_FOUND"))
     \/ /\ role[u] # "NONE"
        /\ \A d \in deps: task[d] # "NONE"
        /\ task' = [task EXCEPT ![t] = "TODO"]
        /\ dependsOn' = [dependsOn EXCEPT ![t] = deps]
        /\ reply' = [reply EXCEPT ![c] = [code |-> "TASK_CREATED", task |-> t]]
        /\ UNCHANGED <<role, denied, result, review, pc, tx, stale>>

StartVerdict(u, t) ==
  IF task[t] = "NONE" \/ role[u] = "NONE" THEN "NOT_FOUND"
  ELSE IF task[t] # "TODO" THEN "INVALID_STATE"
  ELSE IF BlockingDependencies(t) # {} THEN "BLOCKED"
  ELSE "PROCEED"

BeginStart(c, u, t) ==
  /\ pc[c] = "idle"
  /\ \/ /\ StartVerdict(u, t) # "PROCEED"
        /\ Answer(c, Rejection(StartVerdict(u, t)))
     \/ /\ StartVerdict(u, t) = "PROCEED"
        /\ Begin(c, [op |-> "START", user |-> u, task |-> t])

(* startForMember catches no P2034: a stale row ends in the generic 500. *)
FailStart(c) ==
  /\ pc[c] = "task"
  /\ tx[c].op = "START"
  /\ ~UpdateHits(c, tx[c].task, task[tx[c].task], "TODO")
  /\ Close(c, Rejection(IF tx[c].task \in stale[c] THEN "ERROR" ELSE "INVALID_STATE"), {})
  /\ UNCHANGED rows

CommitStart(c) ==
  /\ pc[c] = "commit"
  /\ tx[c].op = "START"
  /\ task' = [task EXCEPT ![tx[c].task] = Transitions[TaskAction(tx[c])].to]
  /\ Close(c, [code |-> "STARTED", task |-> tx[c].task], {tx[c].task})
  /\ UNCHANGED <<role, denied, dependsOn, result, review>>

-----------------------------------------------------------------------------
(* ResultRepository.createForTaskForUser                                   *)

Reserved(r) == \E c \in Clients: tx[c].op = "CREATE" /\ tx[c].result = r

BeginCreate(c, u, t, key, artifacts, r) ==
  /\ pc[c] = "idle"
  /\ result[r] = NoResult /\ ~Reserved(r)
  /\ \/ /\ \/ task[t] = "NONE" \/ role[u] = "NONE"
           \/ \E a \in artifacts: ArtifactTask[a] # t
        /\ Answer(c, Rejection("NOT_FOUND"))
     \/ /\ task[t] # "NONE" /\ role[u] # "NONE"
        /\ \A a \in artifacts: ArtifactTask[a] = t
        /\ Open(c, [op |-> "CREATE", user |-> u, task |-> t, result |-> r,
                    key |-> key, artifacts |-> artifacts], "insert")

(* The row that holds the unique index entry (creator, task, key). *)
HoldsEntry(r, t) ==
  /\ result[r] # NoResult
  /\ <<result[r].creator, result[r].task, result[r].key>> = IndexEntry(t)

(* Mutant: the key is looked up, but no unique index guards it. *)
InsertWithoutIndex(c) ==
  /\ pc[c] = "insert"
  /\ Advance(c, IF \E r \in Results: HoldsEntry(r, tx[c]) THEN "recover" ELSE "commit")

(* INSERT looks beyond the snapshot: P2002 on a committed entry, a wait on *)
(* an entry another open transaction has inserted.                         *)
InsertResult(c) ==
  /\ pc[c] = "insert"
  /\ Unlocked(c, IndexEntry(tx[c]))
  /\ Advance(c, IF \E r \in Results: HoldsEntry(r, tx[c]) THEN "recover" ELSE "commit")

CommitCreate(c) ==
  /\ pc[c] = "commit"
  /\ tx[c].op = "CREATE"
  /\ result' = [result EXCEPT ![tx[c].result] =
                  [status |-> "CANDIDATE", task |-> tx[c].task, creator |-> tx[c].user,
                   key |-> tx[c].key, artifacts |-> tx[c].artifacts]]
  /\ Close(c, Created(TRUE, tx[c]), {})
  /\ UNCHANGED <<role, denied, task, dependsOn, review>>

(* Mutant: the fingerprints are not compared. *)
RecoverAnyRequest(c) ==
  /\ pc[c] = "recover"
  /\ tx[c].op = "CREATE"
  /\ \/ /\ role[tx[c].user] = "NONE"
        /\ Close(c, Rejection("NOT_FOUND"), {})
     \/ /\ role[tx[c].user] # "NONE"
        /\ \E r \in Results:
             /\ HoldsEntry(r, tx[c])
             /\ Close(c, Created(FALSE, [tx[c] EXCEPT !.result = r]), {})
  /\ UNCHANGED rows

(* findForIdempotencyKey, then the comparison of the request fingerprints. *)
RecoverCreate(c) ==
  /\ pc[c] = "recover"
  /\ tx[c].op = "CREATE"
  /\ \/ /\ role[tx[c].user] = "NONE"
        /\ Close(c, Rejection("NOT_FOUND"), {})
     \/ /\ role[tx[c].user] # "NONE"
        /\ \E r \in Results:
             /\ HoldsEntry(r, tx[c])
             /\ Close(c, IF result[r].artifacts = tx[c].artifacts
                         THEN Created(FALSE, [tx[c] EXCEPT !.result = r])
                         ELSE [code |-> "IDEMPOTENCY_CONFLICT", tx |-> tx[c]], {})
  /\ UNCHANGED rows

-----------------------------------------------------------------------------
(* ResultRepository.submitForReviewForCreator                              *)

SubmitVerdict(u, r) ==
  IF result[r] = NoResult \/ role[u] = "NONE" THEN "NOT_FOUND"
  ELSE IF result[r].creator # u THEN "FORBIDDEN"
  ELSE IF result[r].status = "HUMAN_REVIEW" /\ task[result[r].task] = "READY_FOR_REVIEW"
       THEN "ALREADY_SUBMITTED"
  ELSE IF result[r].status # "CANDIDATE" \/ task[result[r].task] # "IN_PROGRESS"
       THEN "INVALID_STATE"
  ELSE "PROCEED"

Submitted(u, r) == [code |-> "SUBMITTED", user |-> u, result |-> r]

BeginSubmit(c, u, r) ==
  /\ pc[c] = "idle"
  /\ \/ /\ SubmitVerdict(u, r) \notin {"PROCEED", "ALREADY_SUBMITTED"}
        /\ Answer(c, Rejection(SubmitVerdict(u, r)))
     \/ /\ SubmitVerdict(u, r) = "ALREADY_SUBMITTED"
        /\ Answer(c, Submitted(u, r))
     \/ /\ SubmitVerdict(u, r) = "PROCEED"
        /\ Begin(c, [op |-> "SUBMIT", user |-> u, task |-> result[r].task, result |-> r])

(* Mutant: submit-review does not change the Task. *)
SubmitResultOnly(c) ==
  /\ pc[c] = "commit"
  /\ tx[c].op = "SUBMIT"
  /\ result' = [result EXCEPT ![tx[c].result].status = ResultTo(tx[c])]
  /\ Close(c, Submitted(tx[c].user, tx[c].result), {tx[c].result, tx[c].task})
  /\ UNCHANGED <<role, denied, task, dependsOn, review>>

CommitSubmit(c) ==
  /\ pc[c] = "commit"
  /\ tx[c].op = "SUBMIT"
  /\ result' = [result EXCEPT ![tx[c].result].status = ResultTo(tx[c])]
  /\ task' = [task EXCEPT ![tx[c].task] = Transitions[TaskAction(tx[c])].to]
  /\ Close(c, Submitted(tx[c].user, tx[c].result), {tx[c].result, tx[c].task})
  /\ UNCHANGED <<role, denied, dependsOn, review>>

(* Mutant: the loser of a conflict is answered like the winner. *)
RecoverSubmitAlways(c) ==
  /\ pc[c] = "recover"
  /\ tx[c].op = "SUBMIT"
  /\ Close(c, IF role[tx[c].user] = "NONE" THEN Rejection("NOT_FOUND")
              ELSE Submitted(tx[c].user, tx[c].result), {})
  /\ UNCHANGED rows

RecoverSubmit(c) ==
  /\ pc[c] = "recover"
  /\ tx[c].op = "SUBMIT"
  /\ LET u == tx[c].user
         r == tx[c].result
     IN Close(c, IF role[u] = "NONE" THEN Rejection("NOT_FOUND")
                 ELSE IF result[r].status = "HUMAN_REVIEW" /\ result[r].creator = u
                 THEN Submitted(u, r)
                 ELSE Rejection("INVALID_STATE"), {})
  /\ UNCHANGED rows

-----------------------------------------------------------------------------
(* ResultRepository.decideForReviewer                                      *)

(* Mutant: whoever has the role may review, the creator too. *)
RoleMayReview(u, r) == role[u] \in {"OWNER", "REVIEWER"} /\ u \notin denied

MayReview(u, r) ==
  /\ result[r].creator # u
  /\ role[u] \in {"OWNER", "REVIEWER"}
  /\ u \notin denied

SameReviewRequest(r, u, decision, comment) ==
  review[r] = [reviewer |-> u, decision |-> decision, comment |-> comment]

DecideVerdict(u, r, decision, comment) ==
  IF result[r] = NoResult \/ role[u] = "NONE" THEN "NOT_FOUND"
  ELSE IF ~MayReview(u, r) THEN "FORBIDDEN"
  ELSE IF review[r] # NoReview
       THEN IF SameReviewRequest(r, u, decision, comment) THEN "SAME" ELSE "DIFFERENT"
  ELSE IF result[r].status # "HUMAN_REVIEW" \/ task[result[r].task] # "READY_FOR_REVIEW"
       THEN "INVALID_STATE"
  ELSE "PROCEED"

(* Mutant: a replayed review is answered as a new one. *)
AlwaysCreated(verdict, t) ==
  CASE verdict = "SAME" -> Reviewed(TRUE, t)
    [] verdict = "DIFFERENT" -> [code |-> "REVIEW_CONFLICT", tx |-> t]
    [] OTHER -> Rejection(verdict)

(* The answers that need no write, of the first snapshot and of the        *)
(* recovery; INVALID_STATE has no place in the recovery, which answers     *)
(* CONFLICT when it finds no Review.                                       *)
DecideAnswer(verdict, t) ==
  CASE verdict = "SAME" -> Reviewed(FALSE, t)
    [] verdict = "DIFFERENT" -> [code |-> "REVIEW_CONFLICT", tx |-> t]
    [] OTHER -> Rejection(verdict)

BeginDecide(c, u, r, decision, comment) ==
  LET verdict == DecideVerdict(u, r, decision, comment)
      t == [op |-> "DECIDE", user |-> u, task |-> result[r].task, result |-> r,
            decision |-> decision, comment |-> comment]
  IN /\ pc[c] = "idle"
     /\ \/ verdict \in {"NOT_FOUND", "FORBIDDEN", "INVALID_STATE"} /\ Answer(c, Rejection(verdict))
        \/ verdict \in {"SAME", "DIFFERENT"} /\ Answer(c, DecideAnswer(verdict, t))
        \/ verdict = "PROCEED" /\ Begin(c, t)

(* The Review row goes in with the commit: the lock on the Result row      *)
(* keeps every other insert for this Result away.                          *)
CommitDecide(c) ==
  /\ pc[c] = "commit"
  /\ tx[c].op = "DECIDE"
  /\ result' = [result EXCEPT ![tx[c].result].status = ResultTo(tx[c])]
  /\ task' = [task EXCEPT ![tx[c].task] = Transitions[TaskAction(tx[c])].to]
  /\ review' = [review EXCEPT ![tx[c].result] =
                  [reviewer |-> tx[c].user, decision |-> tx[c].decision,
                   comment |-> tx[c].comment]]
  /\ Close(c, Reviewed(TRUE, tx[c]), {tx[c].result, tx[c].task})
  /\ UNCHANGED <<role, denied, dependsOn>>

(* Mutant: the recovery trusts the checks of the first snapshot. *)
RecoverWithoutChecks(c) ==
  /\ pc[c] = "recover"
  /\ tx[c].op = "DECIDE"
  /\ LET t == tx[c]
     IN Close(c, IF SameReviewRequest(t.result, t.user, t.decision, t.comment)
                 THEN Reviewed(FALSE, t) ELSE [code |-> "REVIEW_CONFLICT", tx |-> t], {})
  /\ UNCHANGED rows

(* recoverReviewDecision *)
RecoverDecide(c) ==
  /\ pc[c] = "recover"
  /\ tx[c].op = "DECIDE"
  /\ LET t == tx[c]
         found == DecideVerdict(t.user, t.result, t.decision, t.comment)
     IN Close(c, DecideAnswer(IF found \in {"INVALID_STATE", "PROCEED"} THEN "DIFFERENT"
                              ELSE found, t), {})
  /\ UNCHANGED rows

-----------------------------------------------------------------------------
(* The conditional updates that submit, decide and start share.            *)

(* result.updateMany with the expected status. *)
UpdateResult(c) ==
  LET r == tx[c].result
  IN /\ pc[c] = "result"
     /\ \/ /\ ~UpdateHits(c, r, result[r].status, ResultFrom(tx[c]))
           /\ Advance(c, "recover")
        \/ /\ UpdateHits(c, r, result[r].status, ResultFrom(tx[c]))
           /\ Unlocked(c, r)
           /\ Advance(c, AfterUpdate(tx[c], "result"))

(* Mutant: a lost UPDATE is tried again in the same snapshot. *)
RetryUpdateTask(c) ==
  LET t == tx[c].task
      hits == UpdateHits(c, t, task[t], Transitions[TaskAction(tx[c])].from)
  IN /\ pc[c] = "task"
     /\ \/ /\ tx[c].op \in {"SUBMIT", "DECIDE"} /\ ~hits
           /\ Advance(c, "result")
        \/ /\ hits
           /\ Unlocked(c, t)
           /\ Advance(c, AfterUpdate(tx[c], "task"))

(* task.updateMany with the expected status. *)
UpdateTask(c) ==
  LET t == tx[c].task
      hits == UpdateHits(c, t, task[t], Transitions[TaskAction(tx[c])].from)
  IN /\ pc[c] = "task"
     /\ \/ /\ tx[c].op \in {"SUBMIT", "DECIDE"} /\ ~hits
           /\ Advance(c, "recover")
        \/ /\ hits
           /\ Unlocked(c, t)
           /\ Advance(c, AfterUpdate(tx[c], "task"))

(* The API process or its connection dies: the transaction is rolled back  *)
(* and the client gets no answer.                                          *)
Crash(c) ==
  /\ pc[c] # "idle"
  /\ Close(c, NoReply, {})
  /\ UNCHANGED rows

-----------------------------------------------------------------------------
(* What others change meanwhile.                                           *)

(* upsertForAdmin and removeForAdmin of a RESULT:REVIEW override. *)
ToggleDeny(u) ==
  /\ denied' = IF u \in denied THEN denied \ {u} ELSE denied \cup {u}
  /\ UNCHANGED <<role, task, dependsOn, result, review, pc, tx, stale, reply>>

(* No API operation removes a member; the database's operator may. *)
RevokeMembership(u) ==
  /\ role[u] # "NONE"
  /\ role' = [role EXCEPT ![u] = "NONE"]
  /\ UNCHANGED <<denied, task, dependsOn, result, review, pc, tx, stale, reply>>

-----------------------------------------------------------------------------
Request(c) ==
  \/ \E u \in Users, t \in Tasks, deps \in SUBSET Tasks: CreateTask(c, u, t, deps)
  \/ \E u \in Users, t \in Tasks: BeginStart(c, u, t)
  \/ \E u \in Users, t \in Tasks, key \in Keys, r \in Results:
       \E artifacts \in (SUBSET Artifacts) \ {{}}: BeginCreate(c, u, t, key, artifacts, r)
  \/ \E u \in Users, r \in Results: BeginSubmit(c, u, r)
  \/ \E u \in Users, r \in Results, decision \in Decisions, comment \in Comments:
       BeginDecide(c, u, r, decision, comment)

Serve(c) ==
  \/ FailStart(c) \/ CommitStart(c)
  \/ InsertResult(c) \/ CommitCreate(c) \/ RecoverCreate(c)
  \/ UpdateResult(c) \/ UpdateTask(c)
  \/ CommitSubmit(c) \/ RecoverSubmit(c)
  \/ CommitDecide(c) \/ RecoverDecide(c)

Next ==
  \/ \E c \in Clients: Request(c) \/ Serve(c) \/ Crash(c)
  \/ \E u \in Administered: ToggleDeny(u) \/ RevokeMembership(u)

Spec == Init /\ [][Next]_vars

(* PostgreSQL and the API process execute the statements of an open        *)
(* transaction, and PostgreSQL hands a row lock to its waiters in a queue, *)
(* so a transaction that could go on again and again does (strong          *)
(* fairness).  Nobody has to send requests, and nothing has to crash.      *)
Fairness == \A c \in Clients: SF_vars(Serve(c))
-----------------------------------------------------------------------------
(* Properties.                                                             *)

(* The concurrent transactions behave like operations that happen one      *)
(* after the other, each at its commit.                                    *)
Lifecycle == INSTANCE ReviewLifecycle
ImplementsLifecycle == Lifecycle!Spec

(* Task, Result and Review rows always agree (see ReviewLifecycle): the    *)
(* rows of submit and decide change together, and competing candidates of  *)
(* one Task exclude each other.                                            *)
TaskResultAgreement == Lifecycle!TaskResultAgreement

(* A decided Result has exactly one Review, which says the same and is not *)
(* by the creator, whichever of two racing reviewers wins.                 *)
ReviewExplainsResult == Lifecycle!ReviewExplainsResult

(* A Task has left TODO only when everything it depends on was accepted,   *)
(* although startForMember reads the dependencies in an older snapshot.    *)
DependenciesHonoured == Lifecycle!DependenciesHonoured

(* An Idempotency-Key of one user and Task names one Result, however many  *)
(* requests with it run at the same time.                                  *)
OneResultPerKey == Lifecycle!OneResultPerKey

(* What a client was told is and stays true: a created or replayed Result  *)
(* is the one stored for the key and has the requested Artifacts, a key    *)
(* conflict has a stored Result with other Artifacts behind it, a          *)
(* submitted Result has left CANDIDATE, a review answer is the stored      *)
(* Review, and REVIEW_CONFLICT means that a different one is stored.       *)
ReplyTrue(answer) ==
  /\ answer.code \in {"CREATED", "REPLAYED"} =>
       /\ HoldsEntry(answer.tx.result, answer.tx)
       /\ result[answer.tx.result].artifacts = answer.tx.artifacts
  /\ answer.code = "IDEMPOTENCY_CONFLICT" =>
       \E r \in Results: /\ HoldsEntry(r, answer.tx)
                         /\ result[r].artifacts # answer.tx.artifacts
  /\ answer.code = "SUBMITTED" =>
       /\ result[answer.result].creator = answer.user
       /\ result[answer.result].status # "CANDIDATE"
  /\ answer.code \in {"REVIEWED", "REVIEW_REPLAYED"} =>
       SameReviewRequest(answer.tx.result, answer.tx.user, answer.tx.decision, answer.tx.comment)
  /\ answer.code = "REVIEW_CONFLICT" =>
       /\ review[answer.tx.result] # NoReview
       /\ ~SameReviewRequest(answer.tx.result, answer.tx.user, answer.tx.decision,
                             answer.tx.comment)

RepliesTrue == \A c \in Clients: ReplyTrue(reply[c])

(* Only one request is told 201 Created for a Result or for its Review. *)
CreatedOnce ==
  \A c, d \in Clients:
    /\ reply[c].code = reply[d].code
    /\ reply[c].code \in {"CREATED", "REVIEWED"}
    /\ reply[c].tx.result = reply[d].tx.result
    => c = d

(* Transactions never wait for each other in a circle: every operation     *)
(* locks the Result before its Task.                                       *)
Waits(c, d) ==
  /\ d # c
  /\ \/ pc[c] = "result" /\ tx[c].result \in LockedBy(d)
     \/ pc[c] = "task" /\ tx[c].task \in LockedBy(d)
     \/ pc[c] = "insert" /\ IndexEntry(tx[c]) \in LockedBy(d)

NoWaitCycle ==
  \A S \in (SUBSET Clients) \ {{}}: \E c \in S: \A d \in S: ~Waits(c, d)

(* Rows are never rewritten: a Review is final, a Result keeps its Task,   *)
(* creator, key and Artifacts, and a Task keeps its dependencies.          *)
FactsKept ==
  [][/\ \A r \in Results: review[r] # NoReview => review'[r] = review[r]
     /\ \A r \in Results: result[r] # NoResult =>
          result'[r] = [result[r] EXCEPT !.status = result'[r].status]
     /\ \A t \in Tasks: task[t] # "NONE" => dependsOn'[t] = dependsOn[t]]_vars

(* Every request the API accepted is answered or lost with its process:    *)
(* no wait for a lock and no retry of the recovery lasts forever.          *)
EveryRequestEnds == \A c \in Clients: pc[c] # "idle" ~> pc[c] = "idle"

(* A recovery answers from a fresh snapshot: who lost the membership, or    *)
(* for reviews the permission, after the first checks is not shown what    *)
(* the winner stored.                                                      *)
ReplayNeedsAccess ==
  [][\A c \in Clients:
       reply'[c] # reply[c] =>
         /\ reply'[c].code \in {"REPLAYED", "IDEMPOTENCY_CONFLICT"} =>
              role[reply'[c].tx.user] # "NONE"
         /\ reply'[c].code \in {"REVIEW_REPLAYED", "REVIEW_CONFLICT"} =>
              MayReview(reply'[c].tx.user, reply'[c].tx.result)]_vars

(* API_CONTRACT: repeat START returns 409 INVALID_STATE_TRANSITION.        *)
RepeatStartIsConflict == \A c \in Clients: reply[c].code # "ERROR"

(* API_CONTRACT on submit-review: this action does not change Task state.  *)
SubmitLeavesTask ==
  [][\A r \in Results:
       (result[r].status = "CANDIDATE" /\ result'[r].status = "HUMAN_REVIEW")
         => UNCHANGED task]_vars

(* What clients are told holds: the answers are true and stay so, only one  *)
(* request is told 201, a key names one Result, the Review behind a         *)
(* decision says the same, and a recovery shows what the winner stored only *)
(* to who may see it then.                                                  *)
AnswersHold ==
  /\ [](TypeOK /\ RepliesTrue /\ CreatedOnce /\ ReviewExplainsResult /\ OneResultPerKey)
  /\ ReplayNeedsAccess
===============================================================================
