--------------------------- MODULE TaskReviewProofs ---------------------------
(***************************************************************************)
(* TaskReview implements ReviewLifecycle for any number of concurrent      *)
(* requests, users, Tasks, Results, keys, Artifacts and comments; the      *)
(* agreement of the rows follows from the theorem about the life cycle.    *)
(*                                                                         *)
(* The inductive invariant says what each open transaction may rely on:    *)
(* which rows it has locked, that no other transaction has locked them,    *)
(* and that they still have the status that its UPDATE expected.           *)
(***************************************************************************)
EXTENDS TaskReview, TLAPS

(* The life cycle of a Task: its consequences hold for every set of users, *)
(* Tasks, Results, keys, Artifacts and comments.  They need no             *)
(* strengthening beyond their own conjunction.                             *)

Consistent ==
  /\ Lifecycle!TypeOK
  /\ Lifecycle!TaskResultAgreement
  /\ Lifecycle!ReviewExplainsResult
  /\ Lifecycle!DependenciesHonoured
  /\ Lifecycle!OneResultPerKey

(* Everything is consistent before the first operation. *)
LEMMA InitConsistent == Lifecycle!Init => Consistent
BY DEF Lifecycle!Init, Consistent, Lifecycle!TypeOK, Lifecycle!TaskResultAgreement, Lifecycle!ReviewExplainsResult,
       Lifecycle!DependenciesHonoured, Lifecycle!OneResultPerKey, Lifecycle!ResultsOf, Lifecycle!Unborn, Lifecycle!Undecided

(* A new Task has no Results yet and starts nothing. *)
LEMMA CreateTaskConsistent ==
  ASSUME Consistent, NEW t \in Tasks, NEW deps \in SUBSET Tasks, Lifecycle!CreateTask(t, deps)
  PROVE  Consistent'
<1> USE DEF Consistent
<1>1. Lifecycle!TypeOK'
  BY DEF Lifecycle!CreateTask, Lifecycle!TypeOK
<1>2. Lifecycle!TaskResultAgreement'
  BY DEF Lifecycle!CreateTask, Lifecycle!TypeOK, Lifecycle!TaskResultAgreement, Lifecycle!ResultsOf, Lifecycle!Unborn
<1>3. Lifecycle!ReviewExplainsResult'
  BY DEF Lifecycle!CreateTask, Lifecycle!TypeOK, Lifecycle!ReviewExplainsResult
<1>4. Lifecycle!DependenciesHonoured'
  BY DEF Lifecycle!CreateTask, Lifecycle!TypeOK, Lifecycle!DependenciesHonoured
<1>5. Lifecycle!OneResultPerKey'
  BY DEF Lifecycle!CreateTask, Lifecycle!OneResultPerKey
<1> QED BY <1>1, <1>2, <1>3, <1>4, <1>5

(* Starting asks for the dependencies in the same step. *)
LEMMA StartTaskConsistent ==
  ASSUME Consistent, NEW t \in Tasks, Lifecycle!StartTask(t)
  PROVE  Consistent'
<1> USE DEF Consistent
<1>1. Lifecycle!TypeOK'
  BY DEF Lifecycle!StartTask, Lifecycle!TypeOK
<1>2. Lifecycle!TaskResultAgreement'
  BY DEF Lifecycle!StartTask, Lifecycle!TypeOK, Lifecycle!TaskResultAgreement, Lifecycle!ResultsOf, Lifecycle!Unborn
<1>3. Lifecycle!ReviewExplainsResult'
  BY DEF Lifecycle!StartTask, Lifecycle!TypeOK, Lifecycle!ReviewExplainsResult
<1>4. Lifecycle!DependenciesHonoured'
  BY DEF Lifecycle!StartTask, Lifecycle!TypeOK, Lifecycle!DependenciesHonoured
<1>5. Lifecycle!OneResultPerKey'
  BY DEF Lifecycle!StartTask, Lifecycle!OneResultPerKey
<1> QED BY <1>1, <1>2, <1>3, <1>4, <1>5

(* A candidate is new, and so is its key. *)
LEMMA CreateResultConsistent ==
  ASSUME Consistent, NEW r \in Results, NEW t \in Tasks, NEW u \in Users, NEW key \in Keys,
         NEW artifacts \in SUBSET Artifacts, Lifecycle!CreateResult(r, t, u, key, artifacts)
  PROVE  Consistent'
<1> USE DEF Consistent
<1>1. Lifecycle!TypeOK'
  BY DEF Lifecycle!CreateResult, Lifecycle!TypeOK
<1>2. Lifecycle!TaskResultAgreement'
  BY DEF Lifecycle!CreateResult, Lifecycle!TypeOK, Lifecycle!TaskResultAgreement, Lifecycle!ResultsOf, Lifecycle!Unborn
<1>3. Lifecycle!ReviewExplainsResult'
  BY DEF Lifecycle!CreateResult, Lifecycle!TypeOK, Lifecycle!ReviewExplainsResult, Lifecycle!Unborn
<1>4. Lifecycle!DependenciesHonoured'
  BY DEF Lifecycle!CreateResult, Lifecycle!TypeOK, Lifecycle!DependenciesHonoured
<1>5. Lifecycle!OneResultPerKey'
  BY DEF Lifecycle!CreateResult, Lifecycle!TypeOK, Lifecycle!OneResultPerKey, Lifecycle!Unborn
<1> QED BY <1>1, <1>2, <1>3, <1>4, <1>5

(* A Task in progress has no other Result under review or accepted. *)
LEMMA SubmitConsistent ==
  ASSUME Consistent, NEW r \in Results, Lifecycle!SubmitForReview(r)
  PROVE  Consistent'
<1> USE DEF Consistent
<1>0. result[r].task \in Tasks /\ result[r] # Lifecycle!Unborn
  BY DEF Lifecycle!SubmitForReview, Lifecycle!TypeOK, Lifecycle!Unborn
<1>1. Lifecycle!TypeOK'
  BY <1>0 DEF Lifecycle!SubmitForReview, Lifecycle!TypeOK, Lifecycle!Unborn
<1>2. Lifecycle!TaskResultAgreement'
  BY <1>0 DEF Lifecycle!SubmitForReview, Lifecycle!TypeOK, Lifecycle!TaskResultAgreement, Lifecycle!ResultsOf, Lifecycle!Unborn
<1>3. Lifecycle!ReviewExplainsResult'
  BY <1>0 DEF Lifecycle!SubmitForReview, Lifecycle!TypeOK, Lifecycle!ReviewExplainsResult, Lifecycle!Unborn
<1>4. Lifecycle!DependenciesHonoured'
  BY <1>0 DEF Lifecycle!SubmitForReview, Lifecycle!TypeOK, Lifecycle!DependenciesHonoured
<1>5. Lifecycle!OneResultPerKey'
  BY <1>0 DEF Lifecycle!SubmitForReview, Lifecycle!TypeOK, Lifecycle!OneResultPerKey, Lifecycle!Unborn
<1> QED BY <1>1, <1>2, <1>3, <1>4, <1>5

(* The decided Result was the only one under review of its Task. *)
LEMMA DecideConsistent ==
  ASSUME Consistent, NEW r \in Results, NEW u \in Users,
         NEW decision \in {"ACCEPT", "REWORK"}, NEW comment \in Comments,
         Lifecycle!Decide(r, u, decision, comment)
  PROVE  Consistent'
<1> USE DEF Consistent
<1>0. result[r].task \in Tasks /\ result[r] # Lifecycle!Unborn
  BY DEF Lifecycle!Decide, Lifecycle!TypeOK, Lifecycle!Unborn
<1>1. Lifecycle!TypeOK'
  BY <1>0 DEF Lifecycle!Decide, Lifecycle!TypeOK, Lifecycle!Unborn
<1>2. Lifecycle!TaskResultAgreement'
  BY <1>0 DEF Lifecycle!Decide, Lifecycle!TypeOK, Lifecycle!TaskResultAgreement, Lifecycle!ResultsOf, Lifecycle!Unborn
<1>3. Lifecycle!ReviewExplainsResult'
  BY <1>0 DEF Lifecycle!Decide, Lifecycle!TypeOK, Lifecycle!ReviewExplainsResult, Lifecycle!Unborn, Lifecycle!Undecided
<1>4. Lifecycle!DependenciesHonoured'
  BY <1>0 DEF Lifecycle!Decide, Lifecycle!TypeOK, Lifecycle!DependenciesHonoured
<1>5. Lifecycle!OneResultPerKey'
  BY <1>0 DEF Lifecycle!Decide, Lifecycle!TypeOK, Lifecycle!OneResultPerKey, Lifecycle!Unborn
<1> QED BY <1>1, <1>2, <1>3, <1>4, <1>5

(* Task, Result and Review rows agree in every state of the life cycle,    *)
(* dependencies are honoured, and a key names one Result.                  *)
THEOREM LifecycleConsistent == Lifecycle!Spec => []Consistent
<1>1. Consistent /\ [Lifecycle!Next]_(Lifecycle!facts) => Consistent'
  <2> SUFFICES ASSUME Consistent, [Lifecycle!Next]_(Lifecycle!facts) PROVE Consistent'
    OBVIOUS
  <2>1. CASE UNCHANGED Lifecycle!facts
    BY <2>1 DEF Lifecycle!facts, Consistent, Lifecycle!TypeOK, Lifecycle!TaskResultAgreement, Lifecycle!ReviewExplainsResult,
                Lifecycle!DependenciesHonoured, Lifecycle!OneResultPerKey, Lifecycle!ResultsOf
  <2>2. CASE Lifecycle!Next
    BY <2>2, CreateTaskConsistent, StartTaskConsistent, CreateResultConsistent,
       SubmitConsistent, DecideConsistent DEF Lifecycle!Next
  <2> QED BY <2>1, <2>2
<1> QED BY <1>1, InitConsistent, PTL DEF Lifecycle!Spec

-----------------------------------------------------------------------------
LocksResult(c) == pc[c] \in {"task", "commit"} /\ tx[c].op \in {"SUBMIT", "DECIDE"}
LocksTask(c) == pc[c] = "commit" /\ tx[c].op \in {"START", "SUBMIT", "DECIDE"}
LocksEntry(c) == pc[c] = "commit" /\ tx[c].op = "CREATE"

(* Which transactions reach which statement. *)
Stages ==
  \A c \in Clients:
    /\ pc[c] = "idle" <=> tx[c] = NoTx
    /\ pc[c] = "insert" => tx[c].op = "CREATE"
    /\ pc[c] = "result" => tx[c].op \in {"SUBMIT", "DECIDE"}
    /\ pc[c] = "task" => tx[c].op \in {"START", "SUBMIT", "DECIDE"}
    /\ pc[c] = "recover" => tx[c].op \in {"CREATE", "SUBMIT", "DECIDE"}

(* What transaction t read and nobody can change any more. *)
Reads(t) ==
  /\ t.op \in {"START", "CREATE"} => task[t.task] # "NONE"
  /\ t.op = "START" => BlockingDependencies(t.task) = {}
  /\ t.op = "CREATE" => result[t.result] = NoResult
  /\ t.op \in {"SUBMIT", "DECIDE"} =>
       /\ result[t.result] # NoResult
       /\ result[t.result].task = t.task
  /\ t.op = "SUBMIT" => result[t.result].creator = t.user
  /\ t.op = "DECIDE" => result[t.result].creator # t.user

ReadFacts == \A c \in Clients: Reads(tx[c])

(* Locks and reserved ids exclude each other. *)
Exclusion ==
  \A c, d \in Clients: c # d =>
    /\ LocksResult(c) /\ LocksResult(d) => tx[c].result # tx[d].result
    /\ LocksTask(c) /\ LocksTask(d) => tx[c].task # tx[d].task
    /\ LocksEntry(c) /\ LocksEntry(d) => IndexEntry(tx[c]) # IndexEntry(tx[d])
    /\ tx[c].op = "CREATE" /\ tx[d].op = "CREATE" => tx[c].result # tx[d].result

(* A locked row has the status its UPDATE matched. *)
LockedStatus ==
  \A c \in Clients:
    /\ LocksResult(c) => result[tx[c].result].status = ResultFrom(tx[c])
    /\ LocksTask(c) => task[tx[c].task] = Transitions[TaskAction(tx[c])].from
    /\ LocksEntry(c) => \A r \in Results: ~HoldsEntry(r, tx[c])

IInv == TypeOK /\ Stages /\ ReadFacts /\ Exclusion /\ LockedStatus
-----------------------------------------------------------------------------
(* What the operators return.                                              *)

(* The state machine, as the transactions use it. *)
LEMMA TransitionOf ==
  ASSUME NEW t, t.op \in {"START", "SUBMIT", "DECIDE"}
  PROVE  /\ Transitions[TaskAction(t)].from =
              CASE t.op = "START" -> "TODO"
                [] t.op = "SUBMIT" -> "IN_PROGRESS"
                [] t.op = "DECIDE" -> "READY_FOR_REVIEW"
         /\ Transitions[TaskAction(t)].to =
              CASE t.op = "START" -> "IN_PROGRESS"
                [] t.op = "SUBMIT" -> "READY_FOR_REVIEW"
                [] t.op = "DECIDE" -> IF t.decision = "ACCEPT" THEN "ACCEPTED" ELSE "IN_PROGRESS"
BY DEF Transitions, TaskAction

(* Results are updated before their Task. *)
LEMMA Order ==
  ASSUME NEW t
  PROVE  /\ t.op = "START" => FirstUpdate(t) = "task" /\ AfterUpdate(t, "task") = "commit"
         /\ t.op # "START" => /\ FirstUpdate(t) = "result"
                              /\ AfterUpdate(t, "result") = "task"
                              /\ AfterUpdate(t, "task") = "commit"
BY DEF UpdateOrder, FirstUpdate, AfterUpdate

(* A row nobody else has locked is none of the others' locked rows. *)
LEMMA Free ==
  ASSUME NEW c \in Clients, NEW d \in Clients, NEW row, c # d, Unlocked(c, row)
  PROVE  /\ LocksResult(d) => tx[d].result # row
         /\ LocksTask(d) => tx[d].task # row
         /\ LocksEntry(d) => IndexEntry(tx[d]) # row
BY Order DEF Unlocked, LockedBy, LocksResult, LocksTask, LocksEntry

-----------------------------------------------------------------------------
(* Type correctness.                                                       *)

LEMMA InitTypeOK == Init => TypeOK
BY ConstantsAssumption
   DEF Init, TypeOK, NoTx, NoReply, NoResult, NoReview, Replies

LEMMA OpenTypeOK ==
  ASSUME TypeOK, NEW c \in Clients, NEW t \in Tx, NEW next \in {"insert", "result", "task"},
         Open(c, t, next)
  PROVE  TypeOK'
BY DEF TypeOK, Open, rows, Replies, NoReply

LEMMA BeginTypeOK ==
  ASSUME TypeOK, NEW c \in Clients, NEW t \in Tx, Begin(c, t)
  PROVE  TypeOK'
<1>1. FirstUpdate(t) \in {"insert", "result", "task"}
  BY Order
<1> QED BY <1>1, OpenTypeOK DEF Begin

LEMMA AnswerTypeOK ==
  ASSUME TypeOK, NEW c \in Clients, NEW answer \in Replies, Answer(c, answer)
  PROVE  TypeOK'
BY DEF TypeOK, Answer, rows

LEMMA AdvanceTypeOK ==
  ASSUME TypeOK, NEW c \in Clients, NEW next \in {"task", "commit", "recover"}, Advance(c, next)
  PROVE  TypeOK'
BY DEF TypeOK, Advance, rows

LEMMA CloseTypeOK ==
  ASSUME TypeOK, NEW c \in Clients, NEW answer \in Replies, NEW written \in SUBSET Rows,
         Close(c, answer, written)
  PROVE  /\ pc' \in [Clients -> {"idle", "insert", "result", "task", "commit", "recover"}]
         /\ tx' \in [Clients -> Tx \cup {NoTx}]
         /\ stale' \in [Clients -> SUBSET Rows]
         /\ reply' \in [Clients -> Replies]
BY DEF TypeOK, Close

(* Every answer is a reply. *)
LEMMA ReplyTypes ==
  /\ NoReply \in Replies
  /\ \A code \in RejectionCodes: Rejection(code) \in Replies
  /\ \A t \in Tasks: [code |-> "TASK_CREATED", task |-> t] \in Replies
  /\ \A t \in Tasks: [code |-> "STARTED", task |-> t] \in Replies
  /\ \A t \in CreateTx, new \in BOOLEAN: Created(new, t) \in Replies
  /\ \A t \in CreateTx: [code |-> "IDEMPOTENCY_CONFLICT", tx |-> t] \in Replies
  /\ \A u \in Users, r \in Results: Submitted(u, r) \in Replies
  /\ \A t \in DecideTx, new \in BOOLEAN: Reviewed(new, t) \in Replies
  /\ \A t \in DecideTx: [code |-> "REVIEW_CONFLICT", tx |-> t] \in Replies
BY DEF Replies, NoReply, RejectionCodes, Rejection, Created, Submitted, Reviewed

(* What a transaction holds. *)
LEMMA TxTypes ==
  ASSUME TypeOK, NEW c \in Clients
  PROVE  /\ tx[c].op = "START" => tx[c] \in StartTx
         /\ tx[c].op = "CREATE" => tx[c] \in CreateTx
         /\ tx[c].op = "SUBMIT" => tx[c] \in SubmitTx
         /\ tx[c].op = "DECIDE" => tx[c] \in DecideTx
         /\ tx[c].op \in {"START", "CREATE", "SUBMIT", "DECIDE"} =>
              tx[c].user \in Users /\ tx[c].task \in Tasks /\ tx[c] \in Tx
         /\ tx[c].op \in {"CREATE", "SUBMIT", "DECIDE"} => tx[c].result \in Results
BY DEF TypeOK, Tx, StartTx, CreateTx, SubmitTx, DecideTx, NoTx

(* The status a transaction gives its Task. *)
LEMMA TransitionTypes ==
  ASSUME TypeOK, NEW c \in Clients, tx[c].op \in {"START", "SUBMIT", "DECIDE"}
  PROVE  Transitions[TaskAction(tx[c])].to \in TaskStatuses
BY TransitionOf DEF TaskStatuses

(* A stored Result stays a Result row when its status changes. *)
LEMMA MovedResult ==
  ASSUME TypeOK, ReadFacts, NEW c \in Clients, tx[c].op \in {"SUBMIT", "DECIDE"},
         result' = [result EXCEPT ![tx[c].result].status = ResultTo(tx[c])]
  PROVE  result' \in [Results -> ResultRow \cup {NoResult}]
<1>1. tx[c].result \in Results
  BY TxTypes
<1>2. result[tx[c].result] \in ResultRow
  BY <1>1 DEF TypeOK, ReadFacts, Reads
<1>3. ResultTo(tx[c]) \in ResultStatuses
  BY DEF ResultTo, ResultStatuses
<1>4. [result[tx[c].result] EXCEPT !.status = ResultTo(tx[c])] \in ResultRow
  BY <1>2, <1>3 DEF ResultRow
<1> QED BY <1>1, <1>4 DEF TypeOK

LEMMA RequestTypeOK ==
  ASSUME TypeOK, NEW c \in Clients, Request(c)
  PROVE  TypeOK'
<1>1. ASSUME NEW u \in Users, NEW t \in Tasks, NEW deps \in SUBSET Tasks, CreateTask(c, u, t, deps)
      PROVE  TypeOK'
  <2>1. CASE Answer(c, Rejection("NOT_FOUND"))
    BY <2>1, ReplyTypes, AnswerTypeOK DEF RejectionCodes
  <2>2. CASE reply' = [reply EXCEPT ![c] = [code |-> "TASK_CREATED", task |-> t]]
    BY <1>1, <2>2, ReplyTypes DEF CreateTask, TypeOK, TaskStatuses, Answer, rows
  <2> QED BY <1>1, <2>1, <2>2 DEF CreateTask
<1>2. ASSUME NEW u \in Users, NEW t \in Tasks, BeginStart(c, u, t)
      PROVE  TypeOK'
  <2>1. [op |-> "START", user |-> u, task |-> t] \in Tx
    BY DEF Tx, StartTx
  <2>2. StartVerdict(u, t) # "PROCEED" => StartVerdict(u, t) \in RejectionCodes
    BY DEF StartVerdict, RejectionCodes
  <2> QED BY <1>2, <2>1, <2>2, ReplyTypes, AnswerTypeOK, BeginTypeOK DEF BeginStart
<1>3. ASSUME NEW u \in Users, NEW t \in Tasks, NEW key \in Keys, NEW r \in Results,
             NEW artifacts \in SUBSET Artifacts, BeginCreate(c, u, t, key, artifacts, r)
      PROVE  TypeOK'
  <2>1. [op |-> "CREATE", user |-> u, task |-> t, result |-> r, key |-> key,
         artifacts |-> artifacts] \in Tx
    BY DEF Tx, CreateTx
  <2> QED BY <1>3, <2>1, ReplyTypes, AnswerTypeOK, OpenTypeOK DEF BeginCreate, RejectionCodes
<1>4. ASSUME NEW u \in Users, NEW r \in Results, BeginSubmit(c, u, r)
      PROVE  TypeOK'
  <2>1. SubmitVerdict(u, r) \notin {"PROCEED", "ALREADY_SUBMITTED"} =>
          SubmitVerdict(u, r) \in RejectionCodes
    BY DEF SubmitVerdict, RejectionCodes
  <2>2. SubmitVerdict(u, r) = "PROCEED" =>
          [op |-> "SUBMIT", user |-> u, task |-> result[r].task, result |-> r] \in Tx
    BY DEF SubmitVerdict, Tx, SubmitTx, TypeOK, ResultRow
  <2> QED BY <1>4, <2>1, <2>2, ReplyTypes, AnswerTypeOK, BeginTypeOK DEF BeginSubmit
<1>5. ASSUME NEW u \in Users, NEW r \in Results, NEW decision \in Decisions,
             NEW comment \in Comments, BeginDecide(c, u, r, decision, comment)
      PROVE  TypeOK'
  <2> DEFINE t == [op |-> "DECIDE", user |-> u, task |-> result[r].task, result |-> r,
                   decision |-> decision, comment |-> comment]
             verdict == DecideVerdict(u, r, decision, comment)
  <2>1. verdict # "NOT_FOUND" => t \in DecideTx
    BY DEF DecideVerdict, DecideTx, TypeOK, ResultRow
  <2>2. verdict \in {"SAME", "DIFFERENT"} => DecideAnswer(verdict, t) \in Replies
    BY <2>1, ReplyTypes DEF DecideAnswer
  <2>3. CASE verdict \in {"NOT_FOUND", "FORBIDDEN", "INVALID_STATE"} /\ Answer(c, Rejection(verdict))
    <3>1. Rejection(verdict) \in Replies
      BY <2>3, ReplyTypes DEF RejectionCodes
    <3> QED BY <2>3, <3>1, AnswerTypeOK
  <2>4. CASE verdict \in {"SAME", "DIFFERENT"} /\ Answer(c, DecideAnswer(verdict, t))
    BY <2>2, <2>4, AnswerTypeOK
  <2>5. CASE verdict = "PROCEED" /\ Begin(c, t)
    <3>1. t \in Tx
      BY <2>1, <2>5 DEF Tx
    <3> QED BY <2>5, <3>1, BeginTypeOK
  <2> QED BY <1>5, <2>3, <2>4, <2>5 DEF BeginDecide
<1> QED BY <1>1, <1>2, <1>3, <1>4, <1>5 DEF Request

LEMMA ServeTypeOK ==
  ASSUME TypeOK, Stages, ReadFacts, NEW c \in Clients, Serve(c)
  PROVE  TypeOK'
<1> USE TxTypes, ReplyTypes
<1>1. CASE FailStart(c)
  <2>1. PICK answer \in Replies: Close(c, answer, {})
    BY <1>1 DEF FailStart, RejectionCodes
  <2> QED BY <1>1, <2>1, CloseTypeOK DEF FailStart, rows, TypeOK
<1>2. CASE CommitStart(c)
  <2>1. Close(c, [code |-> "STARTED", task |-> tx[c].task], {tx[c].task}) /\ tx[c].task \in Tasks
    BY <1>2 DEF CommitStart
  <2>2. task' \in [Tasks -> TaskStatuses \cup {"NONE"}]
    BY <1>2, TransitionTypes DEF CommitStart, TypeOK
  <2>3. {tx[c].task} \in SUBSET Rows /\ [code |-> "STARTED", task |-> tx[c].task] \in Replies
    BY <2>1 DEF Rows
  <2> QED BY <1>2, <2>1, <2>2, <2>3, CloseTypeOK DEF CommitStart, TypeOK
<1>3. CASE InsertResult(c)
  BY <1>3, AdvanceTypeOK DEF InsertResult
<1>4. CASE CommitCreate(c)
  <2>1. tx[c] \in CreateTx
    BY <1>4 DEF CommitCreate
  <2>2. Close(c, Created(TRUE, tx[c]), {}) /\ Created(TRUE, tx[c]) \in Replies
    BY <1>4, <2>1 DEF CommitCreate
  <2>3. result' \in [Results -> ResultRow \cup {NoResult}]
    BY <1>4, <2>1 DEF CommitCreate, TypeOK, ResultRow, ResultStatuses, CreateTx
  <2>4. {} \in SUBSET Rows
    OBVIOUS
  <2> QED BY <1>4, <2>2, <2>3, <2>4, CloseTypeOK DEF CommitCreate, TypeOK
<1>5. CASE RecoverCreate(c)
  <2>1. tx[c] \in CreateTx
    BY <1>5 DEF RecoverCreate
  <2>2. \A r \in Results: [tx[c] EXCEPT !.result = r] \in CreateTx
    BY <2>1 DEF CreateTx
  <2>3. PICK answer \in Replies: Close(c, answer, {})
    BY <1>5, <2>1, <2>2 DEF RecoverCreate, RejectionCodes
  <2> QED BY <1>5, <2>3, CloseTypeOK DEF RecoverCreate, rows, TypeOK
<1>6. CASE UpdateResult(c)
  <2>1. AfterUpdate(tx[c], "result") = "task"
    BY <1>6, Order DEF UpdateResult, Stages
  <2> QED BY <1>6, <2>1, AdvanceTypeOK DEF UpdateResult
<1>7. CASE UpdateTask(c)
  <2>1. AfterUpdate(tx[c], "task") = "commit"
    BY Order
  <2> QED BY <1>7, <2>1, AdvanceTypeOK DEF UpdateTask
<1>8. CASE CommitSubmit(c)
  <2>1. tx[c].op = "SUBMIT" /\ tx[c].user \in Users /\ tx[c].task \in Tasks /\ tx[c].result \in Results
    BY <1>8 DEF CommitSubmit
  <2>2. task' \in [Tasks -> TaskStatuses \cup {"NONE"}]
    BY <1>8, TransitionTypes DEF CommitSubmit, TypeOK
  <2>3. result' \in [Results -> ResultRow \cup {NoResult}]
    BY <1>8, <2>1, MovedResult DEF CommitSubmit
  <2>4. {tx[c].result, tx[c].task} \in SUBSET Rows /\ Submitted(tx[c].user, tx[c].result) \in Replies
    BY <2>1 DEF Rows
  <2>5. Close(c, Submitted(tx[c].user, tx[c].result), {tx[c].result, tx[c].task})
    BY <1>8 DEF CommitSubmit
  <2> QED BY <1>8, <2>2, <2>3, <2>4, <2>5, CloseTypeOK DEF CommitSubmit, TypeOK
<1>9. CASE RecoverSubmit(c)
  <2>1. PICK answer \in Replies: Close(c, answer, {})
    BY <1>9 DEF RecoverSubmit, RejectionCodes
  <2> QED BY <1>9, <2>1, CloseTypeOK DEF RecoverSubmit, rows, TypeOK
<1>10. CASE CommitDecide(c)
  <2>1. tx[c] \in DecideTx /\ tx[c].op = "DECIDE" /\ tx[c].task \in Tasks /\ tx[c].result \in Results
    BY <1>10 DEF CommitDecide
  <2>2. task' \in [Tasks -> TaskStatuses \cup {"NONE"}]
    BY <1>10, TransitionTypes DEF CommitDecide, TypeOK
  <2>3. result' \in [Results -> ResultRow \cup {NoResult}]
    BY <1>10, <2>1, MovedResult DEF CommitDecide
  <2>4. review' \in [Results -> ReviewRow \cup {NoReview}]
    BY <1>10, <2>1 DEF CommitDecide, TypeOK, ReviewRow, DecideTx
  <2>5. {tx[c].result, tx[c].task} \in SUBSET Rows /\ Reviewed(TRUE, tx[c]) \in Replies
    BY <2>1 DEF Rows
  <2>6. Close(c, Reviewed(TRUE, tx[c]), {tx[c].result, tx[c].task})
    BY <1>10 DEF CommitDecide
  <2> QED BY <1>10, <2>2, <2>3, <2>4, <2>5, <2>6, CloseTypeOK DEF CommitDecide, TypeOK
<1>11. CASE RecoverDecide(c)
  <2>1. tx[c] \in DecideTx
    BY <1>11 DEF RecoverDecide
  <2>2. \A found \in {"NOT_FOUND", "FORBIDDEN", "SAME", "DIFFERENT"}: DecideAnswer(found, tx[c]) \in Replies
    BY <2>1 DEF DecideAnswer, RejectionCodes
  <2>3. PICK answer \in Replies: Close(c, answer, {})
    BY <1>11, <2>2 DEF RecoverDecide, DecideVerdict
  <2> QED BY <1>11, <2>3, CloseTypeOK DEF RecoverDecide, rows, TypeOK
<1> QED BY <1>1, <1>2, <1>3, <1>4, <1>5, <1>6, <1>7, <1>8, <1>9, <1>10, <1>11 DEF Serve

LEMMA NextTypeOK == TypeOK /\ Stages /\ ReadFacts /\ [Next]_vars => TypeOK'
<1> SUFFICES ASSUME TypeOK, Stages, ReadFacts, [Next]_vars PROVE TypeOK'
  OBVIOUS
<1>1. ASSUME NEW c \in Clients, Crash(c) PROVE TypeOK'
  BY <1>1, ReplyTypes, CloseTypeOK DEF Crash, rows, TypeOK
<1>2. ASSUME NEW u \in Administered, ToggleDeny(u) PROVE TypeOK'
  BY <1>2, ConstantsAssumption DEF ToggleDeny, TypeOK
<1>3. ASSUME NEW u \in Administered, RevokeMembership(u) PROVE TypeOK'
  BY <1>3, ConstantsAssumption DEF RevokeMembership, TypeOK, Roles
<1>4. CASE UNCHANGED vars
  BY <1>4 DEF vars, TypeOK
<1> QED BY <1>1, <1>2, <1>3, <1>4, RequestTypeOK, ServeTypeOK DEF Next

-----------------------------------------------------------------------------
(* What transactions rely on.                                              *)

LEMMA InitIInv == Init => IInv
<1> SUFFICES ASSUME Init PROVE IInv
  OBVIOUS
<1>1. TypeOK
  BY InitTypeOK
<1>2. \A c \in Clients: pc[c] = "idle" /\ tx[c] = NoTx /\ tx[c].op = "NONE"
  BY DEF Init, NoTx
<1> QED BY <1>1, <1>2 DEF IInv, Stages, ReadFacts, Reads, Exclusion, LockedStatus,
                          LocksResult, LocksTask, LocksEntry

(* A step that leaves the rows other transactions read alone. *)
LEMMA OpenIInv ==
  ASSUME IInv, NEW c \in Clients, NEW t \in Tx, NEW next, Open(c, t, next),
         \/ next = "insert" /\ t.op = "CREATE"
         \/ next = "result" /\ t.op \in {"SUBMIT", "DECIDE"}
         \/ next = "task" /\ t.op = "START",
         Reads(t),
         t.op = "CREATE" => ~Reserved(t.result)
  PROVE  Stages' /\ ReadFacts' /\ Exclusion' /\ LockedStatus'
<1>1. /\ tx'[c] = t /\ pc'[c] = next
      /\ \A d \in Clients \ {c}: tx'[d] = tx[d] /\ pc'[d] = pc[d]
      /\ UNCHANGED <<task, dependsOn, result>>
  BY DEF Open, IInv, TypeOK, rows
<1>2. Stages'
  BY <1>1 DEF IInv, Stages, Tx, StartTx, CreateTx, SubmitTx, DecideTx, NoTx
<1>3. ReadFacts'
  BY <1>1 DEF IInv, ReadFacts, Reads, BlockingDependencies
<1>4. ~LocksResult(c)' /\ ~LocksTask(c)' /\ ~LocksEntry(c)'
  BY <1>1 DEF LocksResult, LocksTask, LocksEntry
<1>5. Exclusion'
  BY <1>1, <1>4 DEF IInv, Exclusion, LocksResult, LocksTask, LocksEntry, Reserved, IndexEntry
<1>6. LockedStatus'
  BY <1>1, <1>4 DEF IInv, LockedStatus, LocksResult, LocksTask, LocksEntry, HoldsEntry, IndexEntry
<1> QED BY <1>2, <1>3, <1>5, <1>6
LEMMA BeginIInv ==
  ASSUME IInv, NEW c \in Clients, NEW t \in Tx, Begin(c, t),
         t.op \in {"START", "SUBMIT", "DECIDE"}, Reads(t)
  PROVE  Stages' /\ ReadFacts' /\ Exclusion' /\ LockedStatus'
BY Order, OpenIInv DEF Begin

(* The request of c leaves, and what it changed keeps what d relies on.    *)
LEMMA CloseIInv ==
  ASSUME IInv, NEW c \in Clients, NEW answer, NEW written, Close(c, answer, written),
         \A d \in Clients \ {c}:
           /\ Reads(tx[d]) => Reads(tx[d])'
           /\ LocksResult(d) => result'[tx[d].result].status = result[tx[d].result].status
           /\ LocksTask(d) => task'[tx[d].task] = task[tx[d].task]
           /\ LocksEntry(d) => \A r \in Results: ~HoldsEntry(r, tx[d])'
  PROVE  Stages' /\ ReadFacts' /\ Exclusion' /\ LockedStatus'
<1>1. /\ tx'[c] = NoTx /\ pc'[c] = "idle" /\ tx'[c].op = "NONE"
      /\ \A d \in Clients \ {c}: tx'[d] = tx[d] /\ pc'[d] = pc[d]
  BY DEF Close, IInv, TypeOK, NoTx
<1>2. Stages'
  BY <1>1 DEF IInv, Stages
<1>3. ReadFacts'
  BY <1>1 DEF IInv, ReadFacts, Reads, BlockingDependencies
<1>4. ~LocksResult(c)' /\ ~LocksTask(c)' /\ ~LocksEntry(c)'
  BY <1>1 DEF LocksResult, LocksTask, LocksEntry
<1>5. \A d \in Clients \ {c}: /\ LocksResult(d)' = LocksResult(d)
                             /\ LocksTask(d)' = LocksTask(d)
                             /\ LocksEntry(d)' = LocksEntry(d)
  BY <1>1 DEF LocksResult, LocksTask, LocksEntry
<1>6. Exclusion'
  BY <1>1, <1>4, <1>5 DEF IInv, Exclusion, IndexEntry
<1>7. LockedStatus'
  <2>1. \A d \in Clients \ {c}:
          /\ LocksResult(d)' => result'[tx[d].result].status = ResultFrom(tx[d])
          /\ LocksTask(d)' => task'[tx[d].task] = Transitions[TaskAction(tx[d])].from
          /\ LocksEntry(d)' => \A r \in Results: ~HoldsEntry(r, tx[d])'
    BY <1>5 DEF IInv, LockedStatus
  <2>2. \A d \in Clients \ {c}:
          /\ ResultFrom(tx[d])' = ResultFrom(tx[d])
          /\ Transitions[TaskAction(tx[d])]' = Transitions[TaskAction(tx[d])]
    BY <1>1 DEF ResultFrom, TaskAction
  <2>3. \A d \in Clients \ {c}: tx'[d] = tx[d]
    BY <1>1
  <2> QED BY <1>4, <2>1, <2>2, <2>3 DEF LockedStatus
<1> QED BY <1>2, <1>3, <1>6, <1>7

(* A statement of c that waits for no lock and locks none. *)
LEMMA AdvanceIInv ==
  ASSUME IInv, NEW c \in Clients, NEW next, Advance(c, next),
         \/ next = "recover" /\ tx[c].op \in {"CREATE", "SUBMIT", "DECIDE"}
         \/ /\ next = "task" /\ tx[c].op \in {"SUBMIT", "DECIDE"}
            /\ Unlocked(c, tx[c].result)
            /\ result[tx[c].result].status = ResultFrom(tx[c])
         \/ /\ next = "commit" /\ tx[c].op \in {"START", "SUBMIT", "DECIDE"}
            /\ pc[c] = "task"
            /\ Unlocked(c, tx[c].task)
            /\ task[tx[c].task] = Transitions[TaskAction(tx[c])].from
         \/ /\ next = "commit" /\ tx[c].op = "CREATE"
            /\ Unlocked(c, IndexEntry(tx[c]))
            /\ \A r \in Results: ~HoldsEntry(r, tx[c])
  PROVE  Stages' /\ ReadFacts' /\ Exclusion' /\ LockedStatus'
<1>1. /\ pc'[c] = next
      /\ \A d \in Clients \ {c}: pc'[d] = pc[d]
      /\ UNCHANGED <<tx, task, dependsOn, result>>
  BY DEF Advance, IInv, TypeOK, rows
<1>2. Stages'
  BY <1>1 DEF IInv, Stages, NoTx
<1>3. ReadFacts'
  BY <1>1 DEF IInv, ReadFacts, Reads, BlockingDependencies
<1>4. /\ LocksResult(c)' => LocksResult(c) \/ (Unlocked(c, tx[c].result)
                              /\ result[tx[c].result].status = ResultFrom(tx[c]))
      /\ LocksTask(c)' => /\ Unlocked(c, tx[c].task)
                          /\ task[tx[c].task] = Transitions[TaskAction(tx[c])].from
      /\ LocksEntry(c)' => /\ Unlocked(c, IndexEntry(tx[c]))
                           /\ \A r \in Results: ~HoldsEntry(r, tx[c])
  BY <1>1 DEF LocksResult, LocksTask, LocksEntry
<1>5. \A d \in Clients \ {c}: /\ LocksResult(d)' = LocksResult(d)
                             /\ LocksTask(d)' = LocksTask(d)
                             /\ LocksEntry(d)' = LocksEntry(d)
  BY <1>1 DEF LocksResult, LocksTask, LocksEntry
<1>6. Exclusion'
  <2>1. \A d \in Clients \ {c}:
          /\ LocksResult(c)' /\ LocksResult(d) => tx[c].result # tx[d].result
          /\ LocksTask(c)' /\ LocksTask(d) => tx[c].task # tx[d].task
          /\ LocksEntry(c)' /\ LocksEntry(d) => IndexEntry(tx[c]) # IndexEntry(tx[d])
    BY <1>4, Free DEF IInv, Exclusion
  <2> QED BY <1>1, <1>5, <2>1 DEF IInv, Exclusion, IndexEntry
<1>7. LockedStatus'
  <2>1. \A d \in Clients:
          /\ LocksResult(d)' => result[tx[d].result].status = ResultFrom(tx[d])
          /\ LocksTask(d)' => task[tx[d].task] = Transitions[TaskAction(tx[d])].from
          /\ LocksEntry(d)' => \A r \in Results: ~HoldsEntry(r, tx[d])
    BY <1>4, <1>5 DEF IInv, LockedStatus
  <2> QED BY <1>1, <2>1 DEF LockedStatus, HoldsEntry, IndexEntry, ResultFrom, TaskAction
<1> QED BY <1>2, <1>3, <1>6, <1>7
(* Tasks are never unmade or reopened, and a Result keeps its Task and     *)
(* creator: what d read stays true.                                        *)
LEMMA ReadsKept ==
  ASSUME TypeOK, NEW d \in Clients, tx'[d] = tx[d], Reads(tx[d]),
         \A t \in Tasks: /\ task[t] # "NONE" => task'[t] # "NONE" /\ dependsOn'[t] = dependsOn[t]
                         /\ task[t] \in {"ACCEPTED", "CLOSED"} => task'[t] = task[t],
         \A r \in Results: result[r] # NoResult =>
           /\ result'[r] # NoResult
           /\ result'[r].task = result[r].task
           /\ result'[r].creator = result[r].creator,
         tx[d].op = "CREATE" => result'[tx[d].result] = result[tx[d].result]
  PROVE  Reads(tx[d])'
<1>1. tx[d].op = "START" => BlockingDependencies(tx[d].task)' = {}
  <2> SUFFICES ASSUME tx[d].op = "START" PROVE BlockingDependencies(tx[d].task)' = {}
    OBVIOUS
  <2>1. tx[d].task \in Tasks /\ task[tx[d].task] # "NONE" /\ BlockingDependencies(tx[d].task) = {}
    BY TxTypes DEF Reads
  <2>2. dependsOn'[tx[d].task] = dependsOn[tx[d].task] /\ dependsOn[tx[d].task] \subseteq Tasks
    BY <2>1 DEF TypeOK
  <2> QED BY <2>1, <2>2 DEF BlockingDependencies
<1> QED BY <1>1, TxTypes DEF Reads

LEMMA RequestIInv ==
  ASSUME IInv, NEW c \in Clients, Request(c)
  PROVE  Stages' /\ ReadFacts' /\ Exclusion' /\ LockedStatus'
<1> USE DEF IInv
<1>1. ASSUME NEW answer, Answer(c, answer)
      PROVE  Stages' /\ ReadFacts' /\ Exclusion' /\ LockedStatus'
  BY <1>1 DEF Answer, rows, Stages, ReadFacts, Reads, BlockingDependencies, Exclusion, LockedStatus,
              LocksResult, LocksTask, LocksEntry, HoldsEntry
<1>2. ASSUME NEW u \in Users, NEW t \in Tasks, NEW deps \in SUBSET Tasks, CreateTask(c, u, t, deps)
      PROVE  Stages' /\ ReadFacts' /\ Exclusion' /\ LockedStatus'
  <2>1. CASE Answer(c, Rejection("NOT_FOUND"))
    BY <1>1, <2>1
  <2>2. CASE task' = [task EXCEPT ![t] = "TODO"] /\ dependsOn' = [dependsOn EXCEPT ![t] = deps]
    <3>1. task[t] = "NONE" /\ UNCHANGED <<result, pc, tx>>
      BY <1>2, <2>2 DEF CreateTask, Answer, rows
    <3>2. \A s \in Tasks: /\ task[s] # "NONE" => task'[s] # "NONE" /\ dependsOn'[s] = dependsOn[s]
                          /\ task[s] \notin {"NONE"} => task'[s] = task[s]
      BY <2>2, <3>1 DEF TypeOK
    <3>3. ReadFacts'
      BY <3>1, <3>2, ReadsKept DEF ReadFacts
    <3>4. Stages' /\ Exclusion'
      BY <3>1 DEF Stages, Exclusion, LocksResult, LocksTask, LocksEntry
    <3>5. \A d \in Clients: LocksTask(d) => task'[tx[d].task] = task[tx[d].task]
      BY <3>2, TxTypes, TransitionOf DEF LocksTask, LockedStatus
    <3>6. LockedStatus'
      BY <3>1, <3>5 DEF LockedStatus, LocksResult, LocksTask, LocksEntry, HoldsEntry
    <3> QED BY <3>3, <3>4, <3>6
  <2> QED BY <1>2, <2>1, <2>2 DEF CreateTask
<1>3. ASSUME NEW u \in Users, NEW t \in Tasks, BeginStart(c, u, t)
      PROVE  Stages' /\ ReadFacts' /\ Exclusion' /\ LockedStatus'
  <2> DEFINE s == [op |-> "START", user |-> u, task |-> t]
  <2>1. s \in Tx /\ s.op = "START"
    BY DEF Tx, StartTx
  <2>2. StartVerdict(u, t) = "PROCEED" => Reads(s)
    BY DEF StartVerdict, Reads
  <2> HIDE DEF s
  <2>3. CASE StartVerdict(u, t) = "PROCEED" /\ Begin(c, s)
    BY <2>1, <2>2, <2>3, BeginIInv
  <2> QED BY <1>1, <1>3, <2>3 DEF BeginStart, s
<1>4. ASSUME NEW u \in Users, NEW t \in Tasks, NEW key \in Keys, NEW r \in Results,
             NEW artifacts \in SUBSET Artifacts, BeginCreate(c, u, t, key, artifacts, r)
      PROVE  Stages' /\ ReadFacts' /\ Exclusion' /\ LockedStatus'
  <2> DEFINE s == [op |-> "CREATE", user |-> u, task |-> t, result |-> r, key |-> key,
                   artifacts |-> artifacts]
  <2>1. s \in Tx /\ s.op = "CREATE" /\ ~Reserved(s.result)
    BY <1>4 DEF Tx, CreateTx, BeginCreate
  <2>2. task[t] # "NONE" => Reads(s)
    BY <1>4 DEF BeginCreate, Reads
  <2> HIDE DEF s
  <2>3. CASE task[t] # "NONE" /\ Open(c, s, "insert")
    BY <2>1, <2>2, <2>3, OpenIInv
  <2> QED BY <1>1, <1>4, <2>3 DEF BeginCreate, s
<1>5. ASSUME NEW u \in Users, NEW r \in Results, BeginSubmit(c, u, r)
      PROVE  Stages' /\ ReadFacts' /\ Exclusion' /\ LockedStatus'
  <2> DEFINE s == [op |-> "SUBMIT", user |-> u, task |-> result[r].task, result |-> r]
  <2>1. SubmitVerdict(u, r) = "PROCEED" => s \in Tx /\ s.op = "SUBMIT" /\ Reads(s)
    BY DEF SubmitVerdict, Tx, SubmitTx, TypeOK, ResultRow, Reads
  <2> HIDE DEF s
  <2>2. CASE SubmitVerdict(u, r) = "PROCEED" /\ Begin(c, s)
    BY <2>1, <2>2, BeginIInv
  <2> QED BY <1>1, <1>5, <2>2 DEF BeginSubmit, s
<1>6. ASSUME NEW u \in Users, NEW r \in Results, NEW decision \in Decisions,
             NEW comment \in Comments, BeginDecide(c, u, r, decision, comment)
      PROVE  Stages' /\ ReadFacts' /\ Exclusion' /\ LockedStatus'
  <2> DEFINE s == [op |-> "DECIDE", user |-> u, task |-> result[r].task, result |-> r,
                   decision |-> decision, comment |-> comment]
             verdict == DecideVerdict(u, r, decision, comment)
  <2>1. verdict = "PROCEED" => s \in Tx /\ s.op = "DECIDE" /\ Reads(s)
    BY DEF DecideVerdict, MayReview, Tx, DecideTx, TypeOK, ResultRow, Reads
  <2> HIDE DEF s, verdict
  <2>2. CASE verdict = "PROCEED" /\ Begin(c, s)
    BY <2>1, <2>2, BeginIInv
  <2> QED BY <1>1, <1>6, <2>2 DEF BeginDecide, s, verdict
<1> QED BY <1>2, <1>3, <1>4, <1>5, <1>6 DEF Request
(* A commit of submit or decide changes one Result and its Task, which     *)
(* nobody else has locked.                                                 *)
LEMMA MoveIInv ==
  ASSUME IInv, NEW c \in Clients, NEW answer, NEW written, Close(c, answer, written),
         pc[c] = "commit", tx[c].op \in {"SUBMIT", "DECIDE"},
         result' = [result EXCEPT ![tx[c].result].status = ResultTo(tx[c])],
         task' = [task EXCEPT ![tx[c].task] = Transitions[TaskAction(tx[c])].to],
         UNCHANGED dependsOn
  PROVE  Stages' /\ ReadFacts' /\ Exclusion' /\ LockedStatus'
<1> USE DEF IInv
<1>1. /\ tx[c].result \in Results /\ tx[c].task \in Tasks
      /\ result[tx[c].result] \in ResultRow
      /\ LocksResult(c) /\ LocksTask(c) /\ ~LocksEntry(c)
  BY TxTypes DEF LocksResult, LocksTask, LocksEntry, ReadFacts, Reads, TypeOK
<1>2. /\ task[tx[c].task] \in {"IN_PROGRESS", "READY_FOR_REVIEW"}
      /\ Transitions[TaskAction(tx[c])].to # "NONE"
  BY <1>1, TransitionOf DEF LockedStatus
<1>3. \A t \in Tasks: /\ task[t] # "NONE" => task'[t] # "NONE" /\ dependsOn'[t] = dependsOn[t]
                      /\ task[t] \in {"ACCEPTED", "CLOSED"} => task'[t] = task[t]
                      /\ t # tx[c].task => task'[t] = task[t]
  BY <1>2 DEF TypeOK
<1>4. \A r \in Results:
        /\ r # tx[c].result => result'[r] = result[r]
        /\ result[r] # NoResult =>
             /\ result'[r] \in ResultRow
             /\ result'[r].task = result[r].task
             /\ result'[r].creator = result[r].creator
             /\ result'[r].key = result[r].key
  <2>1. \A r \in Results:
          result'[r] = IF r = tx[c].result
                       THEN [result[r] EXCEPT !.status = ResultTo(tx[c])] ELSE result[r]
    BY DEF TypeOK
  <2>2. \A r \in Results: result[r] # NoResult => result[r] \in ResultRow
    BY DEF TypeOK
  <2>3. ResultTo(tx[c]) \in ResultStatuses
    BY DEF ResultTo, ResultStatuses
  <2> QED BY <2>1, <2>2, <2>3 DEF ResultRow
<1>5. NoResult \notin ResultRow
  BY DEF NoResult, ResultRow, ResultStatuses
<1>6. \A d \in Clients \ {c}: tx'[d] = tx[d]
  BY DEF Close, TypeOK
<1>7. ASSUME NEW d \in Clients \ {c}
      PROVE  /\ Reads(tx[d]) => Reads(tx[d])'
             /\ LocksResult(d) => result'[tx[d].result].status = result[tx[d].result].status
             /\ LocksTask(d) => task'[tx[d].task] = task[tx[d].task]
             /\ LocksEntry(d) => \A r \in Results: ~HoldsEntry(r, tx[d])'
  <2>1. tx[d].op = "CREATE" => result[tx[d].result] = NoResult /\ tx[d].result \in Results
    BY TxTypes DEF ReadFacts, Reads
  <2>2. tx[d].op = "CREATE" => result'[tx[d].result] = result[tx[d].result]
    BY <1>1, <1>4, <1>5, <2>1
  <2>3. Reads(tx[d]) => Reads(tx[d])'
    BY <1>3, <1>4, <1>5, <1>6, <2>2, ReadsKept
  <2>4. LocksResult(d) => result'[tx[d].result].status = result[tx[d].result].status
    BY <1>1, <1>4, TxTypes DEF Exclusion, LocksResult
  <2>5. LocksTask(d) => task'[tx[d].task] = task[tx[d].task]
    BY <1>1, <1>3, TxTypes DEF Exclusion, LocksTask
  <2>6. ASSUME LocksEntry(d), NEW r \in Results PROVE ~HoldsEntry(r, tx[d])'
    <3>1. ~HoldsEntry(r, tx[d])
      BY <2>6 DEF LockedStatus
    <3>2. CASE result[r] = NoResult
      BY <1>1, <1>4, <1>5, <3>2 DEF HoldsEntry
    <3>3. CASE result[r] # NoResult
      BY <1>4, <1>6, <3>1, <3>3 DEF HoldsEntry, IndexEntry
    <3> QED BY <3>2, <3>3
  <2> QED BY <2>3, <2>4, <2>5, <2>6
<1> QED BY <1>7, CloseIInv

LEMMA ServeIInv ==
  ASSUME IInv, NEW c \in Clients, Serve(c)
  PROVE  Stages' /\ ReadFacts' /\ Exclusion' /\ LockedStatus'
<1> USE DEF IInv
<1>1. ASSUME NEW answer, Close(c, answer, {}), UNCHANGED rows
      PROVE  Stages' /\ ReadFacts' /\ Exclusion' /\ LockedStatus'
  <2>1. \A d \in Clients \ {c}: tx'[d] = tx[d]
    BY <1>1 DEF Close, TypeOK
  <2>2. \A d \in Clients \ {c}:
          /\ Reads(tx[d]) => Reads(tx[d])'
          /\ LocksEntry(d) => \A r \in Results: ~HoldsEntry(r, tx[d])'
    BY <1>1, <2>1 DEF rows, Reads, BlockingDependencies, LockedStatus, HoldsEntry, IndexEntry
  <2> QED BY <1>1, <2>2, CloseIInv DEF rows
<1>2. CASE FailStart(c)
  BY <1>1, <1>2 DEF FailStart
<1>3. CASE CommitStart(c)
  <2>1. tx[c].task \in Tasks /\ LocksTask(c)
    BY <1>3, TxTypes DEF CommitStart, LocksTask
  <2>2. task[tx[c].task] = "TODO" /\ task' = [task EXCEPT ![tx[c].task] = "IN_PROGRESS"]
    <3>1. /\ Transitions[TaskAction(tx[c])].from = "TODO"
          /\ Transitions[TaskAction(tx[c])].to = "IN_PROGRESS"
      BY <1>3, TransitionOf DEF CommitStart
    <3> QED BY <1>3, <2>1, <3>1 DEF CommitStart, LockedStatus
  <2>3. \A d \in Clients \ {c}: tx'[d] = tx[d]
    BY <1>3 DEF CommitStart, Close, TypeOK
  <2>4. \A t \in Tasks: /\ task[t] # "NONE" => task'[t] # "NONE"
                        /\ task[t] \in {"ACCEPTED", "CLOSED"} => task'[t] = task[t]
                        /\ t # tx[c].task => task'[t] = task[t]
    BY <2>2 DEF TypeOK
  <2>5. UNCHANGED <<result, dependsOn>>
    BY <1>3 DEF CommitStart
  <2>6. \A d \in Clients \ {c}: Reads(tx[d]) => Reads(tx[d])'
    BY <2>3, <2>4, <2>5, ReadsKept
  <2>7. \A d \in Clients \ {c}: LocksTask(d) => task'[tx[d].task] = task[tx[d].task]
    BY <2>1, <2>4, TxTypes DEF Exclusion, LocksTask
  <2>8. \A d \in Clients \ {c}: LocksEntry(d) => \A r \in Results: ~HoldsEntry(r, tx[d])'
    BY <2>3, <2>5 DEF LockedStatus, HoldsEntry, IndexEntry
  <2>9. PICK answer, written: Close(c, answer, written)
    BY <1>3 DEF CommitStart
  <2> QED BY <2>5, <2>6, <2>7, <2>8, <2>9, CloseIInv
<1>4. CASE InsertResult(c)
  BY <1>4, AdvanceIInv DEF InsertResult, Stages
<1>5. CASE CommitCreate(c)
  <2>1. /\ tx[c] \in CreateTx /\ tx[c].op = "CREATE" /\ tx[c].result \in Results
        /\ LocksEntry(c) /\ result[tx[c].result] = NoResult
    BY <1>5, TxTypes DEF CommitCreate, LocksEntry, ReadFacts, Reads
  <2>2. \A d \in Clients \ {c}: tx'[d] = tx[d]
    BY <1>5 DEF CommitCreate, Close, TypeOK
  <2>3. /\ \A r \in Results \ {tx[c].result}: result'[r] = result[r]
        /\ result'[tx[c].result].creator = tx[c].user
        /\ result'[tx[c].result].task = tx[c].task
        /\ result'[tx[c].result].key = tx[c].key
        /\ UNCHANGED <<task, dependsOn>>
    BY <1>5, <2>1 DEF CommitCreate, TypeOK
  <2>4. \A d \in Clients \ {c}: Reads(tx[d]) => Reads(tx[d])'
    <3>1. \A d \in Clients \ {c}: tx[d].op = "CREATE" =>
            tx[d].result \in Results /\ tx[d].result # tx[c].result
      BY <2>1, TxTypes DEF Exclusion
    <3> QED BY <2>1, <2>2, <2>3, <3>1, ReadsKept
  <2>5. \A d \in Clients \ {c}: LocksResult(d) =>
          result'[tx[d].result].status = result[tx[d].result].status
    BY <2>1, <2>3, TxTypes DEF LocksResult, ReadFacts, Reads
  <2>6. \A d \in Clients \ {c}: LocksEntry(d) => \A r \in Results: ~HoldsEntry(r, tx[d])'
    BY <2>1, <2>2, <2>3 DEF Exclusion, LockedStatus, HoldsEntry, IndexEntry
  <2>7. PICK answer, written: Close(c, answer, written)
    BY <1>5 DEF CommitCreate
  <2> QED BY <2>3, <2>4, <2>5, <2>6, <2>7, CloseIInv
<1>6. CASE RecoverCreate(c)
  BY <1>1, <1>6 DEF RecoverCreate
<1>7. CASE UpdateResult(c)
  <2>1. tx[c].op \in {"SUBMIT", "DECIDE"}
    BY <1>7 DEF UpdateResult, Stages
  <2> QED BY <1>7, <2>1, Order, AdvanceIInv DEF UpdateResult, UpdateHits
<1>8. CASE UpdateTask(c)
  <2>1. tx[c].op \in {"START", "SUBMIT", "DECIDE"}
    BY <1>8 DEF UpdateTask, Stages
  <2> QED BY <1>8, <2>1, Order, AdvanceIInv DEF UpdateTask, UpdateHits
<1>9. CASE CommitSubmit(c)
  BY <1>9, MoveIInv DEF CommitSubmit
<1>10. CASE RecoverSubmit(c)
  BY <1>1, <1>10 DEF RecoverSubmit
<1>11. CASE CommitDecide(c)
  BY <1>11, MoveIInv DEF CommitDecide
<1>12. CASE RecoverDecide(c)
  BY <1>1, <1>12 DEF RecoverDecide
<1> QED BY <1>2, <1>3, <1>4, <1>5, <1>6, <1>7, <1>8, <1>9, <1>10, <1>11, <1>12 DEF Serve
LEMMA NextIInv == IInv /\ [Next]_vars => IInv'
<1> SUFFICES ASSUME IInv, [Next]_vars PROVE IInv'
  OBVIOUS
<1>1. TypeOK'
  BY NextTypeOK DEF IInv
<1>2. ASSUME NEW c \in Clients, Crash(c)
      PROVE  Stages' /\ ReadFacts' /\ Exclusion' /\ LockedStatus'
  <2>1. \A d \in Clients \ {c}: tx'[d] = tx[d]
    BY <1>2 DEF Crash, Close, IInv, TypeOK
  <2>2. \A d \in Clients \ {c}:
          /\ Reads(tx[d]) => Reads(tx[d])'
          /\ LocksEntry(d) => \A r \in Results: ~HoldsEntry(r, tx[d])'
    BY <1>2, <2>1 DEF Crash, rows, IInv, Reads, BlockingDependencies, LockedStatus, HoldsEntry,
                      IndexEntry
  <2> QED BY <1>2, <2>2, CloseIInv DEF Crash, rows
<1>3. ASSUME UNCHANGED <<task, dependsOn, result, pc, tx>>
      PROVE  Stages' /\ ReadFacts' /\ Exclusion' /\ LockedStatus'
  BY <1>3 DEF IInv, Stages, ReadFacts, Reads, BlockingDependencies, Exclusion, LockedStatus,
              LocksResult, LocksTask, LocksEntry, HoldsEntry
<1>4. (\E u \in Administered: ToggleDeny(u) \/ RevokeMembership(u)) \/ UNCHANGED vars
        => UNCHANGED <<task, dependsOn, result, pc, tx>>
  BY DEF ToggleDeny, RevokeMembership, vars
<1>5. Stages' /\ ReadFacts' /\ Exclusion' /\ LockedStatus'
  BY <1>2, <1>3, <1>4, RequestIInv, ServeIInv DEF Next
<1> QED BY <1>1, <1>5 DEF IInv

(* The inductive invariant holds in every reachable state. *)
THEOREM Invariance == Spec => []IInv
<1>1. Init => IInv
  BY InitIInv
<1>2. IInv /\ [Next]_vars => IInv'
  BY NextIInv
<1> QED BY <1>1, <1>2, PTL DEF Spec

(* Every variable keeps its type: no request ever holds or writes a value  *)
(* that the Prisma schema or the domain types exclude.                     *)
THEOREM TypeCorrect == Spec => []TypeOK
<1>1. IInv => TypeOK
  BY DEF IInv
<1> QED BY <1>1, Invariance, PTL

-----------------------------------------------------------------------------
(* The requests implement the life cycle: only commits and createForMember *)
(* change what it sees, and each of these steps is one of its operations.  *)

LEMMA CreateTaskSimulates ==
  ASSUME IInv, NEW c \in Clients, NEW u \in Users, NEW t \in Tasks, NEW deps \in SUBSET Tasks,
         CreateTask(c, u, t, deps)
  PROVE  Lifecycle!CreateTask(t, deps) \/ UNCHANGED Lifecycle!facts
BY DEF CreateTask, Answer, rows, Lifecycle!CreateTask, Lifecycle!facts

LEMMA CommitStartSimulates ==
  ASSUME IInv, NEW c \in Clients, CommitStart(c)
  PROVE  tx[c].task \in Tasks /\ Lifecycle!StartTask(tx[c].task)
<1> USE DEF IInv
<1>1. tx[c].op = "START" /\ tx[c].task \in Tasks /\ LocksTask(c)
  BY TxTypes DEF CommitStart, LocksTask
<1>2. /\ Transitions[TaskAction(tx[c])].from = "TODO"
      /\ Transitions[TaskAction(tx[c])].to = "IN_PROGRESS"
  BY <1>1, TransitionOf
<1>3. task[tx[c].task] = "TODO"
  BY <1>1, <1>2 DEF LockedStatus
<1>4. \A d \in dependsOn[tx[c].task]: task[d] \in {"ACCEPTED", "CLOSED"}
  BY <1>1 DEF ReadFacts, Reads, BlockingDependencies
<1> QED BY <1>1, <1>2, <1>3, <1>4 DEF CommitStart, Lifecycle!StartTask

LEMMA CommitCreateSimulates ==
  ASSUME IInv, NEW c \in Clients, CommitCreate(c)
  PROVE  /\ tx[c] \in CreateTx
         /\ Lifecycle!CreateResult(tx[c].result, tx[c].task, tx[c].user, tx[c].key, tx[c].artifacts)
<1> USE DEF IInv
<1>1. tx[c].op = "CREATE" /\ tx[c] \in CreateTx /\ LocksEntry(c)
  BY TxTypes DEF CommitCreate, LocksEntry
<1>2. task[tx[c].task] # "NONE" /\ result[tx[c].result] = NoResult
  BY <1>1 DEF ReadFacts, Reads
<1>3. \A r \in Results: result[r] # NoResult =>
        <<result[r].creator, result[r].task, result[r].key>> # <<tx[c].user, tx[c].task, tx[c].key>>
  BY <1>1 DEF LockedStatus, HoldsEntry, IndexEntry
<1> QED BY <1>1, <1>2, <1>3 DEF CommitCreate, NoResult, Lifecycle!CreateResult, Lifecycle!Unborn

LEMMA CommitSubmitSimulates ==
  ASSUME IInv, NEW c \in Clients, CommitSubmit(c)
  PROVE  tx[c].result \in Results /\ Lifecycle!SubmitForReview(tx[c].result)
<1> USE DEF IInv
<1>1. /\ tx[c].op = "SUBMIT" /\ tx[c].result \in Results
      /\ LocksResult(c) /\ LocksTask(c)
      /\ result[tx[c].result].task = tx[c].task
  BY TxTypes DEF CommitSubmit, LocksResult, LocksTask, ReadFacts, Reads
<1>2. /\ Transitions[TaskAction(tx[c])].from = "IN_PROGRESS"
      /\ Transitions[TaskAction(tx[c])].to = "READY_FOR_REVIEW"
  BY <1>1, TransitionOf
<1>3. result[tx[c].result].status = "CANDIDATE" /\ task[tx[c].task] = "IN_PROGRESS"
  BY <1>1, <1>2 DEF LockedStatus, ResultFrom
<1>4. ResultTo(tx[c]) = "HUMAN_REVIEW"
  BY <1>1 DEF ResultTo
<1> QED BY <1>1, <1>2, <1>3, <1>4 DEF CommitSubmit, Lifecycle!SubmitForReview

LEMMA CommitDecideSimulates ==
  ASSUME IInv, NEW c \in Clients, CommitDecide(c)
  PROVE  /\ tx[c] \in DecideTx
         /\ Lifecycle!Decide(tx[c].result, tx[c].user, tx[c].decision, tx[c].comment)
<1> USE DEF IInv
<1>1. /\ tx[c].op = "DECIDE" /\ tx[c] \in DecideTx
      /\ LocksResult(c) /\ LocksTask(c)
      /\ result[tx[c].result].task = tx[c].task
      /\ result[tx[c].result].creator # tx[c].user
  BY TxTypes DEF CommitDecide, LocksResult, LocksTask, ReadFacts, Reads
<1>2. /\ Transitions[TaskAction(tx[c])].from = "READY_FOR_REVIEW"
      /\ Transitions[TaskAction(tx[c])].to = IF tx[c].decision = "ACCEPT" THEN "ACCEPTED" ELSE "IN_PROGRESS"
  BY <1>1, TransitionOf
<1>3. result[tx[c].result].status = "HUMAN_REVIEW" /\ task[tx[c].task] = "READY_FOR_REVIEW"
  BY <1>1, <1>2 DEF LockedStatus, ResultFrom
<1>4. ResultTo(tx[c]) = IF tx[c].decision = "ACCEPT" THEN "ACCEPTED" ELSE "REWORK"
  BY <1>1 DEF ResultTo
<1> QED BY <1>1, <1>2, <1>3, <1>4 DEF CommitDecide, Lifecycle!Decide

LEMMA StepSimulates == IInv /\ [Next]_vars => [Lifecycle!Next]_(Lifecycle!facts)
<1> SUFFICES ASSUME IInv, [Next]_vars PROVE Lifecycle!Next \/ UNCHANGED Lifecycle!facts
  OBVIOUS
<1> USE DEF Lifecycle!facts
<1>1. ASSUME NEW c \in Clients, Request(c) PROVE Lifecycle!Next \/ UNCHANGED Lifecycle!facts
  <2>1. ASSUME NEW u \in Users, NEW t \in Tasks, NEW deps \in SUBSET Tasks, CreateTask(c, u, t, deps)
        PROVE  Lifecycle!Next \/ UNCHANGED Lifecycle!facts
    BY <2>1, CreateTaskSimulates DEF Lifecycle!Next
  <2>2. ASSUME NEW u \in Users, NEW t \in Tasks, BeginStart(c, u, t)
        PROVE  UNCHANGED Lifecycle!facts
    BY <2>2 DEF BeginStart, Answer, Begin, Open, rows
  <2>3. ASSUME NEW u \in Users, NEW t \in Tasks, NEW key \in Keys, NEW r \in Results,
               NEW artifacts \in SUBSET Artifacts, BeginCreate(c, u, t, key, artifacts, r)
        PROVE  UNCHANGED Lifecycle!facts
    BY <2>3 DEF BeginCreate, Answer, Open, rows
  <2>4. ASSUME NEW u \in Users, NEW r \in Results, BeginSubmit(c, u, r)
        PROVE  UNCHANGED Lifecycle!facts
    BY <2>4 DEF BeginSubmit, Answer, Begin, Open, rows
  <2>5. ASSUME NEW u \in Users, NEW r \in Results, NEW decision \in Decisions,
               NEW comment \in Comments, BeginDecide(c, u, r, decision, comment)
        PROVE  UNCHANGED Lifecycle!facts
    BY <2>5 DEF BeginDecide, Answer, Begin, Open, rows
  <2> QED BY <1>1, <2>1, <2>2, <2>3, <2>4, <2>5 DEF Request
<1>2. ASSUME NEW c \in Clients, Serve(c) PROVE Lifecycle!Next \/ UNCHANGED Lifecycle!facts
  <2>1. CASE FailStart(c) \/ RecoverCreate(c) \/ RecoverSubmit(c) \/ RecoverDecide(c)
    BY <2>1 DEF FailStart, RecoverCreate, RecoverSubmit, RecoverDecide, rows
  <2>2. CASE InsertResult(c) \/ UpdateResult(c) \/ UpdateTask(c)
    BY <2>2 DEF InsertResult, UpdateResult, UpdateTask, Advance, rows
  <2>3. CASE CommitStart(c)
    BY <2>3, CommitStartSimulates DEF Lifecycle!Next
  <2>4. CASE CommitCreate(c)
    BY <2>4, CommitCreateSimulates DEF Lifecycle!Next, CreateTx
  <2>5. CASE CommitSubmit(c)
    BY <2>5, CommitSubmitSimulates DEF Lifecycle!Next
  <2>6. CASE CommitDecide(c)
    BY <2>6, CommitDecideSimulates DEF Lifecycle!Next, DecideTx, Decisions
  <2> QED BY <1>2, <2>1, <2>2, <2>3, <2>4, <2>5, <2>6 DEF Serve
<1>3. ASSUME NEW c \in Clients, Crash(c) PROVE UNCHANGED Lifecycle!facts
  BY <1>3 DEF Crash, rows
<1>4. ASSUME NEW u \in Administered, ToggleDeny(u) \/ RevokeMembership(u)
      PROVE  UNCHANGED Lifecycle!facts
  BY <1>4 DEF ToggleDeny, RevokeMembership
<1>5. CASE UNCHANGED vars
  BY <1>5 DEF vars
<1> QED BY <1>1, <1>2, <1>3, <1>4, <1>5 DEF Next

(* Requests that run at the same time, conflict, crash and recover look    *)
(* like operations on Tasks and Results that happen one after the other.   *)
THEOREM Refinement == Spec => ImplementsLifecycle
<1>1. Init => Lifecycle!Init
  BY DEF Init, Lifecycle!Init, NoResult, NoReview, Lifecycle!Unborn, Lifecycle!Undecided
<1> QED BY <1>1, StepSimulates, Invariance, PTL DEF Spec, ImplementsLifecycle, Lifecycle!Spec
(* The consequences of the life cycle carry over.                          *)
LEMMA RowsAgree ==
  Spec => [](TaskResultAgreement /\ ReviewExplainsResult /\ DependenciesHonoured /\ OneResultPerKey)
<1>1. Consistent => TaskResultAgreement /\ ReviewExplainsResult
                    /\ DependenciesHonoured /\ OneResultPerKey
  BY DEF Consistent, TaskResultAgreement, ReviewExplainsResult, DependenciesHonoured, OneResultPerKey
<1> QED BY <1>1, Refinement, LifecycleConsistent, PTL DEF ImplementsLifecycle

(* In every reachable state Tasks and Results agree, however many          *)
(* candidates of a Task are handed in and decided at the same time.        *)
THEOREM Agreement == Spec => []TaskResultAgreement
BY RowsAgree, PTL

(* A decided Result has the Review that explains it, never one by its      *)
(* creator, whichever of any number of racing reviewers wins.              *)
THEOREM DecisionsExplained == Spec => []ReviewExplainsResult
BY RowsAgree, PTL

(* No Task leaves TODO before its dependencies are accepted, although      *)
(* startForMember reads them in a snapshot that may be old at its commit.  *)
THEOREM NoEarlyStart == Spec => []DependenciesHonoured
BY RowsAgree, PTL

(* The unique index makes an Idempotency-Key name one Result.              *)
THEOREM KeysUnique == Spec => []OneResultPerKey
BY RowsAgree, PTL

-----------------------------------------------------------------------------
(* Deadlock freedom and immutability.                                      *)

(* A request that waits, waits for one at a later statement: a Task's      *)
(* lock is only held by transactions that are about to commit.             *)
LEMMA WaitsForLater ==
  ASSUME IInv, NEW c \in Clients, NEW d \in Clients, Waits(c, d)
  PROVE  /\ pc[c] = "result" => pc[d] \in {"task", "commit"}
         /\ pc[c] = "insert" => pc[d] \in {"task", "commit"}
         /\ pc[c] = "task" => pc[d] = "commit"
         /\ pc[c] \in {"result", "insert", "task"}
<1>1. LockedBy(d) # {} => pc[d] \in {"task", "commit"}
  BY Order DEF LockedBy, IInv, Stages
<1>2. pc[c] = "task" => tx[c].task \in Tasks
  BY TxTypes DEF IInv, Stages
<1>3. pc[d] = "task" => LockedBy(d) \subseteq Results
  BY TxTypes, Order DEF LockedBy, IInv, Stages
<1> QED BY <1>1, <1>2, <1>3, ConstantsAssumption DEF Waits

(* Any number of concurrent requests never wait for each other in a        *)
(* circle, so PostgreSQL never has a deadlock to break between them.       *)
THEOREM NoDeadlock == Spec => []NoWaitCycle
<1>1. IInv => NoWaitCycle
  <2> SUFFICES ASSUME IInv, NEW S \in (SUBSET Clients) \ {{}}
               PROVE  \E c \in S: \A d \in S: ~Waits(c, d)
    BY DEF NoWaitCycle
  <2>1. CASE \E c \in S: pc[c] \notin {"result", "insert", "task"}
    BY <2>1, WaitsForLater
  <2>2. CASE \A c \in S: pc[c] \in {"result", "insert", "task"}
    <3>1. CASE \E c \in S: pc[c] = "task"
      BY <2>2, <3>1, WaitsForLater
    <3>2. CASE \A c \in S: pc[c] # "task"
      <4>1. PICK c \in S: TRUE
        OBVIOUS
      <4>2. ASSUME NEW d \in S, Waits(c, d) PROVE FALSE
        BY <2>2, <3>2, <4>2, WaitsForLater
      <4> QED BY <4>2
    <3> QED BY <3>1, <3>2
  <2> QED BY <2>1, <2>2
<1> QED BY <1>1, Invariance, PTL

(* What a step leaves as it is. *)
RowsKept ==
  /\ \A r \in Results: review[r] # NoReview => review'[r] = review[r]
  /\ \A r \in Results: result[r] # NoResult =>
       result'[r] = [result[r] EXCEPT !.status = result'[r].status]
  /\ \A t \in Tasks: task[t] # "NONE" => dependsOn'[t] = dependsOn[t]

(* Where a Result goes: never back to CANDIDATE, and out of HUMAN_REVIEW   *)
(* with a Review only.                                                     *)
StatusMoves ==
  \A r \in Results: result[r] # NoResult =>
    /\ result[r].status # "CANDIDATE" => result'[r].status # "CANDIDATE"
    /\ result[r].status = "HUMAN_REVIEW" /\ review'[r] = NoReview =>
         result'[r].status = "HUMAN_REVIEW"

LEMMA StepKeeps ==
  ASSUME IInv, ReviewExplainsResult, [Next]_vars
  PROVE  RowsKept /\ StatusMoves
<1> USE DEF IInv
<1>1. CASE UNCHANGED Lifecycle!facts
  BY <1>1 DEF Lifecycle!facts, TypeOK, ResultRow, RowsKept, StatusMoves
<1>2. ASSUME NEW t \in Tasks, NEW deps \in SUBSET Tasks, Lifecycle!CreateTask(t, deps)
      PROVE  RowsKept /\ StatusMoves
  BY <1>2 DEF Lifecycle!CreateTask, TypeOK, ResultRow, RowsKept, StatusMoves
<1>3. ASSUME NEW t \in Tasks, Lifecycle!StartTask(t) PROVE RowsKept /\ StatusMoves
  BY <1>3 DEF Lifecycle!StartTask, TypeOK, ResultRow, RowsKept, StatusMoves
<1>4. ASSUME NEW r \in Results, NEW t \in Tasks, NEW u \in Users, NEW key \in Keys,
             NEW artifacts \in SUBSET Artifacts, Lifecycle!CreateResult(r, t, u, key, artifacts)
      PROVE  RowsKept /\ StatusMoves
  BY <1>4 DEF Lifecycle!CreateResult, Lifecycle!Unborn, NoResult, TypeOK, ResultRow, RowsKept,
              StatusMoves
<1>5. ASSUME NEW r \in Results, Lifecycle!SubmitForReview(r) PROVE RowsKept /\ StatusMoves
  BY <1>5 DEF Lifecycle!SubmitForReview, TypeOK, ResultRow, RowsKept, StatusMoves
<1>6. ASSUME NEW r \in Results, NEW u \in Users, NEW decision \in Decisions,
             NEW comment \in Comments, Lifecycle!Decide(r, u, decision, comment)
      PROVE  RowsKept /\ StatusMoves
  <2>1. review[r] = NoReview
    BY <1>6 DEF Lifecycle!Decide, ReviewExplainsResult, Lifecycle!ReviewExplainsResult,
                Lifecycle!Undecided, NoReview
  <2>2. review'[r] # NoReview
    BY <1>6 DEF Lifecycle!Decide, TypeOK, NoReview, Decisions
  <2>3. RowsKept
    BY <1>6, <2>1 DEF Lifecycle!Decide, TypeOK, ResultRow, RowsKept
  <2>4. StatusMoves
    BY <1>6, <2>2 DEF Lifecycle!Decide, TypeOK, ResultRow, StatusMoves
  <2> QED BY <2>3, <2>4
<1> QED BY <1>1, <1>2, <1>3, <1>4, <1>5, <1>6, StepSimulates DEF Lifecycle!Next, Decisions

(* No request ever rewrites a Review, the identity of a Result or the      *)
(* dependencies of a Task.                                                 *)
THEOREM Immutable == Spec => FactsKept
<1>1. IInv /\ ReviewExplainsResult /\ [Next]_vars => [RowsKept]_vars
  BY StepKeeps
<1>2. Spec => [][RowsKept]_vars
  BY <1>1, Invariance, RowsAgree, PTL DEF Spec
<1> QED BY <1>2 DEF FactsKept, RowsKept

-----------------------------------------------------------------------------
(* The answers.                                                            *)

(* An answer is true, of rows that exist. *)
Told(answer) ==
  /\ ReplyTrue(answer)
  /\ answer.code = "SUBMITTED" => result[answer.result] # NoResult

(* A decision that was let through finds its rows as it read them until a  *)
(* Review is there: only a Review sends it to the recovery.                *)
DecisionsStand ==
  \A c \in Clients:
    tx[c].op = "DECIDE" /\ review[tx[c].result] = NoReview =>
      /\ pc[c] # "recover"
      /\ result[tx[c].result].status = "HUMAN_REVIEW"
      /\ tx[c].result \notin stale[c]
      /\ tx[c].task \notin stale[c]

AnswersInv == (\A c \in Clients: Told(reply[c])) /\ DecisionsStand /\ CreatedOnce
(* An answer that was true stays true. *)
LEMMA ToldStays ==
  ASSUME TypeOK, RowsKept, StatusMoves, NEW answer \in Replies, Told(answer)
  PROVE  Told(answer)'
<1>1. \A r \in Results: result[r] # NoResult =>
        /\ result'[r] # NoResult
        /\ result'[r].creator = result[r].creator
        /\ result'[r].task = result[r].task
        /\ result'[r].key = result[r].key
        /\ result'[r].artifacts = result[r].artifacts
        /\ result[r].status # "CANDIDATE" => result'[r].status # "CANDIDATE"
  <2> SUFFICES ASSUME NEW r \in Results, result[r] # NoResult
               PROVE  /\ result'[r] # NoResult
                      /\ result'[r].creator = result[r].creator
                      /\ result'[r].task = result[r].task
                      /\ result'[r].key = result[r].key
                      /\ result'[r].artifacts = result[r].artifacts
                      /\ result[r].status # "CANDIDATE" => result'[r].status # "CANDIDATE"
    OBVIOUS
  <2>1. result[r] \in ResultRow
    BY DEF TypeOK
  <2>2. result'[r] = [result[r] EXCEPT !.status = result'[r].status]
    BY DEF RowsKept
  <2> QED BY <2>1, <2>2 DEF ResultRow, NoResult, StatusMoves
<1>2. \A r \in Results: review[r] # NoReview => review'[r] = review[r]
  BY DEF RowsKept
<1>3. /\ answer.code \in {"CREATED", "REPLAYED", "IDEMPOTENCY_CONFLICT"} => answer.tx \in CreateTx
      /\ answer.code \in {"REVIEWED", "REVIEW_REPLAYED", "REVIEW_CONFLICT"} => answer.tx \in DecideTx
      /\ answer.code = "SUBMITTED" => answer.result \in Results
  BY DEF Replies, NoReply, Rejection, RejectionCodes
<1>4. answer.code \in {"CREATED", "REPLAYED"} =>
        /\ HoldsEntry(answer.tx.result, answer.tx)'
        /\ result'[answer.tx.result].artifacts = answer.tx.artifacts
  <2> SUFFICES ASSUME answer.code \in {"CREATED", "REPLAYED"}
               PROVE  /\ HoldsEntry(answer.tx.result, answer.tx)'
                      /\ result'[answer.tx.result].artifacts = answer.tx.artifacts
    OBVIOUS
  <2>1. answer.tx.result \in Results
    BY <1>3 DEF CreateTx
  <2> QED BY <1>1, <2>1 DEF Told, ReplyTrue, HoldsEntry, IndexEntry
<1>5. answer.code = "IDEMPOTENCY_CONFLICT" =>
        \E r \in Results: HoldsEntry(r, answer.tx)' /\ result'[r].artifacts # answer.tx.artifacts
  <2> SUFFICES ASSUME answer.code = "IDEMPOTENCY_CONFLICT"
               PROVE  \E r \in Results: /\ HoldsEntry(r, answer.tx)'
                                        /\ result'[r].artifacts # answer.tx.artifacts
    OBVIOUS
  <2>1. PICK r \in Results: HoldsEntry(r, answer.tx) /\ result[r].artifacts # answer.tx.artifacts
    BY DEF Told, ReplyTrue
  <2>2. HoldsEntry(r, answer.tx)' /\ result'[r].artifacts # answer.tx.artifacts
    BY <1>1, <2>1 DEF HoldsEntry, IndexEntry
  <2> QED BY <2>2
<1>6. answer.code = "SUBMITTED" =>
        /\ result'[answer.result] # NoResult
        /\ result'[answer.result].creator = answer.user
        /\ result'[answer.result].status # "CANDIDATE"
  BY <1>1, <1>3 DEF Told, ReplyTrue
<1>7. answer.code \in {"REVIEWED", "REVIEW_REPLAYED"} =>
        SameReviewRequest(answer.tx.result, answer.tx.user, answer.tx.decision, answer.tx.comment)'
  <2> SUFFICES ASSUME answer.code \in {"REVIEWED", "REVIEW_REPLAYED"}
               PROVE  SameReviewRequest(answer.tx.result, answer.tx.user, answer.tx.decision,
                                        answer.tx.comment)'
    OBVIOUS
  <2>1. answer.tx.result \in Results /\ answer.tx.decision # "NONE"
    BY <1>3 DEF DecideTx, Decisions
  <2> QED BY <1>2, <2>1 DEF Told, ReplyTrue, SameReviewRequest, NoReview
<1>8. answer.code = "REVIEW_CONFLICT" =>
        /\ review'[answer.tx.result] # NoReview
        /\ ~SameReviewRequest(answer.tx.result, answer.tx.user, answer.tx.decision,
                              answer.tx.comment)'
  <2> SUFFICES ASSUME answer.code = "REVIEW_CONFLICT"
               PROVE  /\ review'[answer.tx.result] # NoReview
                      /\ ~SameReviewRequest(answer.tx.result, answer.tx.user, answer.tx.decision,
                                            answer.tx.comment)'
    OBVIOUS
  <2>1. answer.tx.result \in Results
    BY <1>3 DEF DecideTx
  <2> QED BY <1>2, <2>1 DEF Told, ReplyTrue, SameReviewRequest
<1> QED BY <1>4, <1>5, <1>6, <1>7, <1>8 DEF Told, ReplyTrue

(* What a request may be answered by its own step. *)
LEMMA NoTale ==
  ASSUME NEW answer, answer.code \notin {"CREATED", "REPLAYED", "IDEMPOTENCY_CONFLICT",
                       "SUBMITTED", "REVIEWED", "REVIEW_REPLAYED", "REVIEW_CONFLICT"}
  PROVE  Told(answer) /\ Told(answer)'
BY DEF Told, ReplyTrue
LEMMA RequestTold ==
  ASSUME IInv, NEW c \in Clients, Told(reply[c]), Request(c), NEW answer, reply'[c] = answer
  PROVE  Told(answer)'
<1> USE DEF IInv
<1>1. ASSUME NEW other, Answer(c, other) PROVE answer = other /\ UNCHANGED rows
  BY <1>1 DEF Answer, TypeOK
<1>2. ASSUME NEW t, NEW next, Open(c, t, next) PROVE answer = NoReply
  BY <1>2 DEF Open, TypeOK
<1>3. Told(NoReply)' /\ \A code \in RejectionCodes: Told(Rejection(code))'
  BY NoTale DEF NoReply, Rejection, RejectionCodes
<1>4. ASSUME NEW u \in Users, NEW t \in Tasks, NEW deps \in SUBSET Tasks, CreateTask(c, u, t, deps)
      PROVE  Told(answer)'
  <2>1. CASE Answer(c, Rejection("NOT_FOUND"))
    BY <1>1, <1>3, <2>1 DEF RejectionCodes
  <2>2. CASE reply' = [reply EXCEPT ![c] = [code |-> "TASK_CREATED", task |-> t]]
    <3>1. answer.code = "TASK_CREATED"
      BY <2>2 DEF TypeOK
    <3> QED BY <3>1, NoTale
  <2> QED BY <1>4, <2>1, <2>2 DEF CreateTask
<1>5. ASSUME NEW u \in Users, NEW t \in Tasks, BeginStart(c, u, t) PROVE Told(answer)'
  <2>1. StartVerdict(u, t) # "PROCEED" => StartVerdict(u, t) \in RejectionCodes
    BY DEF StartVerdict, RejectionCodes
  <2> QED BY <1>1, <1>2, <1>3, <1>5, <2>1 DEF BeginStart, Begin
<1>6. ASSUME NEW u \in Users, NEW t \in Tasks, NEW key \in Keys, NEW r \in Results,
             NEW artifacts \in SUBSET Artifacts, BeginCreate(c, u, t, key, artifacts, r)
      PROVE  Told(answer)'
  BY <1>1, <1>2, <1>3, <1>6 DEF BeginCreate, RejectionCodes
<1>7. ASSUME NEW u \in Users, NEW r \in Results, BeginSubmit(c, u, r) PROVE Told(answer)'
  <2>1. SubmitVerdict(u, r) \notin {"PROCEED", "ALREADY_SUBMITTED"} =>
          SubmitVerdict(u, r) \in RejectionCodes
    BY DEF SubmitVerdict, RejectionCodes
  <2>2. CASE SubmitVerdict(u, r) = "ALREADY_SUBMITTED" /\ Answer(c, Submitted(u, r))
    <3>1. result[r] # NoResult /\ result[r].creator = u /\ result[r].status = "HUMAN_REVIEW"
      BY <2>2 DEF SubmitVerdict
    <3>2. answer = Submitted(u, r) /\ result' = result
      BY <1>1, <2>2 DEF rows
    <3> QED BY <3>1, <3>2 DEF Told, ReplyTrue, Submitted
  <2> QED BY <1>1, <1>2, <1>3, <1>7, <2>1, <2>2 DEF BeginSubmit, Begin
<1>8. ASSUME NEW u \in Users, NEW r \in Results, NEW decision \in Decisions,
             NEW comment \in Comments, BeginDecide(c, u, r, decision, comment)
      PROVE  Told(answer)'
  <2> DEFINE t == [op |-> "DECIDE", user |-> u, task |-> result[r].task, result |-> r,
                   decision |-> decision, comment |-> comment]
             verdict == DecideVerdict(u, r, decision, comment)
  <2>1. CASE verdict \in {"NOT_FOUND", "FORBIDDEN", "INVALID_STATE"} /\ Answer(c, Rejection(verdict))
    BY <1>1, <1>3, <2>1 DEF RejectionCodes
  <2>2. CASE verdict \in {"SAME", "DIFFERENT"} /\ Answer(c, DecideAnswer(verdict, t))
    <3>1. answer = DecideAnswer(verdict, t) /\ review' = review
      BY <1>1, <2>2 DEF rows
    <3>2. /\ verdict = "SAME" => SameReviewRequest(r, u, decision, comment)
          /\ verdict = "DIFFERENT" => /\ review[r] # NoReview
                                      /\ ~SameReviewRequest(r, u, decision, comment)
      BY DEF DecideVerdict
    <3>3. /\ t.result = r /\ t.user = u /\ t.decision = decision /\ t.comment = comment
          /\ answer.tx = t
          /\ answer.code = IF verdict = "SAME" THEN "REVIEW_REPLAYED" ELSE "REVIEW_CONFLICT"
      BY <2>2, <3>1 DEF DecideAnswer, Reviewed
    <3> HIDE DEF t, verdict
    <3> QED BY <2>2, <3>1, <3>2, <3>3 DEF Told, ReplyTrue, SameReviewRequest
  <2>3. CASE verdict = "PROCEED" /\ Begin(c, t)
    BY <1>2, <1>3, <2>3 DEF Begin
  <2> QED BY <1>8, <2>1, <2>2, <2>3 DEF BeginDecide
<1> QED BY <1>4, <1>5, <1>6, <1>7, <1>8 DEF Request

LEMMA ServeTold ==
  ASSUME IInv, DecisionsStand, NEW c \in Clients, Serve(c), NEW answer, reply'[c] = answer,
         Told(reply[c]), RowsKept, StatusMoves
  PROVE  Told(answer)'
<1> USE DEF IInv
<1>1. ASSUME NEW other, NEW written, Close(c, other, written) PROVE answer = other
  BY <1>1 DEF Close, TypeOK
<1>2. \A code \in RejectionCodes: Told(Rejection(code))'
  BY NoTale DEF Rejection, RejectionCodes
<1>3. CASE FailStart(c)
  BY <1>1, <1>2, <1>3 DEF FailStart, RejectionCodes
<1>4. CASE CommitStart(c)
  <2>1. answer = [code |-> "STARTED", task |-> tx[c].task]
    BY <1>1, <1>4 DEF CommitStart
  <2> QED BY <2>1, NoTale
<1>5. CASE InsertResult(c) \/ UpdateResult(c) \/ UpdateTask(c)
  <2>1. answer = reply[c] /\ answer \in Replies /\ Told(answer)
    BY <1>5 DEF InsertResult, UpdateResult, UpdateTask, Advance, TypeOK
  <2> QED BY <2>1, ToldStays
<1>6. CASE CommitCreate(c)
  <2>1. answer = Created(TRUE, tx[c]) /\ tx[c] \in CreateTx
    BY <1>1, <1>6, TxTypes DEF CommitCreate
  <2>2. result'[tx[c].result] =
          [status |-> "CANDIDATE", task |-> tx[c].task, creator |-> tx[c].user,
           key |-> tx[c].key, artifacts |-> tx[c].artifacts]
    BY <1>6, <2>1 DEF CommitCreate, TypeOK, CreateTx
  <2>3. answer.tx = tx[c] /\ answer.code = "CREATED"
    BY <2>1 DEF Created
  <2>4. result'[answer.tx.result] # NoResult
    BY <2>2, <2>3 DEF NoResult
  <2> QED BY <2>2, <2>3, <2>4 DEF Told, ReplyTrue, HoldsEntry, IndexEntry
<1>7. CASE RecoverCreate(c)
  <2>1. UNCHANGED result /\ tx[c] \in CreateTx
    BY <1>7, TxTypes DEF RecoverCreate, rows
  <2>2. CASE Close(c, Rejection("NOT_FOUND"), {})
    BY <1>1, <1>2, <2>2 DEF RejectionCodes
  <2>3. ASSUME NEW r \in Results, HoldsEntry(r, tx[c]),
               Close(c, IF result[r].artifacts = tx[c].artifacts
                        THEN Created(FALSE, [tx[c] EXCEPT !.result = r])
                        ELSE [code |-> "IDEMPOTENCY_CONFLICT", tx |-> tx[c]], {})
        PROVE  Told(answer)'
    <3>1. CASE result[r].artifacts = tx[c].artifacts
      <4>1. answer = Created(FALSE, [tx[c] EXCEPT !.result = r])
        BY <1>1, <2>3, <3>1
      <4>2. /\ answer.code = "REPLAYED"
            /\ answer.tx.result = r /\ answer.tx.artifacts = tx[c].artifacts
            /\ answer.tx.user = tx[c].user /\ answer.tx.task = tx[c].task
            /\ answer.tx.key = tx[c].key
        BY <2>1, <4>1 DEF Created, CreateTx
      <4> QED BY <2>1, <2>3, <3>1, <4>2 DEF Told, ReplyTrue, HoldsEntry, IndexEntry
    <3>2. CASE result[r].artifacts # tx[c].artifacts
      <4>1. answer = [code |-> "IDEMPOTENCY_CONFLICT", tx |-> tx[c]]
        BY <1>1, <2>3, <3>2
      <4> QED BY <2>1, <2>3, <3>2, <4>1 DEF Told, ReplyTrue, HoldsEntry, IndexEntry
    <3> QED BY <3>1, <3>2
  <2> QED BY <1>7, <2>2, <2>3 DEF RecoverCreate
<1>8. CASE CommitSubmit(c)
  <2>1. /\ answer = Submitted(tx[c].user, tx[c].result)
        /\ tx[c].result \in Results
        /\ result[tx[c].result] \in ResultRow
        /\ result[tx[c].result].creator = tx[c].user
    BY <1>1, <1>8, TxTypes DEF CommitSubmit, ReadFacts, Reads, TypeOK
  <2>2. result'[tx[c].result] = [result[tx[c].result] EXCEPT !.status = "HUMAN_REVIEW"]
    BY <1>8, <2>1 DEF CommitSubmit, TypeOK, ResultTo
  <2>3. /\ result'[tx[c].result].status = "HUMAN_REVIEW"
        /\ result'[tx[c].result].creator = tx[c].user
        /\ result'[tx[c].result] # NoResult
    BY <2>1, <2>2 DEF ResultRow, NoResult
  <2> QED BY <2>1, <2>3 DEF Told, ReplyTrue, Submitted
<1>9. CASE RecoverSubmit(c)
  <2>1. UNCHANGED result /\ result[tx[c].result] # NoResult
    BY <1>9 DEF RecoverSubmit, rows, ReadFacts, Reads
  <2>2. \/ answer = Rejection("NOT_FOUND") \/ answer = Rejection("INVALID_STATE")
        \/ /\ answer = Submitted(tx[c].user, tx[c].result)
           /\ result[tx[c].result].status = "HUMAN_REVIEW"
           /\ result[tx[c].result].creator = tx[c].user
    BY <1>1, <1>9 DEF RecoverSubmit
  <2> QED BY <1>2, <2>1, <2>2 DEF Told, ReplyTrue, Submitted, RejectionCodes
<1>10. CASE CommitDecide(c)
  <2>1. answer = Reviewed(TRUE, tx[c]) /\ tx[c].result \in Results
    BY <1>1, <1>10, TxTypes DEF CommitDecide
  <2>2. review'[tx[c].result] = [reviewer |-> tx[c].user, decision |-> tx[c].decision,
                                 comment |-> tx[c].comment]
    BY <1>10, <2>1 DEF CommitDecide, TypeOK
  <2> QED BY <2>1, <2>2 DEF Told, ReplyTrue, Reviewed, SameReviewRequest
<1>11. CASE RecoverDecide(c)
  <2> DEFINE found == DecideVerdict(tx[c].user, tx[c].result, tx[c].decision, tx[c].comment)
  <2>1. UNCHANGED review /\ review[tx[c].result] # NoReview
    BY <1>11 DEF RecoverDecide, rows, DecisionsStand
  <2>2. answer = DecideAnswer(IF found \in {"INVALID_STATE", "PROCEED"} THEN "DIFFERENT" ELSE found, tx[c])
    BY <1>1, <1>11 DEF RecoverDecide
  <2>3. /\ found \in {"NOT_FOUND", "FORBIDDEN", "SAME", "DIFFERENT"}
        /\ found = "SAME" => SameReviewRequest(tx[c].result, tx[c].user, tx[c].decision, tx[c].comment)
        /\ found = "DIFFERENT" => ~SameReviewRequest(tx[c].result, tx[c].user, tx[c].decision, tx[c].comment)
    BY <2>1 DEF DecideVerdict
  <2> HIDE DEF found
  <2>4. CASE found \in {"NOT_FOUND", "FORBIDDEN"}
    BY <1>2, <2>2, <2>4 DEF DecideAnswer, RejectionCodes
  <2>5. CASE found = "SAME"
    BY <2>1, <2>2, <2>3, <2>5 DEF DecideAnswer, Reviewed, Told, ReplyTrue, SameReviewRequest
  <2>6. CASE found = "DIFFERENT"
    BY <2>1, <2>2, <2>3, <2>6 DEF DecideAnswer, Told, ReplyTrue, SameReviewRequest
  <2> QED BY <2>3, <2>4, <2>5, <2>6
<1> QED BY <1>3, <1>4, <1>5, <1>6, <1>7, <1>8, <1>9, <1>10, <1>11 DEF Serve
(* A step gives an answer to one client at most. *)
LEMMA OneAnswer ==
  ASSUME IInv, NEW c \in Clients, Request(c) \/ Serve(c) \/ Crash(c), NEW d \in Clients, d # c
  PROVE  reply'[d] = reply[d] /\ tx'[d] = tx[d] /\ pc'[d] = pc[d]
<1> USE DEF IInv, TypeOK
<1>1. CASE Request(c)
  <2>1. ASSUME NEW answer, Answer(c, answer) PROVE reply'[d] = reply[d] /\ tx'[d] = tx[d] /\ pc'[d] = pc[d]
    BY <2>1 DEF Answer
  <2>2. ASSUME NEW t, NEW next, Open(c, t, next)
        PROVE  reply'[d] = reply[d] /\ tx'[d] = tx[d] /\ pc'[d] = pc[d]
    BY <2>2 DEF Open
  <2>3. ASSUME NEW u \in Users, NEW t \in Tasks, NEW deps \in SUBSET Tasks, CreateTask(c, u, t, deps)
        PROVE  reply'[d] = reply[d] /\ tx'[d] = tx[d] /\ pc'[d] = pc[d]
    BY <2>1, <2>3 DEF CreateTask
  <2>4. CASE \E u \in Users, t \in Tasks: BeginStart(c, u, t)
    BY <2>1, <2>2, <2>4 DEF BeginStart, Begin
  <2>5. CASE \E u \in Users, t \in Tasks, key \in Keys, r \in Results:
               \E artifacts \in (SUBSET Artifacts) \ {{}}: BeginCreate(c, u, t, key, artifacts, r)
    BY <2>1, <2>2, <2>5 DEF BeginCreate
  <2>6. CASE \E u \in Users, r \in Results: BeginSubmit(c, u, r)
    BY <2>1, <2>2, <2>6 DEF BeginSubmit, Begin
  <2>7. CASE \E u \in Users, r \in Results, decision \in Decisions, comment \in Comments:
               BeginDecide(c, u, r, decision, comment)
    BY <2>1, <2>2, <2>7 DEF BeginDecide, Begin
  <2> QED BY <1>1, <2>3, <2>4, <2>5, <2>6, <2>7 DEF Request
<1>2. CASE Serve(c)
  <2>1. CASE FailStart(c) \/ CommitStart(c) \/ CommitCreate(c) \/ CommitSubmit(c) \/ CommitDecide(c)
    BY <2>1 DEF FailStart, CommitStart, CommitCreate, CommitSubmit, CommitDecide, Close
  <2>2. CASE RecoverCreate(c) \/ RecoverSubmit(c) \/ RecoverDecide(c)
    BY <2>2 DEF RecoverCreate, RecoverSubmit, RecoverDecide, Close
  <2>3. CASE InsertResult(c) \/ UpdateResult(c) \/ UpdateTask(c)
    BY <2>3 DEF InsertResult, UpdateResult, UpdateTask, Advance
  <2> QED BY <1>2, <2>1, <2>2, <2>3 DEF Serve
<1>3. CASE Crash(c)
  BY <1>3 DEF Crash, Close
<1> QED BY <1>1, <1>2, <1>3

LEMMA NextTold ==
  ASSUME IInv, ReviewExplainsResult, AnswersInv, [Next]_vars
  PROVE  (\A c \in Clients: Told(reply[c]))'
<1> SUFFICES ASSUME NEW d \in Clients, NEW answer, answer = reply'[d] PROVE Told(answer)'
  BY DEF Told, ReplyTrue, HoldsEntry, IndexEntry, SameReviewRequest
<1>1. RowsKept /\ StatusMoves
  BY StepKeeps
<1>2. CASE answer = reply[d]
  <2>1. answer \in Replies /\ Told(answer)
    BY <1>2 DEF IInv, TypeOK, AnswersInv
  <2> QED BY <1>1, <2>1, ToldStays DEF IInv
<1>3. ASSUME NEW c \in Clients, Request(c) \/ Serve(c) \/ Crash(c) PROVE Told(answer)'
  <2>1. CASE d # c
    BY <1>2, <1>3, <2>1, OneAnswer
  <2>2. CASE d = c /\ Request(c)
    BY <2>2, RequestTold DEF AnswersInv
  <2>3. CASE d = c /\ Serve(c)
    BY <1>1, <2>3, ServeTold DEF AnswersInv
  <2>4. CASE d = c /\ Crash(c)
    <3>1. answer = NoReply
      BY <2>4 DEF Crash, Close, IInv, TypeOK
    <3> QED BY <3>1, NoTale DEF NoReply
  <2> QED BY <1>3, <2>1, <2>2, <2>3, <2>4
<1>4. (\E u \in Administered: ToggleDeny(u) \/ RevokeMembership(u)) \/ UNCHANGED vars
        => reply' = reply
  BY DEF ToggleDeny, RevokeMembership, vars
<1> QED BY <1>2, <1>3, <1>4 DEF Next

(* 201 Created is an answer of the commit alone, and the commit needs that *)
(* nobody was told so before.                                              *)
LEMMA NewCreated ==
  ASSUME IInv, ReviewExplainsResult, NEW c \in Clients, Request(c) \/ Serve(c) \/ Crash(c),
         reply'[c] # reply[c]
  PROVE  /\ reply'[c].code = "CREATED" =>
              result[reply'[c].tx.result] = NoResult
         /\ reply'[c].code = "REVIEWED" =>
              review[reply'[c].tx.result] = NoReview
<1> USE DEF IInv
<1>1. ASSUME NEW other, NEW written, Close(c, other, written) PROVE reply'[c] = other
  BY <1>1 DEF Close, TypeOK
<1>2. CASE Request(c)
  <2>1. ASSUME NEW other, Answer(c, other) PROVE reply'[c] = other
    BY <2>1 DEF Answer, TypeOK
  <2>2. ASSUME NEW t, NEW next, Open(c, t, next) PROVE reply'[c].code = "NONE"
    BY <2>2 DEF Open, TypeOK, NoReply
  <2>3. ASSUME NEW u \in Users, NEW t \in Tasks, NEW deps \in SUBSET Tasks, CreateTask(c, u, t, deps)
        PROVE  reply'[c].code \notin {"CREATED", "REVIEWED"}
    BY <2>1, <2>3 DEF CreateTask, Rejection, TypeOK
  <2>4. ASSUME NEW u \in Users, NEW t \in Tasks, BeginStart(c, u, t)
        PROVE  reply'[c].code \notin {"CREATED", "REVIEWED"}
    BY <2>1, <2>2, <2>4 DEF BeginStart, Begin, StartVerdict, Rejection
  <2>5. ASSUME NEW u \in Users, NEW t \in Tasks, NEW key \in Keys, NEW r \in Results,
               NEW artifacts \in SUBSET Artifacts, BeginCreate(c, u, t, key, artifacts, r)
        PROVE  reply'[c].code \notin {"CREATED", "REVIEWED"}
    BY <2>1, <2>2, <2>5 DEF BeginCreate, Rejection
  <2>6. ASSUME NEW u \in Users, NEW r \in Results, BeginSubmit(c, u, r)
        PROVE  reply'[c].code \notin {"CREATED", "REVIEWED"}
    BY <2>1, <2>2, <2>6 DEF BeginSubmit, Begin, SubmitVerdict, Rejection, Submitted
  <2>7. ASSUME NEW u \in Users, NEW r \in Results, NEW decision \in Decisions,
               NEW comment \in Comments, BeginDecide(c, u, r, decision, comment)
        PROVE  reply'[c].code \notin {"CREATED", "REVIEWED"}
    BY <2>1, <2>2, <2>7 DEF BeginDecide, Begin, Rejection, DecideAnswer, Reviewed
  <2> QED BY <1>2, <2>3, <2>4, <2>5, <2>6, <2>7 DEF Request
<1>3. CASE Serve(c)
  <2>1. CASE FailStart(c) \/ CommitStart(c) \/ CommitSubmit(c)
    BY <1>1, <2>1 DEF FailStart, CommitStart, CommitSubmit, Rejection, Submitted
  <2>2. CASE InsertResult(c) \/ UpdateResult(c) \/ UpdateTask(c)
    BY <2>2 DEF InsertResult, UpdateResult, UpdateTask, Advance
  <2>3. CASE CommitCreate(c)
    BY <1>1, <2>3 DEF CommitCreate, Created, ReadFacts, Reads
  <2>4. CASE RecoverCreate(c)
    <3>1. CASE Close(c, Rejection("NOT_FOUND"), {})
      BY <1>1, <3>1 DEF Rejection
    <3>2. ASSUME NEW r \in Results,
                 Close(c, IF result[r].artifacts = tx[c].artifacts
                          THEN Created(FALSE, [tx[c] EXCEPT !.result = r])
                          ELSE [code |-> "IDEMPOTENCY_CONFLICT", tx |-> tx[c]], {})
          PROVE  reply'[c].code \in {"REPLAYED", "IDEMPOTENCY_CONFLICT"}
      <4>1. reply'[c] = IF result[r].artifacts = tx[c].artifacts
                        THEN Created(FALSE, [tx[c] EXCEPT !.result = r])
                        ELSE [code |-> "IDEMPOTENCY_CONFLICT", tx |-> tx[c]]
        BY <1>1, <3>2
      <4> QED BY <4>1 DEF Created
    <3> QED BY <2>4, <3>1, <3>2 DEF RecoverCreate
  <2>5. CASE RecoverSubmit(c)
    BY <1>1, <2>5 DEF RecoverSubmit, Rejection, Submitted
  <2>6. CASE CommitDecide(c)
    <3>1. tx[c].result \in Results /\ result[tx[c].result].status = "HUMAN_REVIEW"
      BY <2>6, TxTypes DEF CommitDecide, LockedStatus, LocksResult, ResultFrom
    <3>2. review[tx[c].result] = NoReview
      BY <3>1 DEF ReviewExplainsResult, Lifecycle!ReviewExplainsResult, Lifecycle!Undecided, NoReview
    <3>3. reply'[c] = Reviewed(TRUE, tx[c])
      BY <1>1, <2>6 DEF CommitDecide
    <3> QED BY <3>2, <3>3 DEF Reviewed
  <2>7. CASE RecoverDecide(c)
    <3>1. PICK found: /\ found \in {"NOT_FOUND", "FORBIDDEN", "SAME", "DIFFERENT"}
                      /\ reply'[c] = DecideAnswer(found, tx[c])
      BY <1>1, <2>7 DEF RecoverDecide, DecideVerdict
    <3> QED BY <3>1 DEF DecideAnswer, Reviewed, Rejection
  <2> QED BY <1>3, <2>1, <2>2, <2>3, <2>4, <2>5, <2>6, <2>7 DEF Serve
<1>4. CASE Crash(c)
  BY <1>1, <1>4 DEF Crash, NoReply
<1> QED BY <1>2, <1>3, <1>4

LEMMA NextCreatedOnce ==
  ASSUME IInv, ReviewExplainsResult, AnswersInv, [Next]_vars
  PROVE  CreatedOnce'
<1>1. ASSUME NEW c \in Clients, reply[c].code = "CREATED"
      PROVE  result[reply[c].tx.result] # NoResult
  BY <1>1 DEF AnswersInv, Told, ReplyTrue, HoldsEntry
<1>2. ASSUME NEW c \in Clients, reply[c].code = "REVIEWED"
      PROVE  review[reply[c].tx.result] # NoReview
  <2>1. reply[c].tx \in DecideTx
    BY <1>2 DEF IInv, TypeOK, Replies, NoReply, Rejection, RejectionCodes
  <2>2. reply[c].tx.decision # "NONE"
    BY <2>1 DEF DecideTx, Decisions
  <2>3. SameReviewRequest(reply[c].tx.result, reply[c].tx.user, reply[c].tx.decision, reply[c].tx.comment)
    BY <1>2 DEF AnswersInv, Told, ReplyTrue
  <2> QED BY <2>2, <2>3 DEF SameReviewRequest, NoReview
<1>3. ASSUME NEW c \in Clients, Request(c) \/ Serve(c) \/ Crash(c) PROVE CreatedOnce'
  <2>1. \A d \in Clients \ {c}: reply'[d] = reply[d]
    BY <1>3, OneAnswer
  <2>2. CASE reply'[c] = reply[c]
    BY <2>1, <2>2 DEF AnswersInv, CreatedOnce
  <2>3. CASE reply'[c] # reply[c]
    <3>1. ASSUME NEW d \in Clients \ {c}, reply'[d].code = reply'[c].code,
                 reply'[c].code \in {"CREATED", "REVIEWED"},
                 reply'[d].tx.result = reply'[c].tx.result
          PROVE  FALSE
      BY <1>1, <1>2, <1>3, <2>1, <2>3, <3>1, NewCreated
    <3> QED BY <2>1, <3>1 DEF AnswersInv, CreatedOnce
  <2> QED BY <2>2, <2>3
<1>4. (\E u \in Administered: ToggleDeny(u) \/ RevokeMembership(u)) \/ UNCHANGED vars
        => reply' = reply
  BY DEF ToggleDeny, RevokeMembership, vars
<1>5. reply' = reply => CreatedOnce'
  BY DEF AnswersInv, CreatedOnce
<1> QED BY <1>3, <1>4, <1>5 DEF Next
(* Which rows a step makes stale for others: those of a commit. *)
LEMMA NewlyStale ==
  ASSUME IInv, [Next]_vars, NEW d \in Clients, NEW row, row \notin stale[d], row \in stale'[d]
  PROVE  \E c \in Clients:
           \/ CommitStart(c) /\ row = tx[c].task
           \/ CommitSubmit(c) /\ row \in {tx[c].result, tx[c].task}
           \/ CommitDecide(c) /\ row \in {tx[c].result, tx[c].task}
<1> USE DEF IInv, TypeOK
<1>1. ASSUME NEW c \in Clients, NEW answer, Close(c, answer, {}) PROVE FALSE
  BY <1>1 DEF Close
<1>2. ASSUME NEW c \in Clients, NEW answer, NEW written, Close(c, answer, written)
      PROVE  row \in written
  BY <1>2 DEF Close
<1>3. ASSUME NEW c \in Clients, NEW answer, Answer(c, answer) PROVE FALSE
  BY <1>3 DEF Answer
<1>4. ASSUME NEW c \in Clients, NEW t, NEW next, Open(c, t, next) PROVE FALSE
  BY <1>4 DEF Open
<1>5. ASSUME NEW c \in Clients, Request(c) PROVE FALSE
  <2>1. ASSUME NEW u \in Users, NEW t \in Tasks, NEW deps \in SUBSET Tasks, CreateTask(c, u, t, deps)
        PROVE  FALSE
    BY <1>3, <2>1 DEF CreateTask
  <2>2. CASE \E u \in Users, t \in Tasks: BeginStart(c, u, t)
    BY <1>3, <1>4, <2>2 DEF BeginStart, Begin
  <2>3. CASE \E u \in Users, t \in Tasks, key \in Keys, r \in Results:
               \E artifacts \in (SUBSET Artifacts) \ {{}}: BeginCreate(c, u, t, key, artifacts, r)
    BY <1>3, <1>4, <2>3 DEF BeginCreate
  <2>4. CASE \E u \in Users, r \in Results: BeginSubmit(c, u, r)
    BY <1>3, <1>4, <2>4 DEF BeginSubmit, Begin
  <2>5. CASE \E u \in Users, r \in Results, decision \in Decisions, comment \in Comments:
               BeginDecide(c, u, r, decision, comment)
    BY <1>3, <1>4, <2>5 DEF BeginDecide, Begin
  <2> QED BY <1>5, <2>1, <2>2, <2>3, <2>4, <2>5 DEF Request
<1>6. ASSUME NEW c \in Clients, Serve(c)
      PROVE  \/ CommitStart(c) /\ row = tx[c].task
             \/ CommitSubmit(c) /\ row \in {tx[c].result, tx[c].task}
             \/ CommitDecide(c) /\ row \in {tx[c].result, tx[c].task}
  <2>1. CASE FailStart(c)
    BY <1>1, <2>1 DEF FailStart
  <2>2. CASE CommitStart(c)
    BY <1>2, <2>2 DEF CommitStart
  <2>3. CASE InsertResult(c) \/ UpdateResult(c) \/ UpdateTask(c)
    BY <2>3 DEF InsertResult, UpdateResult, UpdateTask, Advance
  <2>4. CASE CommitCreate(c)
    BY <1>1, <2>4 DEF CommitCreate
  <2>5. CASE RecoverCreate(c)
    BY <1>1, <2>5 DEF RecoverCreate
  <2>6. CASE CommitSubmit(c)
    BY <1>2, <2>6 DEF CommitSubmit
  <2>7. CASE RecoverSubmit(c)
    BY <1>1, <2>7 DEF RecoverSubmit
  <2>8. CASE CommitDecide(c)
    BY <1>2, <2>8 DEF CommitDecide
  <2>9. CASE RecoverDecide(c)
    BY <1>1, <2>9 DEF RecoverDecide
  <2> QED BY <1>6, <2>1, <2>2, <2>3, <2>4, <2>5, <2>6, <2>7, <2>8, <2>9 DEF Serve
<1>7. ASSUME NEW c \in Clients, Crash(c) PROVE FALSE
  BY <1>1, <1>7 DEF Crash
<1>8. (\E u \in Administered: ToggleDeny(u) \/ RevokeMembership(u)) \/ UNCHANGED vars
        => stale' = stale
  BY DEF ToggleDeny, RevokeMembership, vars
<1> QED BY <1>5, <1>6, <1>7, <1>8 DEF Next

(* Two Results of a Task are not in review at the same time. *)
LEMMA OneInReview ==
  ASSUME TaskResultAgreement, NEW r \in Results, result[r].status = "HUMAN_REVIEW",
         result[r].task \in Tasks
  PROVE  /\ task[result[r].task] = "READY_FOR_REVIEW"
         /\ \A s \in Results: result[s].status = "HUMAN_REVIEW" /\ result[s].task = result[r].task
                                => s = r
BY DEF TaskResultAgreement, Lifecycle!TaskResultAgreement, Lifecycle!ResultsOf

(* What the step of a transaction that decides can be. *)
LEMMA DeciderSteps ==
  ASSUME IInv, [Next]_vars, NEW d \in Clients, tx'[d].op = "DECIDE", tx'[d] # tx[d] \/ pc'[d] # pc[d]
  PROVE  \/ /\ \E u \in Users, r \in Results, decision \in Decisions, comment \in Comments:
                 /\ tx'[d] = [op |-> "DECIDE", user |-> u, task |-> result[r].task, result |-> r,
                              decision |-> decision, comment |-> comment]
                 /\ DecideVerdict(u, r, decision, comment) = "PROCEED"
            /\ pc'[d] = "result" /\ stale'[d] = {}
            /\ UNCHANGED rows
         \/ tx'[d] = tx[d] /\ (UpdateResult(d) \/ UpdateTask(d))
<1> USE DEF IInv, TypeOK
<1>1. PICK c \in Clients: Request(c) \/ Serve(c) \/ Crash(c)
  BY DEF Next, ToggleDeny, RevokeMembership, vars
<1>2. c = d
  BY <1>1, OneAnswer
<1>3. ASSUME NEW answer, NEW written, Close(c, answer, written) PROVE FALSE
  BY <1>2, <1>3 DEF Close, NoTx
<1>4. ASSUME NEW answer, Answer(c, answer) PROVE FALSE
  BY <1>4 DEF Answer
<1>5. ASSUME NEW t, NEW next, Open(c, t, next)
      PROVE  tx'[d] = t /\ pc'[d] = next /\ stale'[d] = {} /\ UNCHANGED rows
  BY <1>2, <1>5 DEF Open
<1>6. CASE Crash(c)
  BY <1>3, <1>6 DEF Crash
<1>7. CASE Serve(c)
  <2>1. CASE FailStart(c) \/ CommitStart(c) \/ CommitCreate(c) \/ CommitSubmit(c) \/ CommitDecide(c)
    BY <1>3, <2>1 DEF FailStart, CommitStart, CommitCreate, CommitSubmit, CommitDecide
  <2>2. CASE RecoverCreate(c)
    BY <1>3, <2>2 DEF RecoverCreate
  <2>3. CASE RecoverSubmit(c) \/ RecoverDecide(c)
    BY <1>3, <2>3 DEF RecoverSubmit, RecoverDecide
  <2>4. CASE InsertResult(c)
    BY <1>2, <2>4 DEF InsertResult, Advance, Stages
  <2>5. CASE UpdateResult(c) \/ UpdateTask(c)
    BY <1>2, <2>5 DEF UpdateResult, UpdateTask, Advance
  <2> QED BY <1>7, <2>1, <2>2, <2>3, <2>4, <2>5 DEF Serve
<1>8. CASE Request(c)
  <2>1. ASSUME NEW u \in Users, NEW t \in Tasks, NEW deps \in SUBSET Tasks, CreateTask(c, u, t, deps)
        PROVE  FALSE
    BY <1>2, <1>4, <2>1 DEF CreateTask
  <2>2. ASSUME NEW u \in Users, NEW t \in Tasks, BeginStart(c, u, t) PROVE FALSE
    BY <1>4, <1>5, <2>2 DEF BeginStart, Begin
  <2>3. ASSUME NEW u \in Users, NEW t \in Tasks, NEW key \in Keys, NEW r \in Results,
               NEW artifacts \in SUBSET Artifacts, BeginCreate(c, u, t, key, artifacts, r)
        PROVE  FALSE
    BY <1>4, <1>5, <2>3 DEF BeginCreate
  <2>4. ASSUME NEW u \in Users, NEW r \in Results, BeginSubmit(c, u, r) PROVE FALSE
    BY <1>4, <1>5, <2>4 DEF BeginSubmit, Begin
  <2>5. ASSUME NEW u \in Users, NEW r \in Results, NEW decision \in Decisions,
               NEW comment \in Comments, BeginDecide(c, u, r, decision, comment)
        PROVE  /\ DecideVerdict(u, r, decision, comment) = "PROCEED"
               /\ tx'[d] = [op |-> "DECIDE", user |-> u, task |-> result[r].task, result |-> r,
                            decision |-> decision, comment |-> comment]
               /\ pc'[d] = "result" /\ stale'[d] = {}
               /\ UNCHANGED rows
    <3> DEFINE t == [op |-> "DECIDE", user |-> u, task |-> result[r].task, result |-> r,
                     decision |-> decision, comment |-> comment]
    <3>1. DecideVerdict(u, r, decision, comment) = "PROCEED" /\ Open(c, t, FirstUpdate(t))
      BY <1>4, <2>5 DEF BeginDecide, Begin
    <3>2. FirstUpdate(t) = "result"
      BY Order
    <3> QED BY <1>5, <3>1, <3>2
  <2> HIDE DEF IInv, TypeOK
  <2>6. PICK u \in Users, r \in Results, decision \in Decisions, comment \in Comments:
               BeginDecide(c, u, r, decision, comment)
    BY <1>8, <2>1, <2>2, <2>3, <2>4 DEF Request
  <2> QED BY <2>5, <2>6
<1> QED BY <1>1, <1>6, <1>7, <1>8
LEMMA NextDecisionsStand ==
  ASSUME IInv, TaskResultAgreement, ReviewExplainsResult, DecisionsStand, [Next]_vars
  PROVE  DecisionsStand'
<1> USE DEF IInv
<1>1. RowsKept /\ StatusMoves
  BY StepKeeps
<1> SUFFICES ASSUME NEW d \in Clients, tx'[d].op = "DECIDE", review'[tx'[d].result] = NoReview
             PROVE  /\ pc'[d] # "recover"
                    /\ result'[tx'[d].result].status = "HUMAN_REVIEW"
                    /\ tx'[d].result \notin stale'[d]
                    /\ tx'[d].task \notin stale'[d]
  BY DEF DecisionsStand
<1>2. ASSUME NEW u \in Users, NEW r \in Results, NEW decision \in Decisions, NEW comment \in Comments,
             tx'[d] = [op |-> "DECIDE", user |-> u, task |-> result[r].task, result |-> r,
                       decision |-> decision, comment |-> comment],
             DecideVerdict(u, r, decision, comment) = "PROCEED",
             pc'[d] = "result", stale'[d] = {}, UNCHANGED rows
      PROVE  /\ pc'[d] # "recover"
             /\ result'[tx'[d].result].status = "HUMAN_REVIEW"
             /\ tx'[d].result \notin stale'[d]
             /\ tx'[d].task \notin stale'[d]
  BY <1>2 DEF DecideVerdict, rows
<1>3. ASSUME tx'[d] = tx[d], pc'[d] = pc[d] \/ UpdateResult(d) \/ UpdateTask(d)
      PROVE  /\ pc'[d] # "recover"
             /\ result'[tx'[d].result].status = "HUMAN_REVIEW"
             /\ tx'[d].result \notin stale'[d]
             /\ tx'[d].task \notin stale'[d]
  <2> DEFINE r == tx[d].result
             t == tx[d].task
  <2>1. /\ tx[d].op = "DECIDE"
        /\ r \in Results /\ t \in Tasks /\ result[r] # NoResult /\ result[r].task = t
    BY <1>3, TxTypes DEF ReadFacts, Reads
  <2>2. review[r] = NoReview
    BY <1>1, <1>3, <2>1 DEF RowsKept
  <2>3. /\ pc[d] # "recover" /\ result[r].status = "HUMAN_REVIEW"
        /\ r \notin stale[d] /\ t \notin stale[d]
    BY <2>1, <2>2 DEF DecisionsStand
  <2>4. result'[r].status = "HUMAN_REVIEW"
    BY <1>1, <1>3, <2>1, <2>3 DEF StatusMoves
  <2>5. /\ task[t] = "READY_FOR_REVIEW"
        /\ \A s \in Results: result[s].status = "HUMAN_REVIEW" /\ result[s].task = t => s = r
    BY <2>1, <2>3, OneInReview
  <2>6. pc'[d] # "recover"
    <3>1. CASE UpdateResult(d)
      BY <2>1, <2>3, <3>1, Order DEF UpdateResult, UpdateHits, ResultFrom, Advance, TypeOK
    <3>2. CASE UpdateTask(d)
      <4>1. Transitions[TaskAction(tx[d])].from = "READY_FOR_REVIEW"
        BY <2>1, TransitionOf
      <4> QED BY <2>1, <2>3, <2>5, <3>2, <4>1, Order DEF UpdateTask, UpdateHits, Advance, TypeOK
    <3> QED BY <1>3, <2>3, <3>1, <3>2
  <2>7. ASSUME NEW row \in {r, t}, row \in stale'[d] PROVE FALSE
    <3>1. PICK c \in Clients:
            \/ CommitStart(c) /\ row = tx[c].task
            \/ CommitSubmit(c) /\ row \in {tx[c].result, tx[c].task}
            \/ CommitDecide(c) /\ row \in {tx[c].result, tx[c].task}
      BY <2>3, <2>7, NewlyStale
    <3>2. CASE CommitStart(c) /\ row = tx[c].task
      <4>1. tx[c].task \in Tasks /\ task[tx[c].task] = "TODO"
        BY <3>2, TxTypes, TransitionOf DEF CommitStart, LockedStatus, LocksTask
      <4> QED BY <2>1, <2>5, <2>7, <3>2, <4>1, ConstantsAssumption
    <3>3. CASE CommitSubmit(c) /\ row \in {tx[c].result, tx[c].task}
      <4>1. /\ tx[c].task \in Tasks /\ task[tx[c].task] = "IN_PROGRESS"
            /\ tx[c].result \in Results /\ result[tx[c].result].status = "CANDIDATE"
        BY <3>3, TxTypes, TransitionOf DEF CommitSubmit, LockedStatus, LocksTask, LocksResult, ResultFrom
      <4> QED BY <2>1, <2>3, <2>5, <2>7, <3>3, <4>1, ConstantsAssumption
    <3>4. CASE CommitDecide(c) /\ row \in {tx[c].result, tx[c].task}
      <4>1. /\ tx[c].task \in Tasks /\ tx[c].result \in Results
            /\ result[tx[c].result].status = "HUMAN_REVIEW" /\ result[tx[c].result].task = tx[c].task
        BY <3>4, TxTypes DEF CommitDecide, LockedStatus, LocksResult, ResultFrom, ReadFacts, Reads
      <4>2. tx[c].result = r
        BY <2>1, <2>5, <2>7, <3>4, <4>1, ConstantsAssumption
      <4>3. review'[r] = [reviewer |-> tx[c].user, decision |-> tx[c].decision, comment |-> tx[c].comment]
        BY <2>1, <3>4, <4>2 DEF CommitDecide, TypeOK
      <4>4. tx[c].decision # "NONE"
        BY <3>4, TxTypes DEF CommitDecide, DecideTx, Decisions
      <4> QED BY <1>3, <4>3, <4>4 DEF NoReview
    <3> QED BY <3>1, <3>2, <3>3, <3>4
  <2> QED BY <1>3, <2>4, <2>6, <2>7
<1>4. CASE tx'[d] = tx[d] /\ pc'[d] = pc[d]
  BY <1>3, <1>4
<1>5. CASE tx'[d] # tx[d] \/ pc'[d] # pc[d]
  <2>1. \/ /\ \E u \in Users, r \in Results, decision \in Decisions, comment \in Comments:
                /\ tx'[d] = [op |-> "DECIDE", user |-> u, task |-> result[r].task, result |-> r,
                             decision |-> decision, comment |-> comment]
                /\ DecideVerdict(u, r, decision, comment) = "PROCEED"
           /\ pc'[d] = "result" /\ stale'[d] = {}
           /\ UNCHANGED rows
        \/ tx'[d] = tx[d] /\ (UpdateResult(d) \/ UpdateTask(d))
    BY <1>5, DeciderSteps
  <2> QED BY <1>2, <1>3, <2>1
<1> QED BY <1>4, <1>5

(* What a recovery shows it shows with the permissions of its own snapshot. *)
AccessChecked ==
  \A c \in Clients:
    reply'[c] # reply[c] =>
      /\ reply'[c].code \in {"REPLAYED", "IDEMPOTENCY_CONFLICT"} =>
           role[reply'[c].tx.user] # "NONE"
      /\ reply'[c].code \in {"REVIEW_REPLAYED", "REVIEW_CONFLICT"} =>
           MayReview(reply'[c].tx.user, reply'[c].tx.result)
LEMMA NextAccessChecked ==
  ASSUME IInv, DecisionsStand, [Next]_vars
  PROVE  AccessChecked
<1> USE DEF IInv
<1> SUFFICES ASSUME NEW c \in Clients, reply'[c] # reply[c]
             PROVE  /\ reply'[c].code \in {"REPLAYED", "IDEMPOTENCY_CONFLICT"} =>
                         role[reply'[c].tx.user] # "NONE"
                    /\ reply'[c].code \in {"REVIEW_REPLAYED", "REVIEW_CONFLICT"} =>
                         MayReview(reply'[c].tx.user, reply'[c].tx.result)
  BY DEF AccessChecked
<1> DEFINE Quiet == reply'[c].code \notin {"REPLAYED", "IDEMPOTENCY_CONFLICT", "REVIEW_REPLAYED",
                                          "REVIEW_CONFLICT"}
<1>1. Request(c) \/ Serve(c) \/ Crash(c)
  BY OneAnswer DEF Next, ToggleDeny, RevokeMembership, vars
<1>2. ASSUME NEW other, NEW written, Close(c, other, written) PROVE reply'[c] = other
  BY <1>2 DEF Close, TypeOK
<1>3. ASSUME NEW other, Answer(c, other) PROVE reply'[c] = other
  BY <1>3 DEF Answer, TypeOK
<1>4. ASSUME NEW t, NEW next, Open(c, t, next) PROVE Quiet
  BY <1>4 DEF Open, TypeOK, NoReply
<1>5. \A code: code \notin {"REPLAYED", "IDEMPOTENCY_CONFLICT", "REVIEW_REPLAYED", "REVIEW_CONFLICT"}
        => (reply'[c] = Rejection(code) => Quiet)
  BY DEF Rejection
<1>6. CASE Request(c)
  <2>1. ASSUME NEW u \in Users, NEW t \in Tasks, NEW deps \in SUBSET Tasks, CreateTask(c, u, t, deps)
        PROVE  Quiet
    BY <1>3, <1>5, <2>1 DEF CreateTask, TypeOK
  <2>2. ASSUME NEW u \in Users, NEW t \in Tasks, BeginStart(c, u, t) PROVE Quiet
    BY <1>3, <1>4, <1>5, <2>2 DEF BeginStart, Begin, StartVerdict
  <2>3. ASSUME NEW u \in Users, NEW t \in Tasks, NEW key \in Keys, NEW r \in Results,
               NEW artifacts \in SUBSET Artifacts, BeginCreate(c, u, t, key, artifacts, r)
        PROVE  Quiet
    BY <1>3, <1>4, <1>5, <2>3 DEF BeginCreate
  <2>4. ASSUME NEW u \in Users, NEW r \in Results, BeginSubmit(c, u, r) PROVE Quiet
    <3>1. SubmitVerdict(u, r) \in {"NOT_FOUND", "FORBIDDEN", "ALREADY_SUBMITTED", "INVALID_STATE", "PROCEED"}
      BY DEF SubmitVerdict
    <3> QED BY <1>3, <1>4, <1>5, <2>4, <3>1 DEF BeginSubmit, Begin, Submitted
  <2>5. ASSUME NEW u \in Users, NEW r \in Results, NEW decision \in Decisions,
               NEW comment \in Comments, BeginDecide(c, u, r, decision, comment)
        PROVE  Quiet \/ /\ MayReview(reply'[c].tx.user, reply'[c].tx.result)
                        /\ reply'[c].code \in {"REVIEW_REPLAYED", "REVIEW_CONFLICT"}
    <3> DEFINE t == [op |-> "DECIDE", user |-> u, task |-> result[r].task, result |-> r,
                     decision |-> decision, comment |-> comment]
               verdict == DecideVerdict(u, r, decision, comment)
    <3>1. CASE verdict \in {"NOT_FOUND", "FORBIDDEN", "INVALID_STATE"} /\ Answer(c, Rejection(verdict))
      BY <1>3, <1>5, <3>1
    <3>2. CASE verdict \in {"SAME", "DIFFERENT"} /\ Answer(c, DecideAnswer(verdict, t))
      <4>1. MayReview(u, r)
        BY <3>2 DEF DecideVerdict
      <4>2. /\ reply'[c].tx = t
            /\ reply'[c].code \in {"REVIEW_REPLAYED", "REVIEW_CONFLICT"}
        BY <1>3, <3>2 DEF DecideAnswer, Reviewed
      <4> QED BY <4>1, <4>2
    <3>3. CASE verdict = "PROCEED" /\ Begin(c, t)
      BY <1>4, <3>3 DEF Begin
    <3> QED BY <2>5, <3>1, <3>2, <3>3 DEF BeginDecide
  <2> QED BY <1>6, <2>1, <2>2, <2>3, <2>4, <2>5 DEF Request
<1>7. CASE Serve(c)
  <2>1. CASE FailStart(c) \/ CommitStart(c) \/ CommitCreate(c) \/ CommitSubmit(c) \/ CommitDecide(c)
    BY <1>2, <2>1 DEF FailStart, CommitStart, CommitCreate, CommitSubmit, CommitDecide, Rejection,
                      Created, Submitted, Reviewed
  <2>2. CASE InsertResult(c) \/ UpdateResult(c) \/ UpdateTask(c)
    BY <2>2 DEF InsertResult, UpdateResult, UpdateTask, Advance
  <2>3. CASE RecoverCreate(c)
    <3>1. CASE Close(c, Rejection("NOT_FOUND"), {})
      BY <1>2, <1>5, <3>1
    <3>2. ASSUME role[tx[c].user] # "NONE", NEW r \in Results,
                 Close(c, IF result[r].artifacts = tx[c].artifacts
                          THEN Created(FALSE, [tx[c] EXCEPT !.result = r])
                          ELSE [code |-> "IDEMPOTENCY_CONFLICT", tx |-> tx[c]], {})
          PROVE  /\ role[reply'[c].tx.user] # "NONE"
                 /\ reply'[c].code \in {"REPLAYED", "IDEMPOTENCY_CONFLICT"}
      <4>1. reply'[c] = IF result[r].artifacts = tx[c].artifacts
                        THEN Created(FALSE, [tx[c] EXCEPT !.result = r])
                        ELSE [code |-> "IDEMPOTENCY_CONFLICT", tx |-> tx[c]]
        BY <1>2, <3>2
      <4>2. tx[c] \in CreateTx
        BY <2>3, TxTypes DEF RecoverCreate
      <4> QED BY <3>2, <4>1, <4>2 DEF Created, CreateTx
    <3> QED BY <2>3, <3>1, <3>2 DEF RecoverCreate
  <2>4. CASE RecoverSubmit(c)
    <3>1. PICK other: /\ Close(c, other, {})
                      /\ \/ other \in {Rejection("NOT_FOUND"), Rejection("INVALID_STATE")}
                         \/ other = Submitted(tx[c].user, tx[c].result)
      BY <2>4 DEF RecoverSubmit
    <3> QED BY <1>2, <3>1 DEF Rejection, Submitted
  <2>5. CASE RecoverDecide(c)
    <3> DEFINE found == DecideVerdict(tx[c].user, tx[c].result, tx[c].decision, tx[c].comment)
    <3>1. review[tx[c].result] # NoReview
      BY <2>5 DEF RecoverDecide, DecisionsStand
    <3>2. /\ found \in {"NOT_FOUND", "FORBIDDEN", "SAME", "DIFFERENT"}
          /\ found \in {"SAME", "DIFFERENT"} => MayReview(tx[c].user, tx[c].result)
      BY <3>1 DEF DecideVerdict
    <3>3. reply'[c] = DecideAnswer(found, tx[c])
      BY <1>2, <2>5, <3>2 DEF RecoverDecide
    <3> HIDE DEF found
    <3>4. CASE found \in {"NOT_FOUND", "FORBIDDEN"}
      <4>1. reply'[c] = Rejection(found)
        BY <3>3, <3>4 DEF DecideAnswer
      <4> QED BY <1>5, <3>4, <4>1
    <3>5. CASE found \in {"SAME", "DIFFERENT"}
      <4>1. reply'[c].tx = tx[c] /\ reply'[c].code \in {"REVIEW_REPLAYED", "REVIEW_CONFLICT"}
        BY <3>3, <3>5 DEF DecideAnswer, Reviewed, Rejection
      <4> QED BY <3>2, <3>5, <4>1
    <3> QED BY <3>2, <3>4, <3>5
  <2> QED BY <1>7, <2>1, <2>2, <2>3, <2>4, <2>5 DEF Serve
<1>8. CASE Crash(c)
  BY <1>2, <1>8 DEF Crash, NoReply
<1> QED BY <1>1, <1>6, <1>7, <1>8

(* Whatever requests run at the same time, conflict, crash and recover,    *)
(* what their clients are told is true and stays so, 201 is said once, and *)
(* a recovery shows the winner's row only to who may see it then.          *)
THEOREM AnswersAreTrue == Spec => AnswersHold
<1>1. Init => AnswersInv
  <2> SUFFICES ASSUME Init PROVE AnswersInv
    OBVIOUS
  <2>1. \A c \in Clients: reply[c].code = "NONE" /\ tx[c].op = "NONE"
    BY DEF Init, NoReply, NoTx
  <2> QED BY <2>1, NoTale DEF AnswersInv, DecisionsStand, CreatedOnce
<1>2. IInv /\ TaskResultAgreement /\ ReviewExplainsResult /\ AnswersInv /\ [Next]_vars => AnswersInv'
  BY NextTold, NextDecisionsStand, NextCreatedOnce DEF AnswersInv
<1>3. Spec => []AnswersInv
  BY <1>1, <1>2, Invariance, RowsAgree, PTL DEF Spec
<1>4. IInv /\ AnswersInv => TypeOK /\ RepliesTrue /\ CreatedOnce
  BY DEF IInv, AnswersInv, Told, RepliesTrue
<1>5. Spec => [](TypeOK /\ RepliesTrue /\ CreatedOnce /\ ReviewExplainsResult /\ OneResultPerKey)
  BY <1>3, <1>4, Invariance, RowsAgree, PTL
<1>6. IInv /\ AnswersInv /\ [Next]_vars => [AccessChecked]_vars
  BY NextAccessChecked DEF AnswersInv
<1>7. Spec => [][AccessChecked]_vars
  BY <1>3, <1>6, Invariance, PTL DEF Spec
<1>8. Spec => ReplayNeedsAccess
  BY <1>7 DEF ReplayNeedsAccess, AccessChecked
<1> QED BY <1>5, <1>8 DEF AnswersHold
===============================================================================
