------------------------------- MODULE AgentRun -------------------------------
(***************************************************************************)
(* AgentRuns with their ToolCall, Human Confirmation and Artifact:         *)
(* AgentRunService.create, AgentRunRepository.complete,                    *)
(* HumanConfirmationRepository.decide and                                  *)
(* ArtifactRepository.registerFromRunForUser, run by concurrent requests.  *)
(*                                                                         *)
(* decide, complete and register use PostgreSQL's default READ COMMITTED,  *)
(* where every statement sees what was committed when it started, and      *)
(* Prisma reads the relations of an include with statements of their own.  *)
(* So each statement is a step.  An UPDATE waits for the row's lock and    *)
(* then tests its WHERE clause on the newest row: it is a compare-and-set. *)
(*                                                                         *)
(* A run of kind TOOL has one ToolCall, and one confirmation if it writes; *)
(* both are named by their run.  The rows are written together with the    *)
(* run, so the provenance checks between them always pass and are left     *)
(* out, as are device, path, size and hash.  Whether normalizeToolRequest  *)
(* accepts the stored request is a property of the run (Malformed).        *)
(***************************************************************************)
EXTENDS Integers, Sequences

CONSTANTS
  Clients,        \* API requests that run at the same time
  Users,
  Administered,   \* the users who may lose their project membership
  Runs,           \* AgentRun ids, one for each POST /agent-runs
  Tool,           \* the tool each run asks for
  Malformed,      \* runs whose request normalizeToolRequest rejects
  Receipts,       \* receipts sent to POST /tool-results
  Outcome,        \* what normalizeToolCompletion makes of each receipt
  Artifacts       \* Artifact ids

Tools == {"write_file", "read_file", "list_directory"}
RunStatuses == {"RUNNING", "WAITING_HUMAN", "SUCCEEDED", "FAILED", "CANCELLED"}
CallStatuses == {"PENDING", "SUCCEEDED", "FAILED", "CANCELLED"}
ConfirmationStatuses == {"PENDING", "APPROVED", "REJECTED"}

ASSUME RunAssumption ==
  /\ Tool \in [Runs -> Tools]
  /\ Malformed \subseteq Runs
  /\ Outcome \in [Receipts -> {"SUCCEEDED", "FAILED", "INVALID"}]
  /\ Administered \subseteq Users

VARIABLES
  member,    \* users with a ProjectMember row
  owner,     \* userId of each run
  run,       \* status of each AgentRun
  call,      \* status of its ToolCall
  receipt,   \* the receipt stored with the ToolCall
  conf,      \* status of its HumanConfirmation
  artifact,  \* Artifact rows
  pc,        \* the next statement of each request
  req,       \* the request
  done,      \* how many of its updates are done (their rows are locked)
  seen,      \* what it has read
  reply      \* its answer

rows == <<member, owner, run, call, receipt, conf, artifact>>
vars == <<member, owner, run, call, receipt, conf, artifact, pc, req, done, seen, reply>>

NoReceipt == [kind |-> "NONE"]
StoredReceipt(rec) == [kind |-> "RECEIPT", of |-> rec]
NoArtifact == [kind |-> "NONE"]

Decisions == {"APPROVE", "REJECT"}
NoRequest == [op |-> "NONE"]
Requests ==
  [op: {"CREATE"}, user: Users, run: Runs]
    \cup [op: {"DECIDE"}, user: Users, run: Runs, decision: Decisions]
    \cup [op: {"COMPLETE"}, user: Users, run: Runs, receipt: Receipts]
    \cup [op: {"REGISTER"}, user: Users, run: Runs, artifact: Artifacts]

NothingSeen ==
  [conf |-> "NONE", run |-> "NONE", call |-> "NONE", receipt |-> NoReceipt, lost |-> FALSE]

NoReply == [code |-> "NONE"]
Refusal(code, q) == [code |-> code, req |-> q]
Replies ==
  {NoReply}
    \cup [code: {"CREATED", "NOT_FOUND", "FORBIDDEN", "TOOL_NOT_ALLOWED", "ERROR",
                 "CONFLICT", "INVALID", "CONFIRMATION_REQUIRED", "SOURCE_INVALID"},
          req: Requests]
    \cup [code: {"DECIDED"}, req: Requests, grant: BOOLEAN]
    \cup [code: {"COMPLETED"}, req: Requests, run: RunStatuses]
    \cup [code: {"REGISTERED", "EXISTING"}, req: Requests, artifact: Artifacts]

Stored == [kind: {"RECEIPT"}, of: Receipts]

TypeOK ==
  /\ member \subseteq Users
  /\ owner \in [Runs -> Users \cup {"NONE"}]
  /\ run \in [Runs -> RunStatuses \cup {"NONE"}]
  /\ call \in [Runs -> CallStatuses \cup {"NONE"}]
  /\ receipt \in [Runs -> Stored \cup {NoReceipt}]
  /\ conf \in [Runs -> ConfirmationStatuses \cup {"NONE"}]
  /\ artifact \in [Artifacts ->
       [kind: {"FILE"}, source: Runs, content: Stored] \cup {NoArtifact}]
  /\ pc \in [Clients -> {"idle", "create", "read_conf", "read_run", "read_member", "read_call",
                         "check", "update", "commit", "stored", "look_up", "insert", "recover"}]
  /\ req \in [Clients -> Requests \cup {NoRequest}]
  /\ done \in [Clients -> 0..3]
  /\ seen \in [Clients ->
       [conf: ConfirmationStatuses \cup {"NONE"}, run: RunStatuses \cup {"NONE"},
        call: CallStatuses \cup {"NONE"}, receipt: Stored \cup {NoReceipt}, lost: BOOLEAN]]
  /\ reply \in [Clients -> Replies]

Init ==
  /\ member = Users
  /\ owner = [r \in Runs |-> "NONE"]
  /\ run = [r \in Runs |-> "NONE"]
  /\ call = [r \in Runs |-> "NONE"]
  /\ receipt = [r \in Runs |-> NoReceipt]
  /\ conf = [r \in Runs |-> "NONE"]
  /\ artifact = [a \in Artifacts |-> NoArtifact]
  /\ pc = [c \in Clients |-> "idle"]
  /\ req = [c \in Clients |-> NoRequest]
  /\ done = [c \in Clients |-> 0]
  /\ seen = [c \in Clients |-> NothingSeen]
  /\ reply = [c \in Clients |-> NoReply]

-----------------------------------------------------------------------------
(* Statements of a transaction.                                            *)

(* Mutant: an approval starts the run before it closes the confirmation. *)
RunFirst(q) ==
  CASE q.op = "DECIDE" /\ q.decision = "APPROVE" -> <<"run", "conf">>
    [] q.op = "DECIDE" /\ q.decision = "REJECT" -> <<"conf", "call", "run">>
    [] q.op = "COMPLETE" -> <<"call", "run">>
    [] OTHER -> <<>>

(* The rows a request updates, in this order. *)
UpdateOrder(q) ==
  CASE q.op = "DECIDE" /\ q.decision = "APPROVE" -> <<"conf", "run">>
    [] q.op = "DECIDE" /\ q.decision = "REJECT" -> <<"conf", "call", "run">>
    [] q.op = "COMPLETE" -> <<"call", "run">>
    [] OTHER -> <<>>

Locked(c) == {<<UpdateOrder(req[c])[i], req[c].run>>: i \in 1..done[c]}
Unlocked(c, row) == \A d \in Clients \ {c}: row \notin Locked(d)

Status(table, r) ==
  CASE table = "conf" -> conf[r] [] table = "call" -> call[r] [] table = "run" -> run[r]

(* The status in the WHERE clause of each updateMany. *)
Expected(q, table) ==
  CASE table = "conf" -> "PENDING"
    [] table = "call" -> "PENDING"
    [] table = "run" -> IF q.op = "DECIDE" THEN "WAITING_HUMAN" ELSE "RUNNING"

(* The first statement has been executed. *)
Open(c, q, next, found) ==
  /\ pc' = [pc EXCEPT ![c] = next]
  /\ req' = [req EXCEPT ![c] = q]
  /\ done' = [done EXCEPT ![c] = 0]
  /\ seen' = [seen EXCEPT ![c] = found]
  /\ reply' = [reply EXCEPT ![c] = NoReply]
  /\ UNCHANGED rows

Read(c, next, found) ==
  /\ pc' = [pc EXCEPT ![c] = next]
  /\ seen' = [seen EXCEPT ![c] = found]
  /\ UNCHANGED <<rows, req, done, reply>>

(* The request is answered; a transaction that is open ends and its locks  *)
(* are released.  The caller says what happens to the rows.                *)
Finish(c, answer) ==
  /\ pc' = [pc EXCEPT ![c] = "idle"]
  /\ req' = [req EXCEPT ![c] = NoRequest]
  /\ done' = [done EXCEPT ![c] = 0]
  /\ seen' = [seen EXCEPT ![c] = NothingSeen]
  /\ reply' = [reply EXCEPT ![c] = answer]

(* The transaction is rolled back and the request goes on without it. *)
RollBack(c, next) ==
  /\ pc' = [pc EXCEPT ![c] = next]
  /\ done' = [done EXCEPT ![c] = 0]
  /\ seen' = [seen EXCEPT ![c] = [NothingSeen EXCEPT !.lost = TRUE]]
  /\ UNCHANGED <<rows, req, reply>>

-----------------------------------------------------------------------------
(* AgentRunService.create                                                  *)

(* The AgentRun with its ToolCall, and its confirmation if it writes. *)
InsertRun(u, r) ==
  /\ owner' = [owner EXCEPT ![r] = u]
  /\ run' = [run EXCEPT ![r] = IF Tool[r] = "write_file" THEN "WAITING_HUMAN" ELSE "RUNNING"]
  /\ call' = [call EXCEPT ![r] = "PENDING"]
  /\ conf' = [conf EXCEPT ![r] = IF Tool[r] = "write_file" THEN "PENDING" ELSE "NONE"]
  /\ UNCHANGED <<member, receipt, artifact>>

(* The id is a new UUID. *)
Unused(r) == run[r] = "NONE" /\ \A c \in Clients: req[c].op = "CREATE" => req[c].run # r

(* createCatalogRun is one REPEATABLE READ transaction that competes with  *)
(* nobody.  The Agent catalog decides whether an employee may run the      *)
(* Agent, and whether the Agent may use the tool.                          *)
CreateCatalogRun(c, q) ==
  /\ pc[c] = "idle"
  /\ q.op = "CREATE"
  /\ Unused(q.run)
  /\ \/ /\ q.user \notin member
        /\ Finish(c, Refusal("NOT_FOUND", q))
        /\ UNCHANGED rows
     \/ /\ q.user \in member
        /\ \E code \in {"FORBIDDEN", "TOOL_NOT_ALLOWED"}: Finish(c, Refusal(code, q))
        /\ UNCHANGED rows
     \/ /\ q.user \in member
        /\ InsertRun(q.user, q.run)
        /\ Finish(c, Refusal("CREATED", q))

(* A request without an Agent: the Task is loaded first, the rows are      *)
(* written by a second transaction that checks nothing any more.           *)
BeginCreate(c, q) ==
  /\ pc[c] = "idle"
  /\ q.op = "CREATE"
  /\ Unused(q.run)
  /\ \/ /\ q.user \notin member
        /\ Finish(c, Refusal("NOT_FOUND", q))
        /\ UNCHANGED rows
     \/ /\ q.user \in member
        /\ Open(c, q, "create", NothingSeen)

(* createRunning, or createWaitingForHuman, which throws when the write    *)
(* request is not valid.                                                   *)
CreateRun(c) ==
  LET r == req[c].run
  IN /\ pc[c] = "create"
     /\ \/ /\ Tool[r] = "write_file" /\ r \in Malformed
           /\ Finish(c, Refusal("ERROR", req[c]))
           /\ UNCHANGED rows
        \/ /\ Tool[r] = "write_file" => r \notin Malformed
           /\ InsertRun(req[c].user, r)
           /\ Finish(c, Refusal("CREATED", req[c]))

-----------------------------------------------------------------------------
(* HumanConfirmationRepository.decide                                      *)

(* Mutant: the request's decision is stored as it came. *)
DecisionAsStatus(q) == q.decision

Desired(q) == IF q.decision = "APPROVE" THEN "APPROVED" ELSE "REJECTED"

(* scoped(): the employee's own confirmation, while a project member. *)
Scoped(q) == conf[q.run] # "NONE" /\ owner[q.run] = q.user /\ q.user \in member

BeginDecide(c, q) ==
  /\ pc[c] = "idle"
  /\ q.op = "DECIDE"
  /\ \/ /\ ~Scoped(q)
        /\ Finish(c, Refusal("NOT_FOUND", q))
        /\ UNCHANGED rows
     \/ /\ Scoped(q)
        /\ Open(c, q, "read_run", [NothingSeen EXCEPT !.conf = conf[q.run]])

(* The read after a lost compare-and-set, outside the transaction. *)
ReadConfirmation(c) ==
  /\ pc[c] = "read_conf"
  /\ \/ /\ ~Scoped(req[c])
        /\ Finish(c, Refusal("NOT_FOUND", req[c]))
        /\ UNCHANGED rows
     \/ /\ Scoped(req[c])
        /\ Read(c, "read_run", [seen[c] EXCEPT !.conf = conf[req[c].run]])

(* include: { agentRun: true } of decide and of complete. *)
ReadRun(c) ==
  /\ pc[c] = "read_run"
  /\ Read(c, IF req[c].op = "DECIDE" THEN "read_call" ELSE "read_member",
          [seen[c] EXCEPT !.run = run[req[c].run]])

(* Mutant: the stored request is not validated again. *)
WaitingForHuman(s, r) == s.run = "WAITING_HUMAN" /\ s.call = "PENDING"

EligiblePending(s, r) ==
  s.run = "WAITING_HUMAN" /\ s.call = "PENDING" /\ r \notin Malformed

ConsistentTerminal(s, q) ==
  /\ q.run \notin Malformed
  /\ IF q.decision = "REJECT" THEN s.run = "CANCELLED" /\ s.call = "CANCELLED"
     ELSE \/ s.run = "RUNNING" /\ s.call = "PENDING"
          \/ s.run \in {"SUCCEEDED", "FAILED"} /\ s.call = s.run

(* Mutant: every approved confirmation is answered with a grant. *)
GrantWhenApproved(s, q) ==
  [code |-> "DECIDED", req |-> q, grant |-> s.conf = "APPROVED"]

(* withOptionalGrant: the employee's device may now write the file. *)
Decided(s, q) ==
  [code |-> "DECIDED", req |-> q,
   grant |-> /\ s.conf = "APPROVED" /\ s.run = "RUNNING" /\ s.call = "PENDING"
             /\ q.run \notin Malformed]

(* include: { toolCall: true }, then decide's verdict on what it has read. *)
ReadCall(c) ==
  LET q == req[c]
      s == [seen[c] EXCEPT !.call = call[q.run]]
      undecided == s.conf = "PENDING" /\ ~s.lost
  IN /\ pc[c] = "read_call"
     /\ q.op = "DECIDE"
     /\ \/ /\ undecided /\ EligiblePending(s, q.run)
           /\ Read(c, "update", s)
        \/ /\ undecided /\ ~EligiblePending(s, q.run)
           /\ Finish(c, Refusal("CONFLICT", q))
           /\ UNCHANGED rows
        \/ /\ ~undecided
           /\ Finish(c, IF s.conf = Desired(q) /\ ConsistentTerminal(s, q)
                        THEN Decided(s, q) ELSE Refusal("CONFLICT", q))
           /\ UNCHANGED rows

(* Mutant: a rejection leaves the ToolCall pending. *)
RejectRunOnly(c) ==
  LET q == req[c]
      status == IF q.decision = "APPROVE" THEN "RUNNING" ELSE "CANCELLED"
      after == [NothingSeen EXCEPT !.conf = Desired(q), !.run = status, !.call = "PENDING"]
  IN /\ pc[c] = "commit"
     /\ q.op = "DECIDE"
     /\ conf' = [conf EXCEPT ![q.run] = after.conf]
     /\ run' = [run EXCEPT ![q.run] = after.run]
     /\ Finish(c, Decided(after, q))
     /\ UNCHANGED <<member, owner, call, receipt, artifact>>

(* scoped() once more: who is no member any more loses the decision. *)
CommitDecide(c) ==
  LET q == req[c]
      approved == q.decision = "APPROVE"
      after == [NothingSeen EXCEPT !.conf = Desired(q),
                  !.run = IF approved THEN "RUNNING" ELSE "CANCELLED",
                  !.call = IF approved THEN "PENDING" ELSE "CANCELLED"]
  IN /\ pc[c] = "commit"
     /\ q.op = "DECIDE"
     /\ \/ /\ ~Scoped(q)
           /\ RollBack(c, "read_conf")
        \/ /\ Scoped(q)
           /\ conf' = [conf EXCEPT ![q.run] = after.conf]
           /\ run' = [run EXCEPT ![q.run] = after.run]
           /\ call' = [call EXCEPT ![q.run] = after.call]
           /\ Finish(c, Decided(after, q))
           /\ UNCHANGED <<member, owner, receipt, artifact>>

-----------------------------------------------------------------------------
(* AgentRunRepository.complete                                             *)

BeginComplete(c, q) ==
  /\ pc[c] = "idle"
  /\ q.op = "COMPLETE"
  /\ \/ /\ call[q.run] = "NONE"
        /\ Finish(c, Refusal("NOT_FOUND", q))
        /\ UNCHANGED rows
     \/ /\ call[q.run] # "NONE"
        /\ Open(c, q, "read_run",
                [NothingSeen EXCEPT !.call = call[q.run], !.receipt = receipt[q.run]])

(* projectMember.findUnique, and normalizeToolCompletion of the receipt. *)
ReadMember(c) ==
  LET q == req[c]
      access == owner[q.run] = q.user /\ q.user \in member
      invalid == q.run \in Malformed \/ Outcome[q.receipt] = "INVALID"
  IN /\ pc[c] = "read_member"
     /\ \/ /\ ~access
           /\ Finish(c, Refusal("NOT_FOUND", q))
           /\ UNCHANGED rows
        \/ /\ access /\ invalid
           /\ Finish(c, Refusal("INVALID", q))
           /\ UNCHANGED rows
        \/ /\ access /\ ~invalid
           /\ Read(c, "check", seen[c])

Completed(q, status) == [code |-> "COMPLETED", req |-> q, run |-> status]

(* Mutant: a finished ToolCall answers any receipt with its run. *)
AnswerAnyReceipt(q, stored, status) == Completed(q, status)

(* sameReceipt decides between a repetition and a conflict. *)
AnswerStored(q, stored, status) ==
  IF stored = StoredReceipt(q.receipt) THEN Completed(q, status) ELSE Refusal("CONFLICT", q)

(* A write reads its confirmation; then the ToolCall read first decides. *)
CheckCompletion(c) ==
  LET q == req[c]
      waiting == Tool[q.run] = "write_file" /\ conf[q.run] # "APPROVED"
  IN /\ pc[c] = "check"
     /\ \/ /\ waiting
           /\ Finish(c, Refusal("CONFIRMATION_REQUIRED", q))
           /\ UNCHANGED rows
        \/ /\ ~waiting /\ seen[c].call # "PENDING"
           /\ Finish(c, AnswerStored(q, seen[c].receipt, seen[c].run))
           /\ UNCHANGED rows
        \/ /\ ~waiting /\ seen[c].call = "PENDING"
           /\ Read(c, "update", seen[c])

(* After a lost update the ToolCall is final, and so is its run. *)
ReadStored(c) ==
  /\ pc[c] = "stored"
  /\ Finish(c, AnswerStored(req[c], receipt[req[c].run], run[req[c].run]))
  /\ UNCHANGED rows

CommitComplete(c) ==
  LET q == req[c]
  IN /\ pc[c] = "commit"
     /\ q.op = "COMPLETE"
     /\ call' = [call EXCEPT ![q.run] = Outcome[q.receipt]]
     /\ receipt' = [receipt EXCEPT ![q.run] = StoredReceipt(q.receipt)]
     /\ run' = [run EXCEPT ![q.run] = Outcome[q.receipt]]
     /\ Finish(c, Completed(q, Outcome[q.receipt]))
     /\ UNCHANGED <<member, owner, conf, artifact>>

-----------------------------------------------------------------------------
(* The compare-and-set updates of decide and complete.                     *)

(* Mutant: the WHERE clause names the row only. *)
HitsAnyStatus(q, table) == TRUE

Hits(q, table) == Status(table, q.run) = Expected(q, table)

UpdateRow(c) ==
  LET q == req[c]
      table == UpdateOrder(q)[done[c] + 1]
      hits == Hits(q, table)
  IN /\ pc[c] = "update"
     /\ \/ /\ hits
           /\ Unlocked(c, <<table, q.run>>)
           /\ done' = [done EXCEPT ![c] = @ + 1]
           /\ pc' = [pc EXCEPT ![c] =
                       IF done[c] + 1 = Len(UpdateOrder(q)) THEN "commit" ELSE "update"]
           /\ UNCHANGED <<rows, req, seen, reply>>
        \/ /\ ~hits /\ q.op = "DECIDE"
           /\ RollBack(c, "read_conf")
        \/ /\ ~hits /\ q.op = "COMPLETE"
           /\ IF table = "call" THEN Read(c, "stored", seen[c])
              ELSE Finish(c, Refusal("CONFLICT", q)) /\ UNCHANGED rows

-----------------------------------------------------------------------------
(* ArtifactRepository.registerFromRunForUser                               *)

(* Mutant: the Artifact of any run of the project. *)
OwnedByMember(q) == owner[q.run] # "NONE" /\ q.user \in member

Owned(q) == owner[q.run] = q.user /\ q.user \in member

FromRead(r, a) == artifact[a] # NoArtifact /\ artifact[a].source = r

BeginRegister(c, q) ==
  /\ pc[c] = "idle"
  /\ q.op = "REGISTER"
  /\ artifact[q.artifact] = NoArtifact
  /\ \A d \in Clients: req[d].op = "REGISTER" => req[d].artifact # q.artifact
  /\ \/ /\ ~Owned(q)
        /\ Finish(c, Refusal("NOT_FOUND", q))
        /\ UNCHANGED rows
     \/ /\ Owned(q)
        /\ Open(c, q, "read_call", [NothingSeen EXCEPT !.run = run[q.run]])

(* Mutant: any completed run is a source. *)
ReadAnySource(c) ==
  LET q == req[c]
      isSource == seen[c].run \in {"SUCCEEDED", "FAILED"} /\ call[q.run] = seen[c].run
  IN /\ pc[c] = "read_call"
     /\ q.op = "REGISTER"
     /\ \/ /\ ~isSource
           /\ Finish(c, Refusal("SOURCE_INVALID", q))
           /\ UNCHANGED rows
        \/ /\ isSource
           /\ Read(c, "look_up", [seen[c] EXCEPT !.call = call[q.run],
                                                 !.receipt = receipt[q.run]])

(* A completed read of a file is the only source of an Artifact. *)
ReadSource(c) ==
  LET q == req[c]
      isSource == /\ seen[c].run = "SUCCEEDED" /\ call[q.run] = "SUCCEEDED"
                  /\ Tool[q.run] = "read_file" /\ q.run \notin Malformed
  IN /\ pc[c] = "read_call"
     /\ q.op = "REGISTER"
     /\ \/ /\ ~isSource
           /\ Finish(c, Refusal("SOURCE_INVALID", q))
           /\ UNCHANGED rows
        \/ /\ isSource
           /\ Read(c, "look_up", [seen[c] EXCEPT !.call = call[q.run],
                                                 !.receipt = receipt[q.run]])

Existing(c) ==
  \E a \in Artifacts:
    /\ FromRead(req[c].run, a)
    /\ Finish(c, [code |-> "EXISTING", req |-> req[c], artifact |-> a])
    /\ UNCHANGED rows

LookUpArtifact(c) ==
  /\ pc[c] = "look_up"
  /\ \/ Existing(c)
     \/ /\ \A a \in Artifacts: ~FromRead(req[c].run, a)
        /\ Read(c, "insert", seen[c])

(* Mutant: no unique index on source_tool_call_id. *)
InsertTwice(c) ==
  LET q == req[c]
  IN /\ pc[c] = "insert"
     /\ artifact' = [artifact EXCEPT ![q.artifact] =
                       [kind |-> "FILE", source |-> q.run, content |-> seen[c].receipt]]
     /\ Finish(c, [code |-> "REGISTERED", req |-> q, artifact |-> q.artifact])
     /\ UNCHANGED <<member, owner, run, call, receipt, conf>>

(* The unique index lets one INSERT of a source through; it is the last    *)
(* statement, so it commits at once.                                       *)
InsertArtifact(c) ==
  LET q == req[c]
  IN /\ pc[c] = "insert"
     /\ \/ /\ \E a \in Artifacts: FromRead(q.run, a)
           /\ RollBack(c, "recover")
        \/ /\ \A a \in Artifacts: ~FromRead(q.run, a)
           /\ artifact' = [artifact EXCEPT ![q.artifact] =
                             [kind |-> "FILE", source |-> q.run, content |-> seen[c].receipt]]
           /\ Finish(c, [code |-> "REGISTERED", req |-> q, artifact |-> q.artifact])
           /\ UNCHANGED <<member, owner, run, call, receipt, conf>>

(* findExistingSourceArtifactForUser *)
RecoverRegister(c) ==
  /\ pc[c] = "recover"
  /\ \/ /\ ~Owned(req[c])
        /\ Finish(c, Refusal("NOT_FOUND", req[c]))
        /\ UNCHANGED rows
     \/ Owned(req[c]) /\ Existing(c)

-----------------------------------------------------------------------------
(* The API process or its connection dies. *)
Crash(c) ==
  /\ pc[c] # "idle"
  /\ Finish(c, NoReply)
  /\ UNCHANGED rows

(* No API operation removes a member; the database's operator may. *)
RevokeMembership(u) ==
  /\ u \in member
  /\ member' = member \ {u}
  /\ UNCHANGED <<owner, run, call, receipt, conf, artifact, pc, req, done, seen, reply>>

Request(c) ==
  \E q \in Requests:
    \/ CreateCatalogRun(c, q) \/ BeginCreate(c, q)
    \/ BeginDecide(c, q) \/ BeginComplete(c, q) \/ BeginRegister(c, q)

Serve(c) ==
  \/ CreateRun(c)
  \/ ReadConfirmation(c) \/ ReadRun(c) \/ ReadCall(c) \/ CommitDecide(c)
  \/ ReadMember(c) \/ CheckCompletion(c) \/ ReadStored(c) \/ CommitComplete(c)
  \/ UpdateRow(c)
  \/ ReadSource(c) \/ LookUpArtifact(c) \/ InsertArtifact(c) \/ RecoverRegister(c)

Next ==
  \/ \E c \in Clients: Request(c) \/ Serve(c) \/ Crash(c)
  \/ \E u \in Administered: RevokeMembership(u)

Spec == Init /\ [][Next]_vars

(* An open request goes on, and a row lock is handed to its waiters in a   *)
(* queue (strong fairness).  Nobody has to send a request.                 *)
Fairness == \A c \in Clients: SF_vars(Serve(c))

-----------------------------------------------------------------------------
(* Properties.                                                             *)

(* The interleaved statements behave like operations that happen at one    *)
(* instant, although READ COMMITTED gives them no common snapshot.         *)
Lifecycle == INSTANCE RunLifecycle
ImplementsRunLifecycle == Lifecycle!Spec

(* Run, ToolCall, confirmation and receipt agree (see RunLifecycle): no    *)
(* write runs without an approval, and a rejection closes all three rows.  *)
RowsAgree == Lifecycle!RowsAgree

(* Every Artifact has the content its read reported, one for each read.    *)
ArtifactProvenance == Lifecycle!ArtifactProvenance

(* What an answer says is stored, also when others got in between the      *)
(* statements: the receipt of a completion and its run, the decision, the  *)
(* Artifact.  A completion is only refused as a conflict when a different  *)
(* receipt is stored.                                                      *)
AnswersTrue ==
  \A c \in Clients:
    LET a == reply[c]
    IN /\ a.code = "COMPLETED" =>
            /\ receipt[a.req.run] = StoredReceipt(a.req.receipt)
            /\ run[a.req.run] = a.run
       /\ a.code = "CONFLICT" /\ a.req.op = "COMPLETE" =>
            receipt[a.req.run] \notin {NoReceipt, StoredReceipt(a.req.receipt)}
       /\ a.code = "DECIDED" => conf[a.req.run] = Desired(a.req)
       /\ a.code \in {"REGISTERED", "EXISTING"} => FromRead(a.req.run, a.artifact)

(* An execution grant is only handed out for a run that is approved and    *)
(* still open at that moment, to the employee who owns it.                 *)
GrantsOpenRun ==
  [][\A c \in Clients:
       reply'[c] # reply[c] /\ reply'[c].code = "DECIDED" /\ reply'[c].grant =>
         LET q == reply'[c].req
         IN /\ conf'[q.run] = "APPROVED" /\ run'[q.run] = "RUNNING"
            /\ call'[q.run] = "PENDING" /\ owner[q.run] = q.user]_vars

(* Decisions, completions and registrations are answered to the employee   *)
(* who owns the run, never to a colleague in the same project.             *)
OnlyOwnerActs ==
  [][\A c \in Clients:
       reply'[c] # reply[c]
         /\ reply'[c].code \in {"DECIDED", "COMPLETED", "REGISTERED", "EXISTING"} =>
         owner[reply'[c].req.run] = reply'[c].req.user]_vars

(* A request that createCatalogRun stored without validating it starts     *)
(* nothing: it is never approved, completed or turned into an Artifact.    *)
MalformedInert ==
  \A r \in Malformed:
    /\ conf[r] \in {"NONE", "PENDING"}
    /\ receipt[r] = NoReceipt
    /\ \A a \in Artifacts: ~FromRead(r, a)

(* A decision, a receipt and an Artifact never change again.               *)
FactsFinal ==
  [][/\ \A r \in Runs: conf[r] \in {"APPROVED", "REJECTED"} => conf'[r] = conf[r]
     /\ \A r \in Runs: receipt[r] # NoReceipt => receipt'[r] = receipt[r]
     /\ \A a \in Artifacts: artifact[a] # NoArtifact => artifact'[a] = artifact[a]]_vars

(* The row c's next statement waits for. *)
WaitsFor(c, d) ==
  /\ pc[c] = "update"
  /\ LET row == <<UpdateOrder(req[c])[done[c] + 1], req[c].run>>
     IN row \in Locked(d) /\ Hits(req[c], row[1])

(* Two open transactions never wait for each other's rows: decide and      *)
(* complete take the rows of a run in compatible orders.                   *)
NoWaitCycle == \A c, d \in Clients: c # d => ~(WaitsFor(c, d) /\ WaitsFor(d, c))

(* Every request ends: no wait and no second classification is for ever.   *)
EveryRequestEnds == \A c \in Clients: pc[c] # "idle" ~> pc[c] = "idle"

(* API_CONTRACT: repeated same decisions are idempotent, the opposite      *)
(* decision is a conflict.                                                 *)
OnlyOppositeConflicts ==
  \A c \in Clients:
    reply[c].code = "CONFLICT" /\ reply[c].req.op = "DECIDE" =>
      conf[reply[c].req.run] # Desired(reply[c].req)

(* API_CONTRACT: a write intent is validated by the server; what has been  *)
(* accepted can be approved or rejected while it is pending.               *)
PendingCanBeDecided ==
  \A c \in Clients:
    reply[c].code = "CONFLICT" /\ reply[c].req.op = "DECIDE" =>
      conf[reply[c].req.run] # "PENDING"

(* What answers say is stored, a grant is for a run that is approved and    *)
(* open, nobody but the owner is answered, and an invalid write starts      *)
(* nothing.                                                                 *)
RunsHold ==
  /\ [](TypeOK /\ AnswersTrue /\ MalformedInert)
  /\ GrantsOpenRun /\ OnlyOwnerActs
===============================================================================
