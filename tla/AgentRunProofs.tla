---------------------------- MODULE AgentRunProofs ----------------------------
(***************************************************************************)
(* AgentRun implements RunLifecycle for any number of concurrent requests, *)
(* users, runs, receipts and Artifacts, although its transactions have no  *)
(* common snapshot; the agreement of the rows follows from the theorem     *)
(* about the life cycle.                                                   *)
(***************************************************************************)
EXTENDS AgentRun, TLAPS

(* The life cycle of a run, for every set of runs, tools, receipts and     *)
(* Artifacts.                                                              *)

Consistent == Lifecycle!TypeOK /\ Lifecycle!RowsAgree /\ Lifecycle!ArtifactProvenance

(* No rows, nothing to disagree. *)
LEMMA InitConsistent == Lifecycle!Init => Consistent
BY DEF Lifecycle!Init, Consistent, Lifecycle!TypeOK, Lifecycle!RowsAgree,
       Lifecycle!ArtifactProvenance, Lifecycle!Stored, Lifecycle!NoReceipt, Lifecycle!NoArtifact

(* A new run has no receipt and no Artifact. *)
LEMMA CreateRunConsistent ==
  ASSUME Consistent, NEW r \in Runs, Lifecycle!CreateRun(r)
  PROVE  Consistent'
<1> USE DEF Consistent, Lifecycle!CreateRun
<1>1. Lifecycle!TypeOK'
  BY DEF Lifecycle!TypeOK
<1>2. Lifecycle!RowsAgree'
  BY DEF Lifecycle!TypeOK, Lifecycle!RowsAgree, Lifecycle!Stored, Lifecycle!NoReceipt
<1>3. Lifecycle!ArtifactProvenance'
  BY DEF Lifecycle!TypeOK, Lifecycle!ArtifactProvenance
<1> QED BY <1>1, <1>2, <1>3

(* Only a waiting write is approved. *)
LEMMA ApproveConsistent ==
  ASSUME Consistent, NEW r \in Runs, Lifecycle!Approve(r)
  PROVE  Consistent'
<1> USE DEF Consistent, Lifecycle!Approve
<1>1. Lifecycle!TypeOK'
  BY DEF Lifecycle!TypeOK
<1>2. Lifecycle!RowsAgree'
  BY DEF Lifecycle!TypeOK, Lifecycle!RowsAgree
<1>3. Lifecycle!ArtifactProvenance'
  BY DEF Lifecycle!TypeOK, Lifecycle!ArtifactProvenance, Lifecycle!RowsAgree
<1> QED BY <1>1, <1>2, <1>3

(* A rejected write has not been completed. *)
LEMMA RejectConsistent ==
  ASSUME Consistent, NEW r \in Runs, Lifecycle!Reject(r)
  PROVE  Consistent'
<1> USE DEF Consistent, Lifecycle!Reject
<1>1. Lifecycle!TypeOK'
  BY DEF Lifecycle!TypeOK
<1>2. Lifecycle!RowsAgree'
  BY DEF Lifecycle!TypeOK, Lifecycle!RowsAgree
<1>3. Lifecycle!ArtifactProvenance'
  BY DEF Lifecycle!TypeOK, Lifecycle!ArtifactProvenance, Lifecycle!RowsAgree
<1> QED BY <1>1, <1>2, <1>3

(* A completed ToolCall was pending, so its run has no Artifact yet. *)
LEMMA CompleteConsistent ==
  ASSUME Consistent, NEW r \in Runs, NEW rec \in Receipts, Lifecycle!Complete(r, rec)
  PROVE  Consistent'
<1> USE DEF Consistent, Lifecycle!Complete
<1>1. Lifecycle!TypeOK'
  BY DEF Lifecycle!TypeOK, Lifecycle!Stored
<1>2. Lifecycle!RowsAgree'
  BY DEF Lifecycle!TypeOK, Lifecycle!RowsAgree, Lifecycle!Stored, Lifecycle!NoReceipt
<1>3. Lifecycle!ArtifactProvenance'
  BY DEF Lifecycle!TypeOK, Lifecycle!ArtifactProvenance, Lifecycle!RowsAgree
<1> QED BY <1>1, <1>2, <1>3

(* A succeeded read has a receipt, which becomes the content. *)
LEMMA RegisterConsistent ==
  ASSUME Consistent, NEW r \in Runs, NEW a \in Artifacts, Lifecycle!Register(a, r)
  PROVE  Consistent'
<1> USE DEF Consistent, Lifecycle!Register
<1>1. receipt[r] \in Lifecycle!Stored
  BY DEF Lifecycle!TypeOK, Lifecycle!RowsAgree
<1>2. Lifecycle!TypeOK'
  BY <1>1 DEF Lifecycle!TypeOK
<1>3. Lifecycle!RowsAgree'
  BY DEF Lifecycle!RowsAgree
<1>4. Lifecycle!ArtifactProvenance'
  BY DEF Lifecycle!TypeOK, Lifecycle!ArtifactProvenance, Lifecycle!NoArtifact
<1> QED BY <1>2, <1>3, <1>4

(* Consistency is inductive. *)
LEMMA NextConsistent == Consistent /\ [Lifecycle!Next]_(Lifecycle!rows) => Consistent'
<1> SUFFICES ASSUME Consistent, [Lifecycle!Next]_(Lifecycle!rows)
             PROVE  Consistent'
  OBVIOUS
<1>1. CASE Lifecycle!Next
  BY <1>1, CreateRunConsistent, ApproveConsistent, RejectConsistent,
     CompleteConsistent, RegisterConsistent
  DEF Lifecycle!Next
<1>2. CASE UNCHANGED Lifecycle!rows
  BY <1>2 DEF Lifecycle!rows, Consistent, Lifecycle!TypeOK, Lifecycle!RowsAgree, Lifecycle!ArtifactProvenance
<1> QED BY <1>1, <1>2

(* The rows of runs, ToolCalls, confirmations and receipts always agree,   *)
(* and every Artifact stems from the one completed read it names.          *)
THEOREM RunsConsistent == Lifecycle!Spec => []Consistent
BY InitConsistent, NextConsistent, PTL DEF Lifecycle!Spec

-----------------------------------------------------------------------------
(* The rows a request has updated. *)
LocksConf(c) == req[c].op = "DECIDE" /\ done[c] >= 1
LocksCall(c) ==
  \/ req[c].op = "COMPLETE" /\ done[c] >= 1
  \/ req[c].op = "DECIDE" /\ req[c].decision = "REJECT" /\ done[c] >= 2
LocksRun(c) ==
  \/ req[c].op = "COMPLETE" /\ done[c] >= 2
  \/ req[c].op = "DECIDE" /\ req[c].decision = "APPROVE" /\ done[c] >= 2
  \/ req[c].op = "DECIDE" /\ req[c].decision = "REJECT" /\ done[c] >= 3

Updates(q) == IF q.op = "DECIDE" /\ q.decision = "REJECT" THEN 3 ELSE 2

(* Which requests reach which statement, and how many updates they made. *)
Stage(c) ==
  /\ pc[c] = "idle" <=> req[c] = NoRequest
  /\ pc[c] = "create" <=> req[c].op = "CREATE"
  /\ pc[c] = "read_conf" => req[c].op = "DECIDE"
  /\ pc[c] \in {"read_run", "update", "commit"} => req[c].op \in {"DECIDE", "COMPLETE"}
  /\ pc[c] \in {"read_member", "check", "stored"} => req[c].op = "COMPLETE"
  /\ pc[c] = "read_call" => req[c].op \in {"DECIDE", "REGISTER"}
  /\ pc[c] \in {"look_up", "insert", "recover"} => req[c].op = "REGISTER"
  /\ pc[c] = "update" => done[c] < Updates(req[c])
  /\ pc[c] = "commit" => done[c] = Updates(req[c])
  /\ pc[c] \notin {"update", "commit"} => done[c] = 0

(* What a request has read and nobody can change any more. *)
Facts(c) ==
  /\ req[c].op = "CREATE" => run[req[c].run] = "NONE"
  /\ req[c].op = "COMPLETE" => run[req[c].run] # "NONE"
  /\ pc[c] \in {"read_member", "check", "update", "commit", "stored"} /\ req[c].op = "COMPLETE"
       => seen[c].run # "NONE"
  /\ pc[c] \in {"check", "update", "commit", "stored"} /\ req[c].op = "COMPLETE"
       => Outcome[req[c].receipt] \in {"SUCCEEDED", "FAILED"}
  /\ pc[c] \in {"update", "commit"} /\ req[c].op = "COMPLETE" /\ Tool[req[c].run] = "write_file"
       => conf[req[c].run] = "APPROVED"
  /\ pc[c] = "read_call" /\ req[c].op = "REGISTER" /\ seen[c].run = "SUCCEEDED"
       => run[req[c].run] = "SUCCEEDED"
  /\ req[c].op = "REGISTER" => artifact[req[c].artifact] = NoArtifact
  /\ pc[c] \in {"look_up", "insert"} =>
       /\ run[req[c].run] = "SUCCEEDED"
       /\ Tool[req[c].run] = "read_file"
       /\ seen[c].receipt = receipt[req[c].run]

(* A locked row has the status its UPDATE matched. *)
LockedStatus(c) ==
  /\ LocksConf(c) => conf[req[c].run] = "PENDING"
  /\ LocksCall(c) => call[req[c].run] = "PENDING"
  /\ LocksRun(c) =>
       run[req[c].run] = IF req[c].op = "DECIDE" THEN "WAITING_HUMAN" ELSE "RUNNING"

(* Locks and new ids exclude each other. *)
Disjoint(c, d) ==
  /\ req[c].op = "CREATE" /\ req[d].op = "CREATE" => req[c].run # req[d].run
  /\ req[c].op = "REGISTER" /\ req[d].op = "REGISTER" => req[c].artifact # req[d].artifact
  /\ LocksConf(c) /\ LocksConf(d) => req[c].run # req[d].run
  /\ LocksCall(c) /\ LocksCall(d) => req[c].run # req[d].run
  /\ LocksRun(c) /\ LocksRun(d) => req[c].run # req[d].run

Local(c) == Stage(c) /\ Facts(c) /\ LockedStatus(c)
Exclusion == \A c, d \in Clients: c # d => Disjoint(c, d)

IInv ==
  /\ TypeOK
  /\ RowsAgree
  /\ ArtifactProvenance
  /\ \A c \in Clients: Local(c)
  /\ Exclusion
-----------------------------------------------------------------------------
(* What the operators return.                                              *)

(* What a request carries. *)
LEMMA RequestTypes ==
  ASSUME NEW q \in Requests
  PROVE  /\ q.op \in {"CREATE", "DECIDE", "COMPLETE", "REGISTER"}
         /\ q.user \in Users /\ q.run \in Runs
         /\ q.op = "DECIDE" => q.decision \in {"APPROVE", "REJECT"}
         /\ q.op = "COMPLETE" => q.receipt \in Receipts
         /\ q.op = "REGISTER" => q.artifact \in Artifacts
         /\ q # NoRequest
BY DEF Requests, Decisions, NoRequest

(* The rows in the order of their updates. *)
LEMMA Order ==
  ASSUME NEW q \in Requests, q.op \in {"DECIDE", "COMPLETE"}
  PROVE  /\ Len(UpdateOrder(q)) = Updates(q)
         /\ q.op = "COMPLETE" => UpdateOrder(q)[1] = "call" /\ UpdateOrder(q)[2] = "run"
         /\ q.op = "DECIDE" => UpdateOrder(q)[1] = "conf"
         /\ q.op = "DECIDE" /\ q.decision = "APPROVE" => UpdateOrder(q)[2] = "run"
         /\ q.op = "DECIDE" /\ q.decision = "REJECT" =>
              UpdateOrder(q)[2] = "call" /\ UpdateOrder(q)[3] = "run"
BY RequestTypes DEF UpdateOrder, Updates

(* A row that c may lock is none of the rows others have locked. *)
LEMMA Free ==
  ASSUME TypeOK, NEW c \in Clients, NEW d \in Clients, c # d, NEW r,
         Stage(d), req[d].run = r
  PROVE  /\ Unlocked(c, <<"conf", r>>) => ~LocksConf(d)
         /\ Unlocked(c, <<"call", r>>) => ~LocksCall(d)
         /\ Unlocked(c, <<"run", r>>) => ~LocksRun(d)
<1> DEFINE q == req[d]
<1>1. CASE q.op \notin {"DECIDE", "COMPLETE"}
  BY <1>1 DEF LocksConf, LocksCall, LocksRun
<1>2. CASE q.op \in {"DECIDE", "COMPLETE"}
  <2>1. q \in Requests /\ done[d] \in 0..3
    BY <1>2 DEF TypeOK, NoRequest
  <2>2. \A i \in 1..done[d]: <<UpdateOrder(q)[i], r>> \in Locked(d)
    BY DEF Locked
  <2>3. \A row: Unlocked(c, row) => row \notin Locked(d)
    BY DEF Unlocked
  <2>4. LocksConf(d) => 1 \in 1..done[d] /\ UpdateOrder(q)[1] = "conf"
    BY <2>1, Order DEF LocksConf
  <2>5. LocksCall(d) => \E i \in 1..done[d]: UpdateOrder(q)[i] = "call"
    <3>1. CASE q.op = "COMPLETE"
      BY <3>1, <2>1, Order DEF LocksCall
    <3>2. CASE q.op = "DECIDE"
      BY <3>2, <2>1, Order DEF LocksCall
    <3> QED BY <1>2, <3>1, <3>2
  <2>6. LocksRun(d) => \E i \in 1..done[d]: UpdateOrder(q)[i] = "run"
    <3>1. CASE q.op = "COMPLETE"
      BY <3>1, <2>1, Order DEF LocksRun
    <3>2. CASE q.op = "DECIDE"
      BY <3>2, <2>1, Order DEF LocksRun
    <3> QED BY <1>2, <3>1, <3>2
  <2> QED BY <2>2, <2>3, <2>4, <2>5, <2>6
<1> QED BY <1>1, <1>2

(* Every answer is a reply. *)
LEMMA ReplyTypes ==
  ASSUME NEW q \in Requests
  PROVE  /\ NoReply \in Replies
         /\ \A code \in {"CREATED", "NOT_FOUND", "FORBIDDEN", "TOOL_NOT_ALLOWED", "ERROR",
                         "CONFLICT", "INVALID", "CONFIRMATION_REQUIRED", "SOURCE_INVALID"}:
              Refusal(code, q) \in Replies
         /\ \A s: Decided(s, q) \in Replies
         /\ \A status \in RunStatuses: Completed(q, status) \in Replies
         /\ \A code \in {"REGISTERED", "EXISTING"}, a \in Artifacts:
              [code |-> code, req |-> q, artifact |-> a] \in Replies
BY DEF Replies, Refusal, Decided, Completed, NoReply

(* A request that is not idle. *)
LEMMA OpenRequest ==
  ASSUME TypeOK, NEW c \in Clients, Stage(c), pc[c] # "idle"
  PROVE  req[c] \in Requests
BY DEF TypeOK, Stage

(* An operation of the life cycle keeps its rows in agreement.             *)
LEMMA AgreementKept ==
  ASSUME TypeOK, RowsAgree, ArtifactProvenance,
         Lifecycle!Next \/ UNCHANGED <<run, call, receipt, conf, artifact>>
  PROVE  RowsAgree' /\ ArtifactProvenance'
<1>1. Consistent
  BY DEF Consistent, Lifecycle!TypeOK, TypeOK, RunStatuses, CallStatuses, ConfirmationStatuses,
         Lifecycle!Stored, Stored, Lifecycle!NoReceipt, NoReceipt, Lifecycle!NoArtifact, NoArtifact,
         RowsAgree, ArtifactProvenance
<1>2. [Lifecycle!Next]_(Lifecycle!rows)
  BY DEF Lifecycle!rows
<1>3. Consistent'
  BY <1>1, <1>2, NextConsistent
<1> QED
  BY <1>3 DEF Consistent, RowsAgree, ArtifactProvenance

(* What RowsAgree says about one run. *)
LEMMA RowsOf ==
  ASSUME TypeOK, RowsAgree, NEW r \in Runs
  PROVE  /\ run[r] = "NONE" <=> call[r] = "NONE"
         /\ run[r] = "NONE" => conf[r] = "NONE" /\ receipt[r] = NoReceipt
         /\ conf[r] = "PENDING" => /\ Tool[r] = "write_file" /\ run[r] = "WAITING_HUMAN"
                                   /\ call[r] = "PENDING"
         /\ conf[r] # "NONE" => Tool[r] = "write_file"
         /\ call[r] = "PENDING" => receipt[r] = NoReceipt /\ run[r] \in {"WAITING_HUMAN", "RUNNING"}
         /\ run[r] = "SUCCEEDED" => receipt[r] \in Stored /\ call[r] = "SUCCEEDED"
         /\ receipt[r] # NoReceipt => run[r] \in {"SUCCEEDED", "FAILED"}
BY DEF TypeOK, RowsAgree, Lifecycle!RowsAgree, Lifecycle!Stored, Stored, NoReceipt,
       Lifecycle!NoReceipt

-----------------------------------------------------------------------------
(* Steps that change no row.                                               *)

SameRows == UNCHANGED <<owner, run, call, receipt, conf, artifact>>

Alone(c) ==
  \A d \in Clients \ {c}:
    pc'[d] = pc[d] /\ req'[d] = req[d] /\ done'[d] = done[d] /\ seen'[d] = seen[d]

(* Only the invariant of the client that moves has to be shown. *)
LEMMA LocalStep ==
  ASSUME IInv, TypeOK', NEW c \in Clients, SameRows, Alone(c), Local(c)',
         \A d \in Clients \ {c}: Disjoint(c, d)'
  PROVE  IInv'
<1>1. RowsAgree' /\ ArtifactProvenance'
  BY AgreementKept DEF IInv, SameRows
<1>2. ASSUME NEW d \in Clients, d # c PROVE Local(d)'
  BY <1>2 DEF IInv, Local, Stage, Facts, LockedStatus, LocksConf, LocksCall, LocksRun,
              SameRows, Alone
<1>3. ASSUME NEW d \in Clients, NEW f \in Clients, d # f PROVE Disjoint(d, f)'
  <2>1. CASE d = c
    BY <1>3, <2>1
  <2>2. CASE f = c
    BY <1>3, <2>2 DEF Disjoint
  <2>3. CASE d # c /\ f # c
    BY <1>3, <2>3 DEF IInv, Exclusion, Disjoint, LocksConf, LocksCall, LocksRun, Alone
  <2> QED BY <2>1, <2>2, <2>3
<1> QED BY <1>1, <1>2, <1>3 DEF IInv, Exclusion

(* An idle client has no claims. *)
LEMMA IdleLocal ==
  ASSUME NEW c \in Clients, pc[c] = "idle", req[c] = NoRequest, done[c] = 0
  PROVE  Local(c) /\ \A d \in Clients: Disjoint(c, d)
BY DEF Local, Stage, Facts, LockedStatus, LocksConf, LocksCall, LocksRun, Disjoint, NoRequest

(* An answer resets the client. *)
LEMMA FinishTypes ==
  ASSUME TypeOK, NEW c \in Clients, NEW answer \in Replies, Finish(c, answer)
  PROVE  /\ pc' = [pc EXCEPT ![c] = "idle"] /\ req' \in [Clients -> Requests \cup {NoRequest}]
         /\ done' \in [Clients -> 0..3]
         /\ seen' \in [Clients ->
              [conf: ConfirmationStatuses \cup {"NONE"}, run: RunStatuses \cup {"NONE"},
               call: CallStatuses \cup {"NONE"}, receipt: Stored \cup {NoReceipt}, lost: BOOLEAN]]
         /\ reply' \in [Clients -> Replies]
         /\ Alone(c)
         /\ pc'[c] = "idle" /\ req'[c] = NoRequest /\ done'[c] = 0
BY DEF TypeOK, Finish, NothingSeen, Alone

(* A request is answered without a change. *)
LEMMA FinishIInv ==
  ASSUME IInv, NEW c \in Clients, NEW answer \in Replies, Finish(c, answer), UNCHANGED rows
  PROVE  IInv'
<1>1. TypeOK'
  BY FinishTypes DEF IInv, TypeOK, rows
<1>2. SameRows /\ Alone(c)
  BY FinishTypes DEF IInv, SameRows, rows
<1>3. Local(c)' /\ \A d \in Clients: Disjoint(c, d)'
  BY FinishTypes DEF IInv, Local, Stage, Facts, LockedStatus, LocksConf, LocksCall, LocksRun,
     Disjoint, NoRequest
<1> QED BY <1>1, <1>2, <1>3, LocalStep

(* What a request has seen. *)
Seen == [conf: ConfirmationStatuses \cup {"NONE"}, run: RunStatuses \cup {"NONE"},
         call: CallStatuses \cup {"NONE"}, receipt: Stored \cup {NoReceipt}, lost: BOOLEAN]

(* A request is accepted. *)
LEMMA OpenIInv ==
  ASSUME IInv, NEW c \in Clients, NEW q \in Requests, NEW found \in Seen, pc[c] = "idle",
         NEW next, Open(c, q, next, found),
         \/ q.op = "CREATE" /\ next = "create" /\ Unused(q.run)
         \/ q.op = "DECIDE" /\ next = "read_run"
         \/ q.op = "COMPLETE" /\ next = "read_run" /\ run[q.run] # "NONE"
         \/ /\ q.op = "REGISTER" /\ next = "read_call" /\ artifact[q.artifact] = NoArtifact
            /\ \A d \in Clients: req[d].op = "REGISTER" => req[d].artifact # q.artifact
            /\ found.run = "SUCCEEDED" => run[q.run] = "SUCCEEDED"
  PROVE  IInv'
<1>0. Alone(c) /\ SameRows /\ pc'[c] = next /\ req'[c] = q /\ done'[c] = 0 /\ seen'[c] = found
  BY DEF IInv, TypeOK, Open, rows, Alone, SameRows
<1>1. TypeOK'
  BY DEF IInv, TypeOK, Open, rows, Seen, Replies
<1>2. Local(c)'
  BY <1>0, RequestTypes DEF Local, Stage, Facts, LockedStatus, LocksConf, LocksCall, LocksRun,
     SameRows, Unused
<1>3. \A d \in Clients \ {c}: Disjoint(c, d)'
  BY <1>0 DEF Disjoint, LocksConf, LocksCall, LocksRun, Alone, Unused
<1> QED BY <1>0, <1>1, <1>2, <1>3, LocalStep

(* The next statement is a read, or its answer is only looked at. *)
LEMMA ReadIInv ==
  ASSUME IInv, NEW c \in Clients, pc[c] \notin {"idle", "commit"},
         pc[c] = "update" => done[c] = 0,
         NEW found \in Seen, NEW next, Read(c, next, found),
         \/ /\ req[c].op = "DECIDE"
            /\ next \in {"read_run", "read_call", "update"}
         \/ /\ req[c].op = "COMPLETE"
            /\ next \in {"read_member", "check", "update", "stored"}
            /\ found.run # "NONE"
            /\ next # "read_member" => Outcome[req[c].receipt] \in {"SUCCEEDED", "FAILED"}
            /\ next = "update" /\ Tool[req[c].run] = "write_file" =>
                 conf[req[c].run] = "APPROVED"
         \/ /\ req[c].op = "REGISTER"
            /\ next \in {"look_up", "insert"}
            /\ run[req[c].run] = "SUCCEEDED"
            /\ Tool[req[c].run] = "read_file"
            /\ found.receipt = receipt[req[c].run]
  PROVE  IInv'
<1>0. /\ Alone(c) /\ SameRows /\ pc'[c] = next /\ req' = req /\ done' = done
      /\ seen'[c] = found /\ done[c] = 0
  BY DEF IInv, TypeOK, Read, rows, Alone, SameRows, Local, Stage
<1>1. TypeOK'
  BY DEF IInv, TypeOK, Read, rows, Seen
<1>2. req[c] \in Requests
  BY OpenRequest DEF IInv, Local
<1>3. Local(c)'
  BY <1>0, <1>2, RequestTypes DEF IInv, Local, Stage, Facts, LockedStatus, LocksConf, LocksCall,
     LocksRun, SameRows, Updates
<1>4. \A d \in Clients \ {c}: Disjoint(c, d)'
  BY <1>0 DEF IInv, Exclusion, Disjoint, LocksConf, LocksCall, LocksRun
<1> QED BY <1>0, <1>1, <1>3, <1>4, LocalStep

(* A rolled back request gives up its locks. *)
LEMMA RollBackIInv ==
  ASSUME IInv, NEW c \in Clients, pc[c] # "idle", NEW next, RollBack(c, next),
         \/ req[c].op = "DECIDE" /\ next = "read_conf"
         \/ req[c].op = "REGISTER" /\ next = "recover"
  PROVE  IInv'
<1>0. /\ Alone(c) /\ SameRows /\ pc'[c] = next /\ req' = req /\ done'[c] = 0
  BY DEF IInv, TypeOK, RollBack, rows, Alone, SameRows
<1>1. TypeOK'
  <2>1. [NothingSeen EXCEPT !.lost = TRUE] \in Seen /\ next \in {"read_conf", "recover"}
    BY DEF NothingSeen, Seen
  <2> QED BY <2>1 DEF IInv, TypeOK, RollBack, rows, Seen
<1>2. req[c] \in Requests
  BY OpenRequest DEF IInv, Local
<1>3. Local(c)'
  BY <1>0, <1>2, RequestTypes DEF IInv, Local, Stage, Facts, LockedStatus, LocksConf, LocksCall,
     LocksRun, SameRows
<1>4. \A d \in Clients \ {c}: Disjoint(c, d)'
  BY <1>0 DEF IInv, Exclusion, Disjoint, LocksConf, LocksCall, LocksRun, Alone
<1> QED BY <1>0, <1>1, <1>3, <1>4, LocalStep

(* An update that hits takes a free lock on a row with that status.        *)
LEMMA LockIInv ==
  ASSUME IInv, NEW c \in Clients, pc[c] = "update",
         LET q == req[c]
             table == UpdateOrder(q)[done[c] + 1]
         IN /\ Hits(q, table)
            /\ Unlocked(c, <<table, q.run>>)
            /\ done' = [done EXCEPT ![c] = @ + 1]
            /\ pc' = [pc EXCEPT ![c] =
                        IF done[c] + 1 = Len(UpdateOrder(q)) THEN "commit" ELSE "update"]
            /\ UNCHANGED <<rows, req, seen, reply>>
  PROVE  IInv'
<1> DEFINE q == req[c]
           n == done[c]
           table == UpdateOrder(q)[n + 1]
<1>0. /\ q \in Requests /\ q.op \in {"DECIDE", "COMPLETE"} /\ n \in 0..3 /\ n < Updates(q)
      /\ Len(UpdateOrder(q)) = Updates(q)
  BY OpenRequest, Order DEF IInv, Local, Stage, TypeOK
<1>1. /\ Alone(c) /\ SameRows /\ req' = req /\ seen' = seen /\ done'[c] = n + 1
      /\ pc'[c] = IF n + 1 = Updates(q) THEN "commit" ELSE "update"
  BY <1>0 DEF IInv, TypeOK, rows, Alone, SameRows
<1>2. TypeOK'
  BY <1>0 DEF IInv, TypeOK, rows, Updates
<1>3. /\ LocksConf(c)' => LocksConf(c) \/ table = "conf"
      /\ LocksCall(c)' => LocksCall(c) \/ table = "call"
      /\ LocksRun(c)' => LocksRun(c) \/ table = "run"
  BY <1>0, <1>1, Order, RequestTypes DEF LocksConf, LocksCall, LocksRun
<1>4. /\ table = "conf" => conf[q.run] = "PENDING"
      /\ table = "call" => call[q.run] = "PENDING"
      /\ table = "run" => run[q.run] = IF q.op = "DECIDE" THEN "WAITING_HUMAN" ELSE "RUNNING"
  BY DEF Hits, Status, Expected
<1>5. Local(c)'
  <2>1. Stage(c)'
    BY <1>0, <1>1, RequestTypes DEF IInv, Local, Stage
  <2>2. Facts(c)'
    BY <1>0, <1>1 DEF IInv, Local, Facts, SameRows
  <2>3. LockedStatus(c)'
    BY <1>1, <1>3, <1>4 DEF IInv, Local, LockedStatus, SameRows
  <2> QED BY <2>1, <2>2, <2>3 DEF Local
<1>6. ASSUME NEW d \in Clients \ {c} PROVE Disjoint(c, d)'
  <2>1. /\ (LocksConf(d)' <=> LocksConf(d)) /\ (LocksCall(d)' <=> LocksCall(d))
        /\ (LocksRun(d)' <=> LocksRun(d))
    BY <1>1, <1>6 DEF LocksConf, LocksCall, LocksRun, Alone
  <2>2. Disjoint(c, d)
    BY <1>6 DEF IInv, Exclusion
  <2>3. q.run = req[d].run =>
          /\ table = "conf" => ~LocksConf(d)
          /\ table = "call" => ~LocksCall(d)
          /\ table = "run" => ~LocksRun(d)
    BY <1>6, Free DEF IInv, Local
  <2> QED BY <1>1, <1>3, <2>1, <2>2, <2>3 DEF Disjoint
<1> QED BY <1>1, <1>2, <1>5, <1>6, LocalStep

-----------------------------------------------------------------------------
(* Steps that change rows.                                                 *)

(* c writes rows it has locked, or rows of its own new run or Artifact.    *)
Protected(c) ==
  /\ \A r \in Runs: run[r] = "NONE" /\ run'[r] # "NONE" =>
       \A d \in Clients \ {c}: req[d].op = "CREATE" => req[d].run # r
  /\ \A r \in Runs: run[r] # "NONE" =>
       /\ run'[r] # "NONE"
       /\ conf'[r] # conf[r] => LocksConf(c) /\ req[c].run = r
       /\ call'[r] # call[r] => LocksCall(c) /\ req[c].run = r
       /\ run'[r] # run[r] => LocksRun(c) /\ req[c].run = r
       /\ receipt'[r] # receipt[r] => LocksCall(c) /\ req[c].run = r
  /\ \A a \in Artifacts: artifact'[a] # artifact[a] =>
       req[c].op = "REGISTER" /\ req[c].artifact = a

(* What the others read and locked is still there. *)
LEMMA OthersKept ==
  ASSUME IInv, NEW c \in Clients, NEW d \in Clients, c # d, Alone(c), Protected(c)
  PROVE  Local(d)'
<1> DEFINE q == req[d]
<1>0. /\ pc'[d] = pc[d] /\ req'[d] = q /\ done'[d] = done[d] /\ seen'[d] = seen[d]
      /\ Local(d) /\ Local(c) /\ Disjoint(c, d)
  BY DEF Alone, IInv, Exclusion
<1>1. Stage(d)'
  BY <1>0 DEF Local, Stage
<1>2. CASE q = NoRequest
  BY <1>0, <1>1, <1>2 DEF Local, Facts, LockedStatus, LocksConf, LocksCall, LocksRun, NoRequest,
                          Stage
<1>3. CASE q # NoRequest
  <2>1. q \in Requests /\ q.run \in Runs
    BY <1>3, RequestTypes DEF IInv, TypeOK
  <2>2. /\ run[q.run] = "NONE" => conf[q.run] = "NONE" /\ call[q.run] = "NONE"
        /\ run[q.run] = "SUCCEEDED" => call[q.run] = "SUCCEEDED"
    BY <2>1, RowsOf DEF IInv
  <2>3. Facts(d)'
    <3>1. q.op = "CREATE" => run'[q.run] = "NONE"
      <4>1. q.op = "CREATE" => run[q.run] = "NONE"
        BY <1>0 DEF Local, Facts
      <4> QED BY <1>0, <2>1, <4>1 DEF Protected
    <3>2. run[q.run] # "NONE" => run'[q.run] # "NONE"
      BY <2>1 DEF Protected
    <3>3. conf[q.run] = "APPROVED" => conf'[q.run] = "APPROVED"
      BY <1>0, <2>1, <2>2 DEF Protected, Local, LockedStatus
    <3>4. run[q.run] = "SUCCEEDED" =>
            run'[q.run] = "SUCCEEDED" /\ receipt'[q.run] = receipt[q.run]
      BY <1>0, <2>1, <2>2 DEF Protected, Local, LockedStatus
    <3>5. q.op = "REGISTER" => artifact'[q.artifact] = artifact[q.artifact]
      BY <1>0, <2>1, RequestTypes DEF Protected, Disjoint
    <3> QED BY <1>0, <3>1, <3>2, <3>3, <3>4, <3>5 DEF Local, Facts, Stage
  <2>4. LockedStatus(d)'
    <3>1. /\ LocksConf(d)' <=> LocksConf(d)
          /\ LocksCall(d)' <=> LocksCall(d)
          /\ LocksRun(d)' <=> LocksRun(d)
      BY <1>0 DEF LocksConf, LocksCall, LocksRun
    <3>2. LocksConf(d) => conf'[q.run] = conf[q.run]
      BY <1>0, <2>1, <2>2 DEF Protected, Disjoint, Local, LockedStatus
    <3>3. LocksCall(d) => call'[q.run] = call[q.run]
      BY <1>0, <2>1, <2>2 DEF Protected, Disjoint, Local, LockedStatus
    <3>4. LocksRun(d) => run'[q.run] = run[q.run]
      BY <1>0, <2>1, <2>2 DEF Protected, Disjoint, Local, LockedStatus
    <3> QED BY <1>0, <3>1, <3>2, <3>3, <3>4 DEF Local, LockedStatus
  <2> QED BY <1>1, <2>3, <2>4 DEF Local
<1> QED BY <1>2, <1>3

(* The types of the rows. *)
RowTypes ==
  /\ member \subseteq Users
  /\ owner \in [Runs -> Users \cup {"NONE"}]
  /\ run \in [Runs -> RunStatuses \cup {"NONE"}]
  /\ call \in [Runs -> CallStatuses \cup {"NONE"}]
  /\ receipt \in [Runs -> Stored \cup {NoReceipt}]
  /\ conf \in [Runs -> ConfirmationStatuses \cup {"NONE"}]
  /\ artifact \in [Artifacts ->
       [kind: {"FILE"}, source: Runs, content: Stored] \cup {NoArtifact}]

(* An answer with well-formed rows. *)
LEMMA CommitTypes ==
  ASSUME TypeOK, NEW c \in Clients, NEW answer \in Replies, Finish(c, answer), RowTypes'
  PROVE  TypeOK'
<1>1. pc' \in [Clients -> {"idle", "create", "read_conf", "read_run", "read_member", "read_call",
                         "check", "update", "commit", "stored", "look_up", "insert", "recover"}]
  BY FinishTypes DEF TypeOK
<1>2. RowTypes' /\ pc' \in [Clients -> {"idle", "create", "read_conf", "read_run", "read_member",
         "read_call", "check", "update", "commit", "stored", "look_up", "insert", "recover"}]
      => (req' \in [Clients -> Requests \cup {NoRequest}] /\ done' \in [Clients -> 0..3]
          /\ seen' \in [Clients -> Seen] /\ reply' \in [Clients -> Replies] => TypeOK')
  BY DEF TypeOK, RowTypes, Seen
<1> QED BY <1>1, <1>2, FinishTypes DEF Seen

(* What a commit writes is consistent, and no row of the others. *)
LEMMA CommitIInv ==
  ASSUME IInv, TypeOK', NEW c \in Clients, NEW answer \in Replies, Finish(c, answer),
         Lifecycle!Next, Protected(c)
  PROVE  IInv'
<1>1. RowsAgree' /\ ArtifactProvenance'
  BY AgreementKept DEF IInv
<1>2. Alone(c) /\ pc'[c] = "idle" /\ req'[c] = NoRequest /\ done'[c] = 0
  BY FinishTypes DEF IInv
<1>3. ASSUME NEW d \in Clients PROVE Local(d)'
  <2>1. CASE d = c
    BY <1>2, <2>1 DEF Local, Stage, Facts, LockedStatus, LocksConf, LocksCall, LocksRun, NoRequest
  <2>2. CASE d # c
    BY <1>2, <2>2, OthersKept
  <2> QED BY <2>1, <2>2
<1>4. ASSUME NEW d \in Clients, NEW f \in Clients, d # f PROVE Disjoint(d, f)'
  <2>1. CASE d = c \/ f = c
    BY <1>2, <1>4, <2>1 DEF Disjoint, LocksConf, LocksCall, LocksRun, NoRequest
  <2>2. CASE d # c /\ f # c
    BY <1>2, <1>4, <2>2 DEF IInv, Exclusion, Disjoint, LocksConf, LocksCall, LocksRun, Alone
  <2> QED BY <2>1, <2>2
<1> QED BY <1>1, <1>3, <1>4 DEF IInv, Exclusion

(* A new run. *)
LEMMA InsertSimulates ==
  ASSUME TypeOK, RowsAgree, NEW u \in Users, NEW r \in Runs, run[r] = "NONE", InsertRun(u, r)
  PROVE  Lifecycle!CreateRun(r)
BY DEF InsertRun, Lifecycle!CreateRun

(* Nobody else creates a run with this id. *)
LEMMA InsertIInv ==
  ASSUME IInv, NEW c \in Clients, NEW q \in Requests, q.op = "CREATE", run[q.run] = "NONE",
         \A d \in Clients \ {c}: req[d].op = "CREATE" => req[d].run # q.run,
         InsertRun(q.user, q.run), Finish(c, Refusal("CREATED", q))
  PROVE  IInv' /\ Lifecycle!Next
<1>0. q.user \in Users /\ q.run \in Runs
  BY RequestTypes
<1>1. Lifecycle!CreateRun(q.run)
  BY <1>0, InsertSimulates DEF IInv
<1>2. Lifecycle!Next
  BY <1>0, <1>1 DEF Lifecycle!Next
<1>3. Refusal("CREATED", q) \in Replies
  BY ReplyTypes
<1>4. TypeOK'
  <2>1. RowTypes'
    BY <1>0 DEF IInv, TypeOK, RowTypes, InsertRun, RunStatuses, CallStatuses,
                ConfirmationStatuses
  <2> QED BY <1>3, <2>1, CommitTypes DEF IInv
<1>5. Protected(c)
  BY <1>0 DEF Protected, InsertRun, IInv, TypeOK
<1> QED BY <1>2, <1>3, <1>4, <1>5, CommitIInv

(* Approval and rejection close the confirmation they have locked. *)
LEMMA CommitDecideIInv ==
  ASSUME IInv, NEW c \in Clients, CommitDecide(c), Scoped(req[c])
  PROVE  IInv' /\ Lifecycle!Next
<1> DEFINE q == req[c]
           r == q.run
           approved == q.decision = "APPROVE"
<1>0. /\ q \in Requests /\ q.op = "DECIDE" /\ r \in Runs /\ q.decision \in {"APPROVE", "REJECT"}
      /\ done[c] = Updates(q) /\ pc[c] = "commit"
  BY OpenRequest, RequestTypes DEF CommitDecide, IInv, Local, Stage
<1>1. LocksConf(c) /\ LocksRun(c) /\ (~approved => LocksCall(c))
  BY <1>0 DEF LocksConf, LocksRun, LocksCall, Updates
<1>2. conf[r] = "PENDING" /\ run[r] = "WAITING_HUMAN" /\ call[r] = "PENDING"
  BY <1>0, <1>1, RowsOf DEF IInv, Local, LockedStatus
<1>3. /\ conf' = [conf EXCEPT ![r] = IF approved THEN "APPROVED" ELSE "REJECTED"]
      /\ run' = [run EXCEPT ![r] = IF approved THEN "RUNNING" ELSE "CANCELLED"]
      /\ call' = [call EXCEPT ![r] = IF approved THEN "PENDING" ELSE "CANCELLED"]
      /\ UNCHANGED <<member, owner, receipt, artifact>>
      /\ \E s: Finish(c, Decided(s, q))
  BY DEF CommitDecide, RollBack, Desired, NothingSeen
<1>4. approved => call' = call
  BY <1>0, <1>2, <1>3 DEF IInv, TypeOK
<1>5. Lifecycle!Next
  <2>1. CASE approved
    <3>1. Lifecycle!Approve(r)
      BY <2>1, <1>2, <1>3, <1>4 DEF Lifecycle!Approve
    <3> QED BY <3>1, <1>0 DEF Lifecycle!Next
  <2>2. CASE ~approved
    <3>1. Lifecycle!Reject(r)
      BY <2>2, <1>2, <1>3 DEF Lifecycle!Reject
    <3> QED BY <3>1, <1>0 DEF Lifecycle!Next
  <2> QED BY <2>1, <2>2
<1>6. PICK answer \in Replies: Finish(c, answer)
  BY <1>0, <1>3, ReplyTypes
<1>7. TypeOK'
  <2>1. RowTypes'
    BY <1>0, <1>3 DEF IInv, TypeOK, RowTypes, RunStatuses, CallStatuses, ConfirmationStatuses
  <2> QED BY <1>6, <2>1, CommitTypes DEF IInv
<1>8. Protected(c)
  BY <1>0, <1>1, <1>2, <1>3, <1>4 DEF Protected, IInv, TypeOK
<1> QED BY <1>5, <1>6, <1>7, <1>8, CommitIInv

(* A completion closes the ToolCall and the run it has locked. *)
LEMMA CommitCompleteIInv ==
  ASSUME IInv, NEW c \in Clients, CommitComplete(c)
  PROVE  IInv' /\ Lifecycle!Next
<1> DEFINE q == req[c]
           r == q.run
           rec == q.receipt
<1>0. /\ q \in Requests /\ q.op = "COMPLETE" /\ r \in Runs /\ rec \in Receipts
      /\ done[c] = 2 /\ pc[c] = "commit"
  BY OpenRequest, RequestTypes DEF CommitComplete, IInv, Local, Stage, Updates
<1>1. LocksCall(c) /\ LocksRun(c)
  BY <1>0 DEF LocksRun, LocksCall
<1>2. call[r] = "PENDING" /\ run[r] = "RUNNING"
  BY <1>0, <1>1 DEF IInv, Local, LockedStatus
<1>3. /\ Outcome[rec] \in {"SUCCEEDED", "FAILED"}
      /\ Tool[r] = "write_file" => conf[r] = "APPROVED"
  BY <1>0 DEF IInv, Local, Facts
<1>4. /\ call' = [call EXCEPT ![r] = Outcome[rec]]
      /\ receipt' = [receipt EXCEPT ![r] = StoredReceipt(rec)]
      /\ run' = [run EXCEPT ![r] = Outcome[rec]]
      /\ Finish(c, Completed(q, Outcome[rec]))
      /\ UNCHANGED <<member, owner, conf, artifact>>
  BY DEF CommitComplete
<1>5. Lifecycle!Next
  <2>1. Lifecycle!Complete(r, rec)
    BY <1>2, <1>3, <1>4 DEF Lifecycle!Complete, StoredReceipt
  <2> QED BY <1>0, <2>1 DEF Lifecycle!Next
<1>6. Completed(q, Outcome[rec]) \in Replies
  BY <1>0, <1>3, ReplyTypes DEF RunStatuses
<1>7. TypeOK'
  <2>1. RowTypes'
    BY <1>0, <1>3, <1>4 DEF IInv, TypeOK, RowTypes, RunStatuses, CallStatuses, StoredReceipt,
                            Stored
  <2> QED BY <1>4, <1>6, <2>1, CommitTypes DEF IInv
<1>8. Protected(c)
  BY <1>0, <1>1, <1>2, <1>3, <1>4 DEF Protected, IInv, TypeOK
<1> QED BY <1>4, <1>5, <1>6, <1>7, <1>8, CommitIInv

(* The source of a new Artifact has not changed since it was read. *)
LEMMA InsertArtifactIInv ==
  ASSUME IInv, NEW c \in Clients, InsertArtifact(c)
  PROVE  IInv' /\ (Lifecycle!Next \/ UNCHANGED rows)
<1> DEFINE q == req[c]
           r == q.run
           a == q.artifact
<1>0. /\ q \in Requests /\ q.op = "REGISTER" /\ r \in Runs /\ a \in Artifacts
      /\ pc[c] = "insert"
  BY OpenRequest, RequestTypes DEF InsertArtifact, IInv, Local, Stage
<1>1. /\ artifact[a] = NoArtifact /\ run[r] = "SUCCEEDED" /\ Tool[r] = "read_file"
      /\ seen[c].receipt = receipt[r]
  BY <1>0 DEF IInv, Local, Facts
<1>2. CASE RollBack(c, "recover")
  BY <1>0, <1>2, RollBackIInv DEF RollBack
<1>3. CASE ~RollBack(c, "recover")
  <2> DEFINE answer == [code |-> "REGISTERED", req |-> q, artifact |-> a]
  <2>1. /\ \A b \in Artifacts: ~FromRead(r, b)
        /\ artifact' = [artifact EXCEPT ![a] =
                          [kind |-> "FILE", source |-> r, content |-> receipt[r]]]
        /\ Finish(c, answer)
        /\ UNCHANGED <<member, owner, run, call, receipt, conf>>
    BY <1>1, <1>3 DEF InsertArtifact
  <2>2. Lifecycle!Next
    <3>1. Lifecycle!Register(a, r)
      BY <1>1, <2>1 DEF Lifecycle!Register, FromRead, NoArtifact, Lifecycle!NoArtifact
    <3> QED BY <1>0, <3>1 DEF Lifecycle!Next
  <2>3. answer \in Replies
    BY <1>0, ReplyTypes
  <2>4. TypeOK'
    <3>1. receipt[r] \in Stored
      BY <1>0, <1>1, RowsOf DEF IInv
    <3>2. RowTypes'
      BY <1>0, <2>1, <3>1 DEF IInv, TypeOK, RowTypes
    <3> QED BY <2>1, <2>3, <3>2, CommitTypes DEF IInv
  <2>5. Protected(c)
    BY <1>0, <2>1 DEF Protected, IInv, TypeOK
  <2> QED BY <2>1, <2>2, <2>3, <2>4, <2>5, CommitIInv
<1> QED BY <1>2, <1>3

-----------------------------------------------------------------------------
(* One lemma for the actions of each operation.                            *)

(* What every step of the detailed specification does to the life cycle. *)
Good == IInv' /\ (Lifecycle!Next \/ UNCHANGED <<run, call, receipt, conf, artifact>>)

(* POST /agent-runs *)
LEMMA CreateGood ==
  ASSUME IInv, NEW c \in Clients, NEW q \in Requests,
         CreateCatalogRun(c, q) \/ BeginCreate(c, q) \/ CreateRun(c)
  PROVE  Good
<1>1. ASSUME NEW code \in {"CREATED", "NOT_FOUND", "FORBIDDEN", "TOOL_NOT_ALLOWED", "ERROR"},
             NEW p \in Requests, Finish(c, Refusal(code, p)), UNCHANGED rows
      PROVE  Good
  BY <1>1, ReplyTypes, FinishIInv DEF Good, rows
<1>2. CASE CreateCatalogRun(c, q)
  <2>1. CASE InsertRun(q.user, q.run) /\ Finish(c, Refusal("CREATED", q))
    BY <1>2, <2>1, InsertIInv DEF CreateCatalogRun, Unused, Good
  <2> QED BY <1>1, <1>2, <2>1 DEF CreateCatalogRun
<1>3. CASE BeginCreate(c, q)
  <2>1. CASE Open(c, q, "create", NothingSeen)
    <3>1. NothingSeen \in Seen
      BY DEF NothingSeen, Seen
    <3>2. IInv'
      BY <1>3, <2>1, <3>1, OpenIInv DEF BeginCreate
    <3> QED BY <2>1, <3>2 DEF Open, rows, Good
  <2> QED BY <1>1, <1>3, <2>1 DEF BeginCreate
<1>4. CASE CreateRun(c)
  <2> DEFINE p == req[c]
  <2>0. p \in Requests /\ p.op = "CREATE" /\ run[p.run] = "NONE"
    BY <1>4, OpenRequest DEF CreateRun, IInv, Local, Stage, Facts
  <2>1. CASE InsertRun(p.user, p.run) /\ Finish(c, Refusal("CREATED", p))
    <3>1. \A d \in Clients \ {c}: req[d].op = "CREATE" => req[d].run # p.run
      BY <2>0 DEF IInv, Exclusion, Disjoint
    <3> QED BY <2>0, <2>1, <3>1, InsertIInv DEF Good
  <2> QED BY <1>1, <1>4, <2>0, <2>1 DEF CreateRun
<1> QED BY <1>2, <1>3, <1>4

(* A refusal changes nothing. *)
LEMMA RefusalGood ==
  ASSUME IInv, NEW c \in Clients, NEW q \in Requests,
         NEW code \in {"NOT_FOUND", "CONFLICT", "INVALID", "CONFIRMATION_REQUIRED",
                       "SOURCE_INVALID"},
         Finish(c, Refusal(code, q)), UNCHANGED rows
  PROVE  Good
BY ReplyTypes, FinishIInv DEF Good, rows

(* What a client has seen stays well-formed with one more row. *)
LEMMA SeenTypes ==
  ASSUME TypeOK, NEW c \in Clients, NEW r \in Runs
  PROVE  /\ seen[c] \in Seen
         /\ [NothingSeen EXCEPT !.conf = conf[r]] \in Seen
         /\ [NothingSeen EXCEPT !.run = run[r]] \in Seen
         /\ [NothingSeen EXCEPT !.call = call[r], !.receipt = receipt[r]] \in Seen
         /\ [seen[c] EXCEPT !.conf = conf[r]] \in Seen
         /\ [seen[c] EXCEPT !.run = run[r]] \in Seen
         /\ [seen[c] EXCEPT !.call = call[r]] \in Seen
         /\ [seen[c] EXCEPT !.call = call[r], !.receipt = receipt[r]] \in Seen
<1>1. NothingSeen \in Seen /\ seen[c] \in Seen
  BY DEF TypeOK, Seen, NothingSeen
<1>2. /\ conf[r] \in ConfirmationStatuses \cup {"NONE"} /\ run[r] \in RunStatuses \cup {"NONE"}
      /\ call[r] \in CallStatuses \cup {"NONE"} /\ receipt[r] \in Stored \cup {NoReceipt}
  BY DEF TypeOK
<1>3. ASSUME NEW s \in Seen
      PROVE  /\ [s EXCEPT !.conf = conf[r]] \in Seen /\ [s EXCEPT !.run = run[r]] \in Seen
             /\ [s EXCEPT !.call = call[r]] \in Seen
             /\ [s EXCEPT !.call = call[r], !.receipt = receipt[r]] \in Seen
  BY <1>2, <1>3 DEF Seen
<1> QED BY <1>1, <1>3

(* The reads of POST /human-confirmations/:id/decision *)
LEMMA DecideGood ==
  ASSUME IInv, NEW c \in Clients, NEW q \in Requests,
         BeginDecide(c, q) \/ ReadConfirmation(c) \/ ReadCall(c)
  PROVE  Good
<1> DEFINE p == req[c]
<1>1. CASE BeginDecide(c, q)
  <2>0. q.run \in Runs
    BY RequestTypes
  <2>1. CASE Open(c, q, "read_run", [NothingSeen EXCEPT !.conf = conf[q.run]])
    <3>1. IInv'
      BY <1>1, <2>0, <2>1, SeenTypes, OpenIInv DEF BeginDecide, IInv
    <3> QED BY <2>1, <3>1 DEF Open, rows, Good
  <2> QED BY <1>1, <2>1, RefusalGood DEF BeginDecide
<1>2. CASE ReadConfirmation(c)
  <2>0. p \in Requests /\ p.op = "DECIDE" /\ p.run \in Runs
    BY <1>2, OpenRequest, RequestTypes DEF ReadConfirmation, IInv, Local, Stage
  <2>1. CASE Read(c, "read_run", [seen[c] EXCEPT !.conf = conf[p.run]])
    <3>1. IInv'
      BY <1>2, <2>0, <2>1, SeenTypes, ReadIInv DEF ReadConfirmation, IInv
    <3> QED BY <2>1, <3>1 DEF Read, rows, Good
  <2> QED BY <1>2, <2>0, <2>1, RefusalGood DEF ReadConfirmation
<1>3. CASE ReadCall(c)
  <2>0. p \in Requests /\ p.op = "DECIDE" /\ p.run \in Runs
    BY <1>3, OpenRequest, RequestTypes DEF ReadCall, IInv, Local, Stage
  <2>1. CASE Read(c, "update", [seen[c] EXCEPT !.call = call[p.run]])
    <3>1. IInv'
      BY <1>3, <2>0, <2>1, SeenTypes, ReadIInv DEF ReadCall, IInv
    <3> QED BY <2>1, <3>1 DEF Read, rows, Good
  <2>2. CASE UNCHANGED rows /\ \E answer \in Replies: Finish(c, answer)
    BY <2>2, FinishIInv DEF Good, rows
  <2>3. Refusal("CONFLICT", p) \in Replies /\ \A s: Decided(s, p) \in Replies
    BY <2>0, ReplyTypes
  <2> QED BY <1>3, <2>1, <2>2, <2>3 DEF ReadCall
<1> QED BY <1>1, <1>2, <1>3

(* CommitDecide *)
LEMMA CommitDecideGood ==
  ASSUME IInv, NEW c \in Clients, CommitDecide(c)
  PROVE  Good
<1>1. CASE Scoped(req[c])
  BY <1>1, CommitDecideIInv DEF Good
<1>2. CASE ~Scoped(req[c])
  BY <1>2, RollBackIInv DEF CommitDecide, RollBack, rows, Good
<1> QED BY <1>1, <1>2

(* The second read of decide and of complete. *)
LEMMA ReadRunGood ==
  ASSUME IInv, NEW c \in Clients, ReadRun(c)
  PROVE  Good
<1> DEFINE q == req[c]
           found == [seen[c] EXCEPT !.run = run[q.run]]
<1>0. q \in Requests /\ q.op \in {"DECIDE", "COMPLETE"} /\ q.run \in Runs
  BY OpenRequest, RequestTypes DEF ReadRun, IInv, Local, Stage
<1>1. found \in Seen /\ found.run = run[q.run]
  BY <1>0, SeenTypes DEF IInv, Seen
<1>2. q.op = "COMPLETE" => run[q.run] # "NONE"
  BY DEF IInv, Local, Facts
<1>3. IInv'
  BY <1>0, <1>1, <1>2, ReadIInv DEF ReadRun
<1> QED BY <1>3 DEF ReadRun, Read, rows, Good

(* The reads of POST /tool-results *)
LEMMA CompleteGood ==
  ASSUME IInv, NEW c \in Clients, NEW q \in Requests,
         BeginComplete(c, q) \/ ReadMember(c) \/ CheckCompletion(c) \/ ReadStored(c)
  PROVE  Good
<1> DEFINE p == req[c]
<1>1. CASE BeginComplete(c, q)
  <2>0. q.run \in Runs /\ (call[q.run] # "NONE" => run[q.run] # "NONE")
    BY RequestTypes, RowsOf DEF IInv
  <2>1. CASE /\ call[q.run] # "NONE"
             /\ Open(c, q, "read_run",
                     [NothingSeen EXCEPT !.call = call[q.run], !.receipt = receipt[q.run]])
    <3>1. IInv'
      BY <1>1, <2>0, <2>1, SeenTypes, OpenIInv DEF BeginComplete, IInv
    <3> QED BY <2>1, <3>1 DEF Open, rows, Good
  <2> QED BY <1>1, <2>1, RefusalGood DEF BeginComplete
<1>2. ASSUME pc[c] \in {"read_member", "check", "stored"}
      PROVE  /\ p \in Requests /\ p.op = "COMPLETE" /\ p.run \in Runs /\ p.receipt \in Receipts
             /\ seen[c].run \in RunStatuses /\ run[p.run] \in RunStatuses /\ seen[c] \in Seen
  <2>1. p \in Requests /\ p.op = "COMPLETE" /\ p.run \in Runs /\ p.receipt \in Receipts
    BY <1>2, OpenRequest, RequestTypes DEF IInv, Local, Stage
  <2>2. seen[c].run # "NONE" /\ run[p.run] # "NONE"
    BY <1>2, <2>1 DEF IInv, Local, Facts
  <2>3. seen[c] \in Seen /\ run[p.run] \in RunStatuses \cup {"NONE"}
    BY <2>1, SeenTypes DEF IInv, TypeOK
  <2>4. seen[c].run \in RunStatuses \cup {"NONE"}
    BY <2>3 DEF Seen
  <2> QED BY <2>1, <2>2, <2>3, <2>4
<1>3. CASE ReadMember(c)
  <2>0. pc[c] = "read_member"
    BY <1>3 DEF ReadMember
  <2>1. CASE Read(c, "check", seen[c]) /\ Outcome[p.receipt] # "INVALID"
    <3>1. Outcome[p.receipt] \in {"SUCCEEDED", "FAILED"}
      BY <1>2, <2>0, <2>1, RunAssumption
    <3>2. seen[c].run # "NONE"
      BY <2>0, <1>2 DEF IInv, Local, Facts
    <3>3. IInv'
      BY <1>2, <2>0, <2>1, <3>1, <3>2, ReadIInv
    <3> QED BY <2>1, <3>3 DEF Read, rows, Good
  <2> QED BY <1>2, <1>3, <2>0, <2>1, RefusalGood DEF ReadMember
<1>4. ASSUME p \in Requests, NEW stored, NEW status \in RunStatuses
      PROVE  AnswerStored(p, stored, status) \in Replies
  <2>1. Completed(p, status) \in Replies /\ Refusal("CONFLICT", p) \in Replies
    BY <1>4, ReplyTypes
  <2> QED BY <2>1 DEF AnswerStored
<1>5. CASE CheckCompletion(c)
  <2>0. pc[c] = "check"
    BY <1>5 DEF CheckCompletion
  <2>1. CASE Read(c, "update", seen[c]) /\ (Tool[p.run] = "write_file" => conf[p.run] = "APPROVED")
    <3>1. Outcome[p.receipt] \in {"SUCCEEDED", "FAILED"} /\ seen[c].run # "NONE"
      BY <1>2, <2>0 DEF IInv, Local, Facts
    <3>2. IInv'
      BY <1>2, <2>0, <2>1, <3>1, ReadIInv
    <3> QED BY <2>1, <3>2 DEF Read, rows, Good
  <2>2. CASE UNCHANGED rows /\ \E answer \in Replies: Finish(c, answer)
    BY <2>2, FinishIInv DEF Good, rows
  <2> QED BY <1>2, <1>4, <1>5, <2>0, <2>1, <2>2, RefusalGood DEF CheckCompletion
<1>6. CASE ReadStored(c)
  BY <1>2, <1>4, <1>6, FinishIInv DEF ReadStored, Good, rows
<1> QED BY <1>1, <1>3, <1>5, <1>6

(* An update takes the lock, or finds another status and gives up. *)
LEMMA UpdateRowGood ==
  ASSUME IInv, NEW c \in Clients, UpdateRow(c)
  PROVE  Good
<1> DEFINE q == req[c]
           table == UpdateOrder(q)[done[c] + 1]
<1>0. /\ q \in Requests /\ q.op \in {"DECIDE", "COMPLETE"} /\ q.run \in Runs /\ pc[c] = "update"
      /\ done[c] \in 0..3 /\ done[c] < Updates(q)
  BY OpenRequest, RequestTypes DEF UpdateRow, IInv, Local, Stage, TypeOK
<1>1. CASE Hits(q, table)
  <2>1. IInv'
    BY <1>0, <1>1, LockIInv DEF UpdateRow
  <2> QED BY <1>1, <2>1 DEF UpdateRow, rows, Good
<1>2. CASE RollBack(c, "read_conf") /\ q.op = "DECIDE"
  <2>1. IInv'
    BY <1>0, <1>2, RollBackIInv
  <2> QED BY <1>2, <2>1 DEF RollBack, rows, Good
<1>3. CASE q.op = "COMPLETE" /\ table = "call" /\ Read(c, "stored", seen[c])
  <2>1. done[c] = 0
    BY <1>0, <1>3, Order DEF Updates
  <2>2. seen[c] \in Seen
    BY <1>0, SeenTypes DEF IInv
  <2>3. seen[c].run # "NONE" /\ Outcome[q.receipt] \in {"SUCCEEDED", "FAILED"}
    BY <1>0, <1>3 DEF IInv, Local, Facts
  <2>4. IInv'
    BY <1>0, <1>3, <2>1, <2>2, <2>3, ReadIInv
  <2> QED BY <1>3, <2>4 DEF Read, rows, Good
<1>4. CASE Finish(c, Refusal("CONFLICT", q)) /\ UNCHANGED rows
  BY <1>0, <1>4, RefusalGood
<1> QED BY <1>1, <1>2, <1>3, <1>4 DEF UpdateRow

(* The reads of POST /artifacts/from-run, and the answer of an existing Artifact. *)
LEMMA RegisterGood ==
  ASSUME IInv, NEW c \in Clients, NEW q \in Requests,
         BeginRegister(c, q) \/ ReadSource(c) \/ LookUpArtifact(c) \/ RecoverRegister(c)
  PROVE  Good
<1> DEFINE p == req[c]
<1>1. CASE BeginRegister(c, q)
  <2> DEFINE found == [NothingSeen EXCEPT !.run = run[q.run]]
  <2>0. q.run \in Runs /\ found \in Seen /\ found.run = run[q.run]
    BY RequestTypes, SeenTypes DEF IInv, NothingSeen
  <2>1. CASE Open(c, q, "read_call", found)
    <3>1. IInv'
      BY <1>1, <2>0, <2>1, OpenIInv DEF BeginRegister
    <3> QED BY <2>1, <3>1 DEF Open, rows, Good
  <2> QED BY <1>1, <2>1, RefusalGood DEF BeginRegister
<1>2. ASSUME pc[c] \in {"read_call", "look_up", "recover"}, p.op = "REGISTER"
      PROVE  p \in Requests /\ p.run \in Runs /\ p.artifact \in Artifacts /\ seen[c] \in Seen
  <2>1. p \in Requests /\ p.run \in Runs /\ p.artifact \in Artifacts
    BY <1>2, OpenRequest, RequestTypes DEF IInv, Local
  <2> QED BY <2>1, SeenTypes DEF IInv
<1>3. CASE ReadSource(c)
  <2> DEFINE found == [seen[c] EXCEPT !.call = call[p.run], !.receipt = receipt[p.run]]
  <2>0. pc[c] = "read_call" /\ p.op = "REGISTER"
    BY <1>3 DEF ReadSource
  <2>1. found \in Seen /\ found.receipt = receipt[p.run]
    BY <1>2, <2>0, SeenTypes DEF IInv, Seen
  <2>2. CASE /\ seen[c].run = "SUCCEEDED" /\ Tool[p.run] = "read_file"
             /\ Read(c, "look_up", found)
    <3>1. run[p.run] = "SUCCEEDED"
      BY <2>0, <2>2 DEF IInv, Local, Facts
    <3>2. IInv'
      BY <2>0, <2>1, <2>2, <3>1, ReadIInv
    <3> QED BY <2>2, <3>2 DEF Read, rows, Good
  <2> QED BY <1>2, <1>3, <2>0, <2>2, RefusalGood DEF ReadSource
<1>4. ASSUME p \in Requests, Existing(c) PROVE Good
  <2>1. PICK a \in Artifacts: /\ Finish(c, [code |-> "EXISTING", req |-> p, artifact |-> a])
                             /\ UNCHANGED rows
    BY <1>4 DEF Existing
  <2>2. [code |-> "EXISTING", req |-> p, artifact |-> a] \in Replies
    BY <1>4, ReplyTypes
  <2> QED BY <2>1, <2>2, FinishIInv DEF Good, rows
<1>5. CASE LookUpArtifact(c)
  <2>0. pc[c] = "look_up" /\ p.op = "REGISTER"
    BY <1>5 DEF LookUpArtifact, IInv, Local, Stage
  <2>1. CASE Read(c, "insert", seen[c])
    <3>1. /\ run[p.run] = "SUCCEEDED" /\ Tool[p.run] = "read_file"
          /\ seen[c].receipt = receipt[p.run]
      BY <2>0 DEF IInv, Local, Facts
    <3>2. IInv'
      BY <1>2, <2>0, <2>1, <3>1, ReadIInv
    <3> QED BY <2>1, <3>2 DEF Read, rows, Good
  <2> QED BY <1>2, <1>4, <1>5, <2>0, <2>1 DEF LookUpArtifact
<1>6. CASE RecoverRegister(c)
  <2>0. pc[c] = "recover" /\ p.op = "REGISTER"
    BY <1>6 DEF RecoverRegister, IInv, Local, Stage
  <2> QED BY <1>2, <1>4, <1>6, <2>0, RefusalGood DEF RecoverRegister
<1> QED BY <1>1, <1>3, <1>5, <1>6

(* A crash gives up the locks and nothing else. *)
LEMMA CrashGood ==
  ASSUME IInv, NEW c \in Clients, Crash(c)
  PROVE  Good
<1>1. NoReply \in Replies
  BY DEF Replies
<1> QED BY <1>1, FinishIInv DEF Crash, Good, rows

(* Membership is no part of the rows, and no request remembers it. *)
LEMMA RevokeGood ==
  ASSUME IInv, NEW u \in Users, RevokeMembership(u)
  PROVE  Good
<1>1. TypeOK'
  BY DEF IInv, TypeOK, RevokeMembership
<1>2. UNCHANGED <<owner, run, call, receipt, conf, artifact, pc, req, done, seen>>
  BY DEF RevokeMembership
<1>3. RowsAgree' /\ ArtifactProvenance'
  BY <1>2, AgreementKept DEF IInv
<1>4. \A c \in Clients: Local(c)'
  BY <1>2 DEF IInv, Local, Stage, Facts, LockedStatus, LocksConf, LocksCall, LocksRun
<1>5. Exclusion'
  BY <1>2 DEF IInv, Exclusion, Disjoint, LocksConf, LocksCall, LocksRun
<1> QED BY <1>1, <1>2, <1>3, <1>4, <1>5 DEF IInv, Good

(* The invariant is about nothing but the variables. *)
LEMMA IInvStutters == ASSUME IInv, UNCHANGED vars PROVE IInv'
<1> USE DEF vars
<1>1. TypeOK'
  BY DEF IInv, TypeOK
<1>2. RowsAgree' /\ ArtifactProvenance'
  BY AgreementKept DEF IInv
<1>3. \A c \in Clients: Local(c)'
  BY DEF IInv, Local, Stage, Facts, LockedStatus, LocksConf, LocksCall, LocksRun
<1>4. Exclusion'
  BY DEF IInv, Exclusion, Disjoint, LocksConf, LocksCall, LocksRun
<1> QED BY <1>1, <1>2, <1>3, <1>4 DEF IInv

-----------------------------------------------------------------------------
(* The theorems.                                                           *)

(* Before the first request nothing is locked and nothing disagrees. *)
LEMMA InitIInv == Init => IInv /\ Lifecycle!Init
<1> SUFFICES ASSUME Init PROVE IInv /\ Lifecycle!Init
  OBVIOUS
<1>1. Lifecycle!Init
  BY DEF Init, Lifecycle!Init, NoReceipt, Lifecycle!NoReceipt, NoArtifact, Lifecycle!NoArtifact
<1>2. TypeOK
  BY DEF Init, TypeOK, NothingSeen, Replies
<1>3. RowsAgree /\ ArtifactProvenance
  BY DEF Init, RowsAgree, Lifecycle!RowsAgree, ArtifactProvenance, Lifecycle!ArtifactProvenance,
         NoReceipt, Lifecycle!NoReceipt, NoArtifact, Lifecycle!NoArtifact
<1>4. \A c \in Clients: Local(c) /\ \A d \in Clients: Disjoint(c, d)
  BY IdleLocal DEF Init
<1> QED BY <1>1, <1>2, <1>3, <1>4 DEF IInv, Exclusion

(* Every statement keeps the invariant, and is an operation of the life    *)
(* cycle or changes none of its rows.                                      *)
LEMMA StepSimulates ==
  IInv /\ [Next]_vars => IInv' /\ [Lifecycle!Next]_(Lifecycle!rows)
<1> SUFFICES ASSUME IInv, [Next]_vars PROVE Good
  BY DEF Good, Lifecycle!rows
<1>1. ASSUME NEW c \in Clients, Request(c) PROVE Good
  BY <1>1, CreateGood, DecideGood, CompleteGood, RegisterGood DEF Request
<1>2. ASSUME NEW c \in Clients, Serve(c) PROVE Good
  <2>1. \E q: q \in Requests
    BY <1>2, OpenRequest
    DEF IInv, Local, Serve, CreateRun, ReadConfirmation, ReadRun, ReadCall, CommitDecide,
        ReadMember, CheckCompletion, ReadStored, CommitComplete, UpdateRow, ReadSource,
        LookUpArtifact, InsertArtifact, RecoverRegister
  <2>2. CASE InsertArtifact(c)
    BY <2>2, InsertArtifactIInv DEF Good, rows
  <2>3. CASE CommitComplete(c)
    BY <2>3, CommitCompleteIInv DEF Good
  <2> QED BY <1>2, <2>1, <2>2, <2>3, CreateGood, DecideGood, CommitDecideGood, ReadRunGood,
             CompleteGood, UpdateRowGood, RegisterGood DEF Serve
<1>3. ASSUME NEW c \in Clients, Crash(c) PROVE Good
  BY <1>3, CrashGood
<1>4. ASSUME NEW u \in Administered, RevokeMembership(u) PROVE Good
  BY <1>4, RevokeGood, RunAssumption
<1>5. CASE UNCHANGED vars
  <2>1. IInv'
    BY <1>5, IInvStutters
  <2> QED BY <1>5, <2>1 DEF vars, Good
<1> QED BY <1>1, <1>2, <1>3, <1>4, <1>5 DEF Next

(* The inductive invariant: who may be at which statement, with which      *)
(* locks, and what the rows it has read still say.                         *)
THEOREM Invariance == Spec => []IInv
<1>1. Init => IInv
  BY InitIInv
<1>2. IInv /\ [Next]_vars => IInv'
  BY StepSimulates
<1> QED BY <1>1, <1>2, PTL DEF Spec

(* Every variable has its type. *)
THEOREM TypeCorrect == Spec => []TypeOK
<1>1. IInv => TypeOK
  BY DEF IInv
<1> QED BY <1>1, Invariance, PTL

(* Run, ToolCall, confirmation and receipt agree whatever the requests     *)
(* interleave, although no transaction reads them in one snapshot.         *)
THEOREM RowsConsistent == Spec => []RowsAgree
<1>1. IInv => RowsAgree
  BY DEF IInv
<1> QED BY <1>1, Invariance, PTL

(* Every Artifact stems from one completed read and has its content.       *)
THEOREM Provenance == Spec => []ArtifactProvenance
<1>1. IInv => ArtifactProvenance
  BY DEF IInv
<1> QED BY <1>1, Invariance, PTL

(* The interleaved statements implement the operations of the life cycle,  *)
(* each of which happens at one instant.                                   *)
THEOREM Refinement == Spec => ImplementsRunLifecycle
<1>1. Init => Lifecycle!Init
  BY InitIInv
<1>2. IInv /\ [Next]_vars => [Lifecycle!Next]_(Lifecycle!rows)
  BY StepSimulates
<1> QED BY <1>1, <1>2, Invariance, PTL DEF Spec, ImplementsRunLifecycle, Lifecycle!Spec

(* decide and complete take the rows of a run in one order. *)
Rank(table) == CASE table = "conf" -> 1 [] table = "call" -> 2 [] table = "run" -> 3

LEMMA Ascending ==
  ASSUME NEW q \in Requests, q.op \in {"DECIDE", "COMPLETE"},
         NEW i \in 1..Updates(q), NEW j \in 1..Updates(q), i < j
  PROVE  /\ Rank(UpdateOrder(q)[i]) \in Nat /\ Rank(UpdateOrder(q)[j]) \in Nat
         /\ Rank(UpdateOrder(q)[i]) < Rank(UpdateOrder(q)[j])
<1>1. CASE q.op = "COMPLETE"
  <2>1. i = 1 /\ j = 2
    BY <1>1 DEF Updates
  <2> QED BY <1>1, <2>1, Order DEF Rank
<1>2. CASE q.op = "DECIDE" /\ q.decision = "APPROVE"
  <2>1. i = 1 /\ j = 2
    BY <1>2 DEF Updates
  <2> QED BY <1>2, <2>1, Order DEF Rank
<1>3. CASE q.op = "DECIDE" /\ q.decision = "REJECT"
  <2>1. i \in 1..2 /\ j \in 2..3
    BY <1>3 DEF Updates
  <2> QED BY <1>3, <2>1, Order DEF Rank
<1> QED BY <1>1, <1>2, <1>3, RequestTypes

(* The row c needs comes after the rows it holds, so whoever holds it      *)
(* needs a later one.                                                      *)
LEMMA WaitsForLater ==
  ASSUME IInv, NEW c \in Clients, NEW d \in Clients, WaitsFor(c, d), pc[d] = "update"
  PROVE  LET n(e) == Rank(UpdateOrder(req[e])[done[e] + 1])
         IN n(c) \in Nat /\ n(d) \in Nat /\ n(c) < n(d)
<1>1. /\ req[d] \in Requests /\ req[d].op \in {"DECIDE", "COMPLETE"}
      /\ done[d] \in 0..3 /\ done[d] < Updates(req[d]) /\ Updates(req[d]) \in 2..3
  BY OpenRequest DEF IInv, Local, Stage, TypeOK, Updates
<1>2. PICK i \in 1..done[d]: UpdateOrder(req[d])[i] = UpdateOrder(req[c])[done[c] + 1]
  BY DEF WaitsFor, Locked
<1>3. i \in 1..Updates(req[d]) /\ done[d] + 1 \in 1..Updates(req[d]) /\ i < done[d] + 1
  BY <1>1
<1> QED BY <1>1, <1>2, <1>3, Ascending

(* Two transactions never wait for each other, so PostgreSQL has no        *)
(* deadlock to break.                                                      *)
THEOREM NoDeadlock == Spec => []NoWaitCycle
<1>1. IInv => NoWaitCycle
  <2> SUFFICES ASSUME IInv, NEW c \in Clients, NEW d \in Clients,
                      WaitsFor(c, d), WaitsFor(d, c)
               PROVE  FALSE
    BY DEF NoWaitCycle
  <2>1. pc[c] = "update" /\ pc[d] = "update"
    BY DEF WaitsFor
  <2> DEFINE n(e) == Rank(UpdateOrder(req[e])[done[e] + 1])
  <2>2. n(c) \in Nat /\ n(d) \in Nat /\ n(c) < n(d) /\ n(d) < n(c)
    BY <2>1, WaitsForLater
  <2> QED BY <2>2
<1> QED BY <1>1, Invariance, PTL

-----------------------------------------------------------------------------
(* What no step changes.                                                   *)

(* Decisions, receipts and Artifacts are final, a finished ToolCall is     *)
(* final with its run, and a run keeps its owner.                          *)
Kept ==
  /\ \A r \in Runs: conf[r] \in {"APPROVED", "REJECTED"} => conf'[r] = conf[r]
  /\ \A r \in Runs: receipt[r] # NoReceipt => receipt'[r] = receipt[r]
  /\ \A a \in Artifacts: artifact[a] # NoArtifact => artifact'[a] = artifact[a]
  /\ \A r \in Runs: conf[r] # "NONE" => conf'[r] # "NONE"
  /\ \A r \in Runs: call[r] \notin {"NONE", "PENDING"} =>
       call'[r] = call[r] /\ run'[r] = run[r] /\ receipt'[r] = receipt[r]

OwnersKept == \A r \in Runs: run[r] # "NONE" => owner'[r] = owner[r]

(* Only a new run gets an owner. *)
LEMMA StepKeepsOwners ==
  ASSUME IInv, [Next]_vars
  PROVE  OwnersKept
<1>1. ASSUME NEW u, NEW r \in Runs, run[r] = "NONE", InsertRun(u, r) PROVE OwnersKept
  BY <1>1 DEF OwnersKept, InsertRun, IInv, TypeOK
<1>2. CASE UNCHANGED owner
  BY <1>2 DEF OwnersKept
<1>3. ASSUME NEW c \in Clients, Request(c) PROVE OwnersKept
  <2>1. PICK q \in Requests: \/ CreateCatalogRun(c, q) \/ BeginCreate(c, q)
                             \/ BeginDecide(c, q) \/ BeginComplete(c, q) \/ BeginRegister(c, q)
    BY <1>3 DEF Request
  <2>2. CASE CreateCatalogRun(c, q)
    BY <1>1, <1>2, <2>2, RequestTypes DEF CreateCatalogRun, Unused, rows
  <2>3. CASE ~CreateCatalogRun(c, q)
    BY <1>2, <2>1, <2>3 DEF BeginCreate, BeginDecide, BeginComplete, BeginRegister, Open, rows
  <2> QED BY <2>2, <2>3
<1>4. ASSUME NEW c \in Clients, Serve(c) PROVE OwnersKept
  <2>1. CASE CreateRun(c)
    <3>1. req[c] \in Requests /\ run[req[c].run] = "NONE"
      BY <2>1, OpenRequest DEF CreateRun, IInv, Local, Stage, Facts
    <3> QED BY <1>1, <1>2, <2>1, <3>1, RequestTypes DEF CreateRun, rows
  <2>2. CASE ~CreateRun(c)
    BY <1>2, <1>4, <2>2 DEF Serve, ReadConfirmation, ReadRun, ReadCall, CommitDecide, ReadMember,
       CheckCompletion, ReadStored, CommitComplete, UpdateRow, ReadSource, LookUpArtifact,
       InsertArtifact, RecoverRegister, Existing, Read, RollBack, rows
  <2> QED BY <2>1, <2>2
<1> QED BY <1>2, <1>3, <1>4 DEF Next, Crash, RevokeMembership, rows, vars

(* The other facts are facts of the life cycle. *)
LEMMA StepKeeps ==
  ASSUME IInv, [Next]_vars
  PROVE  Kept
<1>1. ASSUME Lifecycle!Next PROVE Kept
  <2>1. ASSUME NEW r \in Runs, Lifecycle!CreateRun(r) PROVE Kept
    <3>1. run[r] = "NONE" /\ call[r] = "NONE" /\ conf[r] = "NONE" /\ receipt[r] = NoReceipt
      BY <2>1, RowsOf DEF Lifecycle!CreateRun, IInv
    <3> QED BY <2>1, <3>1 DEF Kept, Lifecycle!CreateRun, IInv, TypeOK
  <2>2. ASSUME NEW r \in Runs, Lifecycle!Approve(r) \/ Lifecycle!Reject(r) PROVE Kept
    <3>1. conf[r] = "PENDING" /\ call[r] = "PENDING"
      BY <2>2, RowsOf DEF Lifecycle!Approve, Lifecycle!Reject, IInv
    <3> QED BY <2>2, <3>1 DEF Kept, Lifecycle!Approve, Lifecycle!Reject, IInv, TypeOK
  <2>3. ASSUME NEW r \in Runs, NEW rec \in Receipts, Lifecycle!Complete(r, rec) PROVE Kept
    <3>1. call[r] = "PENDING" /\ receipt[r] = NoReceipt
      BY <2>3, RowsOf DEF Lifecycle!Complete, IInv
    <3> QED BY <2>3, <3>1 DEF Kept, Lifecycle!Complete, IInv, TypeOK
  <2>4. ASSUME NEW r \in Runs, NEW a \in Artifacts, Lifecycle!Register(a, r) PROVE Kept
    BY <2>4 DEF Kept, Lifecycle!Register, Lifecycle!NoArtifact, NoArtifact, IInv, TypeOK
  <2> QED BY <1>1, <2>1, <2>2, <2>3, <2>4 DEF Lifecycle!Next
<1>2. ASSUME UNCHANGED Lifecycle!rows PROVE Kept
  BY <1>2 DEF Kept, Lifecycle!rows
<1> QED BY <1>1, <1>2, StepSimulates

(* A decision, a receipt and an Artifact are final. *)
THEOREM Final == Spec => FactsFinal
<1>1. IInv /\ [Next]_vars => [Kept]_vars
  BY StepKeeps
<1>2. Spec => [][Kept]_vars
  BY <1>1, Invariance, PTL DEF Spec
<1>3. [Kept]_vars =>
        [/\ \A r \in Runs: conf[r] \in {"APPROVED", "REJECTED"} => conf'[r] = conf[r]
         /\ \A r \in Runs: receipt[r] # NoReceipt => receipt'[r] = receipt[r]
         /\ \A a \in Artifacts: artifact[a] # NoArtifact => artifact'[a] = artifact[a]]_vars
  BY DEF Kept
<1> QED BY <1>2, <1>3, PTL DEF FactsFinal

-----------------------------------------------------------------------------
(* What answers say.                                                       *)

(* What an answer says of the rows. *)
Told(a) ==
  /\ a.code = "COMPLETED" =>
       receipt[a.req.run] = StoredReceipt(a.req.receipt) /\ run[a.req.run] = a.run
  /\ a.code = "CONFLICT" /\ a.req.op = "COMPLETE" =>
       receipt[a.req.run] \notin {NoReceipt, StoredReceipt(a.req.receipt)}
  /\ a.code = "DECIDED" => conf[a.req.run] = Desired(a.req)
  /\ a.code \in {"REGISTERED", "EXISTING"} => FromRead(a.req.run, a.artifact)

(* What decide has checked or read. *)
DecideClaims(c) ==
  req[c].op = "DECIDE" =>
    /\ conf[req[c].run] # "NONE" /\ owner[req[c].run] = req[c].user
    /\ pc[c] \in {"read_run", "read_call"} /\ seen[c].conf \in {"APPROVED", "REJECTED"} =>
         conf[req[c].run] = seen[c].conf
    /\ pc[c] \in {"update", "commit"} => req[c].run \notin Malformed

(* What complete has checked or read: a final ToolCall is read with its    *)
(* receipt, and the run that is read after it is final as well.            *)
CompleteClaims(c) ==
  req[c].op = "COMPLETE" =>
    /\ pc[c] \in {"check", "update", "commit", "stored"} =>
         owner[req[c].run] = req[c].user /\ req[c].run \notin Malformed
    /\ pc[c] \in {"read_run", "read_member", "check"} /\ seen[c].call # "PENDING" =>
         call[req[c].run] # "PENDING" /\ seen[c].receipt = receipt[req[c].run]
    /\ pc[c] \in {"read_member", "check"} /\ seen[c].call # "PENDING" =>
         seen[c].run = run[req[c].run]
    /\ pc[c] = "stored" =>
         /\ call[req[c].run] # "PENDING"
         /\ Tool[req[c].run] = "write_file" => conf[req[c].run] = "APPROVED"

(* What register has checked. *)
RegisterClaims(c) ==
  req[c].op = "REGISTER" =>
    /\ pc[c] = "read_call" /\ seen[c].run = "SUCCEEDED" => owner[req[c].run] = req[c].user
    /\ pc[c] \in {"look_up", "insert"} =>
         owner[req[c].run] = req[c].user /\ req[c].run \notin Malformed

Claims(c) == DecideClaims(c) /\ CompleteClaims(c) /\ RegisterClaims(c)

AnswersInv == (\A c \in Clients: Claims(c) /\ Told(reply[c])) /\ MalformedInert

(* Who is answered with a decision, a receipt or an Artifact, and with     *)
(* which grant.                                                            *)
Rightful(c, a) ==
  /\ a.code \in {"DECIDED", "COMPLETED", "REGISTERED", "EXISTING"} =>
       owner[a.req.run] = a.req.user
  /\ a.code = "DECIDED" /\ a.grant =>
       conf'[a.req.run] = "APPROVED" /\ run'[a.req.run] = "RUNNING" /\ call'[a.req.run] = "PENDING"

(* What is to be shown of the client that moves. *)
Kind(c) == Claims(c)' /\ Told(reply[c])' /\ (reply'[c] # reply[c] => Rightful(c, reply'[c]))

(* What has been said stays true. *)
LEMMA ToldStays ==
  ASSUME IInv, Kept, NEW a \in Replies, Told(a)
  PROVE  Told(a)'
<1>1. a.code \in {"COMPLETED", "CONFLICT", "DECIDED", "REGISTERED", "EXISTING"} =>
        a.req \in Requests /\ a.req.run \in Runs
  BY RequestTypes DEF Replies, NoReply
<1>2. ASSUME a.code = "COMPLETED" PROVE Told(a)'
  <2>1. receipt[a.req.run] = StoredReceipt(a.req.receipt) /\ run[a.req.run] = a.run
    BY <1>2 DEF Told
  <2>2. receipt[a.req.run] # NoReceipt
    BY <2>1 DEF StoredReceipt, NoReceipt
  <2>3. call[a.req.run] \notin {"NONE", "PENDING"}
    BY <1>1, <1>2, <2>2, RowsOf DEF IInv
  <2> QED BY <1>1, <1>2, <2>1, <2>3 DEF Kept, Told
<1>3. ASSUME a.code = "CONFLICT", a.req.op = "COMPLETE" PROVE Told(a)'
  BY <1>1, <1>3 DEF Kept, Told
<1>4. ASSUME a.code = "DECIDED" PROVE Told(a)'
  BY <1>1, <1>4 DEF Kept, Told, Desired
<1>5. ASSUME a.code \in {"REGISTERED", "EXISTING"} PROVE Told(a)'
  <2>1. a.artifact \in Artifacts
    BY <1>5 DEF Replies, NoReply
  <2> QED BY <1>5, <2>1 DEF Kept, Told, FromRead
<1>6. CASE /\ a.code \notin {"COMPLETED", "DECIDED", "REGISTERED", "EXISTING"}
           /\ ~(a.code = "CONFLICT" /\ a.req.op = "COMPLETE")
  BY <1>6 DEF Told
<1> QED BY <1>2, <1>3, <1>4, <1>5, <1>6

(* What a client has checked stays true while others move. *)
LEMMA ClaimsStay ==
  ASSUME IInv, Kept, OwnersKept, NEW c \in Clients, Claims(c),
         req[c] \in Requests \cup {NoRequest},
         req'[c] = req[c], seen'[c] = seen[c], pc'[c] = pc[c]
  PROVE  Claims(c)'
<1> DEFINE q == req[c]
           r == q.run
<1>1. CASE q = NoRequest
  BY <1>1 DEF Claims, DecideClaims, CompleteClaims, RegisterClaims, NoRequest
<1>2. CASE q \in Requests
  <2>0. r \in Runs /\ Local(c)
    BY <1>2, RequestTypes DEF IInv
  <2>1. DecideClaims(c)'
    <3>1. CASE q.op = "DECIDE"
      <4>1. run[r] # "NONE"
        BY <2>0, <3>1, RowsOf DEF Claims, DecideClaims, IInv
      <4> QED BY <2>0, <3>1, <4>1 DEF Claims, DecideClaims, Kept, OwnersKept
    <3> QED BY <3>1 DEF DecideClaims
  <2>2. CompleteClaims(c)'
    <3>1. CASE q.op = "COMPLETE"
      <4>1. run[r] # "NONE" /\ call[r] # "NONE"
        BY <2>0, <3>1, RowsOf DEF IInv, Local, Facts
      <4> QED BY <2>0, <3>1, <4>1 DEF Claims, CompleteClaims, Kept, OwnersKept
    <3> QED BY <3>1 DEF CompleteClaims
  <2>3. RegisterClaims(c)'
    <3>1. CASE q.op = "REGISTER"
      <4>1. /\ pc[c] = "read_call" /\ seen[c].run = "SUCCEEDED" => run[r] # "NONE"
            /\ pc[c] \in {"look_up", "insert"} => run[r] # "NONE"
        BY <2>0, <3>1 DEF Local, Facts
      <4> QED BY <2>0, <3>1, <4>1 DEF Claims, RegisterClaims, OwnersKept
    <3> QED BY <3>1 DEF RegisterClaims
  <2> QED BY <2>1, <2>2, <2>3 DEF Claims
<1> QED BY <1>1, <1>2

(* A request that is answered claims nothing, and its answer is to be     *)
(* shown true.                                                             *)
LEMMA FinishKind ==
  ASSUME IInv, NEW c \in Clients, NEW answer, Finish(c, answer), Told(answer)', Rightful(c, answer)
  PROVE  Kind(c)
<1>1. req'[c] = NoRequest /\ reply'[c] = answer
  BY DEF IInv, TypeOK, Finish
<1>2. Claims(c)'
  BY <1>1 DEF Claims, DecideClaims, CompleteClaims, RegisterClaims, NoRequest
<1>3. Told(reply[c])'
  BY <1>1 DEF Told
<1> QED BY <1>1, <1>2, <1>3 DEF Kind

(* Most refusals say nothing of the rows. *)
LEMMA RefusalKind ==
  ASSUME IInv, NEW c \in Clients, NEW q,
         NEW code \in {"CREATED", "NOT_FOUND", "FORBIDDEN", "TOOL_NOT_ALLOWED", "ERROR", "INVALID",
                       "CONFIRMATION_REQUIRED", "SOURCE_INVALID", "CONFLICT"},
         code = "CONFLICT" => q.op # "COMPLETE", Finish(c, Refusal(code, q))
  PROVE  Kind(c)
<1>1. Told(Refusal(code, q))' /\ Rightful(c, Refusal(code, q))
  BY DEF Told, Rightful, Refusal
<1> QED BY <1>1, FinishKind

(* A request that goes on has to show its claims. *)
LEMMA GoOnKind ==
  ASSUME IInv, NEW c \in Clients, Claims(c)', Kept, Told(reply[c]),
         reply'[c] \in {reply[c], NoReply}
  PROVE  Kind(c)
<1>1. Told(NoReply)' /\ Rightful(c, NoReply)
  BY DEF Told, Rightful, NoReply
<1>2. Told(reply[c])'
  <2>1. CASE reply'[c] = NoReply
    BY <1>1, <2>1 DEF Told
  <2>2. CASE reply'[c] = reply[c]
    <3>1. reply[c] \in Replies
      BY DEF IInv, TypeOK
    <3>2. ASSUME NEW a \in Replies, a = reply[c], a = reply'[c] PROVE Told(reply[c])'
      BY <3>2, ToldStays DEF Told
    <3> QED BY <2>2, <3>1, <3>2
  <2> QED BY <2>1, <2>2
<1> QED BY <1>1, <1>2 DEF Kind

(* The next statement of a request. *)
LEMMA ReadKind ==
  ASSUME IInv, NEW c \in Clients, NEW next, NEW found, Read(c, next, found), Kept,
         Told(reply[c]), Claims(c)'
  PROVE  Kind(c)
BY GoOnKind DEF Read

(* A rolled back request forgets what it has read. *)
LEMMA RollBackKind ==
  ASSUME IInv, NEW c \in Clients, NEW next, RollBack(c, next), Kept, OwnersKept, Claims(c),
         Told(reply[c]), pc[c] # "idle",
         \/ req[c].op = "DECIDE" /\ next = "read_conf"
         \/ req[c].op = "REGISTER" /\ next = "recover"
  PROVE  Kind(c)
<1>1. pc'[c] = next /\ req'[c] = req[c] /\ reply'[c] = reply[c] /\ UNCHANGED rows
  BY DEF RollBack, IInv, TypeOK
<1>2. Claims(c)'
  BY <1>1 DEF Claims, DecideClaims, CompleteClaims, RegisterClaims, rows
<1> QED BY <1>1, <1>2, GoOnKind

(* POST /agent-runs *)
LEMMA CreateKind ==
  ASSUME IInv, NEW c \in Clients, NEW q \in Requests, Kept, Told(reply[c]),
         CreateCatalogRun(c, q) \/ BeginCreate(c, q) \/ CreateRun(c)
  PROVE  Kind(c)
<1>1. CASE CreateCatalogRun(c, q)
  BY <1>1, RefusalKind DEF CreateCatalogRun
<1>2. CASE BeginCreate(c, q)
  <2>1. CASE Open(c, q, "create", NothingSeen)
    <3>1. req'[c] = q /\ reply'[c] = NoReply /\ q.op = "CREATE"
      BY <1>2, <2>1 DEF Open, BeginCreate, IInv, TypeOK
    <3>2. Claims(c)'
      BY <3>1 DEF Claims, DecideClaims, CompleteClaims, RegisterClaims
    <3> QED BY <3>1, <3>2, GoOnKind
  <2> QED BY <1>2, <2>1, RefusalKind DEF BeginCreate
<1>3. CASE CreateRun(c)
  BY <1>3, RefusalKind DEF CreateRun
<1> QED BY <1>1, <1>2, <1>3

(* Begin, read and answer of POST /human-confirmations/:id/decision *)
LEMMA DecideKind ==
  ASSUME IInv, NEW c \in Clients, NEW q \in Requests, Kept, OwnersKept,
         Claims(c), Told(reply[c]),
         BeginDecide(c, q) \/ ReadConfirmation(c) \/ ReadCall(c)
  PROVE  Kind(c)
<1> DEFINE p == req[c]
           r == p.run
<1>1. CASE BeginDecide(c, q)
  <2>1. CASE Open(c, q, "read_run", [NothingSeen EXCEPT !.conf = conf[q.run]]) /\ Scoped(q)
    <3>1. /\ req'[c] = q /\ reply'[c] = NoReply /\ q.op = "DECIDE" /\ pc'[c] = "read_run"
          /\ seen'[c].conf = conf[q.run] /\ UNCHANGED rows
      BY <1>1, <2>1 DEF Open, BeginDecide, IInv, TypeOK, NothingSeen
    <3>2. Claims(c)'
      BY <2>1, <3>1 DEF Claims, DecideClaims, CompleteClaims, RegisterClaims, Scoped, rows
    <3> QED BY <3>1, <3>2, GoOnKind
  <2> QED BY <1>1, <2>1, RefusalKind DEF BeginDecide
<1>2. CASE ReadConfirmation(c)
  <2>0. p.op = "DECIDE"
    BY <1>2 DEF ReadConfirmation, IInv, Local, Stage
  <2>1. CASE Read(c, "read_run", [seen[c] EXCEPT !.conf = conf[p.run]]) /\ Scoped(p)
    <3>1. /\ req'[c] = p /\ pc'[c] = "read_run" /\ seen'[c].conf = conf[r] /\ UNCHANGED rows
      BY <2>1 DEF Read, IInv, TypeOK
    <3>2. Claims(c)'
      BY <2>0, <2>1, <3>1 DEF Claims, DecideClaims, CompleteClaims, RegisterClaims, Scoped, rows
    <3> QED BY <2>1, <3>2, ReadKind
  <2> QED BY <1>2, <2>0, <2>1, RefusalKind DEF ReadConfirmation
<1>3. CASE ReadCall(c)
  <2> DEFINE s == [seen[c] EXCEPT !.call = call[r]]
  <2>0. /\ p \in Requests /\ p.op = "DECIDE" /\ r \in Runs /\ p.decision \in Decisions
        /\ pc[c] = "read_call" /\ s.conf = seen[c].conf /\ s.run = seen[c].run /\ s.call = call[r]
    BY <1>3, OpenRequest, RequestTypes DEF ReadCall, IInv, Local, TypeOK, Decisions
  <2>1. CASE Read(c, "update", s) /\ EligiblePending(s, r)
    <3>1. req'[c] = p /\ pc'[c] = "update" /\ UNCHANGED rows
      BY <2>1 DEF Read, IInv, TypeOK
    <3>2. Claims(c)'
      BY <2>0, <2>1, <3>1 DEF Claims, DecideClaims, CompleteClaims, RegisterClaims, rows,
                              EligiblePending
    <3> QED BY <2>1, <3>2, ReadKind
  <2>2. CASE Finish(c, Decided(s, p)) /\ s.conf = Desired(p) /\ UNCHANGED rows
    <3>1. conf[r] = Desired(p) /\ owner[r] = p.user
      BY <2>0, <2>2 DEF Claims, DecideClaims, Desired
    <3>2. s.conf = "APPROVED" /\ call[r] = "PENDING" => run[r] = "RUNNING"
      BY <2>0, <2>2, <3>1 DEF IInv, RowsAgree, Lifecycle!RowsAgree, RunAssumption
    <3>3. ASSUME NEW answer, answer = Decided(s, p) PROVE Told(answer)' /\ Rightful(c, answer)
      BY <2>0, <2>2, <3>1, <3>2, <3>3 DEF Told, Rightful, Decided, rows, Desired
    <3> QED BY <2>2, <3>3, FinishKind
  <2> QED BY <1>3, <2>0, <2>1, <2>2, RefusalKind DEF ReadCall
<1> QED BY <1>1, <1>2, <1>3

(* The commit of a decision *)
LEMMA CommitDecideKind ==
  ASSUME IInv, NEW c \in Clients, Kept, OwnersKept, Claims(c), Told(reply[c]), CommitDecide(c)
  PROVE  Kind(c)
<1> DEFINE p == req[c]
           r == p.run
           approved == p.decision = "APPROVE"
           after == [NothingSeen EXCEPT !.conf = Desired(p),
                  !.run = IF approved THEN "RUNNING" ELSE "CANCELLED",
                  !.call = IF approved THEN "PENDING" ELSE "CANCELLED"]
<1>0. /\ p \in Requests /\ p.op = "DECIDE" /\ r \in Runs /\ p.decision \in Decisions
      /\ pc[c] = "commit"
  BY OpenRequest, RequestTypes DEF CommitDecide, IInv, Local, TypeOK, Decisions
<1>1. CASE RollBack(c, "read_conf")
  BY <1>0, <1>1, RollBackKind
<1>2. CASE Scoped(p) /\ Finish(c, Decided(after, p)) /\ ~RollBack(c, "read_conf")
  <2>0. /\ after.conf = Desired(p) /\ after.run = IF approved THEN "RUNNING" ELSE "CANCELLED"
        /\ after.call = IF approved THEN "PENDING" ELSE "CANCELLED"
    BY DEF NothingSeen
  <2>1. /\ conf'[r] = after.conf /\ run'[r] = after.run /\ call'[r] = after.call
    BY <1>0, <1>2 DEF CommitDecide, IInv, TypeOK
  <2>2. owner[r] = p.user
    BY <1>2 DEF Scoped
  <2>3. ASSUME NEW answer, answer = Decided(after, p) PROVE Told(answer)' /\ Rightful(c, answer)
    BY <1>0, <2>0, <2>1, <2>2, <2>3 DEF Told, Rightful, Decided, Desired, Decisions
  <2> QED BY <1>2, <2>3, FinishKind
<1> QED BY <1>1, <1>2 DEF CommitDecide

(* include: { agentRun: true } of decide and of complete. *)
LEMMA ReadRunKind ==
  ASSUME IInv, NEW c \in Clients, Kept, Claims(c), Told(reply[c]), ReadRun(c)
  PROVE  Kind(c)
<1> DEFINE p == req[c]
           found == [seen[c] EXCEPT !.run = run[p.run]]
           next == IF p.op = "DECIDE" THEN "read_call" ELSE "read_member"
<1>1. /\ p.op \in {"DECIDE", "COMPLETE"} /\ pc[c] = "read_run" /\ Read(c, next, found)
      /\ found.run = run[p.run] /\ found.conf = seen[c].conf /\ found.call = seen[c].call
      /\ found.receipt = seen[c].receipt
  BY DEF ReadRun, IInv, Local, Stage, TypeOK
<1>2. req'[c] = p /\ pc'[c] = next /\ seen'[c] = found /\ UNCHANGED rows
  BY <1>1 DEF Read, IInv, TypeOK
<1>3. Claims(c)'
  BY <1>1, <1>2 DEF Claims, DecideClaims, CompleteClaims, RegisterClaims, rows
<1> QED BY <1>1, <1>3, ReadKind

(* A stored receipt answers a repetition with its run. *)
LEMMA StoredKind ==
  ASSUME IInv, NEW c \in Clients, NEW q \in Requests, q.op = "COMPLETE",
         owner[q.run] = q.user, call[q.run] \notin {"NONE", "PENDING"},
         Tool[q.run] = "write_file" => conf[q.run] = "APPROVED",
         Finish(c, AnswerStored(q, receipt[q.run], run[q.run])), UNCHANGED rows
  PROVE  Kind(c)
<1>1. q.run \in Runs
  BY RequestTypes
<1>2. receipt[q.run] # NoReceipt
  BY <1>1 DEF IInv, RowsAgree, Lifecycle!RowsAgree, Lifecycle!Stored, NoReceipt
<1>3. ASSUME NEW answer, answer = AnswerStored(q, receipt[q.run], run[q.run])
      PROVE  Told(answer)' /\ Rightful(c, answer)
  <2>1. CASE receipt[q.run] = StoredReceipt(q.receipt)
    BY <1>3, <2>1 DEF AnswerStored, Completed, Told, Rightful, rows
  <2>2. CASE receipt[q.run] # StoredReceipt(q.receipt)
    BY <1>2, <1>3, <2>2 DEF AnswerStored, Refusal, Told, Rightful, rows
  <2> QED BY <2>1, <2>2
<1> QED BY <1>3, FinishKind

(* POST /tool-results, but for its updates *)
LEMMA CompleteKind ==
  ASSUME IInv, NEW c \in Clients, NEW q \in Requests, Kept, Claims(c), Told(reply[c]),
         BeginComplete(c, q) \/ ReadMember(c) \/ CheckCompletion(c) \/ ReadStored(c)
  PROVE  Kind(c)
<1> DEFINE p == req[c]
           r == p.run
<1>1. CASE BeginComplete(c, q)
  <2> DEFINE found == [NothingSeen EXCEPT !.call = call[q.run], !.receipt = receipt[q.run]]
  <2>1. CASE Open(c, q, "read_run", found)
    <3>1. /\ req'[c] = q /\ reply'[c] = NoReply /\ q.op = "COMPLETE" /\ pc'[c] = "read_run"
          /\ seen'[c].call = call[q.run] /\ seen'[c].receipt = receipt[q.run] /\ UNCHANGED rows
      BY <1>1, <2>1 DEF Open, BeginComplete, IInv, TypeOK, NothingSeen
    <3>2. Claims(c)'
      BY <3>1 DEF Claims, DecideClaims, CompleteClaims, RegisterClaims, rows
    <3> QED BY <3>1, <3>2, GoOnKind
  <2> QED BY <1>1, <2>1, RefusalKind DEF BeginComplete
<1>2. ASSUME pc[c] \in {"read_member", "check", "stored"}
      PROVE  /\ p \in Requests /\ p.op = "COMPLETE" /\ r \in Runs /\ call[r] # "NONE"
  <2>1. p \in Requests /\ p.op = "COMPLETE" /\ r \in Runs
    BY <1>2, OpenRequest, RequestTypes DEF IInv, Local, Stage
  <2> QED BY <2>1, RowsOf DEF IInv, Local, Facts
<1>3. ASSUME NEW next, Read(c, next, seen[c]) PROVE
        req'[c] = p /\ pc'[c] = next /\ seen'[c] = seen[c] /\ UNCHANGED rows
  BY <1>3 DEF Read, IInv, TypeOK
<1>4. CASE ReadMember(c)
  <2>0. pc[c] = "read_member" /\ p.op = "COMPLETE"
    BY <1>2, <1>4 DEF ReadMember
  <2>1. CASE Read(c, "check", seen[c]) /\ owner[r] = p.user /\ r \notin Malformed
    <3>1. Claims(c)'
      BY <1>3, <2>0, <2>1 DEF Claims, DecideClaims, CompleteClaims, RegisterClaims, rows
    <3> QED BY <2>1, <3>1, ReadKind
  <2> QED BY <1>4, <2>0, <2>1, RefusalKind DEF ReadMember
<1>5. CASE CheckCompletion(c)
  <2>0. pc[c] = "check" /\ p.op = "COMPLETE" /\ p \in Requests /\ r \in Runs /\ call[r] # "NONE"
    BY <1>2, <1>5 DEF CheckCompletion
  <2>1. owner[r] = p.user /\ r \notin Malformed
    BY <2>0 DEF Claims, CompleteClaims
  <2>2. CASE Finish(c, Refusal("CONFIRMATION_REQUIRED", p))
    BY <2>2, RefusalKind
  <2>3. CASE /\ seen[c].call # "PENDING" /\ (Tool[r] = "write_file" => conf[r] = "APPROVED")
             /\ Finish(c, AnswerStored(p, seen[c].receipt, seen[c].run)) /\ UNCHANGED rows
    <3>1. call[r] # "PENDING" /\ seen[c].receipt = receipt[r] /\ seen[c].run = run[r]
      BY <2>0, <2>3 DEF Claims, CompleteClaims
    <3> QED BY <2>0, <2>1, <2>3, <3>1, StoredKind
  <2>4. CASE Read(c, "update", seen[c])
    <3>1. Claims(c)'
      BY <1>3, <2>0, <2>1, <2>4 DEF Claims, DecideClaims, CompleteClaims, RegisterClaims, rows
    <3> QED BY <2>4, <3>1, ReadKind
  <2> QED BY <1>5, <2>2, <2>3, <2>4 DEF CheckCompletion
<1>6. CASE ReadStored(c)
  <2>0. pc[c] = "stored" /\ p.op = "COMPLETE" /\ p \in Requests /\ r \in Runs /\ call[r] # "NONE"
    BY <1>2, <1>6 DEF ReadStored
  <2>1. /\ owner[r] = p.user /\ call[r] # "PENDING"
        /\ Tool[r] = "write_file" => conf[r] = "APPROVED"
    BY <2>0 DEF Claims, CompleteClaims
  <2> QED BY <1>6, <2>0, <2>1, StoredKind DEF ReadStored
<1> QED BY <1>1, <1>4, <1>5, <1>6

(* The commit of a completion *)
LEMMA CommitCompleteKind ==
  ASSUME IInv, NEW c \in Clients, Claims(c), CommitComplete(c)
  PROVE  Kind(c)
<1> DEFINE p == req[c]
           r == p.run
<1>0. p \in Requests /\ p.op = "COMPLETE" /\ r \in Runs /\ pc[c] = "commit"
  BY OpenRequest, RequestTypes DEF CommitComplete, IInv, Local
<1>1. owner[r] = p.user
  BY <1>0 DEF Claims, CompleteClaims
<1>2. /\ receipt'[r] = StoredReceipt(p.receipt) /\ run'[r] = Outcome[p.receipt]
      /\ Finish(c, Completed(p, Outcome[p.receipt]))
  BY <1>0 DEF CommitComplete, IInv, TypeOK
<1>3. ASSUME NEW answer, answer = Completed(p, Outcome[p.receipt])
      PROVE  Told(answer)' /\ Rightful(c, answer)
  BY <1>1, <1>2, <1>3 DEF Completed, Told, Rightful
<1> QED BY <1>2, <1>3, FinishKind

(* The updates of decide and complete: whoever has locked a ToolCall finds *)
(* its run open.                                                           *)
LEMMA UpdateRowKind ==
  ASSUME IInv, NEW c \in Clients, Kept, OwnersKept, Claims(c), Told(reply[c]), UpdateRow(c)
  PROVE  Kind(c)
<1> DEFINE q == req[c]
           table == UpdateOrder(q)[done[c] + 1]
           r == q.run
<1>0. /\ q \in Requests /\ q.op \in {"DECIDE", "COMPLETE"} /\ r \in Runs /\ pc[c] = "update"
      /\ done[c] \in 0..3 /\ done[c] < Updates(q)
  BY OpenRequest, RequestTypes DEF UpdateRow, IInv, Local, Stage, TypeOK
<1>1. CASE /\ Hits(q, table) /\ UNCHANGED <<rows, req, seen, reply>>
           /\ pc' = [pc EXCEPT ![c] =
                       IF done[c] + 1 = Len(UpdateOrder(q)) THEN "commit" ELSE "update"]
  <2>1. req'[c] = q /\ pc'[c] \in {"update", "commit"} /\ reply'[c] = reply[c]
    BY <1>1 DEF IInv, TypeOK
  <2>2. Claims(c)'
    BY <1>0, <1>1, <2>1 DEF Claims, DecideClaims, CompleteClaims, RegisterClaims, rows
  <2> QED BY <2>1, <2>2, GoOnKind
<1>2. CASE RollBack(c, "read_conf") /\ q.op = "DECIDE"
  BY <1>0, <1>2, RollBackKind
<1>3. ASSUME q.op = "COMPLETE", ~Hits(q, table)
      PROVE  /\ table = "call" /\ call[r] # "PENDING"
             /\ Tool[r] = "write_file" => conf[r] = "APPROVED"
  <2>1. Tool[r] = "write_file" => conf[r] = "APPROVED"
    BY <1>0, <1>3 DEF IInv, Local, Facts
  <2>2. CASE done[c] = 0
    <3>1. table = "call"
      BY <1>0, <1>3, <2>2, Order
    <3> QED BY <1>3, <2>1, <3>1 DEF Hits, Status, Expected
  <2>3. CASE done[c] = 1
    <3>1. table = "run"
      BY <1>0, <1>3, <2>3, Order
    <3>2. call[r] = "PENDING"
      BY <1>3, <2>3 DEF IInv, Local, LockedStatus, LocksCall
    <3>3. run[r] = "RUNNING"
      BY <1>0, <2>1, <3>2, RunAssumption DEF IInv, RowsAgree, Lifecycle!RowsAgree
    <3> QED BY <1>3, <3>1, <3>3 DEF Hits, Status, Expected
  <2> QED BY <1>0, <1>3, <2>2, <2>3 DEF Updates
<1>4. CASE q.op = "COMPLETE" /\ ~Hits(q, table) /\ Read(c, "stored", seen[c])
  <2>1. req'[c] = q /\ pc'[c] = "stored" /\ UNCHANGED rows
    BY <1>4 DEF Read, IInv, TypeOK
  <2>2. owner[r] = q.user /\ r \notin Malformed
    BY <1>0, <1>4 DEF Claims, CompleteClaims
  <2>3. Claims(c)'
    BY <1>3, <1>4, <2>1, <2>2 DEF Claims, DecideClaims, CompleteClaims, RegisterClaims, rows
  <2> QED BY <1>4, <2>3, ReadKind
<1> QED BY <1>1, <1>2, <1>3, <1>4 DEF UpdateRow

(* POST /artifacts/from-run *)
LEMMA RegisterKind ==
  ASSUME IInv, NEW c \in Clients, NEW q \in Requests, Kept, OwnersKept, Claims(c), Told(reply[c]),
         \/ BeginRegister(c, q) \/ ReadSource(c) \/ LookUpArtifact(c) \/ InsertArtifact(c)
         \/ RecoverRegister(c)
  PROVE  Kind(c)
<1> DEFINE p == req[c]
           r == p.run
<1>1. CASE BeginRegister(c, q)
  <2>1. CASE Open(c, q, "read_call", [NothingSeen EXCEPT !.run = run[q.run]]) /\ Owned(q)
    <3>1. /\ req'[c] = q /\ reply'[c] = NoReply /\ q.op = "REGISTER" /\ pc'[c] = "read_call"
          /\ UNCHANGED rows /\ owner[q.run] = q.user
      BY <1>1, <2>1 DEF Open, BeginRegister, IInv, TypeOK, Owned
    <3>2. Claims(c)'
      BY <3>1 DEF Claims, DecideClaims, CompleteClaims, RegisterClaims, rows
    <3> QED BY <3>1, <3>2, GoOnKind
  <2> QED BY <1>1, <2>1, RefusalKind DEF BeginRegister
<1>2. CASE ReadSource(c)
  <2> DEFINE found == [seen[c] EXCEPT !.call = call[r], !.receipt = receipt[r]]
  <2>0. pc[c] = "read_call" /\ p.op = "REGISTER"
    BY <1>2 DEF ReadSource
  <2>1. CASE Read(c, "look_up", found) /\ seen[c].run = "SUCCEEDED" /\ r \notin Malformed
    <3>1. req'[c] = p /\ pc'[c] = "look_up" /\ UNCHANGED rows
      BY <2>1 DEF Read, IInv, TypeOK
    <3>2. Claims(c)'
      BY <2>0, <2>1, <3>1 DEF Claims, DecideClaims, CompleteClaims, RegisterClaims, rows
    <3> QED BY <2>1, <3>2, ReadKind
  <2> QED BY <1>2, <2>0, <2>1, RefusalKind DEF ReadSource
<1>3. ASSUME Existing(c), owner[r] = p.user PROVE Kind(c)
  <2>1. PICK a \in Artifacts: /\ FromRead(r, a) /\ UNCHANGED rows
                             /\ Finish(c, [code |-> "EXISTING", req |-> p, artifact |-> a])
    BY <1>3 DEF Existing
  <2>2. ASSUME NEW answer, answer = [code |-> "EXISTING", req |-> p, artifact |-> a]
        PROVE  Told(answer)' /\ Rightful(c, answer)
    BY <1>3, <2>1, <2>2 DEF Told, Rightful, FromRead, rows
  <2> QED BY <2>1, <2>2, FinishKind
<1>4. ASSUME pc[c] \in {"look_up", "insert"}
      PROVE  p.op = "REGISTER" /\ owner[r] = p.user /\ r \notin Malformed
  BY <1>4 DEF IInv, Local, Stage, Claims, RegisterClaims
<1>5. CASE LookUpArtifact(c)
  <2>0. pc[c] = "look_up"
    BY <1>5 DEF LookUpArtifact
  <2>1. CASE Read(c, "insert", seen[c])
    <3>1. req'[c] = p /\ pc'[c] = "insert" /\ UNCHANGED rows
      BY <2>1 DEF Read, IInv, TypeOK
    <3>2. Claims(c)'
      BY <1>4, <2>0, <3>1 DEF Claims, DecideClaims, CompleteClaims, RegisterClaims, rows
    <3> QED BY <2>1, <3>2, ReadKind
  <2> QED BY <1>3, <1>4, <1>5, <2>0, <2>1 DEF LookUpArtifact
<1>6. CASE InsertArtifact(c)
  <2>0. pc[c] = "insert" /\ p \in Requests /\ p.op = "REGISTER" /\ p.artifact \in Artifacts
    BY <1>4, <1>6, OpenRequest, RequestTypes DEF InsertArtifact, IInv, Local
  <2>1. CASE RollBack(c, "recover")
    BY <2>0, <2>1, RollBackKind
  <2> DEFINE row == [kind |-> "FILE", source |-> r, content |-> seen[c].receipt]
  <2>2. CASE /\ artifact' = [artifact EXCEPT ![p.artifact] = row] /\ UNCHANGED owner
             /\ Finish(c, [code |-> "REGISTERED", req |-> p, artifact |-> p.artifact])
    <3>1. artifact'[p.artifact] = row
      BY <2>0, <2>2 DEF IInv, TypeOK
    <3>2. row # NoArtifact
      BY DEF NoArtifact
    <3>3. ASSUME NEW answer, answer = [code |-> "REGISTERED", req |-> p, artifact |-> p.artifact]
          PROVE  Told(answer)' /\ Rightful(c, answer)
      BY <1>4, <2>0, <3>1, <3>2, <3>3 DEF Told, Rightful, FromRead, NoArtifact
    <3> QED BY <2>2, <3>3, FinishKind
  <2> QED BY <1>6, <2>1, <2>2 DEF InsertArtifact
<1>7. CASE RecoverRegister(c)
  <2>1. p.op = "REGISTER"
    BY <1>7 DEF RecoverRegister, IInv, Local, Stage
  <2> QED BY <1>3, <1>7, <2>1, RefusalKind DEF RecoverRegister, Owned
<1> QED BY <1>1, <1>2, <1>5, <1>6, <1>7

(* A run whose request is not valid gets nowhere. *)
LEMMA NextInert ==
  ASSUME IInv, \A c \in Clients: Claims(c), MalformedInert, [Next]_vars
  PROVE  MalformedInert'
<1>1. CASE UNCHANGED <<receipt, conf, artifact>>
  BY <1>1 DEF MalformedInert, FromRead
<1>2. ASSUME NEW u, NEW r \in Runs, InsertRun(u, r) PROVE MalformedInert'
  BY <1>2 DEF MalformedInert, FromRead, InsertRun, IInv, TypeOK
<1>3. ASSUME NEW c \in Clients, NEW q \in Requests,
             \/ CreateCatalogRun(c, q) \/ BeginCreate(c, q)
             \/ BeginDecide(c, q) \/ BeginComplete(c, q) \/ BeginRegister(c, q)
      PROVE  MalformedInert'
  BY <1>1, <1>2, <1>3, RequestTypes DEF CreateCatalogRun, BeginCreate, BeginDecide, BeginComplete,
     BeginRegister, Open, rows
<1>4. ASSUME NEW c \in Clients, CreateRun(c) PROVE MalformedInert'
  <2>1. req[c] \in Requests
    BY <1>4, OpenRequest DEF CreateRun, IInv, Local
  <2> QED BY <1>1, <1>2, <1>4, <2>1, RequestTypes DEF CreateRun, rows
<1>5. ASSUME NEW c \in Clients, pc[c] \in {"commit", "insert"}
      PROVE  req[c].op \in {"DECIDE", "COMPLETE", "REGISTER"} /\ req[c].run \notin Malformed
  BY <1>5 DEF IInv, Local, Stage, Claims, DecideClaims, CompleteClaims, RegisterClaims
<1>6. ASSUME NEW c \in Clients, CommitDecide(c) PROVE MalformedInert'
  <2>1. CASE UNCHANGED <<conf, receipt, artifact>>
    BY <1>1, <2>1
  <2>2. CASE /\ UNCHANGED <<receipt, artifact>>
             /\ \E status: conf' = [conf EXCEPT ![req[c].run] = status]
    <3>1. \A r \in Malformed: conf'[r] = conf[r]
      BY <1>5, <1>6, <2>2, RunAssumption DEF CommitDecide, IInv, TypeOK
    <3> QED BY <2>2, <3>1 DEF MalformedInert, FromRead
  <2> QED BY <1>6, <2>1, <2>2 DEF CommitDecide, RollBack, rows
<1>7. ASSUME NEW c \in Clients, CommitComplete(c) PROVE MalformedInert'
  BY <1>5, <1>7 DEF CommitComplete, MalformedInert, FromRead, IInv, TypeOK
<1>8. ASSUME NEW c \in Clients, InsertArtifact(c) PROVE MalformedInert'
  BY <1>1, <1>5, <1>8 DEF InsertArtifact, RollBack, rows, MalformedInert, FromRead, IInv, TypeOK
<1>9. ASSUME NEW c \in Clients,
             \/ ReadConfirmation(c) \/ ReadRun(c) \/ ReadCall(c)
             \/ ReadMember(c) \/ CheckCompletion(c) \/ ReadStored(c)
             \/ UpdateRow(c) \/ ReadSource(c) \/ LookUpArtifact(c) \/ RecoverRegister(c)
      PROVE  UNCHANGED rows
  BY <1>9 DEF ReadConfirmation, ReadRun, ReadCall, ReadMember, CheckCompletion, ReadStored,
     UpdateRow, ReadSource, LookUpArtifact, RecoverRegister, Existing, Read, RollBack, rows
<1>10. ASSUME NEW c \in Clients, Serve(c) PROVE MalformedInert'
  BY <1>1, <1>4, <1>6, <1>7, <1>8, <1>9, <1>10 DEF Serve, rows
<1>11. ASSUME NEW c \in Clients, Request(c) PROVE MalformedInert'
  BY <1>3, <1>11 DEF Request
<1> QED BY <1>1, <1>10, <1>11 DEF Next, Crash, RevokeMembership, rows, vars

(* A client that does not move is not answered. *)
LEMMA StayKind ==
  ASSUME IInv, NEW c \in Clients, Kept, OwnersKept, Claims(c), Told(reply[c]),
         req'[c] = req[c], seen'[c] = seen[c], pc'[c] = pc[c], reply'[c] = reply[c]
  PROVE  Kind(c)
<1>1. req[c] \in Requests \cup {NoRequest}
  BY DEF IInv, TypeOK
<1>2. Claims(c)'
  BY <1>1, ClaimsStay
<1> QED BY <1>2, GoOnKind

(* A step of one client leaves the others where they are. *)
LEMMA OthersStay ==
  ASSUME IInv, NEW c \in Clients, NEW d \in Clients, c # d, Request(c) \/ Serve(c) \/ Crash(c)
  PROVE  req'[d] = req[d] /\ seen'[d] = seen[d] /\ pc'[d] = pc[d] /\ reply'[d] = reply[d]
<1> DEFINE Same == req'[d] = req[d] /\ seen'[d] = seen[d] /\ pc'[d] = pc[d] /\ reply'[d] = reply[d]
<1>1. ASSUME NEW answer, Finish(c, answer) PROVE Same
  BY <1>1 DEF Finish, IInv, TypeOK
<1>2. ASSUME NEW q, NEW next, NEW found, Open(c, q, next, found) PROVE Same
  BY <1>2 DEF Open, IInv, TypeOK
<1>3. ASSUME NEW next, NEW found, Read(c, next, found) PROVE Same
  BY <1>3 DEF Read, IInv, TypeOK
<1>4. ASSUME NEW next, RollBack(c, next) PROVE Same
  BY <1>4 DEF RollBack, IInv, TypeOK
<1>5. CASE Request(c)
  BY <1>1, <1>2, <1>5 DEF Request, CreateCatalogRun, BeginCreate, BeginDecide, BeginComplete,
     BeginRegister
<1>6. CASE Serve(c)
  <2>1. CASE CreateRun(c) \/ ReadConfirmation(c) \/ ReadRun(c) \/ ReadCall(c) \/ CommitDecide(c)
    BY <1>1, <1>3, <1>4, <2>1 DEF CreateRun, ReadConfirmation, ReadRun, ReadCall, CommitDecide
  <2>2. CASE ReadMember(c) \/ CheckCompletion(c) \/ ReadStored(c) \/ CommitComplete(c)
    BY <1>1, <1>3, <2>2 DEF ReadMember, CheckCompletion, ReadStored, CommitComplete
  <2>3. CASE UpdateRow(c)
    <3>1. CASE pc' = [pc EXCEPT ![c] = pc'[c]] /\ UNCHANGED <<req, seen, reply>>
      BY <3>1 DEF IInv, TypeOK
    <3> QED BY <1>1, <1>3, <1>4, <2>3, <3>1 DEF UpdateRow, IInv, TypeOK
  <2>4. CASE ReadSource(c) \/ LookUpArtifact(c) \/ InsertArtifact(c) \/ RecoverRegister(c)
    BY <1>1, <1>3, <1>4, <2>4 DEF ReadSource, LookUpArtifact, InsertArtifact, RecoverRegister,
       Existing
  <2> QED BY <1>6, <2>1, <2>2, <2>3, <2>4 DEF Serve
<1>7. CASE Crash(c)
  BY <1>1, <1>7 DEF Crash
<1> QED BY <1>5, <1>6, <1>7

(* Every step: what was claimed and said stays true, what is answered is. *)
LEMMA NextKind ==
  ASSUME IInv, AnswersInv, [Next]_vars
  PROVE  \A c \in Clients: Kind(c)
<1>1. Kept /\ OwnersKept
  BY StepKeeps, StepKeepsOwners
<1>2. ASSUME NEW c \in Clients PROVE Claims(c) /\ Told(reply[c])
  BY DEF AnswersInv
<1>3. ASSUME NEW c \in Clients, Request(c) PROVE Kind(c)
  BY <1>1, <1>2, <1>3, CreateKind, DecideKind, CompleteKind, RegisterKind DEF Request
<1>4. ASSUME NEW c \in Clients, Serve(c) PROVE Kind(c)
  <2>1. \E q: q \in Requests
    BY <1>4, OpenRequest
    DEF IInv, Local, Serve, CreateRun, ReadConfirmation, ReadRun, ReadCall, CommitDecide,
        ReadMember, CheckCompletion, ReadStored, CommitComplete, UpdateRow, ReadSource,
        LookUpArtifact, InsertArtifact, RecoverRegister
  <2> QED BY <1>1, <1>2, <1>4, <2>1, CreateKind, DecideKind, CommitDecideKind, ReadRunKind,
             CompleteKind, CommitCompleteKind, UpdateRowKind, RegisterKind DEF Serve
<1>5. ASSUME NEW c \in Clients, Crash(c) PROVE Kind(c)
  <2>1. Told(NoReply)' /\ Rightful(c, NoReply)
    BY DEF Told, Rightful, NoReply
  <2> QED BY <1>5, <2>1, FinishKind DEF Crash
<1>6. ASSUME NEW c \in Clients, Request(c) \/ Serve(c) \/ Crash(c) PROVE \A d \in Clients: Kind(d)
  <2>1. ASSUME NEW d \in Clients, d # c PROVE Kind(d)
    BY <1>1, <1>2, <1>6, <2>1, OthersStay, StayKind
  <2> QED BY <1>3, <1>4, <1>5, <1>6, <2>1
<1>7. CASE (\E u \in Administered: RevokeMembership(u)) \/ UNCHANGED vars
  <2>1. UNCHANGED <<req, seen, pc, reply>>
    BY <1>7 DEF RevokeMembership, vars
  <2> QED BY <1>1, <1>2, <2>1, StayKind
<1> QED BY <1>6, <1>7 DEF Next

(* The answers are true, grants and answers go to the owner of an open     *)
(* run, and an invalid write starts nothing.                               *)
THEOREM AnswersAreTrue == Spec => RunsHold
<1>1. Init => AnswersInv
  <2> SUFFICES ASSUME Init PROVE AnswersInv
    OBVIOUS
  <2>1. \A c \in Clients: Claims(c) /\ Told(reply[c])
    BY DEF Init, Claims, DecideClaims, CompleteClaims, RegisterClaims, Told, NoRequest, NoReply
  <2>2. MalformedInert
    BY RunAssumption DEF Init, MalformedInert, FromRead
  <2> QED BY <2>1, <2>2 DEF AnswersInv
<1>2. IInv /\ AnswersInv /\ [Next]_vars => AnswersInv'
  BY NextKind, NextInert DEF AnswersInv, Kind
<1>3. Spec => []AnswersInv
  BY <1>1, <1>2, Invariance, PTL DEF Spec
<1>4. IInv /\ AnswersInv => TypeOK /\ AnswersTrue /\ MalformedInert
  BY DEF IInv, AnswersInv, Told, AnswersTrue
<1> DEFINE Granted ==
      \A c \in Clients:
        reply'[c] # reply[c] /\ reply'[c].code = "DECIDED" /\ reply'[c].grant =>
          LET q == reply'[c].req
          IN /\ conf'[q.run] = "APPROVED" /\ run'[q.run] = "RUNNING"
             /\ call'[q.run] = "PENDING" /\ owner[q.run] = q.user
    Owner ==
      \A c \in Clients:
        reply'[c] # reply[c]
          /\ reply'[c].code \in {"DECIDED", "COMPLETED", "REGISTERED", "EXISTING"} =>
          owner[reply'[c].req.run] = reply'[c].req.user
<1>5. IInv /\ AnswersInv /\ [Next]_vars => [Granted]_vars /\ [Owner]_vars
  BY NextKind DEF Kind, Rightful
<1> HIDE DEF Granted, Owner
<1>6. Spec => [](TypeOK /\ AnswersTrue /\ MalformedInert) /\ [][Granted]_vars /\ [][Owner]_vars
  BY <1>3, <1>4, <1>5, Invariance, PTL DEF Spec
<1> QED BY <1>6 DEF RunsHold, GrantsOpenRun, OnlyOwnerActs, Granted, Owner
===============================================================================
