--------------------------- MODULE ModelInvocation ----------------------------
(***************************************************************************)
(* Asking a model about a task: ModelRuntimeService.create and             *)
(* ModelInvocationRepository.                                              *)
(*                                                                         *)
(* Requests that carry an idempotency key reserve a MODEL run in one       *)
(* transaction, ask the provider outside of any, read tools in             *)
(* transactions of their own, and record the outcome in a last one.  The   *)
(* requests overlap, the user's authorization may be withdrawn or given    *)
(* back between any two steps, transactions fail, and the API may stop.    *)
(* Each answer of the provider is tool calls, a text or an error.          *)
(***************************************************************************)
EXTENDS Naturals, Sequences, Functions

CONSTANTS
  Requests,
  Keys, Key,            \* the (user, Idempotency-Key) of each request
  Fingerprint,                \* its requestFingerprint
  CallIds,              \* identities that the provider gives to tool calls
  Batches,              \* lists of call ids that one provider answer may hold
  Withdrawn,            \* whether the authorization may change
  DbFails,              \* whether a transaction may fail
  Crashes

MaxTools == 4
MaxSteps == 5

VARIABLES
  authorized,   \* authorizeModelRun: membership, assignment, permission...
  run,          \* ModelInvocation and its AgentRun, by key
  rows,         \* AgentToolCall: the call ids that exist
  request,      \* the state of each HTTP request
  asked         \* for the properties: who has asked the provider, by key

vars == <<authorized, run, rows, request, asked>>

Terminal == {"COMPLETED", "FAILED"}
Ended == {"replied", "dead"}
NoRun == [status |-> "NONE", print |-> "none", calls |-> <<>>]

TypeOK ==
  /\ authorized \in BOOLEAN
  /\ \A k \in Keys:
       /\ run[k].status \in {"NONE", "RUNNING"} \cup Terminal
       /\ run[k].calls \in Seq(CallIds)
       /\ run[k].status = "NONE" => run[k] = NoRun
  /\ rows = UNION {Range(run[k].calls): k \in Keys}
  /\ \A r \in Requests:
       /\ request[r].at \in {"begin", "insert", "recover", "generate", "tools", "complete", "fail"} \cup Ended
       /\ {request[r].steps, request[r].tools} \subseteq Nat
       /\ request[r].left \in Seq(CallIds)
       /\ request[r].reply \in {"none", "RUNNING", "CONFLICT", "REFUSED", "ERROR"} \cup Terminal
  /\ asked \in [Keys -> SUBSET Requests]

Init ==
  /\ authorized = TRUE
  /\ run = [k \in Keys |-> NoRun]
  /\ rows = {}
  /\ request = [r \in Requests |-> [at |-> "begin", steps |-> 0, tools |-> 0, left |-> <<>>, reply |-> "none"]]
  /\ asked = [k \in Keys |-> {}]

Mine(r) == run[Key[r]]

Go(r, from, to) == request[r].at = from /\ request' = [request EXCEPT ![r].at = to]

Reply(r, reply) == request' = [request EXCEPT ![r].at = "replied", ![r].reply = reply, ![r].left = <<>>]

-----------------------------------------------------------------------------
(* beginForTask *)

(* An invocation with this key exists: its disposition, or a conflict. *)
Existing(r) == Reply(r, IF Mine(r).print = Fingerprint[r] THEN Mine(r).status ELSE "CONFLICT")

(* beginInTransaction reads in its snapshot... *)
Begin(r) ==
  /\ request[r].at = "begin"
  /\ \/ ~authorized /\ Reply(r, "REFUSED")
     \/ authorized /\ Mine(r) # NoRun /\ Existing(r)
     \/ authorized /\ Mine(r) = NoRun /\ Go(r, "begin", "insert")
  /\ UNCHANGED <<authorized, run, rows, asked>>

(* Mutant: the fingerprint is stored for a run that is already there. *)
InsertBare(r) ==
  /\ Go(r, "insert", "recover")
  /\ run' = [run EXCEPT ![Key[r]].print = Fingerprint[r]]
  /\ UNCHANGED <<authorized, rows, asked>>

(* Mutant: whoever loses the race goes on as if it had created the run. *)
InsertOrJoin(r) ==
  /\ Go(r, "insert", "generate")
  /\ run' = [run EXCEPT ![Key[r]] = IF @ = NoRun THEN [@ EXCEPT !.status = "RUNNING", !.print = Fingerprint[r]] ELSE @]
  /\ UNCHANGED <<authorized, rows, asked>>

(* ...and inserts; the unique key stops all but one of concurrent requests. *)
Insert(r) ==
  /\ \/ /\ Mine(r) = NoRun
        /\ Go(r, "insert", "generate")
        /\ run' = [run EXCEPT ![Key[r]].status = "RUNNING", ![Key[r]].print = Fingerprint[r]]
     \/ /\ Mine(r) # NoRun
        /\ Go(r, "insert", "recover")
        /\ UNCHANGED run
  /\ UNCHANGED <<authorized, rows, asked>>

(* Mutant: the fingerprint is not compared. *)
RecoverAny(r) ==
  /\ request[r].at = "recover"
  /\ Reply(r, Mine(r).status)
  /\ UNCHANGED <<authorized, run, rows, asked>>

Recover(r) ==
  /\ request[r].at = "recover"
  /\ IF authorized THEN Existing(r) ELSE Reply(r, "REFUSED")
  /\ UNCHANGED <<authorized, run, rows, asked>>

-----------------------------------------------------------------------------
(* create: the provider loop *)

(* Mutant: only the calls of this answer are counted. *)
TooManyHere(r, batch) == Len(batch) > MaxTools

TooMany(r, batch) == Len(batch) + request[r].tools > MaxTools

(* A text, an error, or tool calls.  The limit of steps never bites: every *)
(* step that goes on has used up one of four calls (WithinLimits).         *)
Generate(r) ==
  /\ request[r].at = "generate"
  /\ IF request[r].steps = MaxSteps
     THEN Go(r, "generate", "fail") /\ UNCHANGED asked
     ELSE /\ asked' = [asked EXCEPT ![Key[r]] = @ \cup {r}]
          /\ \/ Go(r, "generate", "complete")
             \/ Go(r, "generate", "fail")
             \/ \E batch \in Batches:
                  IF TooMany(r, batch) \/ batch = <<>> \/ ~IsInjective(batch)
                  THEN Go(r, "generate", "fail")
                  ELSE request' = [request EXCEPT ![r].at = "tools", ![r].left = batch, ![r].steps = @ + 1]
  /\ UNCHANGED <<authorized, run, rows>>

(* executeReadTool: authorized now, still running, and the row is new. *)
Executable(r, id) == authorized /\ Mine(r).status = "RUNNING" /\ id \notin rows

(* Mutant: a call that cannot be executed is skipped. *)
ToolsSkipped(r) ==
  /\ request[r].at = "tools"
  /\ LET id == Head(request[r].left) IN
       /\ run' = [run EXCEPT ![Key[r]].calls = Append(@, id)]
       /\ rows' = rows \cup {id}
       /\ request' = [request EXCEPT ![r].tools = @ + 1, ![r].left = Tail(@),
                                     ![r].at = IF Len(request[r].left) = 1 THEN "generate" ELSE "tools"]
  /\ UNCHANGED <<authorized, asked>>

(* One call after the other, in order; the first that fails ends the run. *)
Tools(r) ==
  /\ request[r].at = "tools"
  /\ LET id == Head(request[r].left) IN
       \/ /\ Executable(r, id)
          /\ run' = [run EXCEPT ![Key[r]].calls = Append(@, id)]
          /\ rows' = rows \cup {id}
          /\ request' = [request EXCEPT ![r].tools = @ + 1, ![r].left = Tail(@),
                                        ![r].at = IF Len(request[r].left) = 1 THEN "generate" ELSE "tools"]
       \/ /\ Executable(r, id) => DbFails
          /\ request' = [request EXCEPT ![r].at = "fail", ![r].left = <<>>]
          /\ UNCHANGED <<run, rows>>
  /\ UNCHANGED <<authorized, asked>>

(* finalize: RUNNING becomes terminal; if the transaction fails, the       *)
(* provider is not asked again and the run stays RUNNING.                  *)
Finalize(r, from, status) ==
  /\ request[r].at = from
  /\ \/ /\ Mine(r).status = "RUNNING"
        /\ run' = [run EXCEPT ![Key[r]].status = status]
        /\ Reply(r, status)
     \/ /\ Mine(r).status = "RUNNING" => DbFails
        /\ Reply(r, "ERROR")
        /\ UNCHANGED run
  /\ UNCHANGED <<authorized, rows, asked>>

Complete(r) == Finalize(r, "complete", "COMPLETED")

(* Mutant: the failure is answered but not recorded. *)
FailReplyOnly(r) ==
  /\ request[r].at = "fail"
  /\ Reply(r, "ERROR")
  /\ UNCHANGED <<authorized, run, rows, asked>>

Fail(r) == Finalize(r, "fail", "FAILED")

-----------------------------------------------------------------------------
Authorize ==
  /\ Withdrawn
  /\ authorized' = ~authorized
  /\ UNCHANGED <<run, rows, request, asked>>

(* The API stops: nothing takes up what its requests had begun. *)
Crash ==
  /\ Crashes
  /\ \E r \in Requests: request[r].at \notin Ended \cup {"begin"}
  /\ request' = [r \in Requests |->
       IF request[r].at \in Ended \cup {"begin"} THEN request[r] ELSE [request[r] EXCEPT !.at = "dead", !.left = <<>>]]
  /\ UNCHANGED <<authorized, run, rows, asked>>

Progress(r) ==
  Begin(r) \/ Insert(r) \/ Recover(r) \/ Generate(r) \/ Tools(r) \/ Complete(r) \/ Fail(r)

Next == (\E r \in Requests: Progress(r)) \/ Authorize \/ Crash

Spec == Init /\ [][Next]_vars

(* Node runs every request on, and the provider answers or times out. *)
Fairness == \A r \in Requests: WF_vars(Progress(r))

-----------------------------------------------------------------------------
(* For one key the provider is asked by one request only, although         *)
(* requests overlap, are repeated and fail half-way (ADR-030: "prevents a  *)
(* replay from issuing a second provider request").                        *)
OneAsker == \A k \in Keys: \A r, q \in asked[k]: r = q

(* A reply tells what is recorded for the request's own fingerprint: no    *)
(* later step takes a COMPLETED or FAILED that somebody was told back.     *)
RepliesStand ==
  \A r \in Requests: request[r].reply \in Terminal => Mine(r).status = request[r].reply /\ Mine(r).print = Fingerprint[r]

(* The calls of a run are recorded without a gap while it is RUNNING and   *)
(* authorized, each id once, and a run that has ended gets no more.        *)
CallsInRun ==
  [][\A k \in Keys: run'[k].calls # run[k].calls =>
       /\ authorized /\ run[k].status = "RUNNING"
       /\ Len(run'[k].calls) = Len(run[k].calls) + 1
       /\ IsInjective(run'[k].calls)]_vars

(* A run has at most four calls, counted over all its steps, and so the    *)
(* provider is asked five times at most, whatever it answers.              *)
WithinLimits ==
  /\ \A k \in Keys: Len(run[k].calls) <= MaxTools
  /\ \A r \in Requests: request[r].steps < MaxSteps

(* Every run that was begun ends. *)
EveryRunEnds == \A k \in Keys: run[k].status = "RUNNING" ~> run[k].status \in Terminal

(* Call ids identify the calls of one run (@@unique agentRunId and         *)
(* providerCallId): a run fails for an id only if the run has used it.     *)
CallIdsPerRun ==
  [][\A r \in Requests:
       request[r].at = "tools" /\ request'[r].at = "fail"
         => ~authorized \/ Head(request[r].left) \in Range(Mine(r).calls)]_vars
===============================================================================
