-------------------------- MODULE ModelResponsePanel --------------------------
(***************************************************************************)
(* The panel that asks an agent for a suggestion: one idempotency key per  *)
(* attempt, retries after uncertain failures, and the history of the task. *)
(* An invocation is named by its key.  A request may fail before or after  *)
(* it reached the API, which answers a repeated key with what it has.      *)
(***************************************************************************)
EXTENDS Naturals, FiniteSets

CONSTANTS
  Tasks,
  Calls,         \* bound: calls that are open at a time
  MaxKeys,       \* bound: attempts
  MaxSwitches,   \* bound: selections of another task
  MaxClicks      \* bound: retries, refreshes and changes of the prompt or agent

VARIABLES
  task,          \* the prop, and taskIdRef
  attempt,       \* attemptRef: its key, or 0
  view,          \* busy, loading, error, and the invocations shown (items)
  invocations,   \* invocations of the API, by key: their task and status
  call,          \* open calls
  keys, switches, clicks

vars == <<task, attempt, view, invocations, call, keys, switches, clicks>>

Keys == 1..MaxKeys
NoCall == [op |-> "none", task |-> "none", key |-> 0, answer |-> "none", items |-> {}]
Fresh == [busy |-> FALSE, loading |-> TRUE, error |-> FALSE, items |-> {}]

TypeOK ==
  /\ task \in Tasks /\ attempt \in 0..MaxKeys
  /\ view \in [busy: BOOLEAN, loading: BOOLEAN, error: BOOLEAN, items: SUBSET Keys]
  /\ \A k \in DOMAIN invocations: invocations[k] \in [task: Tasks, status: {"COMPLETED", "FAILED"}]
  /\ \A c \in Calls: call[c].op \in {"none", "create", "list"} /\ call[c].answer \in {"none", "OK", "ERROR"}
  /\ keys \in 0..MaxKeys /\ switches \in 0..MaxSwitches /\ clicks \in 0..MaxClicks

Idle == {c \in Calls: call[c] = NoCall}
Put(c, record) == call' = [call EXCEPT ![c] = record]
List(t) == [NoCall EXCEPT !.op = "list", !.task = t]

(* Newest first. *)
First(items) == CHOOSE k \in items: \A j \in items: j <= k

Init ==
  /\ task \in Tasks
  /\ attempt = 0 /\ view = Fresh
  /\ invocations = [k \in {} |-> "none"]
  /\ \E c \in Calls: call = [d \in Calls |-> IF d = c THEN List(task) ELSE NoCall]
  /\ keys = 0 /\ switches = 0 /\ clicks = 0

-----------------------------------------------------------------------------
(* The effect on the task's id. *)
SelectTask(c, t) ==
  /\ t # task /\ switches < MaxSwitches /\ c \in Idle
  /\ switches' = switches + 1
  /\ task' = t /\ attempt' = 0 /\ view' = Fresh
  /\ Put(c, List(t))
  /\ UNCHANGED <<invocations, keys, clicks>>

Refresh(c) ==
  /\ ~view.loading /\ clicks < MaxClicks /\ c \in Idle
  /\ clicks' = clicks + 1
  /\ view' = [view EXCEPT !.loading = TRUE]
  /\ Put(c, List(task))
  /\ UNCHANGED <<task, attempt, invocations, keys, switches>>

Submit(c, key) ==
  /\ ~view.busy /\ c \in Idle /\ key \in Keys
  /\ view' = [view EXCEPT !.busy = TRUE]
  /\ attempt' = key
  /\ Put(c, [NoCall EXCEPT !.op = "create", !.task = task, !.key = key])
  /\ UNCHANGED <<task, invocations, switches>>

Ask(c) == Submit(c, keys + 1) /\ keys' = keys + 1 /\ UNCHANGED clicks

TryAgain(c) ==
  /\ view.items # {} /\ ~view.error
  /\ LET k == First(view.items) IN invocations[k].status = "FAILED"
  /\ Submit(c, keys + 1) /\ keys' = keys + 1 /\ UNCHANGED clicks

Retry(c) ==
  /\ attempt # 0 /\ view.error /\ clicks < MaxClicks
  /\ Submit(c, attempt)
  /\ clicks' = clicks + 1 /\ UNCHANGED keys

(* Mutant: the agent may be changed while the answer is awaited. *)
ForgetAnyTime ==
  /\ attempt # 0 /\ clicks < MaxClicks
  /\ clicks' = clicks + 1
  /\ attempt' = 0
  /\ UNCHANGED <<task, view, invocations, call, keys, switches>>

(* Another prompt or agent; both are disabled while the panel is busy. *)
Forget ==
  /\ attempt # 0 /\ ~view.busy /\ clicks < MaxClicks
  /\ clicks' = clicks + 1
  /\ attempt' = 0
  /\ UNCHANGED <<task, view, invocations, call, keys, switches>>

-----------------------------------------------------------------------------
(* The API. *)

Serve(c, answer) ==
  /\ call[c].op # "none" /\ call[c].answer = "none"
  /\ \/ invocations' = invocations
     \/ /\ call[c].op = "create" /\ call[c].key \notin DOMAIN invocations
        /\ \E status \in {"COMPLETED", "FAILED"}:
             invocations' = [k \in DOMAIN invocations \cup {call[c].key} |->
               IF k = call[c].key THEN [task |-> call[c].task, status |-> status] ELSE invocations[k]]
  /\ answer = "OK" /\ call[c].op = "create" => call[c].key \in DOMAIN invocations'
  /\ Put(c, [call[c] EXCEPT !.answer = answer,
               !.items = {k \in DOMAIN invocations': invocations'[k].task = call[c].task}])
  /\ UNCHANGED <<task, attempt, view, keys, switches, clicks>>

-----------------------------------------------------------------------------
(* Answers. *)

Answered(c, op) ==
  /\ call[c].op = op /\ call[c].answer # "none"
  /\ Put(c, NoCall)
  /\ UNCHANGED <<task, invocations, keys, switches, clicks>>

(* Mutant: the history of any task is shown. *)
ListedAnyway(c) ==
  /\ Answered(c, "list")
  /\ view' = IF call[c].answer = "OK" THEN [view EXCEPT !.loading = FALSE, !.error = FALSE, !.items = call[c].items]
             ELSE [view EXCEPT !.loading = FALSE, !.error = TRUE]
  /\ UNCHANGED attempt

Listed(c) ==
  /\ Answered(c, "list")
  /\ view' = IF task # call[c].task THEN view
             ELSE IF call[c].answer = "OK" THEN [view EXCEPT !.loading = FALSE, !.error = FALSE, !.items = call[c].items]
             ELSE [view EXCEPT !.loading = FALSE, !.error = TRUE]
  /\ UNCHANGED attempt

(* A suggestion ends the attempt; a persisted failure keeps it. *)
Created(c) ==
  /\ Answered(c, "create")
  /\ IF task # call[c].task \/ attempt # call[c].key THEN UNCHANGED <<view, attempt>>
     ELSE IF call[c].answer = "ERROR"
     THEN view' = [view EXCEPT !.busy = FALSE, !.error = TRUE] /\ UNCHANGED attempt
     ELSE /\ view' = [view EXCEPT !.busy = FALSE, !.error = FALSE, !.items = @ \cup {call[c].key}]
          /\ attempt' = IF invocations[call[c].key].status = "FAILED" THEN attempt ELSE 0

Answer(c) == Listed(c) \/ Created(c)
Served(c) == \E answer \in {"OK", "ERROR"}: Serve(c, answer)

Next ==
  \/ \E c \in Calls:
       \/ \E t \in Tasks: SelectTask(c, t)
       \/ Refresh(c) \/ Ask(c) \/ TryAgain(c) \/ Retry(c) \/ Served(c) \/ Answer(c)
  \/ Forget

Fairness == \A c \in Calls: WF_vars(Served(c)) /\ WF_vars(Answer(c))

Spec == Init /\ [][Next]_vars /\ Fairness

-----------------------------------------------------------------------------
(* The suggestions on the screen are of the selected task, however late the *)
(* answers to earlier tasks arrive (taskIdRef, lines 65 and 66).            *)
ItemsAreOfTask == \A k \in view.items: invocations[k].task = task

(* The panel does not stay busy: nothing the user can click while it waits  *)
(* makes it discard the answer it waits for.                                *)
BusyEnds == view.busy ~> ~view.busy

(* "Retrying a persisted failed invocation creates a new attempt": what is  *)
(* sent after the panel has shown a failure does not repeat its key.        *)
FailedIsNotRepeated ==
  [][\A c \in Calls:
       call[c].op = "none" /\ call'[c].op = "create" /\ call'[c].key \in view.items
         => invocations[call'[c].key].status # "FAILED"]_vars
===============================================================================
