------------------------------ MODULE TaskDetail ------------------------------
(***************************************************************************)
(* The detail view of a task: creating a result from artifacts with one    *)
(* idempotency key per confirmation, opening, submitting and deciding      *)
(* results, and answers that arrive after the user has moved on.           *)
(*                                                                         *)
(* Of the API the module keeps the results, by the key that created them,  *)
(* and whether their review was asked for and decided.  A call is sent,    *)
(* served and answered in separate steps; it may fail before or after it   *)
(* took effect.  When App shows an error or "loading", the view is         *)
(* replaced, and starts anew afterwards.                                   *)
(***************************************************************************)
EXTENDS Naturals, FiniteSets

CONSTANTS
  Tasks, Artifacts,
  Calls,          \* bound: calls that are open at a time
  MaxKeys,        \* bound: keys, and with them results
  MaxSwitches,    \* bound: selections of another task
  MaxRemounts     \* bound: how often App replaces the view

VARIABLES
  task,        \* the selected task: the prop, and taskIdRef
  view,        \* the state of the component
  results,     \* results of the API, by key: task, artifacts, status
  call,        \* calls that are open
  keys,        \* keys made so far: crypto.randomUUID
  last,        \* the confirmation the user gave last for this task, and whether
               \* its success was shown
  asked,       \* results that the user created or opened since the task was selected
  switches, remounts

vars == <<task, view, results, call, keys, last, asked, switches, remounts>>

Keys == 1..MaxKeys
NoAttempt == [artifacts |-> {}, key |-> 0]
NoCall == [op |-> "none", task |-> "none", attempt |-> NoAttempt, result |-> 0,
           answer |-> "none", status |-> "none", gone |-> FALSE]
Fresh == [attempt |-> NoAttempt, submitting |-> FALSE, error |-> FALSE, candidate |-> 0,
          status |-> "none", active |-> 0, reviewing |-> FALSE]

Attempts == [artifacts: SUBSET Artifacts, key: 0..MaxKeys]
Statuses == {"CANDIDATE", "HUMAN_REVIEW", "DECIDED"}

TypeOK ==
  /\ task \in Tasks
  /\ view \in [attempt: Attempts, submitting: BOOLEAN, error: BOOLEAN, candidate: 0..MaxKeys,
               status: Statuses \cup {"none"}, active: 0..MaxKeys, reviewing: BOOLEAN]
  /\ \A k \in DOMAIN results: results[k].task \in Tasks /\ results[k].status \in Statuses
  /\ \A c \in Calls: call[c].op \in {"none", "create", "open", "submit", "decide", "reread"}
  /\ keys \in 0..MaxKeys /\ asked \subseteq Keys

Init ==
  /\ task \in Tasks
  /\ view = Fresh
  /\ results = [k \in {} |-> "none"]
  /\ call = [c \in Calls |-> NoCall]
  /\ keys = 0 /\ asked = {}
  /\ last = [artifacts |-> {}, key |-> 0, shown |-> TRUE]
  /\ switches = 0 /\ remounts = 0

-----------------------------------------------------------------------------
(* Clicks. *)

Idle == {c \in Calls: call[c] = NoCall}
Put(c, record) == call' = [call EXCEPT ![c] = record]
Free(c) == Put(c, NoCall)
Elsewhere == UNCHANGED <<task, results, switches, remounts>>

(* Mutant: the pending submission is kept, too. *)
ResetButBusy == [Fresh EXCEPT !.reviewing = view.reviewing, !.submitting = view.submitting]

(* Mutant: the buttons of the review are enabled again, too. *)
ResetAll == Fresh

(* Another task: the effect resets all but reviewBusy. *)
Reset == [Fresh EXCEPT !.reviewing = view.reviewing]

SelectTask(t) ==
  /\ t # task /\ switches < MaxSwitches
  /\ switches' = switches + 1
  /\ task' = t /\ view' = Reset
  /\ last' = [last EXCEPT !.artifacts = {}, !.shown = TRUE] /\ asked' = {}
  /\ UNCHANGED <<results, call, keys, remounts>>

(* App shows an error or "loading" instead, and then the same task again. *)
Remount ==
  /\ remounts < MaxRemounts
  /\ remounts' = remounts + 1
  /\ view' = Fresh
  /\ call' = [c \in Calls |-> IF call[c].op = "none" THEN NoCall ELSE [call[c] EXCEPT !.gone = TRUE]]
  /\ UNCHANGED <<task, results, keys, last, asked, switches>>

(* Mutant: every confirmation has a key of its own. *)
AttemptNew(chosen) == [artifacts |-> chosen, key |-> keys + 1]

(* resultConfirmationAttempt: the same artifacts, the same attempt. *)
Attempt(chosen) ==
  IF view.attempt.key # 0 /\ view.attempt.artifacts = chosen
  THEN view.attempt
  ELSE [artifacts |-> chosen, key |-> keys + 1]

(* submitResult *)
Confirm(c, attempt) ==
  /\ c \in Idle /\ attempt.key \in Keys
  /\ view' = [view EXCEPT !.attempt = attempt, !.submitting = TRUE]
  /\ Put(c, [NoCall EXCEPT !.op = "create", !.task = task, !.attempt = attempt])
  /\ keys' = IF attempt.key > keys THEN attempt.key ELSE keys
  /\ last' = [artifacts |-> attempt.artifacts, key |-> attempt.key, shown |-> FALSE]
  /\ asked' = asked \cup {attempt.key}
  /\ Elsewhere

Create(c, chosen) ==
  /\ chosen # {} /\ ~view.submitting
  /\ Confirm(c, Attempt(chosen))

RetryCreate(c) ==
  /\ view.error /\ view.attempt.key # 0 /\ ~view.submitting
  /\ Confirm(c, view.attempt)

(* By its id, whichever task it is of; Main answers both reads. *)
OpenResult(c, r) ==
  /\ c \in Idle /\ r \in DOMAIN results /\ ~view.reviewing
  /\ view' = [view EXCEPT !.active = r, !.reviewing = TRUE]
  /\ Put(c, [NoCall EXCEPT !.op = "open", !.task = task, !.result = r])
  /\ asked' = asked \cup {r}
  /\ Elsewhere /\ UNCHANGED <<keys, last>>

SubmitForReview(c) ==
  /\ c \in Idle /\ view.candidate # 0 /\ view.status = "CANDIDATE" /\ ~view.submitting
  /\ view' = [view EXCEPT !.active = view.candidate, !.submitting = TRUE]
  /\ Put(c, [NoCall EXCEPT !.op = "submit", !.task = task, !.result = view.candidate])
  /\ Elsewhere /\ UNCHANGED <<keys, last, asked>>

Decide(c) ==
  /\ c \in Idle /\ view.candidate # 0 /\ view.status = "HUMAN_REVIEW" /\ ~view.reviewing
  /\ view' = [view EXCEPT !.active = view.candidate, !.reviewing = TRUE]
  /\ Put(c, [NoCall EXCEPT !.op = "decide", !.task = task, !.result = view.candidate])
  /\ Elsewhere /\ UNCHANGED <<keys, last, asked>>

-----------------------------------------------------------------------------
(* The API: a repeated key finds its result; a review is asked for and     *)
(* decided once.                                                           *)

Effect(k) ==
  CASE k.op = "create" /\ k.attempt.key \notin DOMAIN results ->
         [r \in DOMAIN results \cup {k.attempt.key} |->
            IF r = k.attempt.key
            THEN [task |-> k.task, artifacts |-> k.attempt.artifacts, status |-> "CANDIDATE"]
            ELSE results[r]]
    [] k.op = "submit" /\ results[k.result].status = "CANDIDATE" ->
         [results EXCEPT ![k.result].status = "HUMAN_REVIEW"]
    [] k.op = "decide" /\ results[k.result].status = "HUMAN_REVIEW" ->
         [results EXCEPT ![k.result].status = "DECIDED"]
    [] OTHER -> results

Subject(k) == IF k.op = "create" THEN k.attempt.key ELSE k.result

Possible(k) ==
  /\ k.op = "submit" => results[k.result].status = "CANDIDATE"
  /\ k.op = "decide" => results[k.result].status = "HUMAN_REVIEW"

(* "reached" is false when the request does not arrive. *)
Serve(c, reached, answer) ==
  LET k == call[c] IN
  /\ k.op # "none" /\ k.answer = "none"
  /\ answer = "OK" => reached /\ Possible(k)
  /\ (reached /\ Possible(k)) \/ answer = "ERROR"
  /\ results' = IF reached THEN Effect(k) ELSE results
  /\ Put(c, [k EXCEPT !.answer = answer,
                      !.status = IF answer = "OK" THEN results'[Subject(k)].status ELSE "none"])
  /\ UNCHANGED <<task, view, keys, last, asked, switches, remounts>>

-----------------------------------------------------------------------------
(* Answers. *)

Answered(c, op) ==
  /\ call[c].op = op /\ call[c].answer # "none"
  /\ UNCHANGED <<keys, asked>> /\ Elsewhere

(* Mutant: only the tasks are compared. *)
CreatedIfTask(c) ==
  /\ Answered(c, "create")
  /\ IF task # call[c].task \/ call[c].gone THEN UNCHANGED <<view, last>>
     ELSE /\ view' = IF call[c].answer = "OK"
            THEN [view EXCEPT !.submitting = FALSE, !.error = FALSE, !.attempt = NoAttempt,
                              !.candidate = call[c].attempt.key, !.status = "CANDIDATE"]
            ELSE [view EXCEPT !.submitting = FALSE, !.error = TRUE]
          /\ UNCHANGED last
  /\ Free(c)

(* Stale when the task, or the attempt, is not the current one any more. *)
Created(c) ==
  LET stale == call[c].gone \/ task # call[c].task \/ view.attempt # call[c].attempt IN
  /\ Answered(c, "create")
  /\ IF stale THEN UNCHANGED <<view, last>>
     ELSE IF call[c].answer = "OK"
     THEN /\ view' = [view EXCEPT !.submitting = FALSE, !.error = FALSE, !.attempt = NoAttempt,
                        !.candidate = call[c].attempt.key, !.status = call[c].status]
          /\ last' = [last EXCEPT !.shown = @ \/ last.key = call[c].attempt.key]
     ELSE /\ view' = [view EXCEPT !.submitting = FALSE, !.error = TRUE]
          /\ UNCHANGED last
  /\ Free(c)

Current(c) == ~call[c].gone /\ view.active = call[c].result

Opened(c) ==
  /\ Answered(c, "open")
  /\ view' = IF ~Current(c) THEN view
             ELSE IF call[c].answer = "OK"
             THEN [view EXCEPT !.reviewing = FALSE, !.error = FALSE, !.candidate = call[c].result,
                               !.status = call[c].status]
             ELSE [view EXCEPT !.reviewing = FALSE, !.error = TRUE]
  /\ Free(c)
  /\ UNCHANGED last

Submitted(c) ==
  /\ Answered(c, "submit")
  /\ view' = IF ~Current(c) THEN view
             ELSE IF call[c].answer = "OK"
             THEN [view EXCEPT !.submitting = FALSE, !.error = FALSE, !.candidate = call[c].result,
                               !.status = "HUMAN_REVIEW"]
             ELSE [view EXCEPT !.submitting = FALSE, !.error = TRUE]
  /\ Free(c)
  /\ UNCHANGED last

(* The result is then read again. *)
Decided(c) ==
  /\ Answered(c, "decide")
  /\ view' = IF ~Current(c) THEN view
             ELSE [view EXCEPT !.reviewing = FALSE, !.error = @ \/ call[c].answer = "ERROR"]
  /\ IF Current(c) /\ call[c].answer = "OK"
     THEN Put(c, [call[c] EXCEPT !.op = "reread", !.answer = "none"])
     ELSE Free(c)
  /\ UNCHANGED last

Reread(c) ==
  /\ Answered(c, "reread")
  /\ view' = IF Current(c) /\ call[c].answer = "OK"
             THEN [view EXCEPT !.candidate = call[c].result, !.status = call[c].status]
             ELSE view
  /\ Free(c)
  /\ UNCHANGED last

Answer(c) == Created(c) \/ Opened(c) \/ Submitted(c) \/ Decided(c) \/ Reread(c)
Served(c) == \E reached \in BOOLEAN, answer \in {"OK", "ERROR"}: Serve(c, reached, answer)

Next ==
  \/ \E t \in Tasks: SelectTask(t)
  \/ Remount
  \/ \E c \in Calls:
       \/ \E chosen \in SUBSET Artifacts: Create(c, chosen)
       \/ \E r \in Keys: OpenResult(c, r)
       \/ RetryCreate(c) \/ SubmitForReview(c) \/ Decide(c)
       \/ Served(c) \/ Answer(c)

Fairness == \A c \in Calls: WF_vars(Served(c)) /\ WF_vars(Answer(c))

Spec == Init /\ [][Next]_vars /\ Fairness

-----------------------------------------------------------------------------
(* The candidate on the screen is one that the user created or opened since *)
(* the task was selected: no answer to an earlier view shows up in this one *)
(* ("It must not update another detail view", lines 90-95).                 *)
CandidateWasAsked == view.candidate # 0 => view.candidate \in asked

(* A result is never decided by two requests at a time, although the view   *)
(* forgets the pending one when another task is selected.                   *)
OneDecision == \A c, d \in Calls: {call[c].op, call[d].op} = {"decide"} => c = d

(* Unless other results are opened meanwhile, a submission that is waiting  *)
(* ends, and the buttons are enabled again.                                 *)
SubmittingEnds == view.submitting ~> ~view.submitting
===============================================================================
