--------------------------- MODULE ReviewLifecycle ---------------------------
(***************************************************************************)
(* What Task and Result services promise together: Tasks and Results move  *)
(* through their states as if every operation happened at one instant.     *)
(* There are no transactions, locks, retries, roles or answers here, and   *)
(* a step that changes nothing is a stutter.                               *)
(***************************************************************************)
CONSTANTS Users, Tasks, Results, Keys, Artifacts, Comments

VARIABLES task, dependsOn, result, review

facts == <<task, dependsOn, result, review>>

Unborn == [status |-> "NONE"]
Undecided == [decision |-> "NONE"]

Init ==
  /\ task = [t \in Tasks |-> "NONE"]
  /\ dependsOn = [t \in Tasks |-> {}]
  /\ result = [r \in Results |-> Unborn]
  /\ review = [r \in Results |-> Undecided]

(* A new Task depends on Tasks that exist, so dependencies have no cycle. *)
CreateTask(t, deps) ==
  /\ task[t] = "NONE"
  /\ \A d \in deps: task[d] # "NONE"
  /\ task' = [task EXCEPT ![t] = "TODO"]
  /\ dependsOn' = [dependsOn EXCEPT ![t] = deps]
  /\ UNCHANGED <<result, review>>

(* Work starts when every dependency is accepted. *)
StartTask(t) ==
  /\ task[t] = "TODO"
  /\ \A d \in dependsOn[t]: task[d] \in {"ACCEPTED", "CLOSED"}
  /\ task' = [task EXCEPT ![t] = "IN_PROGRESS"]
  /\ UNCHANGED <<dependsOn, result, review>>

(* A key is used for one Result. *)
CreateResult(r, t, u, key, artifacts) ==
  /\ task[t] # "NONE"
  /\ result[r] = Unborn
  /\ \A other \in Results:
       result[other] # Unborn =>
         <<result[other].creator, result[other].task, result[other].key>> # <<u, t, key>>
  /\ result' = [result EXCEPT ![r] =
                  [status |-> "CANDIDATE", task |-> t, creator |-> u, key |-> key,
                   artifacts |-> artifacts]]
  /\ UNCHANGED <<task, dependsOn, review>>

(* A candidate is handed in while its Task is worked on. *)
SubmitForReview(r) ==
  /\ result[r].status = "CANDIDATE"
  /\ task[result[r].task] = "IN_PROGRESS"
  /\ result' = [result EXCEPT ![r].status = "HUMAN_REVIEW"]
  /\ task' = [task EXCEPT ![result[r].task] = "READY_FOR_REVIEW"]
  /\ UNCHANGED <<dependsOn, review>>

(* Somebody else decides it, once. *)
Decide(r, reviewer, decision, comment) ==
  /\ result[r].status = "HUMAN_REVIEW"
  /\ result[r].creator # reviewer
  /\ task[result[r].task] = "READY_FOR_REVIEW"
  /\ result' = [result EXCEPT ![r].status =
                  IF decision = "ACCEPT" THEN "ACCEPTED" ELSE "REWORK"]
  /\ task' = [task EXCEPT ![result[r].task] =
                IF decision = "ACCEPT" THEN "ACCEPTED" ELSE "IN_PROGRESS"]
  /\ review' = [review EXCEPT ![r] =
                  [reviewer |-> reviewer, decision |-> decision, comment |-> comment]]
  /\ UNCHANGED dependsOn

Next ==
  \/ \E t \in Tasks, deps \in SUBSET Tasks: CreateTask(t, deps)
  \/ \E t \in Tasks: StartTask(t)
  \/ \E r \in Results, t \in Tasks, u \in Users, key \in Keys, artifacts \in SUBSET Artifacts:
       CreateResult(r, t, u, key, artifacts)
  \/ \E r \in Results: SubmitForReview(r)
  \/ \E r \in Results, u \in Users, decision \in {"ACCEPT", "REWORK"}, comment \in Comments:
       Decide(r, u, decision, comment)

Spec == Init /\ [][Next]_facts

-----------------------------------------------------------------------------
(* Consequences of the promise.                                            *)

TypeOK ==
  /\ task \in [Tasks -> {"NONE", "TODO", "IN_PROGRESS", "READY_FOR_REVIEW", "ACCEPTED"}]
  /\ dependsOn \in [Tasks -> SUBSET Tasks]
  /\ result \in [Results ->
       [status: {"CANDIDATE", "HUMAN_REVIEW", "ACCEPTED", "REWORK"}, task: Tasks,
        creator: Users, key: Keys, artifacts: SUBSET Artifacts] \cup {Unborn}]
  /\ review \in [Results ->
       [reviewer: Users, decision: {"ACCEPT", "REWORK"}, comment: Comments]
         \cup {Undecided}]

(* A Task is READY_FOR_REVIEW exactly while one of its Results is in       *)
(* HUMAN_REVIEW, ACCEPTED exactly when one of them is ACCEPTED, and no two *)
(* of them are in these states.                                            *)
ResultsOf(t, statuses) ==
  {r \in Results: result[r].status \in statuses /\ result[r].task = t}

TaskResultAgreement ==
  \A t \in Tasks:
    /\ task[t] = "READY_FOR_REVIEW" <=> ResultsOf(t, {"HUMAN_REVIEW"}) # {}
    /\ task[t] = "ACCEPTED" <=> ResultsOf(t, {"ACCEPTED"}) # {}
    /\ \A r1, r2 \in ResultsOf(t, {"HUMAN_REVIEW", "ACCEPTED"}): r1 = r2

(* A Result is decided exactly when its Review exists, the Review says the *)
(* same, and it is not by the Result's creator.                            *)
ReviewExplainsResult ==
  \A r \in Results:
    /\ review[r] = Undecided <=> result[r].status \notin {"ACCEPTED", "REWORK"}
    /\ review[r] # Undecided =>
         /\ result[r].status = (IF review[r].decision = "ACCEPT" THEN "ACCEPTED" ELSE "REWORK")
         /\ review[r].reviewer # result[r].creator

(* A Task has left TODO only when everything it depends on was accepted. *)
DependenciesHonoured ==
  \A t \in Tasks:
    task[t] \notin {"NONE", "TODO"} =>
      \A d \in dependsOn[t]: task[d] \in {"ACCEPTED", "CLOSED"}

(* The key of one creator and Task names one Result. *)
OneResultPerKey ==
  \A r1, r2 \in Results:
    /\ result[r1] # Unborn
    /\ result[r2] # Unborn
    /\ <<result[r1].creator, result[r1].task, result[r1].key>>
         = <<result[r2].creator, result[r2].task, result[r2].key>>
    => r1 = r2
===============================================================================
