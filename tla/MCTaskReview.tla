----------------------------- MODULE MCTaskReview -----------------------------
(* A small instance of TaskReview: an employee who is a MEMBER and the      *)
(* project OWNER, two Tasks, two Results and one key.                       *)
EXTENDS TaskReview

CONSTANTS e, o, t1, t2, a1

PairRole == [u \in Users |-> IF u = e THEN "MEMBER" ELSE "OWNER"]
AllOfFirstTask == [a \in Artifacts |-> t1]

(* Bound: a behaviour has a second Task, changes of access, or several sets *)
(* of Artifacts, for Results that are only created, of a Task in TODO.      *)
Creating ==
  {tx[c]: c \in {d \in Clients: tx[d] # NoTx}} \cup {result[r]: r \in {s \in Results: result[s] # NoResult}}
    \cup {reply[c].tx: c \in {d \in Clients: "tx" \in DOMAIN reply[d]}}
Several == \E t \in Creating: "artifacts" \in DOMAIN t /\ t.artifacts # {a1}
OneVariation ==
  /\ task[t2] = "NONE" \/ (role = InitRole /\ denied = {})
  /\ Several =>
       /\ task = [t \in Tasks |-> IF t = t1 THEN "TODO" ELSE "NONE"] /\ role = InitRole /\ denied = {}
       /\ \A t \in Creating: "artifacts" \in DOMAIN t /\ ("status" \in DOMAIN t => t.status = "CANDIDATE")

SmallSpec == Init /\ [][Next /\ OneVariation']_vars /\ Fairness
===============================================================================
