---------------------------- MODULE MCProjectTasks -----------------------------
(* A small instance of ProjectTasks. *)
EXTENDS ProjectTasks

CONSTANTS p, q, u, v

Busy == {s \in Slots: tx[s] # NoTx}
Projecting(s) == tx[s].step \in {"project", "owner"}
Acting(w) == (\E i \in Projects: role[i][w] # "NONE") \/ \E s \in Busy: IF Projecting(s) THEN tx[s].by = w ELSE w \in tx[s].members

Depending == {t \in Tasks: task[t] # NoTask /\ task[t].depends # {}}
               \cup {s \in Busy: ~Projecting(s) /\ tx[s].request.depends # {}}

(* Bound: a second user works, among members that change; or tasks depend   *)
(* on each other, in two projects or while lists are read.                  *)
OneVariation ==
  /\ p \notin stored => \A s \in Busy: Projecting(s) /\ tx[s].project = p
  /\ (\E i \in Clients: read[i] # NoRead) => q \notin stored /\ Cardinality(Busy) <= 1
  /\ q \in stored \/ Depending # {} \/ (\E s \in Busy: Projecting(s) /\ tx[s].project = q)
       => changes = 0 /\ ~Acting(v)

SmallSpec == Init /\ [][Next /\ OneVariation']_vars
===============================================================================
