------------------------------ MODULE MCAgentRun ------------------------------
(* A small instance of AgentRun: a write w, a read f and a write x whose    *)
(* stored request is not valid, of an employee e with a colleague g.        *)
EXTENDS AgentRun

CONSTANTS e, g, w, f, x, ok, bad

OneRead == [r \in Runs |-> IF r = f THEN "read_file" ELSE "write_file"]
ReceiptOutcome == [rec \in Receipts |-> IF rec = ok THEN "SUCCEEDED" ELSE "FAILED"]

(* Bound: runs share no rows, so a behaviour creates one of them. *)
OneRun == \A r, s \in Runs: r # s => owner[r] = "NONE" \/ owner[s] = "NONE"

(* Bound: the colleague has no runs, and asks while nobody else does.      *)
Asks(c) == (pc[c] # "idle" /\ req[c].user = g) \/ (reply[c] # NoReply /\ reply[c].req.user = g)
Alone(c) == \A d \in Clients \ {c}: pc[d] = "idle" /\ reply[d] = NoReply
OneColleague ==
  /\ \A r \in Runs: owner[r] # g
  /\ \A c \in Clients: Asks(c) => Alone(c)

SmallSpec == Init /\ [][Next /\ OneRun' /\ OneColleague']_vars /\ Fairness
===============================================================================
