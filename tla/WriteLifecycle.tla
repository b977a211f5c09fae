---------------------------- MODULE WriteLifecycle ----------------------------
(***************************************************************************)
(* What the confirmed-write workflow promises of one write_file request,   *)
(* whatever happens to the desktop's memory, session and network: a human  *)
(* decides once, an approved request writes the file at most once, and the *)
(* server's final status says whether the file was written.  A request may *)
(* stop at any stage, when an answer or the desktop's memory is lost.      *)
(***************************************************************************)
CONSTANT Writes  \* the write requests, each with its run and confirmation

VARIABLE stage

Stages == {"none", "waiting", "cancelled", "approved", "written", "succeeded", "failed"}

Init == stage = [w \in Writes |-> "none"]

Move(w, from, to) == stage[w] = from /\ stage' = [stage EXCEPT ![w] = to]

Request(w) == Move(w, "none", "waiting")
Decide(w) == Move(w, "waiting", "approved") \/ Move(w, "waiting", "cancelled")
Write(w) == Move(w, "approved", "written")
Report(w) == Move(w, "written", "succeeded") \/ Move(w, "approved", "failed")

Next == \E w \in Writes: Request(w) \/ Decide(w) \/ Write(w) \/ Report(w)

Spec == Init /\ [][Next]_stage
===============================================================================
