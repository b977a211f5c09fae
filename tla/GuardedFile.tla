----------------------------- MODULE GuardedFile ------------------------------
(***************************************************************************)
(* What an approved local write promises: in one step it replaces exactly  *)
(* the content that the employee approved it against, or it changes        *)
(* nothing.  ConfirmedWrite executes a write in such a step; LocalWrite    *)
(* implements it with locks, temporary files and renames.                  *)
(***************************************************************************)
CONSTANTS
  Writers,   \* approved writes of one target
  Expected,  \* the content each was approved against
  Edits      \* what another program may write to the target

VARIABLES
  file,      \* content of the target: ABSENT, OTHER or the writer's
  result     \* what became of each write

Init ==
  /\ file \in {"ABSENT", "OTHER"}
  /\ result = [w \in Writers |-> "none"]

Write(w) ==
  /\ result[w] = "none"
  /\ file = Expected[w]
  /\ file' = w
  /\ result' = [result EXCEPT ![w] = "ok"]

Refuse(w) ==
  /\ result[w] = "none"
  /\ result' = [result EXCEPT ![w] = "failed"]
  /\ UNCHANGED file

Edit == file' \in Edits /\ UNCHANGED result

Next == Edit \/ \E w \in Writers: Write(w) \/ Refuse(w)

Spec == Init /\ [][Next]_<<file, result>>
===============================================================================
