---------------------------- MODULE MCDesktopMain -----------------------------
(* The services of the Desktop's main process on small instances.  They     *)
(* share no state, so a behaviour exercises one of them, its part, while    *)
(* the others rest in an initial state, where none of their fairness asks   *)
(* for a step.                                                              *)
(*                                                                          *)
(* w1 and w2 replace the first content of a file, n1 creates it.  The       *)
(* folder w holds the directory d and links into itself, above itself and   *)
(* to its sibling x.                                                        *)
EXTENDS DesktopMain, TLC

CONSTANTS w1, w2, n1, s1, s2, b1, a1

VARIABLE part

Approved == [w \in Writers |-> IF w \in {w1, w2} THEN "OTHER" ELSE "ABSENT"]
OnePath == [w \in Writers |-> CHOOSE p \in Paths: TRUE]
OtherContent == {"OTHER"}

Workspace == <<"h", "w">>
SomeLinks ==
  <<"h", "w", "in">> :> <<"h", "w", "d">> @@ <<"h", "w", "up">> :> <<"h">>
    @@ <<"h", "w", "out">> :> <<"h", "x">> @@ <<"h", "w", "d", "back">> :> <<"h", "w">>
ShortPaths == UNION {[1..n -> {"d", "in", "up", "out", "back", "x", ".."}]: n \in 0..3}

MCInit ==
  /\ part \in {"write", "gateway", "binding", "read", "receipt"}
  /\ MainInit
  /\ part # "write" => file = "OTHER"
  /\ part # "binding" => session = CHOOSE u \in Users: TRUE
  /\ part # "read" => size = 0
  /\ part # "receipt" => platform = "posix" /\ intent = CHOOSE i \in Receipt!Reads: TRUE

(* Bound: a second folder is selected where nothing else is done. *)
FewCalls == call[s2] = Binding!Fresh \/ \A c \in {b1, a1}: call[c] = Binding!Fresh

MCNext ==
  /\ UNCHANGED part
  /\ \/ part = "write" /\ WriteStep
     \/ part = "gateway" /\ GatewayStep
     \/ part = "binding" /\ BindingStep /\ FewCalls'
     \/ part = "read" /\ ReadStep
     \/ part = "receipt" /\ ReceiptStep

MCSpec == MCInit /\ [][MCNext]_<<part, desktop>> /\ Fairness /\ Binding!Fairness
===============================================================================
