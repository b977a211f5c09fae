---------------------------- MODULE MCCollaboration ----------------------------
(* A small instance of Collaboration. *)
EXTENDS Collaboration

CONSTANTS u, v, c, d

InUse == {tx[s].request: s \in {z \in Slots: tx[z] # NoTx}} \cup {m.request: m \in message}

(* Bound: two conversations are one author's, with one content; a single    *)
(* conversation has several authors and contents, under one key, or none,   *)
(* when it is of another type.                                              *)
SomeVariation ==
  IF conversation[d] # None
  THEN /\ \A e \in {c, d}: conversation[e] \in {None, [type |-> "AI_THREAD", scope |-> "USER", by |-> u, participants |-> {u}]}
       /\ \A r \in InUse: r.content = "x"
  ELSE /\ \A r, q \in InUse: r.key = q.key
       /\ conversation[c] # None /\ conversation[c].type \notin {"AI_THREAD", "HUMAN_DM"} => InUse = {} /\ clock = 0

SmallSpec == Init /\ [][Next /\ SomeVariation']_vars
===============================================================================
