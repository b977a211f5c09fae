-------------------------------- MODULE MCApi ---------------------------------
(* Small instances of the API's services and of the demo seed, which share  *)
(* no rows: a behaviour exercises one of them, its part, while the others   *)
(* rest in an initial state.                                                *)
EXTENDS ApiServices, SeedDemo, TLC

CONSTANTS
  Parts,
  olga, omar, ann, q1, q2, q3, q4, k1, k2, i1, i2, i3, i4, i5

VARIABLE part

Officers == olga :> "OWNER" @@ omar :> "MEMBER" @@ ann :> "ADMIN"
TwoOwners == olga :> "OWNER" @@ omar :> "OWNER" @@ ann :> "ADMIN"

(* Three requests with one key, one of them with another prompt, and a      *)
(* request with a key of its own.                                           *)
SharedKey == [r \in {q1, q2, q3, q4} |-> IF r = q4 THEN k2 ELSE k1]
TwoPrints == [r \in {q1, q2, q3, q4} |-> IF r = q3 THEN "p2" ELSE "p1"]
FewCalls == {<<i1>>, <<i2, i3>>}
ManyCalls == {<<>>, <<i1, i1>>, <<i1>>, <<i2>>, <<i3>>, <<i4>>, <<i5>>, <<i2, i3>>, <<i1, i2, i3, i4>>}

seed == vars
api == <<part, services, seed>>

ApiInit == part \in Parts /\ ServicesInit /\ Init

(* Bounds.  Of the control plane, two users act.  Of the requests, all that *)
(* share a key while everything may fail; one up to its limits, which       *)
(* nothing takes its authorization from; or, where transactions succeed and *)
(* the API stays up, those with one prompt.                                 *)
Only(acting) == \A r \in Requests \ acting: request'[r].at = "begin"
Few == \A r \in Requests: request'[r].steps # request[r].steps => request'[r].left \in FewCalls
NoCrash == \A r \in Requests: request'[r].at # "dead"
NoError == \A r \in Requests: request'[r].reply # "ERROR"

RaceStep == ModelStep /\ Only({q1, q2, q3}) /\ Few
LimitsStep == ModelStep /\ Only({q1}) /\ NoCrash /\ authorized' = authorized
SmoothStep == ModelStep /\ Only({q1, q2, q4}) /\ Few /\ NoCrash /\ NoError

ApiNext ==
  /\ UNCHANGED part
  /\ \/ /\ \/ part = "accounts" /\ AccountsStep
           \/ part = "control" /\ ControlStep /\ tx'[ann] = Control!Closed
           \/ part = "race" /\ RaceStep
           \/ part = "limits" /\ LimitsStep
           \/ part = "smooth" /\ SmoothStep
        /\ UNCHANGED seed
     \/ part = "seed" /\ Next /\ UNCHANGED services

(* Node runs every request on, and the provider answers or times out.       *)
Fairness ==
  \A r \in {q1, q2, q4}:
    WF_api(part = "smooth" /\ Model!Progress(r) /\ Only({q1, q2, q4}) /\ Few /\ NoError
             /\ UNCHANGED <<part, accounts, control, seed>>)

ApiSpec == ApiInit /\ [][ApiNext]_api /\ Fairness

(* "Cannot disable the last active owner" *)
AnActiveOwner == Accounts!AnActiveOwner

(* Liveness: a run that nothing interrupts reaches COMPLETED or FAILED,     *)
(* also when its authorization is withdrawn.                                *)
ModelRunsEnd == part = "smooth" => Model!EveryRunEnds
===============================================================================
