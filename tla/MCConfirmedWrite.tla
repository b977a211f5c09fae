--------------------------- MODULE MCConfirmedWrite ---------------------------
(* A small instance of ConfirmedWrite.  In a calm behaviour every answer    *)
(* arrives and the session lasts; in the others everything may fail.        *)
EXTENDS ConfirmedWrite

CONSTANTS e, o

VARIABLE calm

Calm == INSTANCE ConfirmedWrite WITH Faulty <- FALSE

SmallInit == Init /\ calm \in BOOLEAN

SmallSpec ==
  /\ SmallInit
  /\ [][UNCHANGED calm /\ IF calm THEN Calm!Next ELSE Next]_<<vars, calm>>
  /\ \A c \in Calls: WF_<<vars, calm>>(calm /\ Calm!Continue(c) /\ UNCHANGED calm)

(* Liveness: while every answer arrives, a request that runs is reported as *)
(* done or failed.  With a lost answer it may run for ever.                 *)
CalmRunsAreReported == calm => RunsAreReported
===============================================================================
