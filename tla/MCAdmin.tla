------------------------------- MODULE MCAdmin --------------------------------
(* The Admin Console on small instances.  Its shell and its pages share no  *)
(* state, so a behaviour exercises one of them, its part, while the others  *)
(* rest in an initial state.                                                *)
EXTENDS AdminApp

CONSTANTS f, c1

VARIABLE part

Parts == {"console", "reloaded", "employees", "twice", "pages", "filtered"}

MCInit ==
  /\ part \in Parts
  /\ AppInit
  /\ request[c1] # Staff!NoCall /\ load[c1] # Audit!NoCall

(* Bounds: the tab is reloaded where liveness is not asked for; one of the  *)
(* two employees is changed, with more clicks, or both; events of one kind  *)
(* and several times are read twice, or of one time, one of them of another *)
(* kind, with a filter that changes.                                        *)
MCNext ==
  /\ UNCHANGED part
  /\ \/ part = "console" /\ ConsoleStep /\ reloads' = 0
     \/ part = "reloaded" /\ ConsoleStep
     \/ part = "employees" /\ EmployeesStep /\ presses' <= 5
     \/ part = "twice" /\ EmployeesStep /\ accounts'.status[f] = "ACTIVE" /\ selected'.id # f
     \/ part = "pages" /\ AuditStep /\ turns' <= 2 /\ (\A e \in appended': e.action = "x")
                       /\ view'.filter = ""
     \/ part = "filtered" /\ AuditStep /\ clock' = 0 /\ turns' <= 2
                          /\ \A e, g \in appended': e.action = "y" /\ g.action = "y" => e = g

(* Every request of the tab is answered or given up, and its answer         *)
(* handled.                                                                 *)
Tab(A) == part = "console" /\ A /\ UNCHANGED <<part, employees, audit>>
Page(A) == part = "employees" /\ A /\ UNCHANGED <<part, console, audit>>
MCFairness ==
  /\ \A c \in TabCalls: WF_<<part, app>>(Tab(Console!Served(c))) /\ WF_<<part, app>>(Tab(Console!Handled(c)))
  /\ \A c \in PageCalls: WF_<<part, app>>(Page(Staff!Serve(c))) /\ WF_<<part, app>>(Page(Staff!Answer(c)))

MCSpec == MCInit /\ [][MCNext]_<<part, app>> /\ MCFairness

(* Liveness: the tab does not stay at "Loading administrator session", Sign *)
(* out gives the token up, also when the API cannot be reached, and the     *)
(* lists of the employees' page do not stay loading.                        *)
AdminProgress ==
  /\ part = "console" => Console!SessionStarts /\ Console!SignOutEnds
  /\ part = "employees" => Staff!LoadingEnds
===============================================================================
