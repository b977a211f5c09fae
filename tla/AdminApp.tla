-------------------------------- MODULE AdminApp -------------------------------
(***************************************************************************)
(* The Admin Console in one tab: its shell, the Employees page and the     *)
(* audit log side by side.  They share no variable; what the API answers   *)
(* to a page is modelled with the page.                                    *)
(***************************************************************************)
EXTENDS Naturals, Sequences

CONSTANTS
  Accounts, Administrators, TabCalls, MaxLogins, MaxClicks, MaxReloads,   \* AdminConsole
  Employees, PageCalls, MaxPresses, MaxChanges,                           \* AdminEmployees
  Actions, LogCalls, Limit, MaxEvents, MaxTime, MaxTurns                  \* AuditLogs

VARIABLES
  sessions, disabled, tab, call, clicks, reloads,                          \* AdminConsole
  accounts, people, overrides, selected, panel, own, request, presses,     \* AdminEmployees
  clock, appended, log, view, load, basis, turns                           \* AuditLogs

Console == INSTANCE AdminConsole WITH Calls <- TabCalls
Staff == INSTANCE AdminEmployees WITH
  Calls <- PageCalls, MaxClicks <- MaxPresses, call <- request, clicks <- presses
Audit == INSTANCE AuditLogs WITH
  Calls <- LogCalls, MaxClicks <- MaxTurns, call <- load, clicks <- turns

console == <<sessions, disabled, tab, call, clicks, reloads>>
employees == <<accounts, people, overrides, selected, panel, own, request, presses>>
audit == <<clock, appended, log, view, load, basis, turns>>
app == <<console, employees, audit>>

(* "none" is nobody's name, and neither "", "none" nor "mixed" a kind of    *)
(* event.                                                                   *)
ASSUME AdminAppAssumption ==
  /\ "none" \notin Accounts \cup Employees
  /\ Actions \cap {"", "none", "mixed"} = {}
  /\ {MaxLogins, MaxClicks, MaxReloads, MaxPresses, MaxChanges, MaxEvents, MaxTime, MaxTurns} \subseteq Nat
  /\ Limit \in Nat \ {0}

AppInit == Console!Init /\ Staff!Init /\ Audit!Init

ConsoleStep == Console!Next /\ UNCHANGED <<employees, audit>>
EmployeesStep == Staff!Next /\ UNCHANGED <<console, audit>>
AuditStep == Audit!Next /\ UNCHANGED <<console, employees>>

AppNext == ConsoleStep \/ EmployeesStep \/ AuditStep

AppSpec == AppInit /\ [][AppNext]_app /\ Console!Fairness /\ Staff!Fairness

-----------------------------------------------------------------------------
(* Everything on the screen belongs together: names and data to the account *)
(* that is signed in, the panel to the list, the overrides to the selected  *)
(* employee, and the list is not older than the page's own change; a member *)
(* loads nothing.                                                           *)
AdminScreens ==
  /\ Console!TypeOK /\ Console!ScreenIsOfSession /\ Console!MembersLoadNothing
  /\ Staff!TypeOK /\ Staff!OwnChangeIsShown /\ Staff!PanelAgreesWithList /\ Staff!OverridesAreOfSelected

(* The audit log's pages, read at different times and through filters, make *)
(* a list without gaps, in order.                                           *)
AuditPages == Audit!TypeOK /\ Audit!ListIsWhole /\ Audit!NewestFirst
===============================================================================
