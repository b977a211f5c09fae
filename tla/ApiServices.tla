----------------------------- MODULE ApiServices ------------------------------
(***************************************************************************)
(* Services of the API side by side: accounts and their sessions, the      *)
(* organization's control plane, and model runs.  The role of a user is    *)
(* what the seed has given it, and the authorization of a model run, which *)
(* the other two may take away, is an input of ModelInvocation that        *)
(* changes at any time; they share no other row that one of them writes.   *)
(***************************************************************************)
EXTENDS Naturals, Sequences

CONSTANTS
  Users, Role,
  Sessions, MaxChanges,                                                         \* AccountAdmin
  Departments, Perms, Targets, Writable, MaxCommits,                            \* ControlPlane
  Requests, Keys, Key, Fingerprint, CallIds, Batches, Withdrawn, DbFails, Crashes   \* ModelInvocation

VARIABLES
  account, session, asking, audit, doomed,   \* AccountAdmin
  db, tx, log, commits,                      \* ControlPlane
  authorized, run, rows, request, asked      \* ModelInvocation

Accounts == INSTANCE AccountAdmin WITH request <- asking
Control == INSTANCE ControlPlane WITH audit <- log
Model == INSTANCE ModelInvocation

ASSUME RoleAssumption == Role \in [Users -> {"OWNER", "ADMIN", "MEMBER"}]

(* Departments, users and the organization are told apart.                  *)
ASSUME ControlAssumption ==
  /\ "org" \notin Departments \cup Users /\ Users \cap Departments = {}
  /\ Perms \subseteq {"DEPARTMENT:MANAGE", "DEPARTMENT:ASSIGN", "AGENT:MANAGE", "AGENT:ASSIGN", "AGENT:EXECUTE"}
  /\ MaxCommits \in Nat

ASSUME ModelAssumption == Key \in [Requests -> Keys] /\ Batches \subseteq Seq(CallIds)

accounts == <<account, session, asking, audit, doomed>>
control == <<db, tx, log, commits>>
model == <<authorized, run, rows, request, asked>>
services == <<accounts, control, model>>

ServicesInit == Accounts!Init /\ Control!Init /\ Model!Init

AccountsStep == Accounts!Next /\ UNCHANGED <<control, model>>
ControlStep == Control!Next /\ UNCHANGED <<accounts, model>>
ModelStep == Model!Next /\ UNCHANGED <<accounts, control>>

ServicesNext == AccountsStep \/ ControlStep \/ ModelStep

ServicesSpec == ServicesInit /\ [][ServicesNext]_services

-----------------------------------------------------------------------------
(* The audit log tells the whole story of every account, although events    *)
(* are written by transactions that overlap; a session that a disable has   *)
(* seen is never accepted again, and revoking one leaves the others alone.  *)
AccountsAreSafe ==
  /\ [](Accounts!TypeOK /\ Accounts!AuditIsHistory /\ Accounts!MustSignInAgain)
  /\ Accounts!OnlyThatSession

(* The events of a row form a chain that ends in what it holds; whoever     *)
(* wrote a row was entitled to by what the log says, where a DENY wins; and *)
(* runs start only under an assignment.                                     *)
ControlIsLogged ==
  /\ [](Control!TypeOK /\ Control!AuditChain)
  /\ Control!AuthorityIsLogged
  /\ Control!RunsAreAssigned

(* One request per key asks the provider, within the limits; what somebody  *)
(* was told stands; and calls are recorded without a gap, while the run is  *)
(* authorized and has not ended.                                            *)
ModelRunsHold ==
  /\ [](Model!TypeOK /\ Model!OneAsker /\ Model!WithinLimits /\ Model!RepliesStand)
  /\ Model!CallsInRun
===============================================================================
