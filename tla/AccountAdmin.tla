----------------------------- MODULE AccountAdmin -----------------------------
(***************************************************************************)
(* Accounts, sessions and the audit log: SessionRepository and             *)
(* AuditRepository.changeAccountStatus.                                    *)
(*                                                                         *)
(* A login reads the account, checks the password and inserts its session  *)
(* in two statements without a transaction.  A request is authenticated    *)
(* by one query and handled later.  changeAccountStatus is a transaction   *)
(* at RepeatableRead: it decides in its snapshot and fails at its writes   *)
(* when a row it writes has been written since.                            *)
(***************************************************************************)
EXTENDS Naturals, Sequences

CONSTANTS
  Users,
  Role,         \* OrganizationMembership.role of each user; all are active
  Sessions,
  MaxChanges    \* bound: audit events

Status == {"ACTIVE", "DISABLED"}

VARIABLES
  account,   \* Account.status
  session,   \* Session: its user, once somebody logs in, and its state
  request,   \* the request each session has under way, with its snapshot
  audit,     \* AuditEvent, in the order of the commits
  doomed     \* for the properties: sessions that a disable has seen

vars == <<account, session, request, audit, doomed>>

NoRequest == [at |-> "idle"]
Live == {s \in Sessions: session[s].state = "live"}

TypeOK ==
  /\ account \in [Users -> Status]
  /\ session \in [Sessions -> [user: Users \cup {"nobody"}, state: {"unused", "checked", "live", "revoked"}]]
  /\ \A s \in Sessions: request[s].at \in {"idle", "accepted", "writing"}
  /\ audit \in Seq([actor: Users, subject: Users, before: Status, after: Status])
  /\ doomed \subseteq Sessions

Init ==
  /\ account = [u \in Users |-> "ACTIVE"]
  /\ session = [s \in Sessions |-> [user |-> "nobody", state |-> "unused"]]
  /\ request = [s \in Sessions |-> NoRequest]
  /\ audit = <<>>
  /\ doomed = {}

-----------------------------------------------------------------------------
(* SessionRepository *)

(* login: the account is active and the password is right. *)
CheckPassword(s, u) ==
  /\ session[s].state = "unused"
  /\ account[u] = "ACTIVE"
  /\ session' = [session EXCEPT ![s] = [user |-> u, state |-> "checked"]]
  /\ UNCHANGED <<account, request, audit, doomed>>

CreateSession(s) ==
  /\ session[s].state = "checked"
  /\ session' = [session EXCEPT ![s].state = "live"]
  /\ UNCHANGED <<account, request, audit, doomed>>

Accepted(s) == s \in Live /\ account[session[s].user] = "ACTIVE"

(* Mutant: a logout revokes every session of the user. *)
LogoutUser(s) ==
  /\ Accepted(s)
  /\ session' = [t \in Sessions |->
       IF session[t].user = session[s].user THEN [session[t] EXCEPT !.state = "revoked"] ELSE session[t]]
  /\ request' = [r \in Sessions |->
       IF request[r].at = "writing" THEN [request[r] EXCEPT !.stale = @ \cup {s}] ELSE request[r]]
  /\ UNCHANGED <<account, audit, doomed>>

(* stale: the rows that others have written since the snapshot. *)
Logout(s) ==
  /\ Accepted(s)
  /\ session' = [session EXCEPT ![s].state = "revoked"]
  /\ request' = [r \in Sessions |->
       IF request[r].at = "writing" THEN [request[r] EXCEPT !.stale = @ \cup {s}] ELSE request[r]]
  /\ UNCHANGED <<account, audit, doomed>>

(* resolveBearer, in the onRequest hook *)
Accept(s) ==
  /\ Accepted(s) /\ request[s] = NoRequest
  /\ request' = [request EXCEPT ![s] = [at |-> "accepted"]]
  /\ UNCHANGED <<account, session, audit, doomed>>

-----------------------------------------------------------------------------
(* changeAccountStatus *)

(* activeAdmin, then the refusals in their order.  The organization's *)
(* owners are counted by their memberships.                            *)
Answer(actor, subject, status) ==
  IF account[actor] # "ACTIVE" THEN "NOT_FOUND"
  ELSE IF Role[actor] = "MEMBER" THEN "FORBIDDEN"
  ELSE IF subject = actor THEN "CANNOT_MODIFY_SELF"
  ELSE IF Role[actor] = "ADMIN" /\ Role[subject] # "MEMBER" THEN "FORBIDDEN"
  ELSE IF status = "DISABLED" /\ Role[subject] = "OWNER" /\ {u \in Users: Role[u] = "OWNER"} = {subject}
       THEN "LAST_ACTIVE_OWNER"
  ELSE IF account[subject] = status THEN "UNCHANGED" ELSE "WRITE"

(* The snapshot: what the transaction reads, and the sessions it can see. *)
Begin(s, subject, status) ==
  /\ request[s].at = "accepted"
  /\ request' = [request EXCEPT ![s] =
       IF Answer(session[s].user, subject, status) = "WRITE"
       THEN [at |-> "writing", subject |-> subject, status |-> status, before |-> account[subject],
             sees |-> {t \in Live: session[t].user = subject}, stale |-> {}]
       ELSE NoRequest]
  /\ UNCHANGED <<account, session, audit, doomed>>

Revoked(r) == IF r.status = "DISABLED" THEN r.sees ELSE {}

Written(r) == {r.subject} \cup Revoked(r)

(* Another writer came first: the transaction fails, nothing is written. *)
Abort(s) ==
  /\ request[s].at = "writing"
  /\ request[s].stale \cap Written(request[s]) # {}
  /\ request' = [request EXCEPT ![s] = NoRequest]
  /\ UNCHANGED <<account, session, audit, doomed>>

Write(s, r, revoked) ==
  /\ Len(audit) < MaxChanges
  /\ account' = [account EXCEPT ![r.subject] = r.status]
  /\ session' = [t \in Sessions |-> IF t \in revoked THEN [session[t] EXCEPT !.state = "revoked"] ELSE session[t]]
  /\ audit' = Append(audit, [actor |-> session[s].user, subject |-> r.subject,
                             before |-> r.before, after |-> r.status])
  /\ doomed' = doomed \cup Revoked(r)
  /\ request' = [t \in Sessions |->
       IF t = s THEN NoRequest
       ELSE IF request[t].at = "writing" THEN [request[t] EXCEPT !.stale = @ \cup Written(r)]
       ELSE request[t]]

(* Mutant: READ COMMITTED, the last writer wins. *)
CommitBlind(s) ==
  /\ request[s].at = "writing"
  /\ Write(s, request[s], Revoked(request[s]))

(* Mutant: the sessions are left alone. *)
CommitAccountOnly(s) ==
  /\ request[s].at = "writing"
  /\ request[s].stale \cap Written(request[s]) = {}
  /\ Write(s, request[s], {})

(* The status, the revocations and the audit event in one transaction. *)
Commit(s) ==
  /\ request[s].at = "writing"
  /\ request[s].stale \cap Written(request[s]) = {}
  /\ Write(s, request[s], Revoked(request[s]))

Next ==
  \E s \in Sessions:
    \/ \E u \in Users: CheckPassword(s, u)
    \/ CreateSession(s) \/ Logout(s) \/ Accept(s)
    \/ \E u \in Users, status \in Status: Begin(s, u, status)
    \/ Abort(s) \/ Commit(s)

Spec == Init /\ [][Next]_vars

-----------------------------------------------------------------------------
(* What the first n events of the log tell of an account: the last of them  *)
(* that is about it, or that nothing has changed.                           *)
LastAbout(u, i, n) == i \in 1..n /\ audit[i].subject = u /\ \A j \in i + 1..n: audit[j].subject # u

Told(u, n) ==
  IF \A i \in 1..n: audit[i].subject # u THEN {"ACTIVE"}
  ELSE {audit[i].after: i \in {j \in 1..n: LastAbout(u, j, n)}}

(* The audit log tells the whole story of every account: each event starts *)
(* where the one before it ended, and the last one is the account's status,*)
(* although events are written by transactions that overlap.               *)
AuditIsHistory ==
  /\ \A i \in 1..Len(audit):
       Told(audit[i].subject, i - 1) = {audit[i].before} /\ audit[i].before # audit[i].after
  /\ \A u \in Users: Told(u, Len(audit)) = {account[u]}

(* A session that a disable has seen is never accepted again, even when    *)
(* the account is enabled later: its user must sign in again.              *)
MustSignInAgain == doomed \cap Live = {}

(* Revoking a session leaves the other sessions of an active user alone.   *)
OnlyThatSession ==
  [][\A s, t \in Live: s # t /\ s \notin Live' /\ t \notin Live' => account' # account]_vars

(* "Cannot disable the last active owner" *)
AnActiveOwner == \E u \in Users: Role[u] = "OWNER" /\ account[u] = "ACTIVE"
===============================================================================
