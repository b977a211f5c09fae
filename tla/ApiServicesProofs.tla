--------------------------- MODULE ApiServicesProofs ---------------------------
(***************************************************************************)
(* Proofs about the services of the API: the log tells the history of      *)
(* every account and of every audited row, nobody writes or runs what the  *)
(* log does not entitle to, and a key asks the model's provider once.  The *)
(* services share no variable, so that each has an invariant of its own.   *)
(* The demo seed, which runs beside them, repairs what it left.            *)
(***************************************************************************)
EXTENDS ApiServices, SeedDemo, SequenceTheorems, TLAPS

(***************************************************************************)
(* Accounts and sessions.                                                  *)
(***************************************************************************)

AccountEvent == [actor: Users, subject: Users, before: Accounts!Status, after: Accounts!Status]

SessionRow == [user: Users \cup {"nobody"}, state: {"unused", "checked", "live", "revoked"}]

Change == [at: {"writing"}, subject: Users, status: Accounts!Status, before: Accounts!Status,
           sees: SUBSET Sessions, stale: SUBSET (Users \cup Sessions)]

Asking == {Accounts!NoRequest, [at |-> "accepted"]} \cup Change

AccountTypes ==
  /\ account \in [Users -> Accounts!Status]
  /\ session \in [Sessions -> SessionRow]
  /\ asking \in [Sessions -> Asking]
  /\ audit \in Seq(AccountEvent)
  /\ doomed \subseteq Sessions

(* Whoever asks has logged in, and whoever has logged in is a user.         *)
AskersAreUsers ==
  \A s \in Sessions:
    /\ session[s].state # "unused" => session[s].user \in Users
    /\ asking[s].at # "idle" => session[s].state \in {"live", "revoked"}

(* A change that may still commit is of the status its snapshot has seen.   *)
SnapshotsHold ==
  \A s \in Sessions: asking[s].at = "writing" =>
    /\ asking[s].before # asking[s].status
    /\ asking[s].subject \notin asking[s].stale => account[asking[s].subject] = asking[s].before

(* What a change has seen had been opened, and stays so.                    *)
SeenAreOpened ==
  \A s \in Sessions: asking[s].at = "writing" => \A t \in asking[s].sees: session[t].state \in {"live", "revoked"}

DoomedAreRevoked == \A s \in doomed: session[s].state = "revoked"

AccountsInv ==
  /\ AccountTypes /\ AskersAreUsers /\ SnapshotsHold /\ SeenAreOpened /\ DoomedAreRevoked
  /\ Accounts!AuditIsHistory

(* What the first n events of a log tell of a user.                         *)
LastOf(events, u, i, n) == i \in 1..n /\ events[i].subject = u /\ \A j \in i + 1..n: events[j].subject # u

ToldOf(events, u, n) ==
  IF \A i \in 1..n: events[i].subject # u THEN {"ACTIVE"}
  ELSE {events[i].after: i \in {j \in 1..n: LastOf(events, u, j, n)}}

LEMMA ToldIsToldOf ==
  ASSUME NEW u, NEW n
  PROVE  Accounts!Told(u, n) = ToldOf(audit, u, n) /\ Accounts!Told(u, n)' = ToldOf(audit', u, n)
BY DEF Accounts!Told, ToldOf, Accounts!LastAbout, LastOf

(* The n-th event is about somebody else, or it is the last about u.        *)
LEMMA NextEventTells ==
  ASSUME NEW events, NEW u, NEW n \in Nat
  PROVE  ToldOf(events, u, n + 1) =
           IF events[n + 1].subject = u THEN {events[n + 1].after} ELSE ToldOf(events, u, n)
<1>1. CASE events[n + 1].subject = u
  <2>1. \A i \in 1..n + 1: LastOf(events, u, i, n + 1) <=> i = n + 1
    BY <1>1 DEF LastOf
  <2>2. {j \in 1..n + 1: LastOf(events, u, j, n + 1)} = {n + 1}
    BY <2>1
  <2> QED BY <1>1, <2>2 DEF ToldOf
<1>2. CASE events[n + 1].subject # u
  <2>1. (\A i \in 1..n + 1: events[i].subject # u) <=> (\A i \in 1..n: events[i].subject # u)
    BY <1>2
  <2>2. {j \in 1..n + 1: LastOf(events, u, j, n + 1)} = {j \in 1..n: LastOf(events, u, j, n)}
    <3>1. \A i \in 1..n + 1: LastOf(events, u, i, n + 1) <=> i \in 1..n /\ LastOf(events, u, i, n)
      BY <1>2 DEF LastOf
    <3> QED BY <3>1
  <2> QED BY <1>2, <2>1, <2>2 DEF ToldOf
<1> QED BY <1>1, <1>2

(* What earlier events tell does not depend on later ones.                  *)
LEMMA EarlierEventsTell ==
  ASSUME NEW events, NEW more, NEW u, NEW n \in Nat, \A i \in 1..n: events[i] = more[i]
  PROVE  ToldOf(events, u, n) = ToldOf(more, u, n)
<1>1. \A i \in 1..n: LastOf(events, u, i, n) <=> LastOf(more, u, i, n)
  BY DEF LastOf
<1>2. {j \in 1..n: LastOf(events, u, j, n)} = {j \in 1..n: LastOf(more, u, j, n)}
  BY <1>1
<1>3. {events[i].after: i \in {j \in 1..n: LastOf(events, u, j, n)}}
        = {more[i].after: i \in {j \in 1..n: LastOf(more, u, j, n)}}
  BY <1>2
<1> QED BY <1>3 DEF ToldOf

LEMMA AccountsStart == Accounts!Init => AccountsInv
<1> SUFFICES ASSUME Accounts!Init PROVE AccountsInv
  OBVIOUS
<1>1. /\ account = [u \in Users |-> "ACTIVE"] /\ audit = <<>> /\ doomed = {}
      /\ session = [s \in Sessions |-> [user |-> "nobody", state |-> "unused"]]
      /\ asking = [s \in Sessions |-> Accounts!NoRequest]
  BY DEF Accounts!Init
<1>2. AccountTypes
  <2>1. audit \in Seq(AccountEvent)
    BY <1>1
  <2>2. session \in [Sessions -> SessionRow]
    BY <1>1 DEF SessionRow
  <2>3. asking \in [Sessions -> Asking]
    BY <1>1 DEF Asking
  <2> QED BY <1>1, <2>1, <2>2, <2>3 DEF AccountTypes, Accounts!Status
<1>3. AskersAreUsers /\ SnapshotsHold /\ SeenAreOpened /\ DoomedAreRevoked
  BY <1>1 DEF AskersAreUsers, SnapshotsHold, SeenAreOpened, DoomedAreRevoked, Accounts!NoRequest
<1>4. Accounts!AuditIsHistory
  <2>1. Len(audit) = 0
    BY <1>1
  <2>2. \A u \in Users: ToldOf(audit, u, 0) = {"ACTIVE"}
    BY DEF ToldOf
  <2> QED BY <1>1, <2>1, <2>2, ToldIsToldOf DEF Accounts!AuditIsHistory
<1> QED BY <1>2, <1>3, <1>4 DEF AccountsInv

(* A log of so many events tells the statuses of the accounts.              *)
Story(events, size, status) ==
  /\ \A i \in 1..size: ToldOf(events, events[i].subject, i - 1) = {events[i].before} /\ events[i].before # events[i].after
  /\ \A u \in Users: ToldOf(events, u, size) = {status[u]}

(* One more event, and what it tells.                                       *)
Longer(old, new, size, e) == (\A i \in 1..size: new[i] = old[i]) /\ new[size + 1] = e

Follows(status, status2, e) ==
  /\ e.subject \in Users /\ e.before = status[e.subject] /\ e.before # e.after
  /\ \A u \in Users: status2[u] = IF u = e.subject THEN e.after ELSE status[u]

LEMMA StoryGrows ==
  ASSUME NEW old, NEW new, NEW size \in Nat, NEW status, NEW status2, NEW e,
         Story(old, size, status), Longer(old, new, size, e), Follows(status, status2, e)
  PROVE  Story(new, size + 1, status2)
<1> USE DEF Longer, Follows
<1>1. \A u, i: i \in 0..size => ToldOf(new, u, i) = ToldOf(old, u, i)
  <2> SUFFICES ASSUME NEW u, NEW i \in 0..size PROVE ToldOf(new, u, i) = ToldOf(old, u, i)
    OBVIOUS
  <2>1. i \in Nat /\ \A j \in 1..i: new[j] = old[j]
    OBVIOUS
  <2> QED BY <2>1, EarlierEventsTell
<1>2. ASSUME NEW i \in 1..size + 1
      PROVE  ToldOf(new, new[i].subject, i - 1) = {new[i].before} /\ new[i].before # new[i].after
  <2>1. CASE i \in 1..size
    <3>1. new[i] = old[i] /\ i - 1 \in 0..size
      BY <2>1
    <3> QED BY <1>1, <2>1, <3>1 DEF Story
  <2>2. CASE i = size + 1
    <3>1. i - 1 = size /\ size \in 0..size
      BY <2>2
    <3>2. ToldOf(new, new[size + 1].subject, size) = {status[new[size + 1].subject]}
      BY <1>1, <3>1 DEF Story
    <3> QED BY <2>2, <3>1, <3>2
  <2> QED BY <2>1, <2>2
<1>3. ASSUME NEW u \in Users PROVE ToldOf(new, u, size + 1) = {status2[u]}
  <2>1. ToldOf(new, u, size) = {status[u]}
    BY <1>1 DEF Story
  <2>2. ToldOf(new, u, size + 1) = IF new[size + 1].subject = u THEN {new[size + 1].after} ELSE ToldOf(new, u, size)
    BY NextEventTells
  <2> QED BY <2>1, <2>2
<1> QED BY <1>2, <1>3 DEF Story

LEMMA HistoryIsStory ==
  /\ Accounts!AuditIsHistory <=> Story(audit, Len(audit), account)
  /\ Accounts!AuditIsHistory' <=> Story(audit', Len(audit'), account')
<1>1. \A u, n: Accounts!Told(u, n) = ToldOf(audit, u, n)
  BY ToldIsToldOf
<1>2. \A u, n: Accounts!Told(u, n)' = ToldOf(audit', u, n)
  BY ToldIsToldOf
<1>3. Accounts!AuditIsHistory <=> Story(audit, Len(audit), account)
  BY <1>1 DEF Accounts!AuditIsHistory, Story
<1>4. Accounts!AuditIsHistory' <=> Story(audit', Len(audit'), account')
  BY <1>2 DEF Accounts!AuditIsHistory, Story
<1> QED BY <1>3, <1>4

(* A step that leaves accounts and log alone keeps what the log tells.      *)
LEMMA HistoryStays ==
  ASSUME Accounts!AuditIsHistory, account' = account, audit' = audit
  PROVE  Accounts!AuditIsHistory'
BY HistoryIsStory

(* Another event is appended, which starts from the account's status.       *)
LEMMA HistoryGrows ==
  ASSUME AccountTypes, Accounts!AuditIsHistory,
         NEW e \in AccountEvent, audit' = Append(audit, e),
         e.before = account[e.subject], e.before # e.after,
         account' = [account EXCEPT ![e.subject] = e.after]
  PROVE  Accounts!AuditIsHistory'
<1>1. /\ Len(audit) \in Nat /\ Len(audit') = Len(audit) + 1 /\ audit'[Len(audit) + 1] = e
      /\ \A i \in 1..Len(audit): audit'[i] = audit[i]
  BY DEF AccountTypes
<1>2. e.subject \in Users /\ \A u \in Users: account'[u] = IF u = e.subject THEN e.after ELSE account[u]
  BY DEF AccountEvent, AccountTypes
<1>3. Story(audit, Len(audit), account) /\ Longer(audit, audit', Len(audit), e) /\ Follows(account, account', e)
  BY <1>1, <1>2, HistoryIsStory DEF Longer, Follows
<1>4. Story(audit', Len(audit) + 1, account')
  BY <1>1, <1>3, StoryGrows
<1> QED BY <1>1, <1>4, HistoryIsStory

(* Changes are told apart from the other requests.                          *)
LEMMA ChangesAre ==
  ASSUME AccountTypes, NEW s \in Sessions
  PROVE  /\ asking[s] \in Asking
         /\ asking[s].at \in {"idle", "accepted", "writing"}
         /\ asking[s].at = "writing" <=> asking[s] \in Change
         /\ asking[s] = Accounts!NoRequest => asking[s].at = "idle"
<1>1. asking[s] \in Asking
  BY DEF AccountTypes
<1> QED BY <1>1 DEF Asking, Change, Accounts!NoRequest

LEMMA ChangeIs ==
  ASSUME AccountTypes, NEW s \in Sessions, asking[s].at = "writing"
  PROVE  /\ asking[s].subject \in Users /\ {asking[s].status, asking[s].before} \subseteq Accounts!Status
         /\ asking[s].sees \subseteq Sessions /\ asking[s].stale \subseteq Users \cup Sessions
         /\ \A more \in SUBSET (Users \cup Sessions):
              LET next == [asking[s] EXCEPT !.stale = @ \cup more]
              IN  /\ next \in Change /\ next.at = "writing"
                  /\ next.subject = asking[s].subject /\ next.before = asking[s].before
                  /\ next.status = asking[s].status /\ next.sees = asking[s].sees /\ next.stale = asking[s].stale \cup more
<1>1. asking[s] \in Change
  BY ChangesAre
<1> QED BY <1>1 DEF Change

(* Rows were written: every open change knows it.                           *)
Stained(more) ==
  \A r \in Sessions: asking'[r] =
    IF asking[r].at = "writing" THEN [asking[r] EXCEPT !.stale = @ \cup more] ELSE asking[r]

LEMMA CheckPasswordKeeps ==
  ASSUME AccountsInv, NEW s \in Sessions, NEW u \in Users, Accounts!CheckPassword(s, u)
  PROVE  AccountsInv'
<1> USE DEF AccountsInv
<1>1. /\ session[s].state = "unused" /\ session' = [session EXCEPT ![s] = [user |-> u, state |-> "checked"]]
      /\ account' = account /\ asking' = asking /\ audit' = audit /\ doomed' = doomed
  BY DEF Accounts!CheckPassword
<1>2. /\ session' \in [Sessions -> SessionRow] /\ session'[s].user = u /\ session'[s].state = "checked"
      /\ \A t \in Sessions \ {s}: session'[t] = session[t]
  BY <1>1 DEF AccountTypes, SessionRow
<1>3. AccountTypes'
  BY <1>1, <1>2 DEF AccountTypes
<1>4. AskersAreUsers'
  BY <1>1, <1>2 DEF AskersAreUsers
<1>5. SnapshotsHold' /\ Accounts!AuditIsHistory'
  BY <1>1, HistoryStays DEF SnapshotsHold
<1>6. DoomedAreRevoked' /\ SeenAreOpened'
  <2>1. s \notin doomed
    BY <1>1 DEF DoomedAreRevoked
  <2>2. DoomedAreRevoked'
    BY <1>1, <1>2, <2>1 DEF DoomedAreRevoked, AccountTypes
  <2>3. \A t \in Sessions: session[t].state \in {"live", "revoked"} => session'[t] = session[t]
    BY <1>1, <1>2
  <2>4. \A r \in Sessions: asking[r].at = "writing" => asking[r].sees \subseteq Sessions
    BY ChangeIs
  <2> QED BY <1>1, <2>2, <2>3, <2>4 DEF SeenAreOpened
<1> QED BY <1>3, <1>4, <1>5, <1>6

LEMMA CreateSessionKeeps ==
  ASSUME AccountsInv, NEW s \in Sessions, Accounts!CreateSession(s)
  PROVE  AccountsInv'
<1> USE DEF AccountsInv
<1>1. /\ session[s].state = "checked" /\ session' = [session EXCEPT ![s].state = "live"]
      /\ account' = account /\ asking' = asking /\ audit' = audit /\ doomed' = doomed
  BY DEF Accounts!CreateSession
<1>2. /\ session' \in [Sessions -> SessionRow] /\ session'[s].user = session[s].user /\ session'[s].state = "live"
      /\ \A t \in Sessions \ {s}: session'[t] = session[t]
  BY <1>1 DEF AccountTypes, SessionRow
<1>3. AccountTypes'
  BY <1>1, <1>2 DEF AccountTypes
<1>4. AskersAreUsers'
  BY <1>1, <1>2 DEF AskersAreUsers
<1>5. SnapshotsHold' /\ Accounts!AuditIsHistory'
  BY <1>1, HistoryStays DEF SnapshotsHold
<1>6. DoomedAreRevoked' /\ SeenAreOpened'
  <2>1. s \notin doomed
    BY <1>1 DEF DoomedAreRevoked
  <2>2. DoomedAreRevoked'
    BY <1>1, <1>2, <2>1 DEF DoomedAreRevoked, AccountTypes
  <2>3. \A t \in Sessions: session[t].state \in {"live", "revoked"} => session'[t] = session[t]
    BY <1>1, <1>2
  <2>4. \A r \in Sessions: asking[r].at = "writing" => asking[r].sees \subseteq Sessions
    BY ChangeIs
  <2> QED BY <1>1, <2>2, <2>3, <2>4 DEF SeenAreOpened
<1> QED BY <1>3, <1>4, <1>5, <1>6

LEMMA StainKeeps ==
  ASSUME AccountTypes, SnapshotsHold, NEW more \in SUBSET (Users \cup Sessions), Stained(more),
         asking' = [r \in Sessions |-> asking'[r]], account' = account
  PROVE  /\ asking' \in [Sessions -> Asking] /\ SnapshotsHold'
         /\ \A r \in Sessions: asking'[r].at = asking[r].at
         /\ \A r \in Sessions: asking[r].at = "writing" => asking'[r].sees = asking[r].sees
<1>1. ASSUME NEW r \in Sessions, asking[r].at = "writing"
      PROVE  /\ asking'[r] \in Change /\ asking'[r].at = "writing" /\ asking'[r].subject = asking[r].subject
             /\ asking'[r].sees = asking[r].sees /\ asking'[r].before = asking[r].before /\ asking'[r].status = asking[r].status
             /\ asking'[r].stale = asking[r].stale \cup more
  <2>1. asking'[r] = [asking[r] EXCEPT !.stale = @ \cup more]
    BY <1>1 DEF Stained
  <2> QED BY <1>1, <2>1, ChangeIs
<1>2. \A r \in Sessions: asking[r].at # "writing" => asking'[r] = asking[r]
  BY DEF Stained
<1>3. \A r \in Sessions: asking'[r] \in Asking /\ asking'[r].at = asking[r].at
  BY <1>1, <1>2, ChangesAre DEF Asking
<1>4. SnapshotsHold'
  BY <1>1, <1>3 DEF SnapshotsHold
<1> QED BY <1>1, <1>3, <1>4

LEMMA LogoutKeeps ==
  ASSUME AccountsInv, NEW s \in Sessions, Accounts!Logout(s)
  PROVE  AccountsInv'
<1> USE DEF AccountsInv
<1>1. /\ session[s].state = "live" /\ session' = [session EXCEPT ![s].state = "revoked"]
      /\ asking' = [r \in Sessions |->
           IF asking[r].at = "writing" THEN [asking[r] EXCEPT !.stale = @ \cup {s}] ELSE asking[r]]
      /\ account' = account /\ audit' = audit /\ doomed' = doomed
  BY DEF Accounts!Logout, Accounts!Accepted, Accounts!Live
<1>2. /\ session' \in [Sessions -> SessionRow] /\ session'[s].user = session[s].user
      /\ session'[s].state = "revoked" /\ \A t \in Sessions \ {s}: session'[t] = session[t]
  BY <1>1 DEF AccountTypes, SessionRow
<1>3. /\ asking' \in [Sessions -> Asking] /\ SnapshotsHold' /\ \A r \in Sessions: asking'[r].at = asking[r].at
      /\ \A r \in Sessions: asking[r].at = "writing" => asking'[r].sees = asking[r].sees
  <2>1. Stained({s}) /\ {s} \in SUBSET (Users \cup Sessions) /\ asking' = [r \in Sessions |-> asking'[r]]
    BY <1>1 DEF Stained
  <2> QED BY <1>1, <2>1, StainKeeps
<1>4. AccountTypes'
  BY <1>1, <1>2, <1>3 DEF AccountTypes
<1>5. AskersAreUsers'
  BY <1>1, <1>2, <1>3 DEF AskersAreUsers
<1>6. Accounts!AuditIsHistory'
  BY <1>1, HistoryStays
<1>7. DoomedAreRevoked'
  BY <1>1, <1>2 DEF DoomedAreRevoked, AccountTypes
<1>8. SeenAreOpened'
  <2>1. \A r \in Sessions: asking[r].at = "writing" => asking[r].sees \subseteq Sessions
    BY ChangeIs
  <2>2. \A t \in Sessions: session[t].state \in {"live", "revoked"} => session'[t].state \in {"live", "revoked"}
    BY <1>2
  <2> QED BY <1>3, <2>1, <2>2 DEF SeenAreOpened
<1> QED BY <1>3, <1>4, <1>5, <1>6, <1>7, <1>8

(* One request moves, and nothing is written.                               *)
LEMMA RequestMoves ==
  ASSUME AccountsInv, NEW s \in Sessions, NEW next \in Asking, asking' = [asking EXCEPT ![s] = next],
         account' = account, session' = session, audit' = audit, doomed' = doomed,
         next.at # "idle" => session[s].state \in {"live", "revoked"},
         next.at = "writing" =>
           /\ next.before # next.status /\ account[next.subject] = next.before
           /\ \A t \in next.sees: session[t].state = "live"
  PROVE  AccountsInv'
<1> USE DEF AccountsInv
<1>1. asking' \in [Sessions -> Asking] /\ asking'[s] = next /\ \A r \in Sessions \ {s}: asking'[r] = asking[r]
  BY DEF AccountTypes
<1>2. AccountTypes' /\ DoomedAreRevoked' /\ Accounts!AuditIsHistory'
  BY <1>1, HistoryStays DEF AccountTypes, DoomedAreRevoked
<1>3. AskersAreUsers'
  BY <1>1 DEF AskersAreUsers
<1>4. SnapshotsHold' /\ SeenAreOpened'
  BY <1>1 DEF SnapshotsHold, SeenAreOpened
<1> QED BY <1>2, <1>3, <1>4

LEMMA AcceptKeeps ==
  ASSUME AccountsInv, NEW s \in Sessions, Accounts!Accept(s)
  PROVE  AccountsInv'
<1>1. [at |-> "accepted"] \in Asking /\ [at |-> "accepted"].at = "accepted"
  BY DEF Asking
<1>2. /\ asking' = [asking EXCEPT ![s] = [at |-> "accepted"]] /\ session[s].state = "live"
      /\ account' = account /\ session' = session /\ audit' = audit /\ doomed' = doomed
  BY DEF Accounts!Accept, Accounts!Accepted, Accounts!Live
<1> DEFINE next == [at |-> "accepted"]
<1>3. next \in Asking /\ next.at = "accepted" /\ asking' = [asking EXCEPT ![s] = next]
  BY <1>1, <1>2
<1> HIDE DEF next
<1> QED BY <1>2, <1>3, RequestMoves

LEMMA GiveUpKeeps ==
  ASSUME AccountsInv, NEW s \in Sessions, asking' = [asking EXCEPT ![s] = Accounts!NoRequest],
         account' = account, session' = session, audit' = audit, doomed' = doomed
  PROVE  AccountsInv'
<1>1. Accounts!NoRequest \in Asking /\ Accounts!NoRequest.at = "idle"
  BY DEF Asking, Accounts!NoRequest
<1> QED BY <1>1, RequestMoves

LEMMA BeginKeeps ==
  ASSUME AccountsInv, NEW s \in Sessions, NEW u \in Users, NEW status \in Accounts!Status,
         Accounts!Begin(s, u, status)
  PROVE  AccountsInv'
<1>1. account' = account /\ session' = session /\ audit' = audit /\ doomed' = doomed
  BY DEF Accounts!Begin
<1>2. CASE Accounts!Answer(session[s].user, u, status) # "WRITE"
  <2>1. asking' = [asking EXCEPT ![s] = Accounts!NoRequest]
    BY <1>2 DEF Accounts!Begin
  <2> QED BY <1>1, <2>1, GiveUpKeeps
<1>3. CASE Accounts!Answer(session[s].user, u, status) = "WRITE"
  <2> DEFINE next == [at |-> "writing", subject |-> u, status |-> status, before |-> account[u],
                      sees |-> {t \in Accounts!Live: session[t].user = u}, stale |-> {}]
  <2>1. asking[s].at = "accepted" /\ asking' = [asking EXCEPT ![s] = next]
    BY <1>3 DEF Accounts!Begin
  <2>2. account[u] \in Accounts!Status /\ account[u] # status
    BY <1>3 DEF Accounts!Answer, AccountsInv, AccountTypes
  <2>3. /\ next \in Change /\ next.at = "writing" /\ next.subject = u /\ next.before = account[u]
        /\ next.status = status /\ \A t \in next.sees: session[t].state = "live"
    BY <2>2 DEF Change, Accounts!Live
  <2> HIDE DEF next
  <2>4. session[s].state \in {"live", "revoked"}
    BY <2>1 DEF AccountsInv, AskersAreUsers
  <2> QED BY <1>1, <2>1, <2>2, <2>3, <2>4, RequestMoves DEF Asking
<1> QED BY <1>2, <1>3

LEMMA AbortKeeps ==
  ASSUME AccountsInv, NEW s \in Sessions, Accounts!Abort(s)
  PROVE  AccountsInv'
BY GiveUpKeeps DEF Accounts!Abort

(* The rows that a change writes have not been written since its snapshot.  *)
LEMMA CommitIs ==
  ASSUME AccountsInv, NEW s \in Sessions, Accounts!Commit(s)
  PROVE  LET r == asking[s]
             revoked == Accounts!Revoked(r)
         IN
         /\ r.at = "writing" /\ r.subject \in Users /\ {r.status, r.before} \subseteq Accounts!Status
         /\ account[r.subject] = r.before /\ r.before # r.status
         /\ revoked \subseteq Sessions /\ session[s].user \in Users
         /\ account' = [account EXCEPT ![r.subject] = r.status]
         /\ session' = [t \in Sessions |-> IF t \in revoked THEN [session[t] EXCEPT !.state = "revoked"] ELSE session[t]]
         /\ audit' = Append(audit, [actor |-> session[s].user, subject |-> r.subject,
                                    before |-> r.before, after |-> r.status])
         /\ doomed' = doomed \cup revoked
         /\ asking' = [t \in Sessions |->
              IF t = s THEN Accounts!NoRequest
              ELSE IF asking[t].at = "writing" THEN [asking[t] EXCEPT !.stale = @ \cup ({r.subject} \cup revoked)]
              ELSE asking[t]]
<1>1. asking[s].at = "writing" /\ asking[s].stale \cap Accounts!Written(asking[s]) = {}
  BY DEF Accounts!Commit
<1>2. Accounts!Write(s, asking[s], Accounts!Revoked(asking[s]))
  BY DEF Accounts!Commit
<1>3. asking[s].subject \notin asking[s].stale
  BY <1>1 DEF Accounts!Written
<1>4. /\ asking[s].subject \in Users /\ {asking[s].status, asking[s].before} \subseteq Accounts!Status
      /\ Accounts!Revoked(asking[s]) \subseteq Sessions
  BY <1>1, ChangeIs DEF AccountsInv, Accounts!Revoked
<1>5. account[asking[s].subject] = asking[s].before /\ asking[s].before # asking[s].status
  BY <1>1, <1>3 DEF AccountsInv, SnapshotsHold
<1>6. session[s].user \in Users
  BY <1>1 DEF AccountsInv, AskersAreUsers
<1> QED BY <1>1, <1>2, <1>4, <1>5, <1>6 DEF Accounts!Write, Accounts!Written

LEMMA CommitKeeps ==
  ASSUME AccountsInv, NEW s \in Sessions, Accounts!Commit(s)
  PROVE  AccountsInv'
<1> DEFINE r == asking[s]
           revoked == Accounts!Revoked(r)
           more == {r.subject} \cup revoked
           e == [actor |-> session[s].user, subject |-> r.subject, before |-> r.before, after |-> r.status]
<1>1. /\ r.subject \in Users /\ {r.status, r.before} \subseteq Accounts!Status
      /\ account[r.subject] = r.before /\ r.before # r.status
      /\ revoked \subseteq Sessions /\ session[s].user \in Users
      /\ account' = [account EXCEPT ![r.subject] = r.status]
      /\ doomed' = doomed \cup revoked
  BY CommitIs
<1>2. /\ session' = [t \in Sessions |-> IF t \in revoked THEN [session[t] EXCEPT !.state = "revoked"] ELSE session[t]]
      /\ audit' = Append(audit, e)
      /\ asking' = [t \in Sessions |->
              IF t = s THEN Accounts!NoRequest
              ELSE IF asking[t].at = "writing" THEN [asking[t] EXCEPT !.stale = @ \cup more] ELSE asking[t]]
  BY CommitIs
<1>3. /\ e \in AccountEvent /\ e.subject = r.subject /\ e.before = r.before /\ e.after = r.status
  BY <1>1 DEF AccountEvent
<1>4. more \in SUBSET (Users \cup Sessions)
  BY <1>1
<1> HIDE DEF e, revoked, more
<1>5. /\ session' \in [Sessions -> SessionRow]
      /\ \A t \in Sessions: session'[t].user = session[t].user
      /\ \A t \in revoked: session'[t].state = "revoked"
      /\ \A t \in Sessions \ revoked: session'[t] = session[t]
  BY <1>1, <1>2 DEF AccountsInv, AccountTypes, SessionRow
<1>6. account' \in [Users -> Accounts!Status] /\ account'[r.subject] = r.status
        /\ \A u \in Users \ {r.subject}: account'[u] = account[u]
  BY <1>1 DEF AccountsInv, AccountTypes
<1>7. ASSUME NEW t \in Sessions \ {s}, asking[t].at = "writing"
      PROVE  /\ asking'[t] \in Change /\ asking'[t].at = "writing" /\ asking'[t].subject = asking[t].subject
             /\ asking'[t].before = asking[t].before /\ asking'[t].status = asking[t].status
             /\ asking'[t].stale = asking[t].stale \cup more /\ asking'[t].sees = asking[t].sees
             /\ asking'[t].subject \in Users /\ asking[t].sees \subseteq Sessions
  <2>1. asking'[t] = [asking[t] EXCEPT !.stale = @ \cup more]
    BY <1>2, <1>7
  <2> QED BY <1>4, <1>7, <2>1, ChangeIs DEF AccountsInv
<1>8. \A t \in Sessions \ {s}: asking[t].at # "writing" => asking'[t] = asking[t]
  BY <1>2
<1>9. asking'[s] = Accounts!NoRequest /\ asking'[s].at = "idle" /\ Accounts!NoRequest \in Asking
  BY <1>2 DEF Accounts!NoRequest, Asking
<1>10. asking' \in [Sessions -> Asking] /\ \A t \in Sessions \ {s}: asking'[t].at = asking[t].at
  <2>1. \A t \in Sessions: asking'[t] \in Asking
    BY <1>7, <1>8, <1>9, ChangesAre DEF Asking, AccountsInv
  <2>2. asking' = [t \in Sessions |-> asking'[t]]
    BY <1>2
  <2> QED BY <1>7, <1>8, <2>1, <2>2
<1>11. Accounts!AuditIsHistory'
  <2>1. e.before = account[e.subject] /\ e.before # e.after /\ account' = [account EXCEPT ![e.subject] = e.after]
    BY <1>1, <1>3
  <2> QED BY <1>2, <1>3, <2>1, HistoryGrows DEF AccountsInv
<1>12. AccountTypes'
  <2>1. audit' \in Seq(AccountEvent)
    BY <1>2, <1>3 DEF AccountsInv, AccountTypes
  <2> QED BY <1>1, <1>5, <1>6, <1>10, <2>1 DEF AccountsInv, AccountTypes
<1>13. AskersAreUsers'
  <2>1. \A t \in revoked: session[t].state # "unused"
    BY CommitIs DEF revoked, Accounts!Revoked, AccountsInv, SeenAreOpened
  <2>2. \A t \in Sessions: session'[t].state # "unused" => session[t].state # "unused"
    BY <1>5, <2>1
  <2>3. \A t \in Sessions: session[t].state \in {"live", "revoked"} => session'[t].state \in {"live", "revoked"}
    BY <1>5
  <2>4. \A t \in Sessions: asking'[t].at # "idle" => asking[t].at # "idle"
    BY <1>9, <1>10
  <2> QED BY <1>5, <2>2, <2>3, <2>4 DEF AccountsInv, AskersAreUsers
<1>14. SnapshotsHold'
  <2> SUFFICES ASSUME NEW t \in Sessions, asking'[t].at = "writing"
               PROVE  /\ asking'[t].before # asking'[t].status
                      /\ asking'[t].subject \notin asking'[t].stale => account'[asking'[t].subject] = asking'[t].before
    BY DEF SnapshotsHold
  <2>1. t \in Sessions \ {s} /\ asking[t].at = "writing"
    BY <1>9, <1>10
  <2>2. r.subject \in more
    BY DEF more
  <2> QED BY <1>6, <1>7, <2>1, <2>2 DEF AccountsInv, SnapshotsHold
<1>15. DoomedAreRevoked'
  <2>1. \A t \in doomed: session'[t].state = "revoked"
    BY <1>5 DEF AccountsInv, AccountTypes, DoomedAreRevoked
  <2> QED BY <1>1, <1>5, <2>1 DEF DoomedAreRevoked
<1>16. SeenAreOpened'
  <2>1. \A t \in Sessions: session[t].state \in {"live", "revoked"} => session'[t].state \in {"live", "revoked"}
    BY <1>5
  <2> QED BY <1>7, <1>9, <1>10, <2>1 DEF AccountsInv, SeenAreOpened
<1> QED BY <1>11, <1>12, <1>13, <1>14, <1>15, <1>16 DEF AccountsInv

LEMMA AccountsSteps ==
  ASSUME AccountsInv, [Accounts!Next]_accounts
  PROVE  AccountsInv'
<1>1. CASE UNCHANGED accounts
  <2>1. account' = account /\ session' = session /\ asking' = asking /\ audit' = audit /\ doomed' = doomed
    BY <1>1 DEF accounts
  <2> QED BY <2>1, HistoryStays
          DEF AccountsInv, AccountTypes, AskersAreUsers, SnapshotsHold, SeenAreOpened, DoomedAreRevoked
<1>2. CASE Accounts!Next
  <2> SUFFICES ASSUME NEW s \in Sessions,
                      \/ \E u \in Users: Accounts!CheckPassword(s, u)
                      \/ Accounts!CreateSession(s) \/ Accounts!Logout(s) \/ Accounts!Accept(s)
                      \/ \E u \in Users, status \in Accounts!Status: Accounts!Begin(s, u, status)
                      \/ Accounts!Abort(s) \/ Accounts!Commit(s)
               PROVE  AccountsInv'
    BY <1>2 DEF Accounts!Next
  <2> QED BY CheckPasswordKeeps, CreateSessionKeeps, LogoutKeeps, AcceptKeeps, BeginKeeps, AbortKeeps, CommitKeeps
<1> QED BY <1>1, <1>2

(* A session ends by its own logout, or with the status of an account.      *)
LEMMA OnlyThatEnds ==
  ASSUME AccountsInv, [Accounts!Next]_accounts, account' = account,
         NEW s \in Accounts!Live, NEW t \in Accounts!Live, s # t,
         s \notin Accounts!Live', t \notin Accounts!Live'
  PROVE  FALSE
<1> USE DEF AccountsInv
<1> /\ s \in Sessions /\ t \in Sessions /\ session[s].state = "live" /\ session[t].state = "live"
    /\ session'[s].state # "live" /\ session'[t].state # "live"
  BY DEF Accounts!Live
<1>1. session' # session
  OBVIOUS
<1>2. ASSUME NEW x \in Sessions, \A y \in Sessions \ {x}: session'[y] = session[y]
      PROVE  FALSE
  BY <1>2
<1>3. ASSUME NEW x \in Sessions,
             \/ \E u \in Users: Accounts!CheckPassword(x, u)
             \/ Accounts!CreateSession(x) \/ Accounts!Logout(x)
      PROVE  FALSE
  <2>1. \A y \in Sessions \ {x}: session'[y] = session[y]
    BY <1>3 DEF Accounts!CheckPassword, Accounts!CreateSession, Accounts!Logout, AccountTypes
  <2> QED BY <1>2, <2>1
<1>4. ASSUME NEW x \in Sessions, Accounts!Commit(x)
      PROVE  FALSE
  <2>1. /\ account' = [account EXCEPT ![asking[x].subject] = asking[x].status] /\ asking[x].subject \in Users
        /\ account[asking[x].subject] # asking[x].status
    BY <1>4, CommitIs
  <2> QED BY <2>1 DEF AccountTypes
<1>5. \A x \in Sessions:
        /\ ~Accounts!Accept(x) /\ ~Accounts!Abort(x)
        /\ \A u \in Users, status \in Accounts!Status: ~Accounts!Begin(x, u, status)
  BY <1>1 DEF Accounts!Accept, Accounts!Abort, Accounts!Begin
<1>6. ~UNCHANGED accounts
  BY <1>1 DEF accounts
<1> QED BY <1>3, <1>4, <1>5, <1>6 DEF Accounts!Next

LEMMA AccountsImply ==
  AccountsInv => Accounts!TypeOK /\ Accounts!AuditIsHistory /\ Accounts!MustSignInAgain
<1> SUFFICES ASSUME AccountsInv PROVE Accounts!TypeOK /\ Accounts!AuditIsHistory /\ Accounts!MustSignInAgain
  OBVIOUS
<1>1. Accounts!TypeOK
  <2>1. \A s \in Sessions: asking[s].at \in {"idle", "accepted", "writing"}
    BY ChangesAre DEF AccountsInv
  <2>2. audit \in Seq([actor: Users, subject: Users, before: Accounts!Status, after: Accounts!Status])
    BY DEF AccountsInv, AccountTypes, AccountEvent
  <2> QED BY <2>1, <2>2 DEF AccountsInv, AccountTypes, SessionRow, Accounts!TypeOK
<1>2. Accounts!MustSignInAgain
  BY DEF AccountsInv, DoomedAreRevoked, Accounts!MustSignInAgain, Accounts!Live
<1> QED BY <1>1, <1>2 DEF AccountsInv

(***************************************************************************)
(* The control plane.                                                      *)
(***************************************************************************)

Value == {"NONE", "ALLOW", "DENY", "ACTIVE", "DISABLED", "STARTED"} \cup Departments

Image == [Control!AllRows -> Value]

Transaction == [row: Control!Rows, value: Value, seen: Image, log: Nat, stale: SUBSET Control!Rows]

RowEvent == [actor: Users, row: Control!Rows, before: Value, after: Value]

ControlTypes ==
  /\ db \in Image /\ tx \in [Users -> {Control!Closed} \cup Transaction] /\ log \in Seq(RowEvent)
  /\ commits \in 0..MaxCommits

(* Every row holds a value of its kind, also in snapshots and events.       *)
Fitting(image) == \A row \in Control!AllRows: image[row] \in Control!Values(row)

ValuesFit ==
  /\ Fitting(db)
  /\ \A u \in Users: Control!Open(u) => tx[u].value \in Control!Values(tx[u].row) /\ Fitting(tx[u].seen)
  /\ \A i \in 1..Len(log): {log[i].before, log[i].after} \subseteq Control!Values(log[i].row)

(* A row that is not known to be written since holds what was seen.         *)
ImagesAreFresh ==
  \A u \in Users: Control!Open(u) => \A row \in Control!AllRows \ tx[u].stale: db[row] = tx[u].seen[row]

(* What the first n events of a log tell of a row.                          *)
LastOn(events, row, i, n) == i \in 1..n /\ events[i].row = row /\ \A j \in i + 1..n: events[j].row # row

ToldOn(events, row, n) == {events[i].after: i \in {j \in 1..n: LastOn(events, row, j, n)}}

Kinds == {"override", "member", "grant"}

(* So many events tell what an image holds, of an override in full.         *)
Agrees(events, size, image) ==
  \A row \in Control!AllRows: row[1] \in Kinds =>
    /\ ToldOn(events, row, size) \subseteq {image[row]}
    /\ row[1] = "override" => image[row] = "NONE" \/ image[row] \in ToldOn(events, row, size)

Chained(events, size) ==
  \A i \in 1..size: events[i].row[1] \in Kinds =>
    events[i].before # events[i].after /\ ToldOn(events, events[i].row, i - 1) \subseteq {events[i].before}

LogTells ==
  /\ Chained(log, Len(log)) /\ Agrees(log, Len(log), db)
  /\ \A u \in Users: Control!Open(u) => tx[u].log \in 0..Len(log) /\ Agrees(log, tx[u].log, tx[u].seen)

ControlInv == ControlTypes /\ ValuesFit /\ ImagesAreFresh /\ LogTells

LEMMA NextEventTellsOn ==
  ASSUME NEW events, NEW row, NEW n \in Nat
  PROVE  ToldOn(events, row, n + 1) =
           IF events[n + 1].row = row THEN {events[n + 1].after} ELSE ToldOn(events, row, n)
<1>1. CASE events[n + 1].row = row
  <2>1. \A i \in 1..n + 1: LastOn(events, row, i, n + 1) <=> i = n + 1
    BY <1>1 DEF LastOn
  <2>2. {j \in 1..n + 1: LastOn(events, row, j, n + 1)} = {n + 1}
    BY <2>1
  <2> QED BY <1>1, <2>2 DEF ToldOn
<1>2. CASE events[n + 1].row # row
  <2>1. {j \in 1..n + 1: LastOn(events, row, j, n + 1)} = {j \in 1..n: LastOn(events, row, j, n)}
    <3>1. \A i \in 1..n + 1: LastOn(events, row, i, n + 1) <=> i \in 1..n /\ LastOn(events, row, i, n)
      BY <1>2 DEF LastOn
    <3> QED BY <3>1
  <2> QED BY <1>2, <2>1 DEF ToldOn
<1> QED BY <1>1, <1>2

LEMMA EarlierEventsTellOn ==
  ASSUME NEW events, NEW more, NEW row, NEW n \in Nat, \A i \in 1..n: events[i] = more[i]
  PROVE  ToldOn(events, row, n) = ToldOn(more, row, n)
<1>1. \A i \in 1..n: LastOn(events, row, i, n) <=> LastOn(more, row, i, n)
  BY DEF LastOn
<1>2. {j \in 1..n: LastOn(events, row, j, n)} = {j \in 1..n: LastOn(more, row, j, n)}
  BY <1>1
<1>3. {events[i].after: i \in {j \in 1..n: LastOn(events, row, j, n)}}
        = {more[i].after: i \in {j \in 1..n: LastOn(more, row, j, n)}}
  BY <1>2
<1> QED BY <1>3 DEF ToldOn

(* The rows by their kinds.                                                 *)
LEMMA RowsAre ==
  /\ \A row \in Control!AllRows:
       /\ row # <<>> /\ row[1] \in {"override", "member", "department", "grant", "run", "agent"}
       /\ row[1] = "override" <=> row \in Control!Overrides
       /\ row[1] = "department" => row[2] \in Departments
       /\ row[1] = "run" => row = <<"run", row[2]>>
  /\ \A u \in Users: <<"member", u>> \in Control!AllRows /\ <<"member", u>>[1] = "member"
  /\ \A o \in Control!Overrides:
       /\ o = <<"override", o[2], o[3], o[4]>> /\ o[1] = "override"
       /\ o[2] \in Users /\ o[3] \in Control!Scopes /\ o[4] \in Perms
  /\ \A u \in Users, scope \in Control!Scopes, p \in Perms: <<"override", u, scope, p>> \in Control!Overrides
  /\ Control!Overrides \subseteq Control!AllRows /\ Control!Rows \subseteq Control!AllRows
<1> USE DEF Control!Members, Control!DepartmentRows, Control!Grants, Control!Runs, Control!Agent
<1>1. \A o \in Control!Overrides:
       /\ o = <<"override", o[2], o[3], o[4]>> /\ o[1] = "override"
       /\ o[2] \in Users /\ o[3] \in Control!Scopes /\ o[4] \in Perms
  BY DEF Control!Overrides
<1>2. \A o \in Control!Overrides: o # <<>>
  BY <1>1
<1>3. \A row \in Control!AllRows \ Control!Overrides:
        /\ row # <<>> /\ row[1] \in {"member", "department", "grant", "run", "agent"}
        /\ row[1] = "department" => row[2] \in Departments
        /\ row[1] = "run" => row = <<"run", row[2]>>
  BY DEF Control!AllRows
<1>4. \A u \in Users: <<"member", u>> \in Control!AllRows /\ <<"member", u>>[1] = "member"
  BY DEF Control!AllRows
<1>5. Control!Overrides \subseteq Control!AllRows /\ Control!Rows \subseteq Control!AllRows
  BY DEF Control!AllRows, Control!Rows
<1>6. \A u \in Users, scope \in Control!Scopes, p \in Perms: <<"override", u, scope, p>> \in Control!Overrides
  BY DEF Control!Overrides
<1> QED BY <1>1, <1>2, <1>3, <1>4, <1>5, <1>6

LEMMA OpenIs ==
  ASSUME ControlTypes, NEW u \in Users
  PROVE  /\ Control!Open(u) <=> tx[u] \in Transaction
         /\ ~Control!Open(u) => tx[u] = Control!Closed
<1>1. tx[u] \in {Control!Closed} \cup Transaction
  BY DEF ControlTypes
<1>2. Control!Closed \notin Transaction
  <2>1. Control!Closed.row = <<>>
    BY DEF Control!Closed
  <2>2. \A t \in Transaction: t.row # <<>>
    BY RowsAre DEF Transaction
  <2> QED BY <2>1, <2>2
<1> QED BY <1>1, <1>2 DEF Control!Open

LEMMA TransactionIs ==
  ASSUME NEW t \in Transaction
  PROVE  /\ t.row \in Control!Rows /\ t.row \in Control!AllRows /\ t.value \in Value /\ t.seen \in Image /\ t.log \in Nat
         /\ t.stale \subseteq Control!Rows
         /\ t # Control!Closed
BY RowsAre DEF Transaction, Control!Closed

LEMMA ValuesAre ==
  ASSUME NEW row \in Control!AllRows
  PROVE  Control!Values(row) \subseteq Value
BY RowsAre DEF Control!Values, Value

LEMMA ToldOnIsTold ==
  ASSUME NEW row, NEW n
  PROVE  Control!Told(row, n) = ToldOn(log, row, n) /\ Control!Told(row, n)' = ToldOn(log', row, n)
BY DEF Control!Told, ToldOn, Control!LastAbout, LastOn

LEMMA ControlStart == Control!Init => ControlInv
<1> SUFFICES ASSUME Control!Init PROVE ControlInv
  OBVIOUS
<1>1. tx = [u \in Users |-> Control!Closed] /\ log = <<>> /\ commits = 0
  BY DEF Control!Init
<1>2. PICK new \in SUBSET (Control!Rows \cap (Control!DepartmentRows \cup {Control!Agent})):
        db = [row \in Control!AllRows |->
               IF row \in (Control!DepartmentRows \cup {Control!Agent, <<"grant", "org">>}) \ new THEN "ACTIVE" ELSE "NONE"]
  BY DEF Control!Init
<1>3. db \in Image
  BY <1>2 DEF Image, Value
<1>4. ControlTypes
  BY <1>1, <1>3, ControlAssumption DEF ControlTypes
<1>5. Len(log) = 0 /\ \A u \in Users: ~Control!Open(u)
  BY <1>1 DEF Control!Open
<1>6. Fitting(db)
  <2> SUFFICES ASSUME NEW row \in Control!AllRows PROVE db[row] \in Control!Values(row)
    BY DEF Fitting
  <2>1. row[1] \in {"override", "member", "run"} => db[row] = "NONE"
    BY <1>2 DEF Control!DepartmentRows, Control!Agent
  <2>2. db[row] \in {"NONE", "ACTIVE"}
    BY <1>2
  <2> QED BY <2>1, <2>2, RowsAre DEF Control!Values
<1>7. \A row \in Control!AllRows: row[1] = "override" => db[row] = "NONE"
  BY <1>2 DEF Control!DepartmentRows, Control!Agent
<1>8. \A row: ToldOn(log, row, 0) = {}
  BY DEF ToldOn
<1>9. Agrees(log, 0, db)
  BY <1>7, <1>8 DEF Agrees
<1> QED BY <1>4, <1>5, <1>6, <1>9 DEF ControlInv, ValuesFit, ImagesAreFresh, LogTells, Chained

LEMMA ControlBeginKeeps ==
  ASSUME ControlInv, NEW u \in Users, NEW row \in Control!Rows, NEW value \in Control!Values(row),
         Control!Begin(u, row, value)
  PROVE  ControlInv'
<1> DEFINE next == [row |-> row, value |-> value, seen |-> db, log |-> Len(log), stale |-> {}]
<1>1. tx' = [tx EXCEPT ![u] = next] /\ db' = db /\ log' = log /\ commits' = commits
  BY DEF Control!Begin
<1>2. /\ next \in Transaction /\ next.row = row /\ next.value = value /\ next.seen = db
      /\ next.log = Len(log) /\ next.stale = {}
  <2>1. value \in Value
    BY RowsAre, ValuesAre
  <2> QED BY <2>1 DEF Transaction, ControlInv, ControlTypes
<1> HIDE DEF next
<1>3. tx'[u] = next /\ \A w \in Users \ {u}: tx'[w] = tx[w] /\ (Control!Open(w)' <=> Control!Open(w))
  BY <1>1 DEF ControlInv, ControlTypes, Control!Open
<1>4. ControlTypes'
  BY <1>1, <1>2 DEF ControlInv, ControlTypes
<1>5. ValuesFit'
  BY <1>1, <1>2, <1>3 DEF ControlInv, ValuesFit, Fitting
<1>6. ImagesAreFresh'
  BY <1>1, <1>2, <1>3 DEF ControlInv, ImagesAreFresh
<1>7. LogTells'
  <2>1. Len(log) \in 0..Len(log)
    BY DEF ControlInv, ControlTypes
  <2>2. Agrees(log, next.log, next.seen)
    BY <1>2 DEF ControlInv, LogTells
  <2> QED BY <1>1, <1>2, <1>3, <2>1, <2>2 DEF ControlInv, LogTells
<1> QED BY <1>4, <1>5, <1>6, <1>7 DEF ControlInv

LEMMA RejectKeeps ==
  ASSUME ControlInv, NEW u \in Users, Control!Reject(u)
  PROVE  ControlInv'
<1>1. tx' = [tx EXCEPT ![u] = Control!Closed] /\ db' = db /\ log' = log /\ commits' = commits
  BY DEF Control!Reject
<1>2. ~Control!Open(u)' /\ \A w \in Users \ {u}: tx'[w] = tx[w] /\ (Control!Open(w)' <=> Control!Open(w))
  BY <1>1 DEF ControlInv, ControlTypes, Control!Open
<1>3. ControlTypes'
  BY <1>1 DEF ControlInv, ControlTypes
<1>4. ValuesFit' /\ ImagesAreFresh' /\ LogTells'
  BY <1>1, <1>2 DEF ControlInv, ValuesFit, ImagesAreFresh, LogTells
<1> QED BY <1>3, <1>4 DEF ControlInv

(* A transaction commits over rows that are as its snapshot has them.       *)
LEMMA ControlCommitIs ==
  ASSUME ControlInv, NEW u \in Users, Control!Commit(u)
  PROVE  /\ Control!Open(u) /\ tx[u] \in Transaction
         /\ Control!Allowed(tx[u].seen, u, tx[u].row, tx[u].value)
         /\ tx[u].seen[tx[u].row] = db[tx[u].row]
         /\ db' = [db EXCEPT ![tx[u].row] = tx[u].value]
         /\ log' = log \o Control!Event(u) /\ commits < MaxCommits /\ commits' = commits + 1
         /\ tx' = [w \in Users |-> IF w = u THEN Control!Closed
                     ELSE IF Control!Open(w) THEN [tx[w] EXCEPT !.stale = @ \cup {tx[u].row}] ELSE tx[w]]
<1>1. Control!Open(u) /\ tx[u].row \notin tx[u].stale
  BY DEF Control!Commit, Control!Conflicts
<1>2. tx[u] \in Transaction
  BY <1>1, OpenIs DEF ControlInv
<1>3. tx[u].seen[tx[u].row] = db[tx[u].row]
  BY <1>1, <1>2, TransactionIs DEF ControlInv, ImagesAreFresh
<1> QED BY <1>1, <1>2, <1>3 DEF Control!Commit

(* The others learn which row was written.                                  *)
LEMMA OthersLearn ==
  ASSUME ControlTypes, NEW u \in Users, tx[u] \in Transaction,
         tx' = [w \in Users |-> IF w = u THEN Control!Closed
                 ELSE IF Control!Open(w) THEN [tx[w] EXCEPT !.stale = @ \cup {tx[u].row}] ELSE tx[w]]
  PROVE  /\ tx' \in [Users -> {Control!Closed} \cup Transaction] /\ ~Control!Open(u)'
         /\ \A w \in Users \ {u}:
              /\ Control!Open(w)' <=> Control!Open(w)
              /\ Control!Open(w) =>
                   /\ tx'[w].row = tx[w].row /\ tx'[w].value = tx[w].value /\ tx'[w].seen = tx[w].seen
                   /\ tx'[w].log = tx[w].log /\ tx'[w].stale = tx[w].stale \cup {tx[u].row}
<1>1. ASSUME NEW w \in Users \ {u}, Control!Open(w)
      PROVE  /\ tx'[w] \in Transaction
             /\ tx'[w].row = tx[w].row /\ tx'[w].value = tx[w].value /\ tx'[w].seen = tx[w].seen
             /\ tx'[w].log = tx[w].log /\ tx'[w].stale = tx[w].stale \cup {tx[u].row}
  <2>1. tx'[w] = [tx[w] EXCEPT !.stale = @ \cup {tx[u].row}]
    BY <1>1
  <2>2. tx[w] \in Transaction /\ tx[u].row \in Control!Rows
    BY <1>1, OpenIs, TransactionIs
  <2> QED BY <2>1, <2>2 DEF Transaction
<1>2. ASSUME NEW w \in Users \ {u}, ~Control!Open(w)
      PROVE  tx'[w] = tx[w] /\ tx[w] = Control!Closed
  BY <1>2, OpenIs
<1>3. tx'[u] = Control!Closed
  OBVIOUS
<1>4. \A t \in Transaction: t # Control!Closed
  BY TransactionIs
<1>5. \A w \in Users: tx'[w] \in {Control!Closed} \cup Transaction
  BY <1>1, <1>2, <1>3
<1> QED BY <1>1, <1>2, <1>3, <1>4, <1>5 DEF Control!Open

(* What a commit appends, if anything.                                      *)
LEMMA EventIs ==
  ASSUME ControlInv, NEW u \in Users, Control!Commit(u)
  PROVE  LET t == tx[u]
             e == [actor |-> u, row |-> t.row, before |-> db[t.row], after |-> t.value]
         IN  \/ log' = log /\ (t.row[1] \in Kinds => db[t.row] = t.value)
             \/ log' = Append(log, e) /\ db[t.row] # t.value
<1> DEFINE t == tx[u]
           e == [actor |-> u, row |-> t.row, before |-> db[t.row], after |-> t.value]
<1>1. t.seen[t.row] = db[t.row] /\ log' = log \o Control!Event(u)
  BY ControlCommitIs
<1>2. \/ Control!Event(u) = <<>> /\ (t.row[1] \in Kinds => db[t.row] = t.value)
      \/ Control!Event(u) = <<e>> /\ db[t.row] # t.value
  BY <1>1 DEF Control!Event, Kinds
<1> HIDE DEF e
<1>3. log \in Seq(RowEvent)
  BY DEF ControlInv, ControlTypes
<1>4. log \o <<>> = log /\ log \o <<e>> = Append(log, e)
  BY <1>3
<1> QED BY <1>1, <1>2, <1>4 DEF e

Sets(image, image2, e) ==
  /\ e.row \in Control!AllRows /\ e.before = image[e.row] /\ e.before # e.after
  /\ \A x \in Control!AllRows: image2[x] = IF x = e.row THEN e.after ELSE image[x]

LEMMA EarlierAgree ==
  ASSUME NEW old, NEW new, NEW size \in Nat, NEW e, Longer(old, new, size, e)
  PROVE  /\ \A row, i: i \in 0..size => ToldOn(new, row, i) = ToldOn(old, row, i)
         /\ \A i \in 0..size: \A image: Agrees(old, i, image) => Agrees(new, i, image)
<1>1. ASSUME NEW row, NEW i \in 0..size PROVE ToldOn(new, row, i) = ToldOn(old, row, i)
  <2>1. i \in Nat /\ \A j \in 1..i: new[j] = old[j]
    BY DEF Longer
  <2> QED BY <2>1, EarlierEventsTellOn
<1> QED BY <1>1 DEF Agrees

LEMMA ChainGrows ==
  ASSUME NEW old, NEW new, NEW size \in Nat, NEW e, NEW image, NEW image2,
         Chained(old, size), Agrees(old, size, image), Longer(old, new, size, e), Sets(image, image2, e)
  PROVE  Chained(new, size + 1) /\ Agrees(new, size + 1, image2)
<1>1. \A row, i: i \in 0..size => ToldOn(new, row, i) = ToldOn(old, row, i)
  BY EarlierAgree
<1>2. ASSUME NEW i \in 1..size + 1, new[i].row[1] \in Kinds
      PROVE  new[i].before # new[i].after /\ ToldOn(new, new[i].row, i - 1) \subseteq {new[i].before}
  <2>1. CASE i \in 1..size
    <3>1. new[i] = old[i] /\ i - 1 \in 0..size
      BY <2>1 DEF Longer
    <3> QED BY <1>1, <1>2, <2>1, <3>1 DEF Chained
  <2>2. CASE i = size + 1
    <3>1. new[i] = e /\ i - 1 = size /\ size \in 0..size
      BY <2>2 DEF Longer
    <3>2. e.row \in Control!AllRows /\ e.before = image[e.row] /\ e.before # e.after
      BY DEF Sets
    <3>3. ToldOn(new, e.row, size) \subseteq {image[e.row]}
      BY <1>1, <1>2, <3>1, <3>2 DEF Agrees
    <3> QED BY <3>1, <3>2, <3>3
  <2> QED BY <2>1, <2>2
<1>3. ASSUME NEW row \in Control!AllRows, row[1] \in Kinds
      PROVE  /\ ToldOn(new, row, size + 1) \subseteq {image2[row]}
             /\ row[1] = "override" => image2[row] = "NONE" \/ image2[row] \in ToldOn(new, row, size + 1)
  <2>1. ToldOn(new, row, size) = ToldOn(old, row, size)
    BY <1>1
  <2>2. ToldOn(new, row, size + 1) = IF new[size + 1].row = row THEN {new[size + 1].after} ELSE ToldOn(new, row, size)
    BY NextEventTellsOn
  <2>3. new[size + 1] = e
    BY DEF Longer
  <2>4. ToldOn(new, row, size + 1) = IF e.row = row THEN {e.after} ELSE ToldOn(old, row, size)
    BY <2>1, <2>2, <2>3
  <2>5. image2[row] = IF row = e.row THEN e.after ELSE image[row]
    BY DEF Sets
  <2>6. /\ ToldOn(old, row, size) \subseteq {image[row]}
        /\ row[1] = "override" => image[row] = "NONE" \/ image[row] \in ToldOn(old, row, size)
    BY <1>3 DEF Agrees
  <2> QED BY <2>4, <2>5, <2>6
<1> QED BY <1>2, <1>3 DEF Chained, Agrees

LEMMA ControlCommitKeeps ==
  ASSUME ControlInv, NEW u \in Users, Control!Commit(u)
  PROVE  ControlInv'
<1> DEFINE t == tx[u]
           e == [actor |-> u, row |-> t.row, before |-> db[t.row], after |-> t.value]
<1>1. /\ Control!Open(u) /\ t \in Transaction /\ commits < MaxCommits /\ commits' = commits + 1
      /\ db' = [db EXCEPT ![t.row] = t.value]
  BY ControlCommitIs
<1>2. t.row \in Control!Rows /\ t.row \in Control!AllRows /\ t.value \in Value
  BY <1>1, TransactionIs
<1>3. \/ log' = log /\ (t.row[1] \in Kinds => db[t.row] = t.value)
      \/ log' = Append(log, e) /\ db[t.row] # t.value
  BY EventIs
<1>4. e \in RowEvent /\ e.row = t.row /\ e.before = db[t.row] /\ e.after = t.value
  BY <1>2 DEF RowEvent, ControlInv, ControlTypes, Image
<1> HIDE DEF e
<1>5. /\ tx' \in [Users -> {Control!Closed} \cup Transaction] /\ ~Control!Open(u)'
      /\ \A w \in Users \ {u}:
           /\ Control!Open(w)' <=> Control!Open(w)
           /\ Control!Open(w) =>
                /\ tx'[w].row = tx[w].row /\ tx'[w].value = tx[w].value /\ tx'[w].seen = tx[w].seen
                /\ tx'[w].log = tx[w].log /\ tx'[w].stale = tx[w].stale \cup {t.row}
  <2>1. tx' = [w \in Users |-> IF w = u THEN Control!Closed
                 ELSE IF Control!Open(w) THEN [tx[w] EXCEPT !.stale = @ \cup {tx[u].row}] ELSE tx[w]]
    BY ControlCommitIs
  <2> QED BY <1>1, <2>1, OthersLearn DEF ControlInv
<1>6. db' \in Image /\ \A x \in Control!AllRows: db'[x] = IF x = t.row THEN t.value ELSE db[x]
  BY <1>1, <1>2 DEF Image, ControlInv, ControlTypes
<1>7. log \in Seq(RowEvent) /\ commits \in 0..MaxCommits /\ MaxCommits \in Nat
  BY ControlAssumption DEF ControlInv, ControlTypes
<1>8. log' \in Seq(RowEvent)
  BY <1>3, <1>4, <1>7
<1>9. ControlTypes'
  BY <1>1, <1>5, <1>6, <1>7, <1>8 DEF ControlTypes
<1>10. t.value \in Control!Values(t.row) /\ db[t.row] \in Control!Values(t.row)
  BY <1>1, <1>2 DEF ControlInv, ValuesFit, Fitting
<1>11. ValuesFit'
  <2>1. Fitting(db')
    BY <1>6, <1>10 DEF ControlInv, ValuesFit, Fitting
  <2>2. \A i \in 1..Len(log'): {log'[i].before, log'[i].after} \subseteq Control!Values(log'[i].row)
    <3>1. \A i \in 1..Len(log'): (i \in 1..Len(log) /\ log'[i] = log[i]) \/ log'[i] = e
      BY <1>3, <1>4, <1>7
    <3>2. \A i \in 1..Len(log): {log[i].before, log[i].after} \subseteq Control!Values(log[i].row)
      BY DEF ControlInv, ValuesFit
    <3> QED BY <1>4, <1>10, <3>1, <3>2
  <2>3. ASSUME NEW w \in Users, Control!Open(w)' PROVE tx'[w].value \in Control!Values(tx'[w].row) /\ Fitting(tx'[w].seen)
    BY <1>5, <2>3 DEF ControlInv, ValuesFit
  <2> QED BY <2>1, <2>2, <2>3 DEF ValuesFit, Fitting
<1>12. ImagesAreFresh'
  <2> SUFFICES ASSUME NEW w \in Users, Control!Open(w)', NEW x \in Control!AllRows \ tx'[w].stale
               PROVE  db'[x] = tx'[w].seen[x]
    BY DEF ImagesAreFresh
  <2>1. w \in Users \ {u} /\ Control!Open(w)
    BY <1>5
  <2>2. x # t.row /\ x \notin tx[w].stale /\ tx'[w].seen = tx[w].seen
    BY <1>5, <2>1
  <2> QED BY <1>6, <2>1, <2>2 DEF ControlInv, ImagesAreFresh
<1>13. LogTells'
  <2>1. CASE log' = log /\ (t.row[1] \in Kinds => db[t.row] = t.value)
    <3>1. \A x \in Control!AllRows: x[1] \in Kinds => db'[x] = db[x]
      BY <1>6, <2>1
    <3>2. \A x \in Control!AllRows: x[1] = "override" => x[1] \in Kinds
      BY DEF Kinds
    <3>3. Agrees(log, Len(log), db')
      BY <3>1, <3>2 DEF ControlInv, LogTells, Agrees
    <3> QED BY <1>5, <2>1, <3>3 DEF ControlInv, LogTells
  <2>2. CASE log' = Append(log, e) /\ db[t.row] # t.value
    <3>1. Len(log) \in Nat /\ Len(log') = Len(log) + 1 /\ Longer(log, log', Len(log), e)
      BY <1>4, <1>7, <2>2 DEF Longer
    <3>2. Sets(db, db', e)
      BY <1>2, <1>4, <1>6, <2>2 DEF Sets
    <3>3. Chained(log, Len(log)) /\ Agrees(log, Len(log), db)
      BY DEF ControlInv, LogTells
    <3>4. Chained(log', Len(log) + 1) /\ Agrees(log', Len(log) + 1, db')
      BY <3>1, <3>2, <3>3, ChainGrows
    <3>5. ASSUME NEW w \in Users, Control!Open(w)'
          PROVE  tx'[w].log \in 0..Len(log') /\ Agrees(log', tx'[w].log, tx'[w].seen)
      <4>1. tx'[w].log = tx[w].log /\ tx'[w].seen = tx[w].seen /\ Control!Open(w)
        BY <1>5, <3>5
      <4>2. tx[w].log \in 0..Len(log) /\ Agrees(log, tx[w].log, tx[w].seen)
        BY <4>1 DEF ControlInv, LogTells
      <4>3. Agrees(log', tx[w].log, tx[w].seen)
        BY <3>1, <4>2, EarlierAgree
      <4> QED BY <3>1, <4>1, <4>2, <4>3
    <3> QED BY <3>1, <3>4, <3>5 DEF LogTells
  <2> QED BY <1>3, <2>1, <2>2
<1> QED BY <1>9, <1>11, <1>12, <1>13 DEF ControlInv

LEMMA ControlSteps ==
  ASSUME ControlInv, [Control!Next]_control
  PROVE  ControlInv'
<1>1. CASE UNCHANGED control
  <2>1. db' = db /\ tx' = tx /\ log' = log /\ commits' = commits
    BY <1>1 DEF control
  <2> QED BY <2>1
          DEF ControlInv, ControlTypes, ValuesFit, ImagesAreFresh, LogTells, Control!Open, Fitting
<1>2. CASE Control!Next
  <2> SUFFICES ASSUME NEW u \in Users,
                      \/ \E row \in Control!Rows: \E value \in Control!Values(row): Control!Begin(u, row, value)
                      \/ Control!Reject(u) \/ Control!Commit(u)
               PROVE  ControlInv'
    BY <1>2 DEF Control!Next
  <2> QED BY ControlBeginKeeps, RejectKeeps, ControlCommitKeeps
<1> QED BY <1>1, <1>2

LEMMA ControlImplies == ControlInv => Control!TypeOK /\ Control!AuditChain
<1> SUFFICES ASSUME ControlInv PROVE Control!TypeOK /\ Control!AuditChain
  OBVIOUS
<1>1. Control!TypeOK
  <2>1. \A row \in Control!Rows: db[row] \in Control!Values(row)
    BY RowsAre DEF ControlInv, ValuesFit, Fitting
  <2>2. \A u \in Users: Control!Open(u) =>
          tx[u].row \in Control!Rows /\ tx[u].value \in Control!Values(tx[u].row) /\ tx[u].stale \subseteq Control!Rows
    BY OpenIs, TransactionIs DEF ControlInv, ValuesFit
  <2>3. \A i \in DOMAIN log: log[i].actor \in Users /\ {log[i].before, log[i].after} \subseteq Control!Values(log[i].row)
    <3>1. log \in Seq(RowEvent)
      BY DEF ControlInv, ControlTypes
    <3>2. DOMAIN log = 1..Len(log) /\ \A i \in 1..Len(log): log[i] \in RowEvent
      BY <3>1
    <3> QED BY <3>2 DEF ControlInv, ValuesFit, RowEvent
  <2> QED BY <2>1, <2>2, <2>3 DEF Control!TypeOK, ControlInv, ControlTypes
<1>2. Control!AuditChain
  <2> SUFFICES ASSUME NEW row \in Control!Rows, row[1] \in Kinds PROVE Control!ChainOf(row)
    BY DEF Control!AuditChain, Kinds
  <2>1. \A n: Control!Told(row, n) = ToldOn(log, row, n)
    BY ToldOnIsTold
  <2>2. row \in Control!AllRows
    BY RowsAre
  <2> QED BY <2>1, <2>2 DEF Control!ChainOf, ControlInv, LogTells, Chained, Agrees
<1> QED BY <1>1, <1>2

(* Who has a transaction no longer, though rows have changed, has committed. *)
LEMMA CommitterIs ==
  ASSUME ControlInv, [Control!Next]_control, NEW u \in Users, Control!Open(u), ~Control!Open(u)', db' # db
  PROVE  Control!Commit(u)
<1>1. Control!Next
  BY DEF control
<1>2. \A w \in Users: ~Control!Reject(w) /\ \A row \in Control!Rows: \A value \in Control!Values(row): ~Control!Begin(w, row, value)
  BY DEF Control!Reject, Control!Begin
<1>3. PICK w \in Users: Control!Commit(w)
  BY <1>1, <1>2 DEF Control!Next
<1>4. /\ tx[w] \in Transaction
      /\ tx' = [x \in Users |-> IF x = w THEN Control!Closed
                  ELSE IF Control!Open(x) THEN [tx[x] EXCEPT !.stale = @ \cup {tx[w].row}] ELSE tx[x]]
  BY <1>3, ControlCommitIs
<1>5. \A x \in Users \ {w}: Control!Open(x)' <=> Control!Open(x)
  BY <1>4, OthersLearn DEF ControlInv
<1> QED BY <1>3, <1>5

(* Whatever writes a row has evaluated what the row needs, at its scope.    *)
LEMMA AllowedIsEvaluated ==
  ASSUME NEW u \in Users, NEW t \in Transaction, Fitting(t.seen), t.value \in Control!Values(t.row),
         Control!Allowed(t.seen, u, t.row, t.value), Control!Needed(t.row) \in Perms
  PROVE  /\ Control!Evaluate(t.seen, u, Control!ScopeOf(u, t), Control!Needed(t.row))
         /\ Control!ScopeOf(u, t) \in Control!Scopes
<1>1. t.row \in Control!AllRows /\ t.row[1] \in {"override", "member", "department", "grant", "run", "agent"}
  BY TransactionIs, RowsAre
<1>2. t.row[1] # "override"
  BY ControlAssumption DEF Control!Needed
<1>3. CASE t.row[1] = "department"
  <2>1. t.row[2] \in Departments
    BY <1>1, <1>3, RowsAre
  <2> QED BY <1>3, <2>1 DEF Control!Allowed, Control!Needed, Control!ScopeOf, Control!CreateDepartment,
                            Control!UpdateDepartment, Control!Scopes
<1>4. CASE t.row[1] = "member"
  <2>1. t.value \in Departments
    BY <1>4 DEF Control!Allowed, Control!AssignEmployee, Control!Values
  <2> QED BY <1>4, <2>1 DEF Control!Allowed, Control!Needed, Control!ScopeOf, Control!AssignEmployee, Control!Scopes
<1>5. CASE t.row[1] = "agent"
  BY <1>5 DEF Control!Allowed, Control!Needed, Control!ScopeOf, Control!CreateAgent, Control!UpdateAgent, Control!Scopes
<1>6. CASE t.row[1] = "grant"
  BY <1>6 DEF Control!Allowed, Control!Needed, Control!ScopeOf, Control!GrantAgent, Control!Scopes
<1>7. CASE t.row[1] = "run"
  <2>1. Control!DepartmentScope(t.seen, u) \in Control!Scopes
    <3>1. <<"member", u>> \in Control!AllRows /\ <<"member", u>>[1] = "member"
      BY RowsAre
    <3>2. t.seen[<<"member", u>>] \in {"NONE"} \cup Departments
      BY <3>1 DEF Fitting, Control!Values
    <3> QED BY <3>2 DEF Control!DepartmentScope, Control!Scopes
  <2> QED BY <1>7, <2>1 DEF Control!Allowed, Control!Needed, Control!ScopeOf, Control!StartRun
<1> QED BY <1>1, <1>2, <1>3, <1>4, <1>5, <1>6, <1>7

(* DENY wins, told from the log.                                            *)
LEMMA LogEntitles ==
  ASSUME ControlInv, [Control!Next]_control, NEW u \in Users, Control!Open(u), ~Control!Open(u)', db' # db,
         Control!Needed(tx[u].row) \in Perms
  PROVE  LET effects == UNION {Control!Told(<<"override", u, scope, Control!Needed(tx[u].row)>>, tx[u].log):
                                 scope \in {"org", Control!ScopeOf(u, tx[u])}}
         IN "DENY" \notin effects /\ ("ALLOW" \in effects \/ Control!RoleAllows(u, Control!Needed(tx[u].row)))
<1> DEFINE t == tx[u]
           p == Control!Needed(t.row)
           S == {"org", Control!ScopeOf(u, t)}
           effects == UNION {Control!Told(<<"override", u, scope, p>>, t.log): scope \in S}
<1>1. Control!Commit(u) /\ t \in Transaction /\ Control!Allowed(t.seen, u, t.row, t.value)
  BY CommitterIs, ControlCommitIs
<1>2. Control!Evaluate(t.seen, u, Control!ScopeOf(u, t), p) /\ S \subseteq Control!Scopes
  <2>1. Fitting(t.seen) /\ t.value \in Control!Values(t.row)
    BY DEF ControlInv, ValuesFit
  <2>2. "org" \in Control!Scopes
    BY DEF Control!Scopes
  <2> QED BY <1>1, <2>1, <2>2, AllowedIsEvaluated
<1>3. ASSUME NEW scope \in S
      PROVE  LET o == <<"override", u, scope, p>>
             IN  /\ o \in Control!Overrides /\ t.seen[o] \in Control!Matching(t.seen, u, Control!ScopeOf(u, t), p)
                 /\ Control!Told(o, t.log) \subseteq {t.seen[o]}
                 /\ t.seen[o] = "NONE" \/ t.seen[o] \in Control!Told(o, t.log)
  <2> DEFINE o == <<"override", u, scope, p>>
  <2>1. o \in Control!Overrides /\ o[1] = "override" /\ o[2] = u /\ o[3] = scope /\ o[4] = p
    BY <1>2, RowsAre
  <2>2. t.seen[o] \in Control!Matching(t.seen, u, Control!ScopeOf(u, t), p)
    BY <2>1 DEF Control!Matching
  <2>3. o \in Control!AllRows /\ o[1] \in Kinds
    BY <2>1, RowsAre DEF Kinds
  <2>4. Agrees(log, t.log, t.seen)
    BY DEF ControlInv, LogTells
  <2>5. Control!Told(o, t.log) = ToldOn(log, o, t.log)
    BY ToldOnIsTold
  <2> HIDE DEF o
  <2>6. /\ Control!Told(o, t.log) \subseteq {t.seen[o]}
        /\ t.seen[o] = "NONE" \/ t.seen[o] \in Control!Told(o, t.log)
    BY <2>1, <2>3, <2>4, <2>5 DEF Agrees
  <2> QED BY <2>1, <2>2, <2>6 DEF o
<1>4. "DENY" \notin effects
  <2> SUFFICES ASSUME NEW scope \in S, "DENY" \in Control!Told(<<"override", u, scope, p>>, t.log) PROVE FALSE
    OBVIOUS
  <2>1. t.seen[<<"override", u, scope, p>>] = "DENY"
    BY <1>3
  <2> QED BY <1>2, <1>3, <2>1 DEF Control!Evaluate
<1>5. ASSUME "ALLOW" \in Control!Matching(t.seen, u, Control!ScopeOf(u, t), p)
      PROVE  "ALLOW" \in effects
  <2>1. PICK o \in Control!Overrides: o[2] = u /\ o[3] \in S /\ o[4] = p /\ t.seen[o] = "ALLOW"
    BY <1>5 DEF Control!Matching
  <2>2. o = <<"override", u, o[3], p>>
    BY <2>1, RowsAre
  <2>3. "ALLOW" \in Control!Told(<<"override", u, o[3], p>>, t.log)
    BY <1>3, <2>1, <2>2
  <2> QED BY <2>1, <2>3
<1> QED BY <1>2, <1>4, <1>5 DEF Control!Evaluate

(* A run starts under an assignment of the user's.                          *)
LEMMA AssignedRun ==
  ASSUME ControlInv, [Control!Next]_control, NEW u \in Users, Control!Open(u), ~Control!Open(u)',
         db'[<<"run", u>>] # db[<<"run", u>>]
  PROVE  \E scope \in Control!Scopes \cup Users:
           /\ tx[u].seen[<<"grant", scope>>] = "ACTIVE"
           /\ scope \in Users => scope = u
           /\ scope \in Departments => tx[u].seen[<<"member", u>>] = scope
<1> DEFINE t == tx[u]
<1>1. Control!Commit(u)
  BY CommitterIs
<1>2. t \in Transaction /\ Control!Allowed(t.seen, u, t.row, t.value) /\ db' = [db EXCEPT ![t.row] = t.value]
  BY <1>1, ControlCommitIs
<1>3. t.row = <<"run", u>>
  BY <1>2 DEF ControlInv, ControlTypes, Image
<1>4. t.row[1] = "run"
  BY <1>3
<1>5. Control!Granted(t.seen, u)
  BY <1>2, <1>4 DEF Control!Allowed, Control!StartRun
<1>6. PICK scope \in {"org", u, Control!DepartmentScope(t.seen, u)}: t.seen[<<"grant", scope>>] = "ACTIVE"
  BY <1>5 DEF Control!Granted
<1>7. t.seen[<<"member", u>>] \in {"NONE"} \cup Departments
  <2>1. <<"member", u>> \in Control!AllRows /\ <<"member", u>>[1] = "member"
    BY RowsAre
  <2> QED BY <2>1 DEF ControlInv, ValuesFit, Fitting, Control!Values
<1>8. /\ scope \in Control!Scopes \cup Users
      /\ scope \in Users => scope = u
      /\ scope \in Departments => t.seen[<<"member", u>>] = scope
  BY <1>6, <1>7, ControlAssumption DEF Control!DepartmentScope, Control!Scopes
<1> QED BY <1>6, <1>8

(***************************************************************************)
(* Model runs.                                                             *)
(***************************************************************************)

Fingerprints == {"none"} \cup {Fingerprint[r]: r \in Requests}

RunRow == [status: {"NONE", "RUNNING"} \cup Model!Terminal, print: Fingerprints, calls: Seq(CallIds)]

RequestRow ==
  [at: {"begin", "insert", "recover", "generate", "tools", "complete", "fail"} \cup Model!Ended,
   steps: Nat, tools: Nat, left: Seq(CallIds),
   reply: {"none", "RUNNING", "CONFLICT", "REFUSED", "ERROR"} \cup Model!Terminal]

ModelTypes ==
  /\ authorized \in BOOLEAN /\ run \in [Keys -> RunRow] /\ request \in [Requests -> RequestRow]
  /\ asked \in [Keys -> SUBSET Requests]

Working == {"generate", "tools", "complete", "fail"}

(* What a request has done so far, by the run of its key and who has asked  *)
(* for it: who works on a run has created it, and nobody else asked.  A     *)
(* step that goes on uses up a call, of those that are recorded or left.    *)
RequestFits(r, q, row, askers) ==
  /\ q.at \in {"begin", "insert", "recover"} => q.steps = 0 /\ q.tools = 0 /\ q.left = <<>>
  /\ q.steps < Model!MaxSteps
  /\ q.at = "recover" => row.status # "NONE"
  /\ q.at \in Working => row.status = "RUNNING" /\ row.print = Fingerprint[r] /\ askers \subseteq {r}
  /\ q.at \in {"generate", "tools"} =>
       /\ Len(row.calls) = q.tools /\ q.tools + Len(q.left) <= Model!MaxTools
       /\ q.steps <= q.tools + Len(q.left)
  /\ q.at = "generate" => q.left = <<>>
  /\ q.at = "tools" => q.left # <<>>
  /\ q.reply \in Model!Terminal => row.status = q.reply /\ row.print = Fingerprint[r]

KeyFits(row, askers) ==
  /\ row.status = "NONE" => row = Model!NoRun /\ askers = {}
  /\ Len(row.calls) <= Model!MaxTools /\ Model!IsInjective(row.calls)
  /\ \A x, y \in askers: x = y

OneWorks ==
  \A r, q \in Requests: Key[r] = Key[q] /\ request[r].at \in Working /\ request[q].at \in Working => r = q

RowsAreCalls == rows = UNION {Model!Range(run[k].calls): k \in Keys}

ModelInv ==
  /\ ModelTypes /\ OneWorks /\ RowsAreCalls
  /\ \A r \in Requests: RequestFits(r, request[r], run[Key[r]], asked[Key[r]])
  /\ \A k \in Keys: KeyFits(run[k], asked[k])

LEMMA NoRunIs ==
  /\ Model!NoRun \in RunRow /\ Model!NoRun.status = "NONE" /\ Model!NoRun.calls = <<>>
  /\ Model!IsInjective(<<>>) /\ Model!Range(<<>>) = {}
<1>1. <<>> \in Seq(CallIds) /\ "none" \in Fingerprints
  BY DEF Fingerprints
<1>2. Model!IsInjective(<<>>) /\ Model!Range(<<>>) = {}
  BY DEF Model!IsInjective, Model!Range
<1> QED BY <1>1, <1>2 DEF Model!NoRun, RunRow, Fingerprints

LEMMA ModelStart == Model!Init => ModelInv
<1> SUFFICES ASSUME Model!Init PROVE ModelInv
  OBVIOUS
<1>1. /\ authorized = TRUE /\ run = [k \in Keys |-> Model!NoRun] /\ rows = {} /\ asked = [k \in Keys |-> {}]
      /\ request = [r \in Requests |-> [at |-> "begin", steps |-> 0, tools |-> 0, left |-> <<>>, reply |-> "none"]]
  BY DEF Model!Init
<1>2. request \in [Requests -> RequestRow]
  BY <1>1 DEF RequestRow
<1>3. run \in [Keys -> RunRow]
  BY <1>1, NoRunIs
<1>4. ModelTypes
  BY <1>1, <1>2, <1>3 DEF ModelTypes
<1>5. \A r \in Requests: Key[r] \in Keys
  BY ModelAssumption
<1>6. OneWorks
  BY <1>1 DEF OneWorks, Working
<1>7. RowsAreCalls
  BY <1>1, NoRunIs DEF RowsAreCalls
<1>8. \A r \in Requests: RequestFits(r, request[r], run[Key[r]], asked[Key[r]])
  BY <1>1, <1>5, NoRunIs DEF RequestFits, Working, Model!MaxSteps, Model!Terminal
<1>9. \A k \in Keys: KeyFits(run[k], asked[k])
  <2>1. Len(Model!NoRun.calls) = 0
    BY NoRunIs
  <2> QED BY <1>1, <2>1, NoRunIs DEF KeyFits, Model!MaxTools
<1> QED BY <1>4, <1>6, <1>7, <1>8, <1>9 DEF ModelInv

(* Nobody but who works on a run, or creates it, changes it.                *)
Entitled(r, row, askers) ==
  \/ row = run[Key[r]] /\ askers = asked[Key[r]]
  \/ (request[r].at \in Working \/ run[Key[r]].status = "NONE") /\ row.status # "NONE"

LEMMA OthersFit ==
  ASSUME ModelInv, NEW r \in Requests, NEW row, NEW askers, Entitled(r, row, askers),
         NEW q \in Requests, q # r, Key[q] = Key[r]
  PROVE  RequestFits(q, request[q], row, askers)
<1>1. RequestFits(q, request[q], run[Key[r]], asked[Key[r]]) /\ RequestFits(r, request[r], run[Key[r]], asked[Key[r]])
  BY DEF ModelInv
<1>2. CASE row = run[Key[r]] /\ askers = asked[Key[r]]
  BY <1>1, <1>2
<1>3. CASE (request[r].at \in Working \/ run[Key[r]].status = "NONE") /\ row.status # "NONE"
  <2>1. run[Key[r]].status \in {"NONE", "RUNNING"} /\ request[q].at \notin Working
    <3>1. CASE request[r].at \in Working
      BY <1>1, <3>1 DEF ModelInv, OneWorks, RequestFits
    <3>2. CASE run[Key[r]].status = "NONE"
      BY <1>1, <3>2 DEF RequestFits
    <3> QED BY <1>3, <3>1, <3>2
  <2>2. request[q].reply \notin Model!Terminal
    BY <1>1, <2>1 DEF RequestFits, Model!Terminal
  <2> QED BY <1>1, <1>3, <2>1, <2>2 DEF RequestFits, Working
<1> QED BY <1>2, <1>3 DEF Entitled

(* One request moves, and perhaps its run.                                  *)
LEMMA OneMoves ==
  ASSUME ModelInv, NEW r \in Requests, NEW next \in RequestRow, NEW row \in RunRow, NEW askers \in SUBSET Requests,
         authorized' = authorized,
         request' = [request EXCEPT ![r] = next], run' = [run EXCEPT ![Key[r]] = row],
         asked' = [asked EXCEPT ![Key[r]] = askers],
         Entitled(r, row, askers), RequestFits(r, next, row, askers), KeyFits(row, askers),
         next.at \in Working => request[r].at \in Working \/ run[Key[r]].status = "NONE",
         RowsAreCalls'
  PROVE  ModelInv'
<1>1. Key[r] \in Keys /\ \A q \in Requests: Key[q] \in Keys
  BY ModelAssumption
<1>2. request' \in [Requests -> RequestRow] /\ request'[r] = next /\ \A q \in Requests \ {r}: request'[q] = request[q]
  BY DEF ModelInv, ModelTypes
<1>3. run' \in [Keys -> RunRow] /\ run'[Key[r]] = row /\ \A k \in Keys \ {Key[r]}: run'[k] = run[k]
  BY <1>1 DEF ModelInv, ModelTypes
<1>4. asked' \in [Keys -> SUBSET Requests] /\ asked'[Key[r]] = askers /\ \A k \in Keys \ {Key[r]}: asked'[k] = asked[k]
  BY <1>1 DEF ModelInv, ModelTypes
<1>5. ModelTypes'
  BY <1>2, <1>3, <1>4 DEF ModelInv, ModelTypes
<1>6. OneWorks'
  <2>1. ASSUME NEW q \in Requests, q # r, Key[q] = Key[r], next.at \in Working, request[q].at \in Working PROVE FALSE
    <3>1. RequestFits(q, request[q], run[Key[q]], asked[Key[q]])
      BY DEF ModelInv
    <3> QED BY <2>1, <3>1 DEF ModelInv, OneWorks, RequestFits
  <2> QED BY <1>2, <2>1 DEF ModelInv, OneWorks
<1>7. ASSUME NEW q \in Requests PROVE RequestFits(q, request'[q], run'[Key[q]], asked'[Key[q]])
  <2>1. CASE q = r
    BY <1>2, <1>3, <1>4, <2>1
  <2>2. CASE q # r /\ Key[q] = Key[r]
    BY <1>2, <1>3, <1>4, <2>2, OthersFit
  <2>3. CASE q # r /\ Key[q] # Key[r]
    BY <1>1, <1>2, <1>3, <1>4, <2>3 DEF ModelInv
  <2> QED BY <2>1, <2>2, <2>3
<1>8. ASSUME NEW k \in Keys PROVE KeyFits(run'[k], asked'[k])
  BY <1>3, <1>4 DEF ModelInv
<1> QED BY <1>5, <1>6, <1>7, <1>8 DEF ModelInv

(* A request moves while the runs stay.                                     *)
LEMMA OnlyRequest ==
  ASSUME ModelInv, NEW r \in Requests, NEW next \in RequestRow, request' = [request EXCEPT ![r] = next],
         authorized' = authorized, run' = run, rows' = rows, asked' = asked,
         RequestFits(r, next, run[Key[r]], asked[Key[r]]),
         next.at \in Working => request[r].at \in Working
  PROVE  ModelInv'
<1>1. Key[r] \in Keys
  BY ModelAssumption
<1>2. run[Key[r]] \in RunRow /\ asked[Key[r]] \in SUBSET Requests /\ KeyFits(run[Key[r]], asked[Key[r]])
  BY <1>1 DEF ModelInv, ModelTypes
<1>3. run' = [run EXCEPT ![Key[r]] = run[Key[r]]] /\ asked' = [asked EXCEPT ![Key[r]] = asked[Key[r]]]
  BY <1>1 DEF ModelInv, ModelTypes
<1>4. RowsAreCalls' /\ Entitled(r, run[Key[r]], asked[Key[r]])
  BY DEF ModelInv, RowsAreCalls, Entitled
<1> QED BY <1>2, <1>3, <1>4, OneMoves

LEMMA RowIs ==
  ASSUME ModelInv, NEW r \in Requests
  PROVE  /\ Key[r] \in Keys /\ run[Key[r]] \in RunRow /\ request[r] \in RequestRow /\ asked[Key[r]] \subseteq Requests
         /\ RequestFits(r, request[r], run[Key[r]], asked[Key[r]]) /\ KeyFits(run[Key[r]], asked[Key[r]])
         /\ Model!Mine(r) = run[Key[r]]
         /\ Model!Mine(r) = Model!NoRun <=> run[Key[r]].status = "NONE"
BY ModelAssumption, NoRunIs DEF ModelInv, ModelTypes, Model!Mine, KeyFits

(* The run of a reply, and nothing more to do.                              *)
LEMMA ReplyKeeps ==
  ASSUME ModelInv, NEW r \in Requests, NEW reply \in {"RUNNING", "CONFLICT", "REFUSED", "ERROR"} \cup Model!Terminal,
         Model!Reply(r, reply), authorized' = authorized, run' = run, rows' = rows, asked' = asked,
         reply \in Model!Terminal => run[Key[r]].status = reply /\ run[Key[r]].print = Fingerprint[r]
  PROVE  ModelInv'
<1> DEFINE next == [request[r] EXCEPT !.at = "replied", !.reply = reply, !.left = <<>>]
<1>1. request' = [request EXCEPT ![r] = next]
  BY DEF Model!Reply
<1>2. request[r] \in RequestRow /\ RequestFits(r, request[r], run[Key[r]], asked[Key[r]])
  BY RowIs
<1>3. next \in RequestRow /\ next.at = "replied" /\ next.reply = reply /\ next.steps = request[r].steps
  <2>1. <<>> \in Seq(CallIds)
    OBVIOUS
  <2> QED BY <1>2, <2>1 DEF RequestRow, Model!Ended
<1> HIDE DEF next
<1>4. RequestFits(r, next, run[Key[r]], asked[Key[r]]) /\ next.at \notin Working
  BY <1>2, <1>3 DEF RequestFits, Working
<1> QED BY <1>1, <1>3, <1>4, OnlyRequest

LEMMA ExistingKeeps ==
  ASSUME ModelInv, NEW r \in Requests, Model!Existing(r), run[Key[r]].status # "NONE",
         authorized' = authorized, run' = run, rows' = rows, asked' = asked
  PROVE  ModelInv'
<1> DEFINE reply == IF Model!Mine(r).print = Fingerprint[r] THEN Model!Mine(r).status ELSE "CONFLICT"
<1>1. run[Key[r]] \in RunRow /\ Model!Mine(r) = run[Key[r]]
  BY RowIs
<1>2. /\ reply \in {"RUNNING", "CONFLICT", "REFUSED", "ERROR"} \cup Model!Terminal
      /\ reply \in Model!Terminal => run[Key[r]].status = reply /\ run[Key[r]].print = Fingerprint[r]
  BY <1>1 DEF RunRow, Model!Terminal
<1>3. Model!Reply(r, reply)
  BY DEF Model!Existing
<1> HIDE DEF reply
<1> QED BY <1>2, <1>3, ReplyKeeps

(* A request goes on without a change of its run.                           *)
LEMMA GoKeeps ==
  ASSUME ModelInv, NEW r \in Requests, NEW from, NEW to \in {"insert", "recover", "complete", "fail"},
         Model!Go(r, from, to), authorized' = authorized, run' = run, rows' = rows, asked' = asked,
         to \in {"insert", "recover"} => request[r].at \in {"begin", "insert"},
         to = "recover" => run[Key[r]].status # "NONE",
         to \in {"complete", "fail"} => request[r].at \in Working
  PROVE  ModelInv'
<1> DEFINE next == [request[r] EXCEPT !.at = to]
<1>1. request' = [request EXCEPT ![r] = next]
  BY DEF Model!Go
<1>2. request[r] \in RequestRow /\ RequestFits(r, request[r], run[Key[r]], asked[Key[r]])
  BY RowIs
<1>3. /\ next \in RequestRow /\ next.at = to /\ next.reply = request[r].reply /\ next.steps = request[r].steps
      /\ next.tools = request[r].tools /\ next.left = request[r].left
  BY <1>2 DEF RequestRow
<1> HIDE DEF next
<1>4. RequestFits(r, next, run[Key[r]], asked[Key[r]]) /\ (next.at \in Working => request[r].at \in Working)
  BY <1>2, <1>3 DEF RequestFits, Working
<1> QED BY <1>1, <1>3, <1>4, OnlyRequest

LEMMA ModelBeginKeeps ==
  ASSUME ModelInv, NEW r \in Requests, Model!Begin(r)
  PROVE  ModelInv'
<1>1. request[r].at = "begin" /\ authorized' = authorized /\ run' = run /\ rows' = rows /\ asked' = asked
  BY DEF Model!Begin
<1>2. CASE Model!Reply(r, "REFUSED")
  BY <1>1, <1>2, ReplyKeeps DEF Model!Terminal
<1>3. CASE Model!Mine(r) # Model!NoRun /\ Model!Existing(r)
  BY <1>1, <1>3, RowIs, ExistingKeeps
<1>4. CASE Model!Go(r, "begin", "insert")
  BY <1>1, <1>4, GoKeeps
<1> QED BY <1>2, <1>3, <1>4 DEF Model!Begin

LEMMA InsertKeeps ==
  ASSUME ModelInv, NEW r \in Requests, Model!Insert(r)
  PROVE  ModelInv'
<1>1. authorized' = authorized /\ rows' = rows /\ asked' = asked
  BY DEF Model!Insert
<1>2. CASE Model!Mine(r) # Model!NoRun
  <2>1. run' = run /\ Model!Go(r, "insert", "recover")
    BY <1>2 DEF Model!Insert
  <2>2. request[r].at = "insert"
    BY <2>1 DEF Model!Go
  <2> QED BY <1>1, <1>2, <2>1, <2>2, RowIs, GoKeeps
<1>3. CASE Model!Mine(r) = Model!NoRun
  <2> DEFINE next == [request[r] EXCEPT !.at = "generate"]
             row == [Model!NoRun EXCEPT !.status = "RUNNING", !.print = Fingerprint[r]]
  <2>1. /\ Key[r] \in Keys /\ run[Key[r]] = Model!NoRun /\ request[r] \in RequestRow
        /\ RequestFits(r, request[r], run[Key[r]], asked[Key[r]]) /\ KeyFits(run[Key[r]], asked[Key[r]])
    BY <1>3, RowIs
  <2>2. request[r].at = "insert" /\ request' = [request EXCEPT ![r] = next]
    BY <1>3 DEF Model!Insert, Model!Go
  <2>3. run' = [run EXCEPT ![Key[r]] = row]
    <3>1. run' = [run EXCEPT ![Key[r]].status = "RUNNING", ![Key[r]].print = Fingerprint[r]]
      BY <1>3 DEF Model!Insert
    <3> QED BY <2>1, <3>1 DEF ModelInv, ModelTypes
  <2>4. /\ next \in RequestRow /\ next.at = "generate" /\ next.reply = request[r].reply /\ next.steps = request[r].steps
        /\ next.tools = request[r].tools /\ next.left = request[r].left
    BY <2>1 DEF RequestRow
  <2>5. row \in RunRow /\ row.status = "RUNNING" /\ row.print = Fingerprint[r] /\ row.calls = <<>>
    <3>1. <<>> \in Seq(CallIds) /\ Fingerprint[r] \in Fingerprints
      BY DEF Fingerprints
    <3> QED BY <3>1 DEF RunRow, Model!NoRun
  <2>6. asked[Key[r]] = {} /\ run[Key[r]].status = "NONE"
    BY <2>1, NoRunIs DEF KeyFits
  <2>7. RowsAreCalls'
    <3>1. \A k \in Keys: run'[k].calls = run[k].calls
      BY <2>1, <2>3, <2>5, NoRunIs DEF ModelInv, ModelTypes
    <3> QED BY <1>1, <3>1 DEF ModelInv, RowsAreCalls
  <2> HIDE DEF next, row
  <2>8. Len(row.calls) = 0 /\ Model!IsInjective(row.calls)
    BY <2>5, NoRunIs
  <2>9. KeyFits(row, asked[Key[r]])
    BY <2>5, <2>6, <2>8 DEF KeyFits, Model!MaxTools
  <2>10. RequestFits(r, next, row, asked[Key[r]])
    <3>1. request[r].reply \notin Model!Terminal
      BY <2>1, <2>6 DEF RequestFits, Model!Terminal
    <3> QED BY <2>1, <2>2, <2>4, <2>5, <2>6, <2>8, <3>1 DEF RequestFits, Model!MaxTools, Working
  <2>11. Entitled(r, row, asked[Key[r]])
    BY <2>5, <2>6 DEF Entitled
  <2>12. asked' = [asked EXCEPT ![Key[r]] = asked[Key[r]]] /\ asked[Key[r]] \in SUBSET Requests
    BY <1>1, <2>1 DEF ModelInv, ModelTypes
  <2> QED BY <1>1, <2>2, <2>3, <2>4, <2>5, <2>6, <2>7, <2>9, <2>10, <2>11, <2>12, OneMoves
<1> QED BY <1>2, <1>3

LEMMA RecoverKeeps ==
  ASSUME ModelInv, NEW r \in Requests, Model!Recover(r)
  PROVE  ModelInv'
<1>1. request[r].at = "recover" /\ authorized' = authorized /\ run' = run /\ rows' = rows /\ asked' = asked
  BY DEF Model!Recover
<1>2. run[Key[r]].status # "NONE"
  BY <1>1, RowIs DEF RequestFits
<1>3. CASE Model!Existing(r)
  BY <1>1, <1>2, <1>3, ExistingKeeps
<1>4. CASE Model!Reply(r, "REFUSED")
  BY <1>1, <1>4, ReplyKeeps DEF Model!Terminal
<1> QED BY <1>3, <1>4 DEF Model!Recover

LEMMA GenerateKeeps ==
  ASSUME ModelInv, NEW r \in Requests, Model!Generate(r)
  PROVE  ModelInv'
<1>1. request[r].at = "generate" /\ authorized' = authorized /\ run' = run /\ rows' = rows
  BY DEF Model!Generate
<1>2. /\ Key[r] \in Keys /\ run[Key[r]] \in RunRow /\ request[r] \in RequestRow /\ asked[Key[r]] \subseteq Requests
      /\ RequestFits(r, request[r], run[Key[r]], asked[Key[r]]) /\ KeyFits(run[Key[r]], asked[Key[r]])
  BY RowIs
<1>3. request[r].at \in Working /\ run[Key[r]].status = "RUNNING" /\ asked[Key[r]] \subseteq {r}
  BY <1>1, <1>2 DEF RequestFits, Working
<1>4. CASE request[r].steps = Model!MaxSteps
  BY <1>2, <1>4 DEF RequestFits, RequestRow, Model!MaxSteps
<1>5. CASE request[r].steps # Model!MaxSteps
  <2> DEFINE askers == asked[Key[r]] \cup {r}
  <2>1. asked' = [asked EXCEPT ![Key[r]] = askers] /\ askers \in SUBSET Requests
    BY <1>2, <1>5 DEF Model!Generate
  <2>2. askers = {r}
    BY <1>3
  <2> HIDE DEF askers
  <2>3. Entitled(r, run[Key[r]], askers) /\ KeyFits(run[Key[r]], askers)
    BY <1>2, <1>3, <2>2 DEF Entitled, KeyFits
  <2>4. run' = [run EXCEPT ![Key[r]] = run[Key[r]]] /\ RowsAreCalls'
    BY <1>1, <1>2 DEF ModelInv, ModelTypes, RowsAreCalls
  <2>5. ASSUME NEW next \in RequestRow, request' = [request EXCEPT ![r] = next],
               RequestFits(r, next, run[Key[r]], askers)
        PROVE  ModelInv'
    BY <1>1, <1>2, <1>3, <2>1, <2>3, <2>4, <2>5, OneMoves
  <2>6. ASSUME NEW to \in {"complete", "fail"}, Model!Go(r, "generate", to) PROVE ModelInv'
    <3> DEFINE next == [request[r] EXCEPT !.at = to]
    <3>1. request' = [request EXCEPT ![r] = next]
      BY <2>6 DEF Model!Go
    <3>2. next \in RequestRow /\ next.at = to /\ next.reply = request[r].reply /\ next.steps = request[r].steps
      BY <1>2 DEF RequestRow
    <3> HIDE DEF next
    <3>3. RequestFits(r, next, run[Key[r]], askers)
      BY <1>1, <1>2, <2>2, <3>2 DEF RequestFits, Working
    <3> QED BY <2>5, <3>1, <3>2, <3>3
  <2>7. ASSUME NEW batch \in Batches, ~Model!TooMany(r, batch), batch # <<>>,
               request' = [request EXCEPT ![r].at = "tools", ![r].left = batch, ![r].steps = @ + 1]
        PROVE  ModelInv'
    <3> DEFINE next == [request[r] EXCEPT !.at = "tools", !.left = batch, !.steps = @ + 1]
    <3>1. request' = [request EXCEPT ![r] = next]
      BY <2>7 DEF ModelInv, ModelTypes
    <3>2. batch \in Seq(CallIds) /\ Len(batch) \in Nat /\ Len(batch) # 0
      <4>1. batch \in Seq(CallIds)
        BY ModelAssumption
      <4> QED BY <2>7, <4>1
    <3>3. /\ next \in RequestRow /\ next.at = "tools" /\ next.reply = request[r].reply
          /\ next.steps = request[r].steps + 1 /\ next.tools = request[r].tools /\ next.left = batch
      <4>1. request[r].steps + 1 \in Nat
        BY <1>2 DEF RequestRow
      <4> QED BY <1>2, <3>2, <4>1 DEF RequestRow
    <3> HIDE DEF next
    <3>4. /\ request[r].tools \in Nat /\ request[r].steps \in Nat /\ Len(batch) + request[r].tools <= 4
          /\ request[r].left = <<>> /\ Len(run[Key[r]].calls) = request[r].tools
          /\ request[r].steps <= request[r].tools + Len(request[r].left)
      BY <1>1, <1>2, <2>7, <3>2 DEF RequestFits, RequestRow, Model!TooMany, Model!MaxTools
    <3>5. request[r].steps <= request[r].tools
      <4>1. Len(request[r].left) = 0
        BY <3>4
      <4> QED BY <3>4, <4>1
    <3>6. /\ next.steps < 5 /\ next.tools + Len(next.left) <= 4 /\ next.steps <= next.tools + Len(next.left)
      BY <3>2, <3>3, <3>4, <3>5
    <3>7. RequestFits(r, next, run[Key[r]], askers)
      BY <1>1, <1>2, <2>2, <2>7, <3>3, <3>4, <3>6 DEF RequestFits, Working, Model!MaxSteps, Model!MaxTools
    <3> QED BY <2>5, <3>1, <3>3, <3>7
  <2> QED BY <1>1, <1>5, <2>6, <2>7 DEF Model!Generate
<1> QED BY <1>4, <1>5

(* One more call.                                                           *)
LEMMA OneMoreCall ==
  ASSUME NEW calls \in Seq(CallIds), NEW id \in CallIds, Model!IsInjective(calls), id \notin Model!Range(calls)
  PROVE  /\ Append(calls, id) \in Seq(CallIds) /\ Len(Append(calls, id)) = Len(calls) + 1
         /\ Model!IsInjective(Append(calls, id)) /\ Model!Range(Append(calls, id)) = Model!Range(calls) \cup {id}
<1> DEFINE more == Append(calls, id)
<1>1. /\ more \in Seq(CallIds) /\ Len(more) = Len(calls) + 1 /\ Len(calls) \in Nat
      /\ DOMAIN calls = 1..Len(calls) /\ DOMAIN more = 1..Len(calls) + 1
      /\ \A i \in 1..Len(calls): more[i] = calls[i]
      /\ more[Len(calls) + 1] = id
  OBVIOUS
<1> HIDE DEF more
<1>2. \A i \in 1..Len(calls): calls[i] # id
  BY <1>1 DEF Model!Range
<1>3. Model!IsInjective(more)
  BY <1>1, <1>2 DEF Model!IsInjective
<1>4. Model!Range(more) = Model!Range(calls) \cup {id}
  BY <1>1 DEF Model!Range
<1> QED BY <1>1, <1>3, <1>4 DEF more

LEMMA ToolsKeep ==
  ASSUME ModelInv, NEW r \in Requests, Model!Tools(r)
  PROVE  ModelInv'
<1> DEFINE id == Head(request[r].left)
<1>1. request[r].at = "tools" /\ authorized' = authorized /\ asked' = asked
  BY DEF Model!Tools
<1>2. /\ Key[r] \in Keys /\ run[Key[r]] \in RunRow /\ request[r] \in RequestRow /\ asked[Key[r]] \subseteq Requests
      /\ RequestFits(r, request[r], run[Key[r]], asked[Key[r]]) /\ KeyFits(run[Key[r]], asked[Key[r]])
  BY RowIs
<1>3. /\ request[r].at \in Working /\ run[Key[r]].status = "RUNNING" /\ run[Key[r]].print = Fingerprint[r]
      /\ asked[Key[r]] \subseteq {r} /\ request[r].left # <<>> /\ Len(run[Key[r]].calls) = request[r].tools
      /\ request[r].tools + Len(request[r].left) <= 4 /\ request[r].steps <= request[r].tools + Len(request[r].left)
  BY <1>1, <1>2 DEF RequestFits, Working, Model!MaxTools
<1>4. request[r].left \in Seq(CallIds) /\ request[r].tools \in Nat /\ request[r].steps \in Nat
  BY <1>2 DEF RequestRow
<1>5. CASE /\ request' = [request EXCEPT ![r].at = "fail", ![r].left = <<>>]
           /\ UNCHANGED <<run, rows>>
  <2> DEFINE next == [request[r] EXCEPT !.at = "fail", !.left = <<>>]
  <2>1. request' = [request EXCEPT ![r] = next]
    BY <1>5
  <2>2. next \in RequestRow /\ next.at = "fail" /\ next.reply = request[r].reply /\ next.steps = request[r].steps
    <3>1. <<>> \in Seq(CallIds)
      OBVIOUS
    <3> QED BY <1>2, <3>1 DEF RequestRow
  <2> HIDE DEF next
  <2>3. RequestFits(r, next, run[Key[r]], asked[Key[r]])
    BY <1>2, <1>3, <2>2 DEF RequestFits
  <2> QED BY <1>1, <1>3, <1>5, <2>1, <2>2, <2>3, OnlyRequest
<1>6. CASE /\ Model!Executable(r, id)
           /\ run' = [run EXCEPT ![Key[r]].calls = Append(@, id)]
           /\ rows' = rows \cup {id}
           /\ request' = [request EXCEPT ![r].tools = @ + 1, ![r].left = Tail(@),
                                         ![r].at = IF Len(request[r].left) = 1 THEN "generate" ELSE "tools"]
  <2> DEFINE left == Tail(request[r].left)
             at == IF Len(request[r].left) = 1 THEN "generate" ELSE "tools"
             next == [request[r] EXCEPT !.tools = @ + 1, !.left = left, !.at = at]
             row == [run[Key[r]] EXCEPT !.calls = Append(@, id)]
  <2>1. request' = [request EXCEPT ![r] = next] /\ run' = [run EXCEPT ![Key[r]] = row]
    BY <1>2, <1>6 DEF ModelInv, ModelTypes
  <2>2. /\ id \in CallIds /\ left \in Seq(CallIds) /\ Len(left) = Len(request[r].left) - 1 /\ Len(request[r].left) \in Nat
        /\ Len(request[r].left) = 1 <=> left = <<>>
    <3>1. \A s \in Seq(CallIds): s # <<>> =>
            /\ Head(s) \in CallIds /\ Tail(s) \in Seq(CallIds) /\ Len(Tail(s)) = Len(s) - 1 /\ Len(s) \in Nat
      OBVIOUS
    <3>2. \A s \in Seq(CallIds): Len(s) = 0 <=> s = <<>>
      OBVIOUS
    <3>3. id \in CallIds /\ left \in Seq(CallIds) /\ Len(left) = Len(request[r].left) - 1 /\ Len(request[r].left) \in Nat
      BY <1>3, <1>4, <3>1
    <3>4. Len(left) = 0 <=> left = <<>>
      BY <3>2, <3>3
    <3> HIDE DEF id, left
    <3> QED BY <3>3, <3>4
  <2>3. id \notin Model!Range(run[Key[r]].calls)
    BY <1>2, <1>6 DEF Model!Executable, ModelInv, RowsAreCalls
  <2>4. run[Key[r]].calls \in Seq(CallIds) /\ Model!IsInjective(run[Key[r]].calls)
    BY <1>2 DEF RunRow, KeyFits
  <2>5. at \in {"generate", "tools"} /\ (at = "generate" <=> left = <<>>)
    BY <2>2
  <2> HIDE DEF id, left, at
  <2>6. /\ next \in RequestRow /\ next.at = at /\ next.reply = request[r].reply /\ next.steps = request[r].steps
        /\ next.tools = request[r].tools + 1 /\ next.left = left
    <3>1. request[r].tools + 1 \in Nat
      BY <1>4
    <3> QED BY <1>2, <2>2, <2>5, <3>1 DEF RequestRow
  <2>7. /\ Append(run[Key[r]].calls, id) \in Seq(CallIds) /\ Len(Append(run[Key[r]].calls, id)) = request[r].tools + 1
        /\ Model!IsInjective(Append(run[Key[r]].calls, id))
        /\ Model!Range(Append(run[Key[r]].calls, id)) = Model!Range(run[Key[r]].calls) \cup {id}
    BY <1>3, <2>2, <2>3, <2>4, OneMoreCall
  <2>8. /\ row \in RunRow /\ row.status = "RUNNING" /\ row.print = Fingerprint[r]
        /\ row.calls = Append(run[Key[r]].calls, id)
    BY <1>2, <1>3, <2>7 DEF RunRow
  <2> HIDE DEF next, row
  <2>9. KeyFits(row, asked[Key[r]])
    <3>1. Len(row.calls) <= 4 /\ row.status # "NONE"
      BY <1>3, <1>4, <2>2, <2>7, <2>8
    <3> QED BY <1>2, <2>7, <2>8, <3>1 DEF KeyFits, Model!MaxTools
  <2>10. RequestFits(r, next, row, asked[Key[r]])
    <3>1. /\ next.tools + Len(next.left) <= 4 /\ next.steps <= next.tools + Len(next.left)
          /\ Len(row.calls) = next.tools
      BY <1>3, <1>4, <2>2, <2>6, <2>7, <2>8
    <3>2. next.steps < 5 /\ next.reply \notin Model!Terminal
      BY <1>2, <1>3, <2>6 DEF RequestFits, Model!Terminal, Model!MaxSteps
    <3> QED BY <1>3, <2>5, <2>6, <2>8, <3>1, <3>2 DEF RequestFits, Model!MaxTools, Model!MaxSteps, Working
  <2>11. RowsAreCalls'
    <3>1. \A k \in Keys: Model!Range(run'[k].calls) =
            IF k = Key[r] THEN Model!Range(run[k].calls) \cup {id} ELSE Model!Range(run[k].calls)
      <4>1. run'[Key[r]] = row /\ \A k \in Keys \ {Key[r]}: run'[k] = run[k]
        BY <1>2, <2>1 DEF ModelInv, ModelTypes
      <4> QED BY <2>7, <2>8, <4>1
    <3>2. rows' = rows \cup {id}
      BY <1>6 DEF id
    <3>3. \A x: x \in rows <=> \E k \in Keys: x \in Model!Range(run[k].calls)
      BY DEF ModelInv, RowsAreCalls
    <3>4. \A x: x \in rows' <=> \E k \in Keys: x \in Model!Range(run'[k].calls)
      BY <1>2, <3>1, <3>2, <3>3
    <3> QED BY <3>4 DEF RowsAreCalls
  <2>12. Entitled(r, row, asked[Key[r]])
    BY <1>3, <2>8 DEF Entitled
  <2>13. asked' = [asked EXCEPT ![Key[r]] = asked[Key[r]]] /\ asked[Key[r]] \in SUBSET Requests
    BY <1>1, <1>2 DEF ModelInv, ModelTypes
  <2> QED BY <1>1, <1>3, <2>1, <2>6, <2>8, <2>9, <2>10, <2>11, <2>12, <2>13, OneMoves
<1> QED BY <1>5, <1>6 DEF Model!Tools

LEMMA FinalizeKeeps ==
  ASSUME ModelInv, NEW r \in Requests, NEW from \in {"complete", "fail"}, NEW status \in Model!Terminal,
         Model!Finalize(r, from, status)
  PROVE  ModelInv'
<1>1. request[r].at = from /\ authorized' = authorized /\ rows' = rows /\ asked' = asked
  BY DEF Model!Finalize
<1>2. /\ Key[r] \in Keys /\ run[Key[r]] \in RunRow /\ request[r] \in RequestRow /\ asked[Key[r]] \subseteq Requests
      /\ RequestFits(r, request[r], run[Key[r]], asked[Key[r]]) /\ KeyFits(run[Key[r]], asked[Key[r]])
  BY RowIs
<1>3. CASE Model!Reply(r, "ERROR") /\ UNCHANGED run
  BY <1>1, <1>3, ReplyKeeps DEF Model!Terminal
<1>4. CASE run' = [run EXCEPT ![Key[r]].status = status] /\ Model!Reply(r, status)
  <2> DEFINE next == [request[r] EXCEPT !.at = "replied", !.reply = status, !.left = <<>>]
             row == [run[Key[r]] EXCEPT !.status = status]
  <2>1. request' = [request EXCEPT ![r] = next] /\ run' = [run EXCEPT ![Key[r]] = row]
    BY <1>4 DEF Model!Reply
  <2>2. /\ request[r].at \in Working /\ run[Key[r]].status = "RUNNING" /\ run[Key[r]].print = Fingerprint[r]
    BY <1>1, <1>2 DEF RequestFits, Working
  <2>3. /\ row \in RunRow /\ row.status = status /\ row.print = Fingerprint[r] /\ row.calls = run[Key[r]].calls
    BY <1>2, <2>2 DEF RunRow
  <2>4. next \in RequestRow /\ next.at = "replied" /\ next.reply = status /\ next.steps = request[r].steps
    <3>1. <<>> \in Seq(CallIds)
      OBVIOUS
    <3> QED BY <1>2, <3>1 DEF RequestRow, Model!Ended
  <2> HIDE DEF next, row
  <2>5. RequestFits(r, next, row, asked[Key[r]]) /\ next.at \notin Working
    BY <1>2, <2>3, <2>4 DEF RequestFits, Working
  <2>6. KeyFits(row, asked[Key[r]]) /\ Entitled(r, row, asked[Key[r]])
    BY <1>2, <2>2, <2>3 DEF KeyFits, Entitled, Model!Terminal
  <2>7. RowsAreCalls'
    <3>1. \A k \in Keys: run'[k].calls = run[k].calls
      BY <1>2, <2>1, <2>3 DEF ModelInv, ModelTypes
    <3> QED BY <1>1, <3>1 DEF ModelInv, RowsAreCalls
  <2>8. asked' = [asked EXCEPT ![Key[r]] = asked[Key[r]]] /\ asked[Key[r]] \in SUBSET Requests
    BY <1>1, <1>2 DEF ModelInv, ModelTypes
  <2> QED BY <1>1, <2>1, <2>3, <2>4, <2>5, <2>6, <2>7, <2>8, OneMoves
<1> QED BY <1>3, <1>4 DEF Model!Finalize

(* What is under way ends, and nothing takes it up.                         *)
LEMMA CrashKeeps ==
  ASSUME ModelInv, Model!Crash
  PROVE  ModelInv'
<1>1. /\ authorized' = authorized /\ run' = run /\ rows' = rows /\ asked' = asked
      /\ request' = [r \in Requests |->
           IF request[r].at \in Model!Ended \cup {"begin"} THEN request[r]
           ELSE [request[r] EXCEPT !.at = "dead", !.left = <<>>]]
  BY DEF Model!Crash
<1>2. ASSUME NEW r \in Requests
      PROVE  /\ request'[r] \in RequestRow /\ RequestFits(r, request'[r], run[Key[r]], asked[Key[r]])
             /\ request'[r].at \in Working => request[r].at \in Working
  <2>1. request[r] \in RequestRow /\ RequestFits(r, request[r], run[Key[r]], asked[Key[r]])
    BY RowIs
  <2>2. CASE request[r].at \in Model!Ended \cup {"begin"}
    <3>1. request'[r] = request[r]
      BY <1>1, <2>2
    <3> QED BY <2>1, <3>1
  <2>3. CASE request[r].at \notin Model!Ended \cup {"begin"}
    <3> DEFINE next == [request[r] EXCEPT !.at = "dead", !.left = <<>>]
    <3>1. request'[r] = next
      BY <1>1, <2>3
    <3>2. next \in RequestRow /\ next.at = "dead" /\ next.reply = request[r].reply /\ next.steps = request[r].steps
      <4>1. <<>> \in Seq(CallIds)
        OBVIOUS
      <4> QED BY <2>1, <4>1 DEF RequestRow, Model!Ended
    <3> HIDE DEF next
    <3> QED BY <2>1, <3>1, <3>2 DEF RequestFits, Working
  <2> QED BY <2>2, <2>3
<1>3. request' \in [Requests -> RequestRow]
  BY <1>1, <1>2
<1> QED BY <1>1, <1>2, <1>3 DEF ModelInv, ModelTypes, OneWorks, RowsAreCalls

LEMMA ModelSteps ==
  ASSUME ModelInv, [Model!Next]_model
  PROVE  ModelInv'
<1>1. CASE UNCHANGED model
  <2>1. authorized' = authorized /\ run' = run /\ rows' = rows /\ request' = request /\ asked' = asked
    BY <1>1 DEF model
  <2> QED BY <2>1 DEF ModelInv, ModelTypes, OneWorks, RowsAreCalls
<1>2. CASE Model!Authorize
  <2>1. authorized' = ~authorized /\ run' = run /\ rows' = rows /\ request' = request /\ asked' = asked
    BY <1>2 DEF Model!Authorize
  <2>2. authorized' \in BOOLEAN
    BY <2>1
  <2> QED BY <2>1, <2>2 DEF ModelInv, ModelTypes, OneWorks, RowsAreCalls
<1>3. CASE \E r \in Requests: Model!Progress(r)
  <2>1. PICK r \in Requests: Model!Progress(r)
    BY <1>3
  <2>2. Model!Complete(r) => Model!Finalize(r, "complete", "COMPLETED")
    BY DEF Model!Complete
  <2>3. Model!Fail(r) => Model!Finalize(r, "fail", "FAILED")
    BY DEF Model!Fail
  <2>4. {"COMPLETED", "FAILED"} = Model!Terminal
    BY DEF Model!Terminal
  <2> QED BY <2>1, <2>2, <2>3, <2>4, ModelBeginKeeps, InsertKeeps, RecoverKeeps, GenerateKeeps, ToolsKeep, FinalizeKeeps
          DEF Model!Progress
<1> QED BY <1>1, <1>2, <1>3, CrashKeeps DEF Model!Next

LEMMA ModelImplies == ModelInv => Model!TypeOK /\ Model!OneAsker /\ Model!WithinLimits /\ Model!RepliesStand
<1> SUFFICES ASSUME ModelInv PROVE Model!TypeOK /\ Model!OneAsker /\ Model!WithinLimits /\ Model!RepliesStand
  OBVIOUS
<1>1. Model!TypeOK
  <2>1. \A k \in Keys:
          /\ run[k].status \in {"NONE", "RUNNING"} \cup Model!Terminal
          /\ run[k].calls \in Seq(CallIds)
          /\ run[k].status = "NONE" => run[k] = Model!NoRun
    BY DEF ModelInv, ModelTypes, RunRow, KeyFits
  <2>2. \A r \in Requests: request[r] \in RequestRow
    BY DEF ModelInv, ModelTypes
  <2> QED BY <2>1, <2>2 DEF Model!TypeOK, ModelInv, ModelTypes, RowsAreCalls, RequestRow
<1>2. Model!OneAsker
  BY DEF ModelInv, KeyFits, Model!OneAsker
<1>3. Model!WithinLimits
  BY DEF ModelInv, KeyFits, RequestFits, Model!WithinLimits
<1>4. Model!RepliesStand
  BY RowIs DEF RequestFits, Model!RepliesStand
<1> QED BY <1>1, <1>2, <1>3, <1>4

(* Only an execution of a tool writes to the calls of a run.                *)
LEMMA CallIsRecorded ==
  ASSUME ModelInv, [Model!Next]_model, NEW k \in Keys, run'[k].calls # run[k].calls
  PROVE  /\ authorized /\ run[k].status = "RUNNING"
         /\ Len(run'[k].calls) = Len(run[k].calls) + 1
         /\ Model!IsInjective(run'[k].calls)
<1>1. ModelInv'
  BY ModelSteps
<1>2. Model!IsInjective(run'[k].calls)
  BY <1>1 DEF ModelInv, KeyFits
<1>3. run' # run
  OBVIOUS
<1>4. PICK r \in Requests: Model!Insert(r) \/ Model!Tools(r) \/ Model!Complete(r) \/ Model!Fail(r)
  BY <1>3 DEF model, Model!Next, Model!Authorize, Model!Crash, Model!Progress, Model!Begin, Model!Recover, Model!Generate
<1>5. Key[r] \in Keys /\ run[Key[r]] \in RunRow /\ Model!Mine(r) = run[Key[r]]
  BY RowIs
<1>6. ~Model!Insert(r) /\ ~Model!Complete(r) /\ ~Model!Fail(r)
  <2>1. ASSUME NEW next, run' = [run EXCEPT ![Key[r]] = next], next.calls = run[Key[r]].calls PROVE FALSE
    BY <1>5, <2>1 DEF ModelInv, ModelTypes
  <2>2. \A x: [run[Key[r]] EXCEPT !.status = x].calls = run[Key[r]].calls
    BY <1>5 DEF RunRow
  <2>3. \A x, y: [run[Key[r]] EXCEPT !.status = x, !.print = y].calls = run[Key[r]].calls
    BY <1>5 DEF RunRow
  <2>4. ASSUME Model!Insert(r) PROVE FALSE
    <3>1. run' = [run EXCEPT ![Key[r]] = [run[Key[r]] EXCEPT !.status = "RUNNING", !.print = Fingerprint[r]]]
      BY <1>3, <1>5, <2>4 DEF Model!Insert, ModelInv, ModelTypes
    <3> QED BY <2>1, <2>3, <3>1
  <2>5. ASSUME NEW from, NEW status, Model!Finalize(r, from, status) PROVE FALSE
    <3>1. run' = [run EXCEPT ![Key[r]] = [run[Key[r]] EXCEPT !.status = status]]
      BY <1>3, <2>5 DEF Model!Finalize
    <3> QED BY <2>1, <2>2, <3>1
  <2> QED BY <2>4, <2>5 DEF Model!Complete, Model!Fail
<1>7. /\ Model!Executable(r, Head(request[r].left))
      /\ run' = [run EXCEPT ![Key[r]].calls = Append(@, Head(request[r].left))]
  BY <1>3, <1>4, <1>6 DEF Model!Tools
<1>8. k = Key[r] /\ run'[k].calls = Append(run[k].calls, Head(request[r].left))
  BY <1>5, <1>7 DEF ModelInv, ModelTypes, RunRow
<1>9. run[k].calls \in Seq(CallIds)
  BY <1>5, <1>8 DEF RunRow
<1>10. Len(run'[k].calls) = Len(run[k].calls) + 1
  BY <1>8, <1>9
<1> QED BY <1>2, <1>5, <1>7, <1>8, <1>10 DEF Model!Executable

(***************************************************************************)
(* The services together.                                                  *)
(***************************************************************************)

ServicesInv == AccountsInv /\ ControlInv /\ ModelInv

(* A step of one service leaves the others' variables alone.                *)
LEMMA EachMoves ==
  ASSUME [ServicesNext]_services
  PROVE  [Accounts!Next]_accounts /\ [Control!Next]_control /\ [Model!Next]_model
<1>1. CASE AccountsStep
  BY <1>1 DEF AccountsStep
<1>2. CASE ControlStep
  BY <1>2 DEF ControlStep
<1>3. CASE ModelStep
  BY <1>3 DEF ModelStep
<1>4. CASE UNCHANGED services
  BY <1>4 DEF services
<1> QED BY <1>1, <1>2, <1>3, <1>4 DEF ServicesNext

(* The invariants of the services hold together.                            *)
THEOREM ServicesKeep == ServicesSpec => []ServicesInv
<1>1. ServicesInit => ServicesInv
  BY AccountsStart, ControlStart, ModelStart DEF ServicesInit, ServicesInv
<1>2. ServicesInv /\ [ServicesNext]_services => ServicesInv'
  BY EachMoves, AccountsSteps, ControlSteps, ModelSteps DEF ServicesInv
<1> QED BY <1>1, <1>2, PTL DEF ServicesSpec

(* changeAccountStatus and SessionRepository: the audit log tells the whole *)
(* story of every account although its transactions overlap, whom a disable *)
(* has seen signs in again, and a revocation leaves the others alone.       *)
THEOREM AccountsStaySafe == ServicesSpec => AccountsAreSafe
<1>1. ServicesInv => Accounts!TypeOK /\ Accounts!AuditIsHistory /\ Accounts!MustSignInAgain
  BY AccountsImply DEF ServicesInv
<1>2. ServicesInv /\ [ServicesNext]_services =>
        [\A s, t \in Accounts!Live: s # t /\ s \notin Accounts!Live' /\ t \notin Accounts!Live' => account' # account]_accounts
  BY EachMoves, OnlyThatEnds DEF ServicesInv
<1>3. ServicesInv /\ [ServicesNext]_services =>
        [\A s, t \in Accounts!Live: s # t /\ s \notin Accounts!Live' /\ t \notin Accounts!Live' => account' # account]_(Accounts!vars)
  BY <1>2 DEF accounts, Accounts!vars
<1> QED BY <1>1, <1>3, ServicesKeep, PTL DEF ServicesSpec, AccountsAreSafe, Accounts!OnlyThatSession

(* The control plane: the events of a row tell its history up to what it    *)
(* holds, whoever writes is entitled by what the log says, where a DENY     *)
(* wins, and a run starts only under an assignment.                         *)
THEOREM ControlStaysLogged == ServicesSpec => ControlIsLogged
<1>1. ServicesInv => Control!TypeOK /\ Control!AuditChain
  BY ControlImplies DEF ServicesInv
<1>2. ASSUME ServicesInv, [ServicesNext]_services, NEW u \in Users, Control!Open(u), ~Control!Open(u)'
      PROVE  /\ db' # db /\ Control!Needed(tx[u].row) \in Perms =>
                  LET effects == UNION {Control!Told(<<"override", u, scope, Control!Needed(tx[u].row)>>, tx[u].log):
                                          scope \in {"org", Control!ScopeOf(u, tx[u])}}
                  IN "DENY" \notin effects /\ ("ALLOW" \in effects \/ Control!RoleAllows(u, Control!Needed(tx[u].row)))
             /\ db'[<<"run", u>>] # db[<<"run", u>>] =>
                  \E scope \in Control!Scopes \cup Users:
                    /\ tx[u].seen[<<"grant", scope>>] = "ACTIVE"
                    /\ scope \in Users => scope = u
                    /\ scope \in Departments => tx[u].seen[<<"member", u>>] = scope
  BY <1>2, EachMoves, LogEntitles, AssignedRun DEF ServicesInv
<1>3. ServicesInv /\ [ServicesNext]_services =>
        [\A u \in Users: Control!Open(u) /\ ~Control!Open(u)' /\ db' # db /\ Control!Needed(tx[u].row) \in Perms =>
           LET effects == UNION {Control!Told(<<"override", u, scope, Control!Needed(tx[u].row)>>, tx[u].log):
                                   scope \in {"org", Control!ScopeOf(u, tx[u])}}
           IN "DENY" \notin effects /\ ("ALLOW" \in effects \/ Control!RoleAllows(u, Control!Needed(tx[u].row)))]_(Control!vars)
  BY <1>2
<1>4. ServicesInv /\ [ServicesNext]_services =>
        [\A u \in Users: Control!Open(u) /\ ~Control!Open(u)' /\ db'[<<"run", u>>] # db[<<"run", u>>]
           => \E scope \in Control!Scopes \cup Users:
                tx[u].seen[<<"grant", scope>>] = "ACTIVE"
                  /\ (scope \in Users => scope = u)
                  /\ (scope \in Departments => tx[u].seen[<<"member", u>>] = scope)]_(Control!vars)
  BY <1>2
<1> QED BY <1>1, <1>3, <1>4, ServicesKeep, PTL
        DEF ServicesSpec, ControlIsLogged, Control!AuthorityIsLogged, Control!RunsAreAssigned

(* Asking a model: one request per key asks the provider, within the limits *)
(* of calls and steps; a reply stands; and calls are recorded one by one,   *)
(* while the run is authorized and has not ended.                           *)
THEOREM ModelRunsAreRight == ServicesSpec => ModelRunsHold
<1>1. ServicesInv => Model!TypeOK /\ Model!OneAsker /\ Model!WithinLimits /\ Model!RepliesStand
  BY ModelImplies DEF ServicesInv
<1>2. ServicesInv /\ [ServicesNext]_services =>
        [\A k \in Keys: run'[k].calls # run[k].calls =>
           /\ authorized /\ run[k].status = "RUNNING"
           /\ Len(run'[k].calls) = Len(run[k].calls) + 1
           /\ Model!IsInjective(run'[k].calls)]_(Model!vars)
  BY EachMoves, CallIsRecorded DEF ServicesInv
<1> QED BY <1>1, <1>2, ServicesKeep, PTL DEF ServicesSpec, ModelRunsHold, Model!CallsInRun

(***************************************************************************)
(* The demo seed.  Its script is a sequence of blocks of rows: each block  *)
(* refers to itself and to what the blocks before it contain.              *)
(***************************************************************************)

TaskValues == {"TODO", "IN_PROGRESS", "READY_FOR_REVIEW", "ACCEPTED"}

(* What the script gives to a row of its table.                            *)
Fits(row) ==
  /\ row.id = <<row.id[1], row.id[2]>>
  /\ row.keep <=> row.id[1] \in {"agentAssignment", "participant", "notification"}
  /\ row.id[1] = "department" => <<row.id[2], row.value>> \in {<<"product", "Product">>,
          <<"research", "Research">>}
  /\ row.id[1] = "agent" => <<row.id[2], row.value>> \in {<<"research", "research-agent">>,
          <<"writer", "file-writer-agent">>}
  /\ row.id[1] = "task" => row.value \in TaskValues /\ (row.id[2] = "review" => row.value = "READY_FOR_REVIEW")
  /\ row.id[1] = "result" => <<row.id[2], row.value>> \in {<<"review", "HUMAN_REVIEW">>,
          <<"accepted", "ACCEPTED">>, <<"draft", "CANDIDATE">>}
  /\ row.id[1] = "review" => row.id[2] = "accepted"

RowsOf(s) == s \in Seq({s[i]: i \in 1..Len(s)}) /\ \A i \in 1..Len(s): Fits(s[i])
IdsOf(s) == {s[i].id: i \in 1..Len(s)}

Plain(s) == \A id \in IdsOf(s): id[1] \notin {"result", "review"}
Later(s) == \A id \in IdsOf(s): id[1] \notin {"result", "review", "task"}

(* Each row refers to earlier ones, or to what is known.                   *)
Closed(s, known) == \A i \in 1..Len(s): s[i].refs \subseteq known \cup {s[j].id: j \in 1..(i - 1)}

LEMMA Joined ==
  ASSUME NEW s, NEW t, NEW known, RowsOf(s), RowsOf(t), Closed(s, known), Closed(t, known \cup IdsOf(s))
  PROVE  /\ RowsOf(s \o t) /\ Closed(s \o t, known) /\ IdsOf(s \o t) = IdsOf(s) \cup IdsOf(t)
         /\ Len(s) \in Nat /\ Len(t) \in Nat /\ Len(s \o t) = Len(s) + Len(t)
         /\ \A i \in 1..Len(s \o t): (s \o t)[i] = IF i <= Len(s) THEN s[i] ELSE t[i - Len(s)]
<1> DEFINE u == s \o t
           S == {s[i]: i \in 1..Len(s)} \cup {t[i]: i \in 1..Len(t)}
<1>0. s \in Seq(S) /\ t \in Seq(S)
  <2>1. s \in Seq({s[i]: i \in 1..Len(s)}) /\ t \in Seq({t[i]: i \in 1..Len(t)})
    BY DEF RowsOf
  <2> QED
    BY <2>1, SeqMonotonic
<1>1. /\ Len(s) \in Nat /\ Len(t) \in Nat
      /\ u \in Seq(S) /\ Len(u) = Len(s) + Len(t) /\ DOMAIN u = 1..Len(u)
      /\ \A i \in 1..(Len(s) + Len(t)): u[i] = IF i <= Len(s) THEN s[i] ELSE t[i - Len(s)]
  BY <1>0, ConcatProperties, LenProperties
<1>2. /\ \A i \in 1..Len(s): i \in 1..Len(u) /\ u[i] = s[i]
      /\ \A i \in 1..Len(t): i + Len(s) \in 1..Len(u) /\ u[i + Len(s)] = t[i]
  BY <1>1
<1>3. ASSUME NEW i \in 1..Len(u)
      PROVE  (i \in 1..Len(s) /\ u[i] = s[i]) \/ (i - Len(s) \in 1..Len(t) /\ u[i] = t[i - Len(s)])
  BY <1>1
<1> HIDE DEF u, S
<1>4. RowsOf(u)
  <2>1. u \in Seq({u[i]: i \in 1..Len(u)})
    <3>1. u \in [1..Len(u) -> {u[i]: i \in 1..Len(u)}]
      BY <1>1, LenProperties
    <3>2. Len(u) \in Nat
      BY <1>1
    <3> HIDE DEF u
    <3> QED
      BY <3>1, <3>2
  <2> QED
    BY <2>1, <1>3 DEF RowsOf
<1>5. IdsOf(u) = IdsOf(s) \cup IdsOf(t)
  <2>1. IdsOf(u) \subseteq IdsOf(s) \cup IdsOf(t)
    BY <1>3 DEF IdsOf
  <2>2. IdsOf(s) \subseteq IdsOf(u) /\ IdsOf(t) \subseteq IdsOf(u)
    BY <1>2 DEF IdsOf
  <2> QED
    BY <2>1, <2>2
<1>6. ASSUME NEW i \in 1..Len(u), NEW r \in u[i].refs
      PROVE  r \in known \cup {u[j].id: j \in 1..(i - 1)}
  <2>1. CASE i \in 1..Len(s) /\ u[i] = s[i]
    <3>1. r \in known \/ \E j \in 1..(i - 1): r = s[j].id
      BY <2>1, <1>6 DEF Closed
    <3> QED
      BY <3>1, <2>1, <1>1, <1>2
  <2>2. CASE i - Len(s) \in 1..Len(t) /\ u[i] = t[i - Len(s)]
    <3>1. r \in known \cup IdsOf(s) \/ \E j \in 1..(i - Len(s) - 1): r = t[j].id
      BY <2>2, <1>6 DEF Closed
    <3>2. CASE r \in known
      BY <3>2
    <3>3. CASE \E j \in 1..Len(s): r = s[j].id
      BY <3>3, <2>2, <1>1, <1>2
    <3>4. CASE \E j \in 1..(i - Len(s) - 1): r = t[j].id
      <4>1. PICK j \in 1..(i - Len(s) - 1): r = t[j].id
        BY <3>4
      <4>2. j \in 1..Len(t) /\ j + Len(s) \in 1..(i - 1)
        BY <2>2, <1>1
      <4> QED
        BY <4>1, <4>2, <1>2
    <3> QED
      BY <3>1, <3>2, <3>3, <3>4 DEF IdsOf
  <2> QED
    BY <1>3, <2>1, <2>2
<1>7. Closed(u, known)
  BY <1>6 DEF Closed
<1> QED
  BY <1>1, <1>4, <1>5, <1>7 DEF u

LEMMA AccountRowIs ==
  ASSUME NEW known, NEW p
  PROVE  RowsOf(AccountRow(p)) /\ Closed(AccountRow(p), known) /\ Plain(AccountRow(p))
           /\ <<"user", p>> \in IdsOf(AccountRow(p))
<1>1. Len(AccountRow(p)) = 2 /\ \A i \in 1..2: Fits(AccountRow(p)[i])
  BY DEF AccountRow, Row, Fits
<1>2. AccountRow(p) \in Seq({AccountRow(p)[i]: i \in 1..Len(AccountRow(p))})
  BY DEF AccountRow
<1>3. RowsOf(AccountRow(p))
  BY <1>1, <1>2 DEF RowsOf
<1>4. Closed(AccountRow(p), known)
  BY DEF Closed, AccountRow, Row
<1>5. Plain(AccountRow(p))
  BY <1>1 DEF Plain, IdsOf, AccountRow, Row
<1> QED
  BY <1>3, <1>4, <1>5 DEF IdsOf, AccountRow, Row

LEMMA OrganizationRowsAre ==
  ASSUME NEW known, {<<"user", "employee">>, <<"user", "reviewer">>, <<"user", "admin">>} \subseteq known
  PROVE  /\ RowsOf(OrganizationRows) /\ Closed(OrganizationRows, known) /\ Plain(OrganizationRows)
         /\ <<"organization", "demo">> \in IdsOf(OrganizationRows)
<1>1. Len(OrganizationRows) = 8 /\ \A i \in 1..8: Fits(OrganizationRows[i])
  BY DEF OrganizationRows, MemberRow, Row, Fits
<1>2. OrganizationRows \in Seq({OrganizationRows[i]: i \in 1..Len(OrganizationRows)})
  BY DEF OrganizationRows
<1>3. RowsOf(OrganizationRows)
  BY <1>1, <1>2 DEF RowsOf
<1>4. Closed(OrganizationRows, known)
  BY DEF Closed, OrganizationRows, MemberRow, Row
<1>5. Plain(OrganizationRows)
  BY <1>1 DEF Plain, IdsOf, OrganizationRows, MemberRow, Row
<1> QED
  BY <1>3, <1>4, <1>5 DEF IdsOf, OrganizationRows, MemberRow, Row

LEMMA ProjectRowsAre ==
  ASSUME NEW known, {<<"user", "employee">>, <<"user", "reviewer">>, <<"user", "admin">>} \subseteq known
  PROVE  /\ RowsOf(ProjectRows) /\ Closed(ProjectRows, known) /\ Plain(ProjectRows)
         /\ {<<"project", "demo">>, <<"projectMember", "employee">>} \subseteq IdsOf(ProjectRows)
<1>1. Len(ProjectRows) = 3 /\ \A i \in 1..3: Fits(ProjectRows[i])
  BY DEF ProjectRows, Row, Fits
<1>2. ProjectRows \in Seq({ProjectRows[i]: i \in 1..Len(ProjectRows)})
  BY DEF ProjectRows
<1>3. RowsOf(ProjectRows)
  BY <1>1, <1>2 DEF RowsOf
<1>4. Closed(ProjectRows, known)
  BY DEF Closed, ProjectRows, Row
<1>5. Plain(ProjectRows)
  BY <1>1 DEF Plain, IdsOf, ProjectRows, Row
<1> QED
  BY <1>3, <1>4, <1>5 DEF IdsOf, ProjectRows, Row

LEMMA AgentRowsAre ==
  ASSUME NEW known, <<"organization", "demo">> \in known
  PROVE  RowsOf(AgentRows) /\ Closed(AgentRows, known) /\ Plain(AgentRows)
<1>1. Len(AgentRows) = 6 /\ \A i \in 1..6: Fits(AgentRows[i])
  BY DEF AgentRows, Row, Kept, Fits
<1>2. AgentRows \in Seq({AgentRows[i]: i \in 1..Len(AgentRows)})
  BY DEF AgentRows
<1>3. RowsOf(AgentRows)
  BY <1>1, <1>2 DEF RowsOf
<1>4. Closed(AgentRows, known)
  BY DEF Closed, AgentRows, Row, Kept
<1>5. Plain(AgentRows)
  BY <1>1 DEF Plain, IdsOf, AgentRows, Row, Kept
<1> QED
  BY <1>3, <1>4, <1>5

LEMMA TaskRowIs ==
  ASSUME NEW known, {<<"project", "demo">>, <<"projectMember", "employee">>} \subseteq known,
         NEW t, NEW status \in TaskValues, t = "review" => status = "READY_FOR_REVIEW"
  PROVE  RowsOf(TaskRow(t, status)) /\ Closed(TaskRow(t, status), known) /\ Plain(TaskRow(t, status))
           /\ <<"task", t>> \in IdsOf(TaskRow(t, status))
<1>1. Len(TaskRow(t, status)) = 2 /\ \A i \in 1..2: Fits(TaskRow(t, status)[i])
  BY DEF TaskRow, Row, Fits, TaskValues
<1>2. TaskRow(t, status) \in Seq({TaskRow(t, status)[i]: i \in 1..Len(TaskRow(t, status))})
  BY DEF TaskRow
<1>3. RowsOf(TaskRow(t, status))
  BY <1>1, <1>2 DEF RowsOf
<1>4. Closed(TaskRow(t, status), known)
  BY DEF Closed, TaskRow, Row
<1>5. Plain(TaskRow(t, status))
  BY <1>1 DEF Plain, IdsOf, TaskRow, Row
<1> QED
  BY <1>3, <1>4, <1>5 DEF IdsOf, TaskRow, Row

LEMMA ArtifactRowsAre ==
  ASSUME NEW known, NEW t, {<<"user", "employee">>, <<"task", t>>} \subseteq known
  PROVE  RowsOf(seedArtifact(t)) /\ Closed(seedArtifact(t), known) /\ Plain(seedArtifact(t))
           /\ <<"artifact", t>> \in IdsOf(seedArtifact(t))
<1>1. Len(seedArtifact(t)) = 3 /\ \A i \in 1..3: Fits(seedArtifact(t)[i])
  BY DEF seedArtifact, Row, Fits
<1>2. seedArtifact(t) \in Seq({seedArtifact(t)[i]: i \in 1..Len(seedArtifact(t))})
  BY DEF seedArtifact
<1>3. RowsOf(seedArtifact(t))
  BY <1>1, <1>2 DEF RowsOf
<1>4. Closed(seedArtifact(t), known)
  BY DEF Closed, seedArtifact, Row
<1>5. Plain(seedArtifact(t))
  BY <1>1 DEF Plain, IdsOf, seedArtifact, Row
<1> QED
  BY <1>3, <1>4, <1>5 DEF IdsOf, seedArtifact, Row

LEMMA ResultRowsAre ==
  ASSUME NEW known, {<<"user", "employee">>, <<"user", "reviewer">>, <<"task", "review">>,
           <<"task", "accepted">>,
                     <<"task", "research">>, <<"artifact", "review">>, <<"artifact", "accepted">>}
                             \subseteq known
  PROVE  RowsOf(ResultRows) /\ Closed(ResultRows, known)
<1>1. Len(ResultRows) = 6 /\ \A i \in 1..6: Fits(ResultRows[i])
  BY DEF ResultRows, Row, Fits
<1>2. ResultRows \in Seq({ResultRows[i]: i \in 1..Len(ResultRows)})
  BY DEF ResultRows
<1>3. RowsOf(ResultRows)
  BY <1>1, <1>2 DEF RowsOf
<1>4. Closed(ResultRows, known)
  BY DEF Closed, ResultRows, Row
<1> QED
  BY <1>3, <1>4

LEMMA ModelRowsAre ==
  ASSUME NEW known, {<<"user", "employee">>, <<"task", "research">>} \subseteq known
  PROVE  RowsOf(ModelRows) /\ Closed(ModelRows, known) /\ Later(ModelRows)
<1>1. Len(ModelRows) = 2 /\ \A i \in 1..2: Fits(ModelRows[i])
  BY DEF ModelRows, Row, Fits
<1>2. ModelRows \in Seq({ModelRows[i]: i \in 1..Len(ModelRows)})
  BY DEF ModelRows
<1>3. RowsOf(ModelRows)
  BY <1>1, <1>2 DEF RowsOf
<1>4. Closed(ModelRows, known)
  BY DEF Closed, ModelRows, Row
<1>5. Later(ModelRows)
  BY <1>1 DEF Later, IdsOf, ModelRows, Row
<1> QED
  BY <1>3, <1>4, <1>5

LEMMA CollaborationRowsAre ==
  ASSUME NEW known, {<<"user", "employee">>, <<"user", "reviewer">>, <<"organization", "demo">>} \subseteq known
  PROVE  RowsOf(CollaborationRows) /\ Closed(CollaborationRows, known) /\ Later(CollaborationRows)
<1>1. Len(CollaborationRows) = 9 /\ \A i \in 1..9: Fits(CollaborationRows[i])
  BY DEF CollaborationRows, Row, Kept, Fits
<1>2. CollaborationRows \in Seq({CollaborationRows[i]: i \in 1..Len(CollaborationRows)})
  BY DEF CollaborationRows
<1>3. RowsOf(CollaborationRows)
  BY <1>1, <1>2 DEF RowsOf
<1>4. Closed(CollaborationRows, known)
  BY DEF Closed, CollaborationRows, Row, Kept
<1>5. Later(CollaborationRows)
  BY <1>1 DEF Later, IdsOf, CollaborationRows, Row, Kept
<1> QED
  BY <1>3, <1>4, <1>5


LEMMA PlainJoined ==
  ASSUME NEW s, NEW t, NEW known, RowsOf(s), RowsOf(t), Closed(s, known), Closed(t, known \cup IdsOf(s)),
           Plain(s), Plain(t)
  PROVE  RowsOf(s \o t) /\ Closed(s \o t, known) /\ IdsOf(s \o t) = IdsOf(s) \cup IdsOf(t) /\ Plain(s \o t)
<1>1. RowsOf(s \o t) /\ Closed(s \o t, known) /\ IdsOf(s \o t) = IdsOf(s) \cup IdsOf(t)
  BY Joined
<1> QED
  BY <1>1 DEF Plain

BeforeResults ==
  AccountRows \o OrganizationRows \o ProjectRows \o AgentRows \o TaskRows \o seedArtifact("review") \o seedArtifact("accepted")

SeededUsers == {<<"user", "employee">>, <<"user", "reviewer">>, <<"user", "admin">>}
SeededTasks == {<<"task", "research">>, <<"task", "review">>, <<"task", "accepted">>, <<"task", "follow-up">>}

LEMMA AccountRowsAre ==
  ASSUME NEW known
  PROVE  RowsOf(AccountRows) /\ Closed(AccountRows, known) /\ Plain(AccountRows) /\ SeededUsers
           \subseteq IdsOf(AccountRows)
<1> DEFINE a1 == AccountRow("employee")
           a2 == AccountRow("reviewer")
           a3 == AccountRow("admin")
           Good(s) == RowsOf(s) /\ Closed(s, known) /\ Plain(s)
<1>1. /\ \A k: /\ RowsOf(a1) /\ Closed(a1, k) /\ Plain(a1)
               /\ RowsOf(a2) /\ Closed(a2, k) /\ Plain(a2)
               /\ RowsOf(a3) /\ Closed(a3, k) /\ Plain(a3)
      /\ <<"user", "employee">> \in IdsOf(a1) /\ <<"user", "reviewer">> \in IdsOf(a2)
              /\ <<"user", "admin">> \in IdsOf(a3)
  BY AccountRowIs
<1> HIDE DEF a1, a2, a3
<1>2. Good(a1 \o a2) /\ IdsOf(a1 \o a2) = IdsOf(a1) \cup IdsOf(a2)
  <2>1. RowsOf(a2) /\ Closed(a2, known \cup IdsOf(a1)) /\ Plain(a2)
    BY <1>1
  <2> QED
    BY <1>1, <2>1, PlainJoined
<1> DEFINE s == a1 \o a2
<1> HIDE DEF s
<1>3. Good(s \o a3) /\ IdsOf(s \o a3) = IdsOf(s) \cup IdsOf(a3)
  <2>1. RowsOf(a3) /\ Closed(a3, known \cup IdsOf(s)) /\ Plain(a3)
    BY <1>1
  <2>2. Good(s)
    BY <1>2 DEF s
  <2> QED
    BY <2>1, <2>2, PlainJoined
<1>4. SeededUsers \subseteq IdsOf(s \o a3)
  BY <1>1, <1>2, <1>3 DEF SeededUsers, s
<1> QED
  BY <1>3, <1>4 DEF s, a1, a2, a3, AccountRows

LEMMA TaskRowsAre ==
  ASSUME NEW known, {<<"project", "demo">>, <<"projectMember", "employee">>} \subseteq known
  PROVE  RowsOf(TaskRows) /\ Closed(TaskRows, known) /\ Plain(TaskRows) /\ SeededTasks \subseteq IdsOf(TaskRows)
<1> DEFINE t1 == TaskRow("research", "IN_PROGRESS")
           t2 == TaskRow("review", "READY_FOR_REVIEW")
           t3 == TaskRow("accepted", "ACCEPTED")
           t4 == TaskRow("follow-up", "TODO")
           r == Row("dependency", "follow-up", {<<"task", "follow-up">>, <<"task", "accepted">>}, "set")
           t5 == <<r>>
           Good(s, k) == RowsOf(s) /\ Closed(s, k) /\ Plain(s)
<1>1. /\ \A k: known \subseteq k => Good(t1, k) /\ Good(t2, k) /\ Good(t3, k) /\ Good(t4, k)
      /\ <<"task", "research">> \in IdsOf(t1) /\ <<"task", "review">> \in IdsOf(t2)
      /\ <<"task", "accepted">> \in IdsOf(t3) /\ <<"task", "follow-up">> \in IdsOf(t4)
  BY TaskRowIs DEF TaskValues
<1>2. ASSUME NEW k, {<<"task", "follow-up">>, <<"task", "accepted">>} \subseteq k
      PROVE  Good(t5, k)
  <2>1. Fits(r) /\ r.id = <<"dependency", "follow-up">> /\ r.refs = {<<"task", "follow-up">>,
          <<"task", "accepted">>}
    BY DEF Fits, Row
  <2> HIDE DEF r
  <2>2. Len(t5) = 1 /\ t5[1] = r /\ t5 \in Seq({r})
    OBVIOUS
  <2> HIDE DEF t5
  <2>3. RowsOf(t5)
    BY <2>1, <2>2 DEF RowsOf
  <2>4. Closed(t5, k) /\ Plain(t5)
    BY <2>1, <2>2, <1>2 DEF Closed, Plain, IdsOf
  <2> QED
    BY <2>3, <2>4
<1> HIDE DEF t1, t2, t3, t4, t5
<1>3. Good(t1 \o t2, known) /\ {<<"task", "research">>, <<"task", "review">>} \subseteq IdsOf(t1 \o t2)
  <2>1. RowsOf(t2) /\ Closed(t2, known \cup IdsOf(t1)) /\ Plain(t2)
    BY <1>1
  <2>2. Good(t1 \o t2, known) /\ IdsOf(t1 \o t2) = IdsOf(t1) \cup IdsOf(t2)
    BY <1>1, <2>1, PlainJoined
  <2> QED
    BY <1>1, <1>1, <2>2
<1> DEFINE s2 == t1 \o t2
<1>3a. Good(s2, known) /\ {<<"task", "research">>, <<"task", "review">>} \subseteq IdsOf(s2)
  BY <1>3
<1> HIDE DEF s2
<1>4. /\ Good(s2 \o t3, known)
      /\ {<<"task", "research">>, <<"task", "review">>, <<"task", "accepted">>} \subseteq IdsOf(s2 \o t3)
  <2>1. RowsOf(t3) /\ Closed(t3, known \cup IdsOf(s2)) /\ Plain(t3)
    BY <1>1
  <2>2. Good(s2 \o t3, known) /\ IdsOf(s2 \o t3) = IdsOf(s2) \cup IdsOf(t3)
    BY <1>3a, <2>1, PlainJoined
  <2> QED
    BY <1>1, <1>3a, <2>2
<1> DEFINE s3 == s2 \o t3
<1>4a. Good(s3, known) /\ {<<"task", "research">>, <<"task", "review">>, <<"task", "accepted">>}
        \subseteq IdsOf(s3)
  BY <1>4
<1> HIDE DEF s3
<1>5. Good(s3 \o t4, known) /\ SeededTasks \subseteq IdsOf(s3 \o t4)
  <2>1. RowsOf(t4) /\ Closed(t4, known \cup IdsOf(s3)) /\ Plain(t4)
    BY <1>1
  <2>2. Good(s3 \o t4, known) /\ IdsOf(s3 \o t4) = IdsOf(s3) \cup IdsOf(t4)
    BY <1>4a, <2>1, PlainJoined
  <2> QED
    BY <1>1, <1>4a, <2>2 DEF SeededTasks
<1> DEFINE s4 == s3 \o t4
<1>5a. Good(s4, known) /\ SeededTasks \subseteq IdsOf(s4)
  BY <1>5
<1> HIDE DEF s4
<1>6. Good(s4 \o t5, known) /\ SeededTasks \subseteq IdsOf(s4 \o t5)
  <2>1. RowsOf(t5) /\ Closed(t5, known \cup IdsOf(s4)) /\ Plain(t5)
    BY <1>2, <1>1, <1>5a DEF SeededTasks
  <2>2. Good(s4 \o t5, known) /\ IdsOf(s4 \o t5) = IdsOf(s4) \cup IdsOf(t5)
    BY <1>5a, <2>1, PlainJoined
  <2> QED
    BY <1>1, <1>5a, <2>2 DEF SeededTasks
<1> QED
  BY <1>6 DEF s2, s3, s4, t1, t2, t3, t4, t5, TaskRows

LEMMA BeforeResultsAre ==
  /\ RowsOf(BeforeResults) /\ Closed(BeforeResults, {}) /\ Plain(BeforeResults)
  /\ SeededUsers \cup SeededTasks \cup {<<"organization", "demo">>, <<"artifact", "review">>,
          <<"artifact", "accepted">>}
       \subseteq IdsOf(BeforeResults)
<1> DEFINE Good(s) == RowsOf(s) /\ Closed(s, {}) /\ Plain(s)
           s2 == AccountRows \o OrganizationRows
           s3 == s2 \o ProjectRows
           s4 == s3 \o AgentRows
           s5 == s4 \o TaskRows
           s6 == s5 \o seedArtifact("review")
           s7 == s6 \o seedArtifact("accepted")
<1>1. Good(AccountRows) /\ SeededUsers \subseteq IdsOf(AccountRows)
  BY AccountRowsAre
<1>2. Good(s2) /\ SeededUsers \cup {<<"organization", "demo">>} \subseteq IdsOf(s2)
  <2>1. RowsOf(OrganizationRows) /\ Closed(OrganizationRows, {} \cup IdsOf(AccountRows))
          /\ Plain(OrganizationRows) /\ <<"organization", "demo">> \in IdsOf(OrganizationRows)
    BY <1>1, OrganizationRowsAre DEF SeededUsers, SeededTasks
  <2>2. Good(s2) /\ IdsOf(s2) = IdsOf(AccountRows) \cup IdsOf(OrganizationRows)
    BY <1>1, <2>1, PlainJoined
  <2> QED
    BY <1>1, <2>1, <2>2
<1> HIDE DEF s2
<1>3. Good(s3) /\ SeededUsers \cup {<<"organization", "demo">>, <<"project", "demo">>,
        <<"projectMember", "employee">>} \subseteq IdsOf(s3)
  <2>1. RowsOf(ProjectRows) /\ Closed(ProjectRows, {} \cup IdsOf(s2)) /\ Plain(ProjectRows)
        /\ {<<"project", "demo">>, <<"projectMember", "employee">>} \subseteq IdsOf(ProjectRows)
    BY <1>2, ProjectRowsAre DEF SeededUsers, SeededTasks
  <2>2. Good(s3) /\ IdsOf(s3) = IdsOf(s2) \cup IdsOf(ProjectRows)
    BY <1>2, <2>1, PlainJoined
  <2> QED
    BY <1>2, <2>1, <2>2
<1> HIDE DEF s3
<1>4. Good(s4) /\ SeededUsers \cup {<<"organization", "demo">>, <<"project", "demo">>,
        <<"projectMember", "employee">>} \subseteq IdsOf(s4)
  <2>1. RowsOf(AgentRows) /\ Closed(AgentRows, {} \cup IdsOf(s3)) /\ Plain(AgentRows)
    BY <1>3, AgentRowsAre DEF SeededUsers, SeededTasks
  <2>2. Good(s4) /\ IdsOf(s4) = IdsOf(s3) \cup IdsOf(AgentRows)
    BY <1>3, <2>1, PlainJoined
  <2> QED
    BY <1>3, <2>1, <2>2
<1> HIDE DEF s4
<1>5. Good(s5) /\ SeededUsers \cup SeededTasks \cup {<<"organization", "demo">>} \subseteq IdsOf(s5)
  <2>1. RowsOf(TaskRows) /\ Closed(TaskRows, {} \cup IdsOf(s4)) /\ Plain(TaskRows) /\ SeededTasks
          \subseteq IdsOf(TaskRows)
    BY <1>4, TaskRowsAre DEF SeededUsers, SeededTasks
  <2>2. Good(s5) /\ IdsOf(s5) = IdsOf(s4) \cup IdsOf(TaskRows)
    BY <1>4, <2>1, PlainJoined
  <2> QED
    BY <1>4, <2>1, <2>2
<1> HIDE DEF s5
<1>6. Good(s6) /\ SeededUsers \cup SeededTasks \cup {<<"organization", "demo">>, <<"artifact", "review">>}
        \subseteq IdsOf(s6)
  <2>1. RowsOf(seedArtifact("review")) /\ Closed(seedArtifact("review"), {} \cup IdsOf(s5))
          /\ Plain(seedArtifact("review")) /\ <<"artifact", "review">> \in IdsOf(seedArtifact("review"))
    BY <1>5, ArtifactRowsAre DEF SeededUsers, SeededTasks
  <2>2. Good(s6) /\ IdsOf(s6) = IdsOf(s5) \cup IdsOf(seedArtifact("review"))
    BY <1>5, <2>1, PlainJoined
  <2> QED
    BY <1>5, <2>1, <2>2
<1> HIDE DEF s6
<1>7. Good(s7) /\ SeededUsers \cup SeededTasks \cup {<<"organization", "demo">>, <<"artifact", "review">>,
        <<"artifact", "accepted">>} \subseteq IdsOf(s7)
  <2>1. RowsOf(seedArtifact("accepted")) /\ Closed(seedArtifact("accepted"), {} \cup IdsOf(s6))
          /\ Plain(seedArtifact("accepted")) /\ <<"artifact", "accepted">> \in IdsOf(seedArtifact("accepted"))
    BY <1>6, ArtifactRowsAre DEF SeededUsers, SeededTasks
  <2>2. Good(s7) /\ IdsOf(s7) = IdsOf(s6) \cup IdsOf(seedArtifact("accepted"))
    BY <1>6, <2>1, PlainJoined
  <2> QED
    BY <1>6, <2>1, <2>2
<1> HIDE DEF s7
<1> QED
  BY <1>7 DEF s2, s3, s4, s5, s6, s7, BeforeResults

FirstResult == Len(BeforeResults) + 1

(* The script: rows after those they refer to, and the results in place.   *)
LEMMA ScriptIs ==
  /\ RowsOf(Script) /\ Closed(Script, {}) /\ FirstResult \in Nat /\ Len(Script) \in Nat
          /\ FirstResult + 5 < Len(Script)
  /\ DOMAIN Script = 1..Len(Script)
  /\ \A id \in SeededTasks: \E i \in 1..(FirstResult - 1): Script[i].id = id
  /\ \A i \in 1..Len(Script):
       LET row == Script[i]
       IN /\ i < FirstResult => row.id[1] \notin {"result", "review"}
          /\ row.id = <<"result", "review">> => i = FirstResult
          /\ row.id = <<"result", "draft">> => i = FirstResult + 4
          /\ row.id[1] = "task" => i < FirstResult
<1> DEFINE s == BeforeResults
           t == s \o ResultRows
           u == t \o ModelRows
           At(w, v) == /\ Len(w) \in Nat /\ Len(v) \in Nat /\ Len(w \o v) = Len(w) + Len(v)
                       /\ \A i \in 1..Len(w \o v): (w \o v)[i] = IF i <= Len(w) THEN w[i] ELSE v[i - Len(w)]
<1>1. /\ RowsOf(s) /\ Closed(s, {}) /\ Plain(s)
      /\ SeededUsers \cup SeededTasks \cup {<<"organization", "demo">>, <<"artifact", "review">>,
              <<"artifact", "accepted">>}
           \subseteq IdsOf(s)
  BY BeforeResultsAre
<1> HIDE DEF s
<1>2. /\ RowsOf(t) /\ Closed(t, {}) /\ At(s, ResultRows)
      /\ SeededUsers \cup SeededTasks \cup {<<"organization", "demo">>} \subseteq IdsOf(t)
  <2>1. RowsOf(ResultRows) /\ Closed(ResultRows, {} \cup IdsOf(s))
    BY <1>1, ResultRowsAre DEF SeededUsers, SeededTasks
  <2> QED
    BY <1>1, <2>1, Joined
<1>3. /\ RowsOf(u) /\ Closed(u, {}) /\ At(t, ModelRows) /\ Later(ModelRows)
      /\ SeededUsers \cup SeededTasks \cup {<<"organization", "demo">>} \subseteq IdsOf(u)
  <2>1. RowsOf(ModelRows) /\ Closed(ModelRows, {} \cup IdsOf(t)) /\ Later(ModelRows)
    BY <1>2, ModelRowsAre DEF SeededUsers, SeededTasks
  <2> HIDE DEF t
  <2> QED
    BY <1>2, <2>1, Joined
<1>4. Script = u \o CollaborationRows
  BY DEF Script, s, BeforeResults
<1>5. RowsOf(Script) /\ Closed(Script, {}) /\ At(u, CollaborationRows) /\ Later(CollaborationRows)
  <2>1. RowsOf(CollaborationRows) /\ Closed(CollaborationRows, {} \cup IdsOf(u)) /\ Later(CollaborationRows)
    BY <1>3, CollaborationRowsAre DEF SeededUsers, SeededTasks
  <2> HIDE DEF u
  <2> QED
    BY <1>3, <1>4, <2>1, Joined
<1>6. /\ Len(ResultRows) = 6 /\ Len(ModelRows) = 2 /\ Len(CollaborationRows) = 9
  BY DEF ResultRows, ModelRows, CollaborationRows
<1>7. /\ FirstResult = Len(s) + 1 /\ FirstResult \in Nat /\ Len(t) = Len(s) + 6 /\ Len(u) = Len(s) + 8
        /\ Len(Script) = Len(s) + 17
  BY <1>2, <1>3, <1>4, <1>5, <1>6 DEF FirstResult, s
<1>8. \A j \in 1..6:
        /\ ResultRows[j].id = <<"result", "review">> => j = 1
        /\ ResultRows[j].id = <<"result", "draft">> => j = 5
        /\ ResultRows[j].id[1] # "task"
  BY DEF ResultRows, Row
<1>9. ASSUME NEW i \in 1..Len(Script)
      PROVE  /\ i <= Len(s) => Script[i] = s[i] /\ i \in 1..Len(s)
             /\ i > Len(s) /\ i <= Len(s) + 6 => i - Len(s) \in 1..6 /\ Script[i] = ResultRows[i - Len(s)]
             /\ i > Len(s) + 6 => \/ i - Len(t) \in 1..2 /\ Script[i] = ModelRows[i - Len(t)]
                                  \/ i - Len(u) \in 1..9 /\ Script[i] = CollaborationRows[i - Len(u)]
  <2> HIDE DEF t, u
  <2>1. Script[i] = IF i <= Len(u) THEN u[i] ELSE CollaborationRows[i - Len(u)]
    BY <1>4, <1>5
  <2>2. i <= Len(u) => u[i] = IF i <= Len(t) THEN t[i] ELSE ModelRows[i - Len(t)]
    BY <1>3, <1>7 DEF u
  <2>3. i <= Len(t) => t[i] = IF i <= Len(s) THEN s[i] ELSE ResultRows[i - Len(s)]
    BY <1>2, <1>7 DEF t
  <2> QED
    <3>1. /\ Len(s) \in Nat /\ Len(t) = Len(s) + 6 /\ Len(u) = Len(s) + 8
          /\ i \in Nat /\ i >= 1 /\ i <= Len(s) + 17
      BY <1>2, <1>7
    <3>2. CASE i <= Len(s)
      BY <3>1, <3>2, <2>1, <2>2, <2>3
    <3>3. CASE i > Len(s) /\ i <= Len(s) + 6
      BY <3>1, <3>3, <2>1, <2>2, <2>3
    <3>4. CASE i > Len(s) + 6
      <4>1. CASE i <= Len(u)
        <5>1. Script[i] = ModelRows[i - Len(t)] /\ i - Len(t) \in 1..2
          BY <3>1, <3>4, <4>1, <2>1, <2>2
        <5> QED
          BY <5>1, <3>1, <3>4
      <4>2. CASE ~(i <= Len(u))
        <5>1. Script[i] = CollaborationRows[i - Len(u)] /\ i - Len(u) \in 1..9
          BY <3>1, <3>4, <4>2, <2>1
        <5> QED
          BY <5>1, <3>1, <3>4
      <4> QED
        BY <4>1, <4>2
    <3> QED
      BY <3>1, <3>2, <3>3, <3>4
<1> HIDE DEF t, u
<1>10. ASSUME NEW i \in 1..Len(Script)
       PROVE  LET row == Script[i]
              IN /\ i < FirstResult => row.id[1] \notin {"result", "review"}
                 /\ row.id = <<"result", "review">> => i = FirstResult
                 /\ row.id = <<"result", "draft">> => i = FirstResult + 4
                 /\ row.id[1] = "task" => i < FirstResult
  <2>1. CASE i <= Len(s)
    <3>1. Script[i].id[1] \notin {"result", "review"}
      BY <1>1, <1>9, <2>1 DEF Plain, IdsOf
    <3>2. Script[i].id # <<"result", "review">> /\ Script[i].id # <<"result", "draft">>
      BY <3>1
    <3> QED
      BY <3>1, <3>2, <1>2, <1>7, <2>1
  <2>2. CASE i > Len(s) /\ i <= Len(s) + 6
    <3>1. i - Len(s) \in 1..6 /\ Script[i] = ResultRows[i - Len(s)]
      BY <1>9, <2>2
    <3> QED
      <4> DEFINE j == i - Len(s)
      <4>1. j \in 1..6 /\ i = j + Len(s) /\ i = j - 1 + FirstResult
        BY <1>2, <1>7, <3>1
      <4> HIDE DEF j
      <4>2. /\ Script[i].id = <<"result", "review">> => j = 1
            /\ Script[i].id = <<"result", "draft">> => j = 5
            /\ Script[i].id[1] # "task"
        BY <3>1, <4>1, <1>8 DEF j
      <4> QED
        BY <4>1, <4>2, <1>7
  <2>3. CASE i > Len(s) + 6
    <3>1. Script[i].id[1] \notin {"result", "review", "task"}
      <4>1. CASE i - Len(t) \in 1..2 /\ Script[i] = ModelRows[i - Len(t)]
        BY <4>1, <1>3, <1>6 DEF Later, IdsOf
      <4>2. CASE i - Len(u) \in 1..9 /\ Script[i] = CollaborationRows[i - Len(u)]
        BY <4>2, <1>5, <1>6 DEF Later, IdsOf
      <4> QED
        BY <4>1, <4>2, <1>9, <2>3
    <3>2. Script[i].id # <<"result", "review">> /\ Script[i].id # <<"result", "draft">>
      BY <3>1
    <3> QED
      BY <3>1, <3>2, <1>2, <1>7, <2>3
  <2> QED
    BY <2>1, <2>2, <2>3, <1>2, <1>7
<1>11. ASSUME NEW id \in SeededTasks
       PROVE  \E i \in 1..(FirstResult - 1): Script[i].id = id
  <2>1. PICK i \in 1..Len(s): s[i].id = id
    BY <1>1 DEF IdsOf
  <2>2. i \in 1..Len(Script) /\ i <= Len(s)
    BY <1>2, <1>7
  <2> QED
    BY <2>1, <2>2, <1>2, <1>7, <1>9
<1>12. DOMAIN Script = 1..Len(Script)
  BY <1>5, LenProperties DEF RowsOf
<1> QED
  BY <1>2, <1>5, <1>7, <1>10, <1>11, <1>12

(* Rows keep to the names of the script but for those users gave.          *)
Names ==
  {<<"department", "product", "Product">>, <<"department", "product", "Renamed">>,
          <<"department", "research", "Research">>,
   <<"department", "own", "Product">>, <<"agent", "research", "research-agent">>,
           <<"agent", "writer", "file-writer-agent">>,
   <<"agent", "own", "research-agent">>}

RowsAreNamed ==
  \A id \in DOMAIN table:
    /\ id = <<id[1], id[2]>>
    /\ id[1] \in {"department", "agent"} => <<id[1], id[2], table[id]>> \in Names

(* What the run has passed is there.                                       *)
PassedIsThere == pc # 0 => runs # 0 /\ \A i \in 1..(pc - 1): Script[i].id \in DOMAIN table

(* In the first run each result is written once, to a task that has not    *)
(* moved; what was decided is not in review again.                         *)
FirstRun ==
  /\ pc # 0 /\ pc <= FirstResult => ~Exists("result", "review")
  /\ pc # 0 /\ pc <= FirstResult + 4 => ~Exists("result", "draft")
  /\ ~Exists("result", "review")
       => ~Exists("review", "review") /\ (Exists("task", "review") => Is("task", "review", "READY_FOR_REVIEW"))
  /\ Is("result", "review", "HUMAN_REVIEW") => Is("task", "review", "READY_FOR_REVIEW")
          /\ ~Exists("review", "review")
  /\ ~Is("result", "accepted", "HUMAN_REVIEW")
  /\ ~Exists("result", "draft") \/ Is("result", "draft", "CANDIDATE") => ~Exists("review", "draft")
  /\ Is("result", "draft", "HUMAN_REVIEW") => Is("task", "research", "READY_FOR_REVIEW")
          /\ ~Exists("review", "draft")

SeedInv ==
  /\ TypeOK /\ FailsOnlyOnNames /\ Repaired /\ RowsAreNamed /\ PassedIsThere
  /\ runs = 0 => DOMAIN table = {}
  /\ runs = 1 => FirstRun

LEMMA SeedStarts == Init => SeedInv
<1> SUFFICES ASSUME Init PROVE SeedInv
  OBVIOUS
<1>1. TypeOK
  BY ScriptIs, SeedAssumption DEF Init, TypeOK, Outcomes, Exists
<1> QED
  BY <1>1 DEF Init, SeedInv, FailsOnlyOnNames, Repaired, RowsAreNamed, PassedIsThere

LEMMA StartKeeps == SeedInv /\ Start => SeedInv'
<1> SUFFICES ASSUME SeedInv, Start PROVE SeedInv'
  OBVIOUS
<1>1. pc = 0 /\ runs < MaxRuns /\ pc' = 1 /\ runs' = runs + 1 /\ outcome' = "running" /\ table' = table
        /\ acts' = acts
  BY DEF Start
<1>2. TypeOK' /\ runs \in Nat
  BY <1>1, ScriptIs, SeedAssumption DEF SeedInv, TypeOK, Outcomes, Exists
<1>3. RowsAreNamed' /\ Repaired' /\ FailsOnlyOnNames' /\ PassedIsThere'
  BY <1>1, <1>2 DEF SeedInv, RowsAreNamed, Repaired, FailsOnlyOnNames, PassedIsThere
<1>4. runs' = 1 => DOMAIN table' = {}
  BY <1>1, <1>2 DEF SeedInv
<1>5. runs' = 1 => FirstRun'
  BY <1>4 DEF FirstRun, Exists, Is
<1> QED
  BY <1>1, <1>2, <1>3, <1>5 DEF SeedInv

LEMMA CrashKeepsSeed == SeedInv /\ Crash => SeedInv'
<1> SUFFICES ASSUME SeedInv, Crash PROVE SeedInv'
  OBVIOUS
<1>1. pc # 0 /\ pc' = 0 /\ outcome' = "crashed" /\ table' = table /\ runs' = runs /\ acts' = acts
  BY DEF Crash
<1>2. TypeOK' /\ RowsAreNamed' /\ Repaired' /\ FailsOnlyOnNames' /\ PassedIsThere'
  BY <1>1, ScriptIs DEF SeedInv, TypeOK, Outcomes, Exists, RowsAreNamed, Repaired, FailsOnlyOnNames,
          PassedIsThere
<1>3. runs' = 1 => FirstRun'
  BY <1>1 DEF SeedInv, FirstRun, Exists, Is
<1> QED
  BY <1>1, <1>2, <1>3 DEF SeedInv

(* A row is refused only where its name is taken.                          *)
LEMMA OnlyNamesViolate ==
  ASSUME SeedInv, pc # 0, Violates(Script[pc])
  PROVE  Is("department", "own", "Product") \/ Is("agent", "own", "research-agent")
<1> DEFINE row == Script[pc]
<1>1. pc \in 1..Len(Script)
  BY ScriptIs DEF SeedInv, TypeOK
<1>2. Fits(row) /\ row.refs \subseteq {Script[j].id: j \in 1..(pc - 1)}
  BY <1>1, ScriptIs DEF RowsOf, Closed
<1> HIDE DEF row
<1>3. row.refs \subseteq DOMAIN table
  BY <1>2 DEF SeedInv, PassedIsThere
<1>4. PICK id \in DOMAIN table \ {row.id}: id[1] = row.id[1] /\ table[id] = row.value
        /\ row.id[1] \in {"department", "agent"}
  BY <1>3 DEF Violates, Taken, row
<1>5. id = <<id[1], id[2]>> /\ <<id[1], id[2], table[id]>> \in Names
  BY <1>4 DEF SeedInv, RowsAreNamed
<1>6. id[2] # row.id[2] /\ row.id = <<row.id[1], row.id[2]>>
  BY <1>2, <1>4, <1>5 DEF Fits
<1>7. CASE row.id[1] = "department"
  <2>1. <<row.id[2], row.value>> \in {<<"product", "Product">>, <<"research", "Research">>}
    BY <1>2, <1>7 DEF Fits
  <2>2. id[2] = "own" /\ table[id] = "Product"
    BY <1>4, <1>5, <1>6, <1>7, <2>1 DEF Names
  <2> QED
    BY <1>4, <1>5, <1>7, <2>2 DEF Is, Exists
<1>8. CASE row.id[1] = "agent"
  <2>1. <<row.id[2], row.value>> \in {<<"research", "research-agent">>, <<"writer", "file-writer-agent">>}
    BY <1>2, <1>8 DEF Fits
  <2>2. id[2] = "own" /\ table[id] = "research-agent"
    BY <1>4, <1>5, <1>6, <1>8, <2>1 DEF Names
  <2> QED
    BY <1>4, <1>5, <1>8, <2>2 DEF Is, Exists
<1> QED
  BY <1>4, <1>7, <1>8

LEMMA WithIs ==
  ASSUME NEW written
  PROVE  /\ DOMAIN With(written) = DOMAIN table \cup DOMAIN written
         /\ \A id \in DOMAIN With(written): With(written)[id] = IF id \in DOMAIN written THEN written[id] ELSE table[id]
  BY DEF With

LEMMA UpsertIs ==
  ASSUME NEW row
  PROVE  /\ DOMAIN Upsert(row) = DOMAIN table \cup {row.id}
         /\ \A id \in DOMAIN table: id # row.id => Upsert(row)[id] = table[id]
         /\ Upsert(row)[row.id] = IF row.keep /\ row.id \in DOMAIN table THEN table[row.id] ELSE row.value
         /\ row.id \in DOMAIN table /\ row.keep => Upsert(row) = table
<1>1. CASE row.keep /\ row.id \in DOMAIN table
  BY <1>1 DEF Upsert
<1>2. CASE ~(row.keep /\ row.id \in DOMAIN table)
  BY <1>2, WithIs DEF Upsert, With
<1> QED
  BY <1>1, <1>2

LEMMA StepKeeps == SeedInv /\ Step => SeedInv'
<1> SUFFICES ASSUME SeedInv, Step PROVE SeedInv'
  OBVIOUS
<1> DEFINE row == Script[pc]
<1>0. pc # 0 /\ pc \in 1..Len(Script) /\ Len(Script) \in Nat /\ runs' = runs /\ acts' = acts /\ runs # 0
  <2>1. pc # 0 /\ pc \in 0..Len(Script) /\ Len(Script) \in Nat /\ runs' = runs /\ acts' = acts /\ runs # 0
    BY ScriptIs DEF Step, SeedInv, TypeOK, PassedIsThere
  <2> QED
    BY <2>1
<1>1. CASE Violates(row)
  <2>1. pc' = 0 /\ outcome' = "failed" /\ table' = table
    BY <1>1 DEF Step
  <2>2. FailsOnlyOnNames'
    BY <1>0, <1>1, <2>1, OnlyNamesViolate DEF FailsOnlyOnNames, Is, Exists
  <2>3. TypeOK' /\ RowsAreNamed' /\ Repaired' /\ PassedIsThere'
    BY <1>0, <2>1, ScriptIs DEF SeedInv, TypeOK, Outcomes, Exists, RowsAreNamed, Repaired, PassedIsThere
  <2>4. runs' = 1 => FirstRun'
    BY <1>0, <2>1 DEF SeedInv, FirstRun, Exists, Is
  <2> QED
    BY <1>0, <2>1, <2>2, <2>3, <2>4 DEF SeedInv
<1>2. CASE ~Violates(row)
  <2>1. /\ table' = Upsert(row)
        /\ pc' = IF pc = Len(Script) THEN 0 ELSE pc + 1
        /\ outcome' = IF pc = Len(Script) THEN "done" ELSE "running"
    BY <1>2 DEF Step
  <2>2. /\ Fits(row) /\ pc < FirstResult => row.id[1] \notin {"result", "review"}
        /\ row.id = <<"result", "review">> => pc = FirstResult
        /\ row.id = <<"result", "draft">> => pc = FirstResult + 4
        /\ row.id[1] = "task" => pc < FirstResult
    BY <1>0, ScriptIs DEF RowsOf
  <2>3. Fits(row) /\ FirstResult \in Nat
    BY <1>0, ScriptIs DEF RowsOf
  <2>4. \A i \in 1..(pc - 1): Script[i].id \in DOMAIN table
    BY <1>0 DEF SeedInv, PassedIsThere
  <2> HIDE DEF row
  <2>5. /\ DOMAIN table' = DOMAIN table \cup {row.id}
        /\ \A id \in DOMAIN table: id # row.id => table'[id] = table[id]
        /\ table'[row.id] = IF row.keep /\ row.id \in DOMAIN table THEN table[row.id] ELSE row.value
    BY <2>1, UpsertIs
  <2>6. \A i \in 1..pc: Script[i].id \in DOMAIN table'
    BY <1>0, <2>4, <2>5 DEF row
  <2>7. TypeOK'
    <3>1. \A t \in {"research", "review", "accepted", "follow-up"}: Exists("task", t)'
            => table'[<<"task", t>>] \in TaskValues
      BY <2>3, <2>5 DEF SeedInv, TypeOK, Exists, Fits, TaskValues
    <3>2. pc' \in 0..Len(Script) /\ outcome' \in Outcomes /\ (pc' # 0 <=> outcome' = "running")
      BY <1>0, <2>1 DEF Outcomes
    <3>3. runs' \in 0..MaxRuns /\ acts' \in 0..MaxActs
      BY <1>0 DEF SeedInv, TypeOK
    <3> QED
      BY <3>1, <3>2, <3>3 DEF TypeOK, TaskValues, Exists
  <2>8. FailsOnlyOnNames'
    BY <2>1 DEF FailsOnlyOnNames
  <2>9. Repaired'
    <3>1. outcome' = "done" => pc = Len(Script)
      BY <2>1
    <3>2. DOMAIN Script = 1..Len(Script)
      BY ScriptIs
    <3>3. outcome' = "done" => \A id \in Seeded: id \in DOMAIN table'
      BY <2>6, <3>1, <3>2 DEF Seeded
    <3> QED
      BY <3>3, <3>2 DEF Repaired, Seeded
  <2>10. RowsAreNamed'
    <3> SUFFICES ASSUME NEW id \in DOMAIN table'
                 PROVE  /\ id = <<id[1], id[2]>>
                        /\ id[1] \in {"department", "agent"} => <<id[1], id[2], table'[id]>> \in Names
      BY DEF RowsAreNamed
    <3>1. CASE id # row.id
      BY <3>1, <2>5 DEF SeedInv, RowsAreNamed
    <3>2. CASE id = row.id
      <4>1. id = <<id[1], id[2]>>
        BY <3>2, <2>3 DEF Fits
      <4>2. id[1] \in {"department", "agent"} => ~row.keep /\ table'[id] = row.value
        BY <3>2, <2>3, <2>5 DEF Fits
      <4>3. id[1] \in {"department", "agent"} => <<id[1], id[2], row.value>> \in Names
        BY <3>2, <2>3 DEF Fits, Names
      <4> QED
        BY <4>1, <4>2, <4>3
    <3> QED
      BY <3>1, <3>2
  <2>11. PassedIsThere'
    BY <1>0, <2>1, <2>6 DEF PassedIsThere
  <2>12. ASSUME runs' = 1 PROVE FirstRun'
    <3>1. FirstRun
      BY <1>0, <2>12 DEF SeedInv
    <3>2. <<"task", "review">> \in DOMAIN table \/ pc < FirstResult
      <4>1. PICK i \in 1..(FirstResult - 1): Script[i].id = <<"task", "review">>
        BY ScriptIs DEF SeededTasks
      <4> QED
        BY <4>1, <1>0, <2>3, <2>4
    <3>3. \A id \in {<<"result", "review">>, <<"result", "draft">>, <<"result", "accepted">>,
            <<"review", "review">>, <<"review", "draft">>,
                     <<"task", "review">>, <<"task", "research">>}:
             id # row.id => /\ id \in DOMAIN table' <=> id \in DOMAIN table
                            /\ id \in DOMAIN table => table'[id] = table[id]
      BY <2>5
    <3>4. row.id # <<"review", "review">> /\ row.id # <<"review", "draft">>
      BY <2>3 DEF Fits
    <3>5. CASE row.id[1] \notin {"result", "task"}
      <4>1. row.id # <<"result", "review">> /\ row.id # <<"result", "draft">>
              /\ row.id # <<"result", "accepted">>
            /\ row.id # <<"task", "review">> /\ row.id # <<"task", "research">>
        BY <3>5
      <4> QED
        BY <3>1, <3>3, <3>4, <4>1, <1>0, <2>1, <2>3 DEF FirstRun, Exists, Is
    <3>6. CASE row.id[1] = "task"
      <4>1. row.id # <<"result", "review">> /\ row.id # <<"result", "draft">>
              /\ row.id # <<"result", "accepted">> /\ ~row.keep
        BY <3>6, <2>3 DEF Fits
      <4>2. pc < FirstResult
        BY <2>2, <3>6
      <4>3. ~Exists("result", "review") /\ ~Exists("result", "draft")
        BY <3>1, <4>2, <1>0, <2>3 DEF FirstRun
      <4>4. row.id = <<"task", "review">> => table'[row.id] = "READY_FOR_REVIEW"
        BY <2>3, <2>5, <4>1 DEF Fits
      <4> QED
        BY <3>1, <3>3, <3>4, <4>1, <4>3, <4>4, <1>0, <2>1, <2>3 DEF FirstRun, Exists, Is
    <3>7. CASE row.id[1] = "result"
      <4>1. row.id # <<"task", "review">> /\ row.id # <<"task", "research">> /\ ~row.keep
              /\ table'[row.id] = row.value
        BY <3>7, <2>3, <2>5 DEF Fits
      <4>2. row.id \in {<<"result", "review">>, <<"result", "draft">>, <<"result", "accepted">>}
        BY <3>7, <2>3 DEF Fits
      <4>3. CASE row.id = <<"result", "review">>
        <5>1. pc = FirstResult /\ row.value = "HUMAN_REVIEW" /\ ~Exists("result", "review")
                /\ <<"task", "review">> \in DOMAIN table
          BY <4>3, <2>2, <2>3, <3>1, <3>2, <1>0 DEF Fits, FirstRun
        <5> QED
          BY <3>1, <3>3, <3>4, <4>1, <4>3, <5>1, <1>0, <2>1, <2>3, <2>5 DEF FirstRun, Exists, Is
      <4>4. CASE row.id = <<"result", "draft">>
        <5>1. pc = FirstResult + 4 /\ row.value = "CANDIDATE" /\ ~Exists("result", "draft")
          BY <4>4, <2>2, <2>3, <3>1, <1>0 DEF Fits, FirstRun
        <5> QED
          BY <3>1, <3>3, <3>4, <4>1, <4>4, <5>1, <1>0, <2>1, <2>3, <2>5 DEF FirstRun, Exists, Is
      <4>5. CASE row.id = <<"result", "accepted">>
        <5>1. row.value = "ACCEPTED"
          BY <4>5, <2>3 DEF Fits
        <5> QED
          BY <3>1, <3>3, <3>4, <4>1, <4>5, <5>1, <1>0, <2>1, <2>3 DEF FirstRun, Exists, Is
      <4> QED
        BY <4>2, <4>3, <4>4, <4>5
    <3> QED
      BY <3>5, <3>6, <3>7
  <2> QED
    BY <1>0, <2>7, <2>8, <2>9, <2>10, <2>11, <2>12 DEF SeedInv
<1> QED
  BY <1>1, <1>2

(* What users do.                                                          *)
LEMMA ActIs ==
  ASSUME NEW written, SeedInv, Act(written)
  PROVE  /\ DOMAIN table' = DOMAIN table \cup DOMAIN written
         /\ \A id \in DOMAIN table': table'[id] = IF id \in DOMAIN written THEN written[id] ELSE table[id]
         /\ pc' = pc /\ outcome' = outcome /\ runs' = runs /\ acts' \in 0..MaxActs /\ acts' # acts
         /\ PassedIsThere' /\ Repaired'
<1>1. pc' = pc /\ outcome' = outcome /\ runs' = runs /\ acts < MaxActs /\ acts' = acts + 1
        /\ table' = With(written)
  BY DEF Act
<1>2. acts' \in 0..MaxActs /\ acts' # acts
  BY <1>1, SeedAssumption DEF SeedInv, TypeOK
<1>3. /\ DOMAIN table' = DOMAIN table \cup DOMAIN written
      /\ \A id \in DOMAIN table': table'[id] = IF id \in DOMAIN written THEN written[id] ELSE table[id]
  BY <1>1, WithIs
<1>4. PassedIsThere' /\ Repaired'
  BY <1>1, <1>3 DEF SeedInv, PassedIsThere, Repaired
<1> QED
  BY <1>1, <1>2, <1>3, <1>4

LEMMA SetKeeps ==
  ASSUME SeedInv, NEW kind, NEW key, NEW value, Act(Set(kind, key, value)), runs # 0,
         kind \notin {"result", "review"},
         kind = "task" => key = "follow-up" /\ value \in TaskValues,
         kind \in {"department", "agent"} => <<kind, key, value>> \in Names
  PROVE  SeedInv'
<1> DEFINE at == <<kind, key>>
<1>1. /\ DOMAIN table' = DOMAIN table \cup {at}
      /\ \A id \in DOMAIN table': table'[id] = IF id = at THEN value ELSE table[id]
      /\ pc' = pc /\ outcome' = outcome /\ runs' = runs /\ acts' \in 0..MaxActs
      /\ PassedIsThere' /\ Repaired'
  <2>1. DOMAIN Set(kind, key, value) = {at} /\ Set(kind, key, value)[at] = value
    BY DEF Set
  <2> QED
    BY <2>1, ActIs
<1>2. TypeOK'
  BY <1>1 DEF SeedInv, TypeOK, Exists, TaskValues
<1>3. RowsAreNamed'
  BY <1>1 DEF SeedInv, RowsAreNamed
<1>4. FailsOnlyOnNames'
  BY <1>1 DEF SeedInv, FailsOnlyOnNames, Is, Exists, Names
<1>5. runs' = 1 => FirstRun'
  BY <1>1 DEF SeedInv, FirstRun, Is, Exists
<1> QED
  BY <1>1, <1>2, <1>3, <1>4, <1>5 DEF SeedInv

LEMMA SetsKeep ==
  ASSUME SeedInv,
         \/ StartFollowUp \/ (\E p \in {"employee", "reviewer"}: MarkRead(p)) \/ CompleteReminder
         \/ SendMessage \/ DisableEmployee \/ CreateDepartment \/ RenameDepartment \/ CreateAgent
         \/ Reassign
  PROVE  SeedInv' /\ acts' # acts
<1>1. runs # 0
  BY DEF SeedInv, StartFollowUp, MarkRead, CompleteReminder, SendMessage, DisableEmployee, CreateDepartment,
          RenameDepartment,
         CreateAgent, Reassign, SignedIn, Is, Exists
<1>2. PICK kind, key, value:
        /\ Act(Set(kind, key, value))
        /\ kind \notin {"result", "review"}
        /\ kind = "task" => key = "follow-up" /\ value \in TaskValues
        /\ kind \in {"department", "agent"} => <<kind, key, value>> \in Names
  <2>1. CASE StartFollowUp
    BY <2>1 DEF StartFollowUp, TaskValues
  <2>2. CASE \E p \in {"employee", "reviewer"}: MarkRead(p)
    BY <2>2 DEF MarkRead
  <2>3. CASE CompleteReminder
    BY <2>3 DEF CompleteReminder
  <2>4. CASE SendMessage
    BY <2>4 DEF SendMessage
  <2>5. CASE DisableEmployee
    BY <2>5 DEF DisableEmployee
  <2>6. CASE CreateDepartment
    BY <2>6 DEF CreateDepartment, Names
  <2>7. CASE RenameDepartment
    BY <2>7 DEF RenameDepartment, Names
  <2>8. CASE CreateAgent
    BY <2>8 DEF CreateAgent, Names
  <2>9. CASE Reassign
    BY <2>9 DEF Reassign
  <2> QED
    BY <2>1, <2>2, <2>3, <2>4, <2>5, <2>6, <2>7, <2>8, <2>9
<1> QED
  BY <1>1, <1>2, SetKeeps, ActIs DEF Names

LEMMA SubmitDraftKeeps ==
  ASSUME SeedInv, SubmitDraft
  PROVE  SeedInv' /\ acts' # acts
<1> DEFINE d == <<"result", "draft">>
           t == <<"task", "research">>
           written == [id \in {d, t} |-> IF id[1] = "result" THEN "HUMAN_REVIEW" ELSE "READY_FOR_REVIEW"]
<1>1. /\ SignedIn("employee") /\ Is("result", "draft", "CANDIDATE")
        /\ Is("task", "research", "IN_PROGRESS") /\ Act(written)
  BY DEF SubmitDraft
<1>2. DOMAIN written = {d, t} /\ written[d] = "HUMAN_REVIEW" /\ written[t] = "READY_FOR_REVIEW"
  OBVIOUS
<1> HIDE DEF written
<1>3. /\ DOMAIN table' = DOMAIN table
      /\ table'[d] = "HUMAN_REVIEW" /\ table'[t] = "READY_FOR_REVIEW"
      /\ \A id \in DOMAIN table: id \notin {d, t} => table'[id] = table[id]
      /\ d \in DOMAIN table /\ t \in DOMAIN table
      /\ pc' = pc /\ outcome' = outcome /\ runs' = runs /\ acts' \in 0..MaxActs /\ acts' # acts
      /\ PassedIsThere' /\ Repaired'
  BY <1>1, <1>2, ActIs DEF Is, Exists
<1>4. TypeOK'
  BY <1>3 DEF SeedInv, TypeOK, Exists
<1>5. RowsAreNamed'
  BY <1>3 DEF SeedInv, RowsAreNamed
<1>6. FailsOnlyOnNames'
  BY <1>3 DEF SeedInv, FailsOnlyOnNames, Is, Exists
<1>7. runs' = 1 => FirstRun'
  BY <1>1, <1>3 DEF SeedInv, FirstRun, Is, Exists
<1> QED
  BY <1>3, <1>4, <1>5, <1>6, <1>7 DEF SeedInv

LEMMA DecideKeeps ==
  ASSUME SeedInv, NEW r \in {"review", "draft"}, NEW decision \in {"ACCEPT", "REWORK"}, Decide(r, decision)
  PROVE  SeedInv' /\ acts' # acts
<1> DEFINE e == <<"result", r>>
           t == <<"task", TaskOf[r]>>
           v == <<"review", r>>
           written == [id \in {e, t, v} |->
                      IF id[1] = "review" THEN decision
                      ELSE IF decision = "ACCEPT" THEN "ACCEPTED"
                      ELSE IF id[1] = "result" THEN "REWORK" ELSE "IN_PROGRESS"]
<1>1. /\ ~Exists("review", r) /\ Is("result", r, "HUMAN_REVIEW") /\ Is("task",
        TaskOf[r], "READY_FOR_REVIEW") /\ Act(written)
  BY DEF Decide
<1>2. /\ DOMAIN written = {e, t, v} /\ written[e] \in {"ACCEPTED", "REWORK"}
        /\ written[t] \in {"ACCEPTED", "IN_PROGRESS"}
      /\ written[v] = decision
  OBVIOUS
<1>3. TaskOf["review"] = "review" /\ TaskOf["draft"] = "research"
  BY DEF TaskOf
<1> HIDE DEF written
<1>4. /\ DOMAIN table' = DOMAIN table \cup {v}
      /\ table'[e] \in {"ACCEPTED", "REWORK"} /\ table'[t] \in {"ACCEPTED", "IN_PROGRESS"}
      /\ \A id \in DOMAIN table: id \notin {e, t, v} => table'[id] = table[id]
      /\ e \in DOMAIN table /\ t \in DOMAIN table
      /\ pc' = pc /\ outcome' = outcome /\ runs' = runs /\ acts' \in 0..MaxActs /\ acts' # acts
      /\ PassedIsThere' /\ Repaired'
  BY <1>1, <1>2, ActIs DEF Is, Exists
<1>5. TypeOK'
  BY <1>3, <1>4 DEF SeedInv, TypeOK, Exists
<1>6. RowsAreNamed'
  BY <1>4 DEF SeedInv, RowsAreNamed
<1>7. FailsOnlyOnNames'
  BY <1>4 DEF SeedInv, FailsOnlyOnNames, Is, Exists
<1>8. runs' = 1 => FirstRun'
  <2>1. CASE r = "review"
    BY <1>1, <1>3, <1>4, <2>1 DEF SeedInv, FirstRun, Is, Exists
  <2>2. CASE r = "draft"
    BY <1>1, <1>3, <1>4, <2>2 DEF SeedInv, FirstRun, Is, Exists
  <2> QED
    BY <2>1, <2>2
<1>9. runs' # 0
  BY <1>4 DEF SeedInv
<1> QED
  BY <1>4, <1>5, <1>6, <1>7, <1>8, <1>9 DEF SeedInv

LEMMA SeedStutters == SeedInv /\ UNCHANGED vars => SeedInv'
  BY DEF SeedInv, TypeOK, FailsOnlyOnNames, Repaired, RowsAreNamed, PassedIsThere, FirstRun, Is, Exists, vars

LEMMA SeedSteps == SeedInv /\ [Next]_vars => SeedInv'
  BY SeedStutters, StartKeeps, StepKeeps, CrashKeepsSeed, SubmitDraftKeeps, DecideKeeps, SetsKeep DEF Next

LEMMA UpsertsKeep ==
  ASSUME SeedInv, [Next]_vars, acts' = acts, NEW id \in DOMAIN table
  PROVE  id \in DOMAIN table' /\ (id \in KeptIds \/ id \notin Seeded => table'[id] = table[id])
<1>1. CASE Step
  <2> DEFINE row == Script[pc]
  <2>1. pc \in 1..Len(Script) /\ DOMAIN Script = 1..Len(Script)
    <3>1. pc # 0 /\ pc \in 0..Len(Script) /\ Len(Script) \in Nat
      BY <1>1, ScriptIs DEF Step, SeedInv, TypeOK
    <3> QED
      BY <3>1, ScriptIs
  <2>2. CASE table' = table
    BY <2>2
  <2>3. CASE table' = Upsert(row)
    <3>1. row.id \in Seeded
      BY <2>1 DEF Seeded
    <3>2. row.id \in KeptIds => row.keep
      <4> SUFFICES ASSUME NEW j \in 1..Len(Script), Script[j].keep, row.id = Script[j].id
                   PROVE  row.keep
        BY <2>1 DEF KeptIds
      <4> QED
        BY <2>1, ScriptIs DEF RowsOf, Fits
    <3> HIDE DEF row
    <3> QED
      BY <2>3, <3>1, <3>2, UpsertIs
  <2> QED
    BY <1>1, <2>2, <2>3 DEF Step
<1>2. CASE Start \/ Crash \/ UNCHANGED vars
  BY <1>2 DEF Start, Crash, vars
<1>3. CASE SubmitDraft \/ (\E r \in {"review", "draft"}, d \in {"ACCEPT", "REWORK"}: Decide(r, d))
  BY <1>3, SubmitDraftKeeps, DecideKeeps
<1>4. CASE \/ StartFollowUp \/ (\E p \in {"employee", "reviewer"}: MarkRead(p)) \/ CompleteReminder
           \/ SendMessage \/ DisableEmployee \/ CreateDepartment \/ RenameDepartment \/ CreateAgent
           \/ Reassign
  BY <1>4, SetsKeep
<1> QED
  BY <1>1, <1>2, <1>3, <1>4 DEF Next

LEMMA SeedImplies == SeedInv => TypeOK /\ FailsOnlyOnNames /\ Repaired /\ (runs = 1 => Reviewable)
<1> SUFFICES ASSUME SeedInv, runs = 1 PROVE Reviewable
  BY DEF SeedInv
<1>1. FirstRun
  BY DEF SeedInv
<1>2. TaskOf["review"] = "review" /\ TaskOf["draft"] = "research"
        /\ DOMAIN TaskOf = {"review", "accepted", "draft"}
  BY DEF TaskOf
<1> QED
  BY <1>1, <1>2 DEF Reviewable, FirstRun

(* However often the seed is interrupted, run again and used in between: it *)
(* stops only where users took its names, leaves alone what it did not      *)
(* write, leaves after its first run what can be reviewed, and repairs what *)
(* interrupted runs have left (seed-demo.ts).                               *)
THEOREM SeedRunsRepair == Spec => SeedRepairs
<1>1. Spec => []SeedInv
  BY SeedStarts, SeedSteps, PTL DEF Spec
<1>2. SeedInv /\ [Next]_vars
        => [acts' = acts => \A id \in DOMAIN table:
              id \in DOMAIN table' /\ (id \in KeptIds \/ id \notin Seeded => table'[id] = table[id])]_vars
  BY UpsertsKeep
<1>3. Spec => UnrelatedKept
  BY <1>1, <1>2, PTL DEF Spec, UnrelatedKept
<1>4. Spec => [](TypeOK /\ FailsOnlyOnNames /\ Repaired /\ (runs = 1 => Reviewable))
  BY <1>1, SeedImplies, PTL
<1> QED
  BY <1>3, <1>4 DEF SeedRepairs
===============================================================================
