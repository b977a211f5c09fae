----------------------------- MODULE AdminConsole -----------------------------
(***************************************************************************)
(* The shell of the Admin Console, a browser tab: its token, the identity  *)
(* that it asks /me for, and the pages it mounts for an owner or admin.    *)
(* Every request carries the token of the moment it is sent; a 401 to any  *)
(* request signs the tab out.  The API keeps the sessions.  The tab can be *)
(* reloaded: it keeps the token (sessionStorage) and nothing else.         *)
(***************************************************************************)
EXTENDS Naturals, Sequences, FiniteSets

CONSTANTS
  Accounts,
  Administrators,  \* the accounts of Organization Owners and Admins
  Calls,           \* bound: calls that are open at a time
  MaxLogins,       \* bound: sessions
  MaxClicks,       \* bound: page changes and clicks on Sign out
  MaxReloads       \* bound: reloads of the tab

VARIABLES
  sessions,  \* the sessions of the API; a token is the place of its session
  disabled,  \* disabled accounts
  tab,       \* token (0: none), user, denied, data: the account the page's data was read for
  call,      \* open calls; current: its generation, or its page, is still there
  clicks, reloads

vars == <<sessions, disabled, tab, call, clicks, reloads>>

Tokens == 1..MaxLogins
NoCall == [op |-> "none", token |-> 0, as |-> "none", current |-> FALSE, answer |-> "none"]
SignedOut == [token |-> 0, user |-> "none", denied |-> FALSE, data |-> "none"]

TypeOK ==
  /\ sessions \in Seq([of: Accounts, valid: BOOLEAN]) /\ Len(sessions) <= MaxLogins
  /\ disabled \subseteq Accounts
  /\ tab \in [token: 0..Len(sessions), user: Accounts \cup {"none"}, denied: BOOLEAN,
              data: Accounts \cup {"none"}]
  /\ \A c \in Calls:
       /\ call[c].op \in {"none", "login", "me", "load", "logout"} /\ call[c].token \in 0..Len(sessions)
       /\ call[c].answer \in {"none", "OK", "401", "ERROR"}
       /\ call[c].op = "login" => tab.token = 0
  /\ clicks \in 0..MaxClicks /\ reloads \in 0..MaxReloads

Holder(token) == sessions[token].of

-----------------------------------------------------------------------------
(* The API. *)

Answer(c, answer) == call' = [call EXCEPT ![c].answer = answer]

Waiting(c, ops) == call[c].op \in ops /\ call[c].answer = "none" /\ UNCHANGED <<tab, clicks, reloads>>

(* The account must be enabled and have the password. *)
ServeLogin(c) ==
  /\ Waiting(c, {"login"}) /\ UNCHANGED disabled
  /\ \/ Answer(c, "401") /\ UNCHANGED sessions
     \/ /\ call[c].as \notin disabled /\ Len(sessions) < MaxLogins
        /\ sessions' = Append(sessions, [of |-> call[c].as, valid |-> TRUE])
        /\ call' = [call EXCEPT ![c] = [@ EXCEPT !.token = Len(sessions'), !.answer = "OK"]]

Serve(c) ==
  /\ Waiting(c, {"me", "load", "logout"}) /\ UNCHANGED disabled
  /\ IF ~sessions[call[c].token].valid
     THEN Answer(c, "401") /\ UNCHANGED sessions
     ELSE /\ Answer(c, "OK")
          /\ sessions' = IF call[c].op = "logout" THEN [sessions EXCEPT ![call[c].token].valid = FALSE]
                         ELSE sessions

(* The request fails, or it or its answer is lost. *)
Lose(c) ==
  /\ Waiting(c, {"login", "me", "load", "logout"})
  /\ Answer(c, "ERROR") /\ UNCHANGED <<sessions, disabled>>

(* changeAccountStatus by another administrator. *)
Disable(a) ==
  /\ a \notin disabled /\ disabled' = disabled \cup {a}
  /\ sessions' = [t \in DOMAIN sessions |-> [sessions[t] EXCEPT !.valid = @ /\ sessions[t].of # a]]
  /\ UNCHANGED <<tab, call, clicks, reloads>>

-----------------------------------------------------------------------------
(* The tab. *)

(* What is left of the open calls when c was handled: none belongs to the   *)
(* generation or the page any more.                                         *)
Rest(c) == [d \in Calls |-> IF d = c THEN NoCall ELSE [call[d] EXCEPT !.current = FALSE]]

Sent(op, token) == [NoCall EXCEPT !.op = op, !.token = token, !.current = TRUE]

(* Mutant: the identity stays. *)
SignOutTokenOnly(c) ==
  /\ tab' = [tab EXCEPT !.token = 0]
  /\ call' = Rest(c)

(* signOut, while c is handled. *)
SignOut(c) ==
  /\ tab' = SignedOut
  /\ call' = Rest(c)

Handle(c, op, answers) ==
  call[c].op = op /\ call[c].answer \in answers /\ UNCHANGED <<sessions, disabled, clicks, reloads>>

(* The form is on screen without a token; busy admits one login at a time.  *)
SubmitLogin(c, a) ==
  /\ tab.token = 0 /\ call[c] = NoCall /\ \A d \in Calls: call[d].op # "login"
  /\ Len(sessions) < MaxLogins
  /\ call' = [call EXCEPT ![c] = [Sent("login", 0) EXCEPT !.as = a]]
  /\ UNCHANGED <<sessions, disabled, tab, clicks, reloads>>

(* onSuccess, and the effect on the token: /me is asked in a new generation.*)
LoggedIn(c) ==
  /\ Handle(c, "login", {"OK"})
  /\ tab' = [tab EXCEPT !.token = call[c].token]
  /\ call' = [Rest(c) EXCEPT ![c] = Sent("me", call[c].token)]

LoginFailed(c) ==
  /\ Handle(c, "login", {"ERROR"})
  /\ call' = [call EXCEPT ![c] = NoCall] /\ UNCHANGED tab

(* Mutant: the generation is not compared. *)
IdentityAnyway(c) ==
  /\ Handle(c, "me", {"OK"})
  /\ IF Holder(call[c].token) \in Administrators
     THEN /\ tab' = [tab EXCEPT !.user = Holder(call[c].token), !.denied = FALSE, !.data = "none"]
          /\ call' = [call EXCEPT ![c] = IF tab.token = 0 THEN NoCall ELSE Sent("load", tab.token)]
     ELSE /\ tab' = [tab EXCEPT !.user = "none", !.denied = TRUE]
          /\ call' = [call EXCEPT ![c] = NoCall]

(* The answer of /me; an administrator's Dashboard is mounted and loads.    *)
Identity(c) ==
  /\ Handle(c, "me", {"OK"})
  /\ IF ~call[c].current THEN call' = [call EXCEPT ![c] = NoCall] /\ UNCHANGED tab
     ELSE IF Holder(call[c].token) \in Administrators
     THEN /\ tab' = [tab EXCEPT !.user = Holder(call[c].token), !.denied = FALSE, !.data = "none"]
          /\ call' = [call EXCEPT ![c] = Sent("load", tab.token)]
     ELSE /\ tab' = [tab EXCEPT !.user = "none", !.denied = TRUE]
          /\ call' = [call EXCEPT ![c] = NoCall]

(* Mutant: a failure is left at that. *)
NoIdentityIgnored(c) ==
  /\ Handle(c, "me", {"ERROR"})
  /\ call' = [call EXCEPT ![c] = NoCall] /\ UNCHANGED tab

NoIdentity(c) ==
  /\ Handle(c, "me", {"ERROR"})
  /\ IF call[c].current THEN SignOut(c)
     ELSE call' = [call EXCEPT ![c] = NoCall] /\ UNCHANGED tab

(* AdminApiClient.request: any 401 is a loss of the authentication. *)
AuthenticationLoss(c) ==
  /\ \E op \in {"login", "me", "load"}: Handle(c, op, {"401"})
  /\ SignOut(c)

(* A page that was left ignores the answer. *)
Loaded(c) ==
  /\ Handle(c, "load", {"OK", "ERROR"})
  /\ call' = [call EXCEPT ![c] = NoCall]
  /\ tab' = IF call[c].current /\ call[c].answer = "OK"
            THEN [tab EXCEPT !.data = Holder(call[c].token)] ELSE tab

Click == clicks < MaxClicks /\ clicks' = clicks + 1 /\ UNCHANGED <<sessions, disabled, reloads>>

(* The page is left, and another one mounted that loads. *)
SetPage(c) ==
  /\ tab.user # "none" /\ call[c] = NoCall /\ Click
  /\ tab' = [tab EXCEPT !.data = "none"]
  /\ call' = [Rest(c) EXCEPT ![c] = Sent("load", tab.token)]

ClickSignOut(c) ==
  /\ tab.user # "none" \/ tab.denied
  /\ call[c] = NoCall /\ Click
  /\ call' = [call EXCEPT ![c] = Sent("logout", tab.token)]
  /\ UNCHANGED tab

(* Mutant: only a success signs out. *)
LoggedOutThen(c) ==
  /\ Handle(c, "logout", {"OK", "401", "ERROR"})
  /\ IF call[c].answer = "ERROR" THEN call' = [call EXCEPT ![c] = NoCall] /\ UNCHANGED tab
     ELSE SignOut(c)

(* finally(signOut) *)
LoggedOut(c) == Handle(c, "logout", {"OK", "401", "ERROR"}) /\ SignOut(c)

(* The tab is reloaded: its requests are given up, its state is lost.       *)
Reload(c) ==
  /\ reloads < MaxReloads /\ reloads' = reloads + 1
  /\ tab' = [SignedOut EXCEPT !.token = tab.token]
  /\ call' = [d \in Calls |-> IF d = c /\ tab.token # 0 THEN Sent("me", tab.token) ELSE NoCall]
  /\ UNCHANGED <<sessions, disabled, clicks>>

-----------------------------------------------------------------------------
Init ==
  /\ sessions = <<>> /\ disabled = {} /\ tab = SignedOut
  /\ call = [c \in Calls |-> NoCall] /\ clicks = 0 /\ reloads = 0

Served(c) == ServeLogin(c) \/ Serve(c) \/ Lose(c)

Handled(c) ==
  \/ LoggedIn(c) \/ LoginFailed(c) \/ Identity(c) \/ NoIdentity(c)
  \/ AuthenticationLoss(c) \/ Loaded(c) \/ LoggedOut(c)

Next ==
  \/ \E a \in Accounts: Disable(a)
  \/ \E c \in Calls:
       \/ Served(c) \/ Handled(c)
       \/ \E a \in Accounts: SubmitLogin(c, a)
       \/ SetPage(c) \/ ClickSignOut(c) \/ Reload(c)

(* Every request is answered or given up, and its answer handled. *)
Fairness == \A c \in Calls: WF_vars(Served(c)) /\ WF_vars(Handled(c))

Spec == Init /\ [][Next]_vars /\ Fairness

-----------------------------------------------------------------------------
(* The name on the screen, the refusal, and the data of the page are those  *)
(* of the account that is signed in, whatever answers are still to come.    *)
ScreenIsOfSession ==
  /\ tab.user # "none" => tab.token # 0 /\ tab.user = Holder(tab.token) /\ tab.user \in Administrators
  /\ tab.denied => tab.token # 0 /\ Holder(tab.token) \notin Administrators
  /\ tab.data # "none" => tab.data = tab.user

(* "A MEMBER never reaches management loaders." *)
MembersLoadNothing ==
  \A c \in Calls: call[c].op = "load" => call[c].token # 0 /\ Holder(call[c].token) \in Administrators

(* The tab does not stay at "Loading administrator session": it shows who   *)
(* is signed in, refuses, or asks to sign in.                               *)
SessionStarts ==
  tab.token # 0 /\ tab.user = "none" /\ ~tab.denied ~> tab.token = 0 \/ tab.user # "none" \/ tab.denied

(* Sign out gives the token up, also when the API cannot be reached.        *)
SignOutEnds ==
  \A t \in Tokens: (\E c \in Calls: call[c].op = "logout" /\ call[c].token = t) ~> tab.token # t

(* A login is ended by what happened to it: not by the answer to a request  *)
(* of an earlier login.                                                     *)
LaterLoginStays ==
  [][tab.token # 0 /\ tab'.token = 0 =>
       \E c \in Calls: call[c].answer # "none" /\ call'[c] = NoCall /\ call[c].token = tab.token]_vars
===============================================================================
