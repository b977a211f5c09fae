------------------------------ MODULE ClientProofs -----------------------------
(***************************************************************************)
(* Proofs about what people see: the Admin Console and the Desktop's       *)
(* screens.  What is on a screen belongs together, the audit log's pages   *)
(* make a list without gaps, and a confirmation that is repeated repeats   *)
(* its key.  The parts share no variable, so that each has an inductive    *)
(* invariant of its own.                                                   *)
(***************************************************************************)
EXTENDS AdminApp, Screens, SequenceTheorems, TLAPS


(***************************************************************************)
(* The shell of the console.                                               *)
(***************************************************************************)

TabCall == [op: {"none", "login", "me", "load", "logout"}, token: Nat, as: Accounts \cup {"none"},
            current: BOOLEAN, answer: {"none", "OK", "401", "ERROR"}]

Session == [of: Accounts, valid: BOOLEAN]

ConsoleTypes ==
  /\ sessions \in Seq(Session) /\ Len(sessions) <= MaxLogins /\ disabled \subseteq Accounts
  /\ tab \in [token: 0..Len(sessions), user: Accounts \cup {"none"}, denied: BOOLEAN,
              data: Accounts \cup {"none"}]
  /\ call \in [TabCalls -> TabCall]
  /\ clicks \in 0..MaxClicks /\ reloads \in 0..MaxReloads

(* A request carries the token of a session, a login gets one.              *)
TokensAreGiven ==
  \A c \in TabCalls:
    /\ call[c].token \in 0..Len(sessions)
    /\ call[c].op \in {"me", "load", "logout"} => call[c].token # 0
    /\ call[c].op = "login" /\ call[c].answer = "OK" => call[c].token # 0

(* The one login in progress is of a tab without a token.                   *)
LoginIsAlone ==
  \A c \in TabCalls: call[c].op = "login" =>
    /\ tab.token = 0 /\ call[c].as \in Accounts
    /\ \A d \in TabCalls: call[d].op = "login" => d = c

(* Whoever waits for the identity shows nothing yet.                        *)
IdentityIsAwaited ==
  \A c \in TabCalls: call[c].op = "me" /\ call[c].current =>
    /\ tab.token = call[c].token /\ tab.user = "none" /\ ~tab.denied
    /\ \A d \in TabCalls: call[d].op = "me" /\ call[d].current => d = c

(* The page on the screen loads for the user on the screen.                 *)
PageLoadsForUser ==
  \A c \in TabCalls: call[c].op = "load" /\ call[c].current =>
    tab.token = call[c].token /\ tab.user = sessions[call[c].token].of

ScreenIsOf ==
  /\ tab.user # "none" => tab.token # 0 /\ tab.user = sessions[tab.token].of /\ tab.user \in Administrators
  /\ tab.denied => tab.token # 0 /\ sessions[tab.token].of \notin Administrators
  /\ tab.data # "none" => tab.data = tab.user

AdministratorsLoad ==
  \A c \in TabCalls: call[c].op = "load" => call[c].token # 0 /\ sessions[call[c].token].of \in Administrators

ConsoleInv ==
  /\ ConsoleTypes /\ TokensAreGiven /\ LoginIsAlone /\ IdentityIsAwaited /\ PageLoadsForUser
  /\ ScreenIsOf /\ AdministratorsLoad

(* What a step does to the calls other than the one it handles.             *)
OthersStay(c) == \A d \in TabCalls \ {c}: call'[d] = call[d]

OthersLeft(c) == \A d \in TabCalls \ {c}:
  /\ call'[d].op = call[d].op /\ call'[d].token = call[d].token /\ call'[d].as = call[d].as
  /\ call'[d].answer = call[d].answer /\ ~call'[d].current

(* Sessions are only added, and their holders stay.                         *)
SessionsKeep ==
  /\ sessions' \in Seq(Session) /\ Len(sessions') <= MaxLogins /\ Len(sessions') >= Len(sessions)
  /\ \A t \in 1..Len(sessions): sessions'[t].of = sessions[t].of

LEMMA ConsoleStarts == Console!Init => ConsoleInv
<1> SUFFICES ASSUME Console!Init PROVE ConsoleInv
  OBVIOUS
<1>1. /\ sessions = <<>> /\ disabled = {} /\ clicks = 0 /\ reloads = 0
      /\ tab = [token |-> 0, user |-> "none", denied |-> FALSE, data |-> "none"]
      /\ call = [c \in TabCalls |-> Console!NoCall]
  BY DEF Console!Init, Console!SignedOut
<1>2. Len(sessions) = 0 /\ sessions \in Seq(Session)
  BY <1>1
<1>3. MaxLogins \in Nat /\ MaxClicks \in Nat /\ MaxReloads \in Nat
  BY AdminAppAssumption DEF AdminAppAssumption
<1>4. ConsoleTypes
  <2>1. call \in [TabCalls -> TabCall]
    BY <1>1 DEF TabCall, Console!NoCall
  <2> QED BY <1>1, <1>2, <1>3, <2>1 DEF ConsoleTypes
<1>5. \A c \in TabCalls: call[c].op = "none" /\ call[c].token = 0
  BY <1>1 DEF Console!NoCall
<1>6. TokensAreGiven /\ LoginIsAlone /\ IdentityIsAwaited /\ PageLoadsForUser /\ AdministratorsLoad
  BY <1>2, <1>5 DEF TokensAreGiven, LoginIsAlone, IdentityIsAwaited, PageLoadsForUser, AdministratorsLoad
<1>7. ScreenIsOf
  BY <1>1 DEF ScreenIsOf
<1> QED BY <1>4, <1>6, <1>7 DEF ConsoleInv

(* The API answers: the tab stays, and a call at most gets its answer.      *)
LEMMA ServerAnswers ==
  ASSUME NEW c \in TabCalls, ConsoleInv, SessionsKeep, OthersStay(c), tab' = tab,
         disabled' \subseteq Accounts, clicks' = clicks, reloads' = reloads,
         call' \in [TabCalls -> TabCall],
         call'[c].op = call[c].op, call'[c].as = call[c].as, call'[c].current = call[c].current,
         \/ call'[c].token = call[c].token /\ (call[c].op = "login" /\ call'[c].answer = "OK" => call[c].token # 0)
         \/ call[c].op = "login" /\ call'[c].token \in 1..Len(sessions')
  PROVE  ConsoleInv'
<1> USE DEF ConsoleInv, SessionsKeep, OthersStay
<1>1. Len(sessions) \in Nat /\ Len(sessions') \in Nat
  BY DEF ConsoleTypes
<1>2. ConsoleTypes'
  <2>1. tab' \in [token: 0..Len(sessions'), user: Accounts \cup {"none"}, denied: BOOLEAN,
                  data: Accounts \cup {"none"}]
    BY <1>1 DEF ConsoleTypes
  <2> QED BY <2>1 DEF ConsoleTypes
<1>3. TokensAreGiven'
  BY <1>1 DEF TokensAreGiven
<1>4. LoginIsAlone'
  BY DEF LoginIsAlone
<1>5. IdentityIsAwaited'
  BY DEF IdentityIsAwaited
<1>6. PageLoadsForUser'
  BY <1>1 DEF PageLoadsForUser, TokensAreGiven
<1>7. ScreenIsOf'
  BY <1>1 DEF ScreenIsOf, ConsoleTypes
<1>8. AdministratorsLoad'
  BY <1>1 DEF AdministratorsLoad, TokensAreGiven
<1> QED BY <1>2, <1>3, <1>4, <1>5, <1>6, <1>7, <1>8

(* A session is of an account.                                              *)
LEMMA HolderIsAccount ==
  ASSUME ConsoleTypes, NEW t \in 1..Len(sessions)
  PROVE  sessions[t].of \in Accounts
<1>1. sessions[t] \in Session
  BY DEF ConsoleTypes
<1> QED BY <1>1 DEF Session

(* What is sent.                                                            *)
LEMMA SentIs ==
  ASSUME NEW op \in {"login", "me", "load", "logout"}, NEW token \in Nat
  PROVE  /\ Console!Sent(op, token) \in TabCall
         /\ Console!Sent(op, token).op = op /\ Console!Sent(op, token).token = token
         /\ Console!Sent(op, token).answer = "none"
BY DEF Console!Sent, Console!NoCall, TabCall

(* A call is replaced by another one.                                       *)
LEMMA CallReplaced ==
  ASSUME call \in [TabCalls -> TabCall], NEW c \in TabCalls, NEW next \in TabCall,
         call' = [call EXCEPT ![c] = next]
  PROVE  call' \in [TabCalls -> TabCall] /\ call'[c] = next /\ OthersStay(c)
BY DEF OthersStay

(* The same, and the others are not current any more.                       *)
LEMMA CallsLeft ==
  ASSUME call \in [TabCalls -> TabCall], NEW c \in TabCalls, NEW next \in TabCall,
         \/ call' = Console!Rest(c) /\ next = Console!NoCall
         \/ call' = [Console!Rest(c) EXCEPT ![c] = next]
  PROVE  call' \in [TabCalls -> TabCall] /\ call'[c] = next /\ OthersLeft(c)
<1>1. \A d \in TabCalls: [call[d] EXCEPT !.current = FALSE] \in TabCall
  BY DEF TabCall
<1>2. Console!NoCall \in TabCall
  BY DEF TabCall, Console!NoCall
<1>3. Console!Rest(c) \in [TabCalls -> TabCall] /\ Console!Rest(c)[c] = Console!NoCall
  BY <1>1, <1>2 DEF Console!Rest
<1>4. \A d \in TabCalls \ {c}: Console!Rest(c)[d] = [call[d] EXCEPT !.current = FALSE]
  BY DEF Console!Rest
<1>5. call' \in [TabCalls -> TabCall] /\ call'[c] = next
  BY <1>2, <1>3
<1>6. \A d \in TabCalls \ {c}: call'[d] = [call[d] EXCEPT !.current = FALSE]
  BY <1>3, <1>4
<1>7. \A d \in TabCalls: call[d] \in TabCall
  OBVIOUS
<1>8. OthersLeft(c)
  BY <1>6, <1>7 DEF OthersLeft, TabCall
<1> QED BY <1>5, <1>8

(* An answer that only ends its call.                                       *)
LEMMA CallEnds ==
  ASSUME NEW c \in TabCalls, ConsoleInv, call' = [call EXCEPT ![c] = Console!NoCall],
         UNCHANGED <<sessions, disabled, tab, clicks, reloads>>
  PROVE  ConsoleInv'
<1>1. Console!NoCall \in TabCall
  BY DEF TabCall, Console!NoCall
<1>2. call' \in [TabCalls -> TabCall] /\ call'[c] = Console!NoCall /\ OthersStay(c)
  BY <1>1, CallReplaced DEF ConsoleInv, ConsoleTypes
<1>3. call'[c].op = "none" /\ call'[c].token = 0
  BY <1>2 DEF Console!NoCall
<1> USE <1>2, <1>3 DEF ConsoleInv, OthersStay
<1>4. ConsoleTypes'
  BY DEF ConsoleTypes
<1>5. TokensAreGiven'
  BY DEF TokensAreGiven, ConsoleTypes
<1>6. LoginIsAlone' /\ IdentityIsAwaited' /\ PageLoadsForUser' /\ ScreenIsOf' /\ AdministratorsLoad'
  BY DEF LoginIsAlone, IdentityIsAwaited, PageLoadsForUser, ScreenIsOf, AdministratorsLoad
<1> QED BY <1>4, <1>5, <1>6

(* Signing out while an answer is handled.                                  *)
LEMMA SigningOut ==
  ASSUME NEW c \in TabCalls, ConsoleInv, Console!SignOut(c), UNCHANGED <<sessions, disabled, clicks, reloads>>
  PROVE  ConsoleInv'
<1>1. Console!NoCall \in TabCall
  BY DEF TabCall, Console!NoCall
<1>2. call' \in [TabCalls -> TabCall] /\ call'[c] = Console!NoCall /\ OthersLeft(c)
  BY <1>1, CallsLeft DEF ConsoleInv, ConsoleTypes, Console!SignOut
<1>3. call'[c].op = "none" /\ call'[c].token = 0
  BY <1>2 DEF Console!NoCall
<1>4. tab' = [token |-> 0, user |-> "none", denied |-> FALSE, data |-> "none"]
  BY DEF Console!SignOut, Console!SignedOut
<1> USE <1>2, <1>3, <1>4 DEF ConsoleInv, OthersLeft
<1>5. ConsoleTypes'
  BY DEF ConsoleTypes
<1>6. TokensAreGiven'
  BY DEF TokensAreGiven, ConsoleTypes
<1>7. LoginIsAlone' /\ IdentityIsAwaited' /\ PageLoadsForUser'
  BY DEF LoginIsAlone, IdentityIsAwaited, PageLoadsForUser
<1>8. ScreenIsOf' /\ AdministratorsLoad'
  BY DEF ScreenIsOf, AdministratorsLoad
<1> QED BY <1>5, <1>6, <1>7, <1>8

LEMMA SubmittingLogin ==
  ASSUME NEW c \in TabCalls, NEW a \in Accounts, ConsoleInv, Console!SubmitLogin(c, a)
  PROVE  ConsoleInv'
<1> DEFINE next == [Console!Sent("login", 0) EXCEPT !.as = a]
<1>1. next \in TabCall
  BY DEF TabCall, Console!Sent, Console!NoCall
<1>2. call' = [call EXCEPT ![c] = next]
  BY DEF Console!SubmitLogin
<1>3. next.op = "login" /\ next.token = 0 /\ next.as = a /\ next.answer = "none"
  BY DEF Console!Sent, Console!NoCall
<1> HIDE DEF next
<1>4. call' \in [TabCalls -> TabCall] /\ call'[c] = next /\ OthersStay(c)
  BY <1>1, <1>2, CallReplaced DEF ConsoleInv, ConsoleTypes
<1>5. /\ tab.token = 0 /\ \A d \in TabCalls: call[d].op # "login"
      /\ UNCHANGED <<sessions, disabled, tab, clicks, reloads>>
  BY DEF Console!SubmitLogin
<1> USE <1>3, <1>4, <1>5 DEF ConsoleInv, OthersStay
<1>6. ConsoleTypes'
  BY DEF ConsoleTypes
<1>7. TokensAreGiven'
  BY DEF TokensAreGiven, ConsoleTypes
<1>8. LoginIsAlone' /\ IdentityIsAwaited' /\ PageLoadsForUser' /\ ScreenIsOf' /\ AdministratorsLoad'
  BY DEF LoginIsAlone, IdentityIsAwaited, PageLoadsForUser, ScreenIsOf, AdministratorsLoad
<1> QED BY <1>6, <1>7, <1>8

(* The tab had no token, and therefore showed nothing: it asks who it is.   *)
LEMMA LoggingIn ==
  ASSUME NEW c \in TabCalls, ConsoleInv, Console!LoggedIn(c)
  PROVE  ConsoleInv'
<1> DEFINE next == Console!Sent("me", call[c].token)
<1>1. call[c] \in TabCall /\ call[c].token \in Nat
  BY DEF ConsoleInv, ConsoleTypes, TabCall
<1>2. next \in TabCall
  BY <1>1, SentIs
<1>3. call' = [Console!Rest(c) EXCEPT ![c] = next]
  BY DEF Console!LoggedIn
<1>4. next.op = "me" /\ next.token = call[c].token /\ next.answer = "none"
  BY <1>1, SentIs
<1> HIDE DEF next
<1>5. call' \in [TabCalls -> TabCall] /\ call'[c] = next /\ OthersLeft(c)
  BY <1>2, <1>3, CallsLeft DEF ConsoleInv, ConsoleTypes
<1>6. /\ call[c].op = "login" /\ call[c].answer = "OK" /\ tab' = [tab EXCEPT !.token = call[c].token]
      /\ UNCHANGED <<sessions, disabled, clicks, reloads>>
  BY DEF Console!LoggedIn, Console!Handle
<1>7. /\ tab.token = 0 /\ tab.user = "none" /\ ~tab.denied /\ tab.data = "none"
      /\ call[c].token \in 1..Len(sessions)
  BY <1>6 DEF ConsoleInv, LoginIsAlone, ScreenIsOf, TokensAreGiven, ConsoleTypes
<1>8. tab'.token = call[c].token /\ tab'.user = "none" /\ tab'.denied = FALSE /\ tab'.data = "none"
  BY <1>6, <1>7 DEF ConsoleInv, ConsoleTypes
<1>9. ConsoleTypes'
  BY <1>5, <1>6, <1>7 DEF ConsoleInv, ConsoleTypes
<1> USE <1>4, <1>5, <1>6, <1>7, <1>8 DEF ConsoleInv, OthersLeft
<1>10. TokensAreGiven'
  BY DEF TokensAreGiven
<1>11. LoginIsAlone'
  BY DEF LoginIsAlone
<1>12. IdentityIsAwaited' /\ PageLoadsForUser'
  BY DEF IdentityIsAwaited, PageLoadsForUser
<1>13. ScreenIsOf' /\ AdministratorsLoad'
  BY DEF ScreenIsOf, AdministratorsLoad
<1> QED BY <1>9, <1>10, <1>11, <1>12, <1>13

(* The answer of /me is about the token of the tab.                         *)
LEMMA Identifying ==
  ASSUME NEW c \in TabCalls, ConsoleInv, Console!Identity(c)
  PROVE  ConsoleInv'
<1>1. /\ call[c].op = "me" /\ UNCHANGED <<sessions, disabled, clicks, reloads>>
      /\ call[c] \in TabCall /\ call[c].token \in 1..Len(sessions)
  BY DEF Console!Identity, Console!Handle, ConsoleInv, ConsoleTypes, TokensAreGiven
<1>2. CASE ~call[c].current
  BY <1>1, <1>2, CallEnds DEF Console!Identity
<1>3. CASE call[c].current /\ sessions[call[c].token].of \in Administrators
  <2> DEFINE next == Console!Sent("load", tab.token)
             holder == sessions[call[c].token].of
  <2>1. /\ tab.token = call[c].token /\ tab.user = "none" /\ ~tab.denied /\ tab.data = "none"
        /\ \A d \in TabCalls: call[d].op = "me" /\ call[d].current => d = c
    BY <1>1, <1>3 DEF ConsoleInv, IdentityIsAwaited, ScreenIsOf
  <2>2. next \in TabCall
    BY <1>1, <2>1, SentIs
  <2>3. /\ call' = [call EXCEPT ![c] = next]
        /\ tab' = [tab EXCEPT !.user = holder, !.denied = FALSE, !.data = "none"]
    BY <1>3 DEF Console!Identity, Console!Holder
  <2>4. next.op = "load" /\ next.token = tab.token /\ next.answer = "none"
    BY <1>1, <2>1, SentIs
  <2>5. holder \in Accounts
    BY <1>1, HolderIsAccount DEF ConsoleInv
  <2> HIDE DEF next
  <2>6. call' \in [TabCalls -> TabCall] /\ call'[c] = next /\ OthersStay(c)
    BY <2>2, <2>3, CallReplaced DEF ConsoleInv, ConsoleTypes
  <2>7. tab'.token = tab.token /\ tab'.user = holder /\ tab'.denied = FALSE /\ tab'.data = "none"
    BY <2>3 DEF ConsoleInv, ConsoleTypes
  <2>8. ConsoleTypes'
    BY <1>1, <2>3, <2>5, <2>6 DEF ConsoleInv, ConsoleTypes
  <2>9. /\ ConsoleInv /\ "none" \notin Accounts
    BY AdminAppAssumption DEF AdminAppAssumption
  <2> USE <1>1, <1>3, <2>1, <2>4, <2>5, <2>6, <2>7, <2>9 DEF ConsoleInv, OthersStay
  <2>10. TokensAreGiven'
    BY DEF TokensAreGiven
  <2>11. LoginIsAlone' /\ IdentityIsAwaited'
    BY DEF LoginIsAlone, IdentityIsAwaited
  <2>12. PageLoadsForUser'
    <3>1. \A d \in TabCalls: ~(call[d].op = "load" /\ call[d].current)
      <4> SUFFICES ASSUME NEW d \in TabCalls, call[d].op = "load", call[d].current PROVE FALSE
        OBVIOUS
      <4>1. sessions[call[d].token].of = "none" /\ call[d].token \in 1..Len(sessions)
        BY DEF PageLoadsForUser, TokensAreGiven
      <4> QED BY <4>1, HolderIsAccount
    <3> QED BY <3>1 DEF PageLoadsForUser
  <2>13. ScreenIsOf' /\ AdministratorsLoad'
    BY DEF ScreenIsOf, AdministratorsLoad
  <2> QED BY <2>8, <2>10, <2>11, <2>12, <2>13
<1>4. CASE call[c].current /\ sessions[call[c].token].of \notin Administrators
  <2>1. /\ tab.token = call[c].token /\ tab.user = "none" /\ ~tab.denied /\ tab.data = "none"
    BY <1>1, <1>4 DEF ConsoleInv, IdentityIsAwaited, ScreenIsOf
  <2>2. /\ call' = [call EXCEPT ![c] = Console!NoCall]
        /\ tab' = [tab EXCEPT !.user = "none", !.denied = TRUE]
    BY <1>4 DEF Console!Identity, Console!Holder
  <2>3. Console!NoCall \in TabCall
    BY DEF TabCall, Console!NoCall
  <2>4. call' \in [TabCalls -> TabCall] /\ call'[c] = Console!NoCall /\ OthersStay(c)
    BY <2>2, <2>3, CallReplaced DEF ConsoleInv, ConsoleTypes
  <2>5. call'[c].op = "none" /\ call'[c].token = 0
    BY <2>4 DEF Console!NoCall
  <2>6. tab'.token = tab.token /\ tab'.user = "none" /\ tab'.denied /\ tab'.data = "none"
    BY <2>1, <2>2 DEF ConsoleInv, ConsoleTypes
  <2>7. ConsoleTypes'
    BY <1>1, <2>2, <2>4 DEF ConsoleInv, ConsoleTypes
  <2>8. \A d \in TabCalls \ {c}: ~(call[d].op = "me" /\ call[d].current)
    BY <1>1, <1>4 DEF ConsoleInv, IdentityIsAwaited
  <2> USE <1>1, <1>4, <2>1, <2>4, <2>5, <2>6, <2>8 DEF ConsoleInv, OthersStay
  <2>9. TokensAreGiven'
    BY DEF TokensAreGiven
  <2>10. LoginIsAlone' /\ IdentityIsAwaited' /\ PageLoadsForUser'
    BY DEF LoginIsAlone, IdentityIsAwaited, PageLoadsForUser
  <2>11. ScreenIsOf' /\ AdministratorsLoad'
    BY DEF ScreenIsOf, AdministratorsLoad
  <2> QED BY <2>7, <2>9, <2>10, <2>11
<1> QED BY <1>2, <1>3, <1>4

LEMMA PageLoading ==
  ASSUME NEW c \in TabCalls, ConsoleInv, Console!Loaded(c)
  PROVE  ConsoleInv'
<1>1. /\ call[c].op = "load" /\ UNCHANGED <<sessions, disabled, clicks, reloads>>
      /\ call' = [call EXCEPT ![c] = Console!NoCall]
  BY DEF Console!Loaded, Console!Handle
<1>2. CASE tab' = tab
  BY <1>1, <1>2, CallEnds
<1>3. CASE tab' # tab
  <2>1. call[c].current /\ tab' = [tab EXCEPT !.data = sessions[call[c].token].of]
    BY <1>3 DEF Console!Loaded, Console!Holder
  <2>2. tab.user = sessions[call[c].token].of /\ tab.user \in Accounts \cup {"none"}
    BY <1>1, <2>1 DEF ConsoleInv, PageLoadsForUser, ConsoleTypes
  <2>3. Console!NoCall \in TabCall
    BY DEF TabCall, Console!NoCall
  <2>4. call' \in [TabCalls -> TabCall] /\ call'[c] = Console!NoCall /\ OthersStay(c)
    BY <1>1, <2>3, CallReplaced DEF ConsoleInv, ConsoleTypes
  <2>5. call'[c].op = "none" /\ call'[c].token = 0
    BY <2>4 DEF Console!NoCall
  <2>6. tab'.token = tab.token /\ tab'.user = tab.user /\ tab'.denied = tab.denied /\ tab'.data = tab.user
    BY <2>1, <2>2 DEF ConsoleInv, ConsoleTypes
  <2>7. ConsoleTypes'
    BY <1>1, <2>1, <2>2, <2>4 DEF ConsoleInv, ConsoleTypes
  <2> USE <1>1, <2>4, <2>5, <2>6 DEF ConsoleInv, OthersStay
  <2>8. TokensAreGiven'
    BY DEF TokensAreGiven, ConsoleTypes
  <2>9. LoginIsAlone' /\ IdentityIsAwaited' /\ PageLoadsForUser'
    BY DEF LoginIsAlone, IdentityIsAwaited, PageLoadsForUser
  <2>10. ScreenIsOf' /\ AdministratorsLoad'
    BY DEF ScreenIsOf, AdministratorsLoad
  <2> QED BY <2>7, <2>8, <2>9, <2>10
<1> QED BY <1>2, <1>3

LEMMA SettingPage ==
  ASSUME NEW c \in TabCalls, ConsoleInv, Console!SetPage(c)
  PROVE  ConsoleInv'
<1> DEFINE next == Console!Sent("load", tab.token)
<1>1. /\ tab.user # "none" /\ tab' = [tab EXCEPT !.data = "none"] /\ UNCHANGED <<sessions, disabled, reloads>>
      /\ call' = [Console!Rest(c) EXCEPT ![c] = next] /\ clicks' \in 0..MaxClicks
  <2>1. MaxClicks \in Nat
    BY AdminAppAssumption DEF AdminAppAssumption
  <2>2. clicks < MaxClicks /\ clicks' = clicks + 1 /\ clicks \in Nat
    BY <2>1 DEF Console!SetPage, Console!Click, ConsoleInv, ConsoleTypes
  <2>3. clicks' \in 0..MaxClicks
    BY <2>1, <2>2
  <2> QED BY <2>3 DEF Console!SetPage, Console!Click
<1>2. tab.token \in 1..Len(sessions) /\ tab.user = sessions[tab.token].of /\ tab.user \in Administrators
  BY <1>1 DEF ConsoleInv, ScreenIsOf, ConsoleTypes
<1>3. next \in TabCall
  BY <1>2, SentIs
<1>4. next.op = "load" /\ next.token = tab.token /\ next.answer = "none"
  BY <1>2, SentIs
<1> HIDE DEF next
<1>5. call' \in [TabCalls -> TabCall] /\ call'[c] = next /\ OthersLeft(c)
  BY <1>1, <1>3, CallsLeft DEF ConsoleInv, ConsoleTypes
<1>6. tab'.token = tab.token /\ tab'.user = tab.user /\ tab'.denied = tab.denied /\ tab'.data = "none"
  BY <1>1 DEF ConsoleInv, ConsoleTypes
<1>7. ConsoleTypes'
  BY <1>1, <1>5 DEF ConsoleInv, ConsoleTypes
<1> USE <1>1, <1>2, <1>4, <1>5, <1>6 DEF ConsoleInv, OthersLeft
<1>8. TokensAreGiven'
  BY DEF TokensAreGiven
<1>9. LoginIsAlone' /\ IdentityIsAwaited' /\ PageLoadsForUser'
  BY DEF LoginIsAlone, IdentityIsAwaited, PageLoadsForUser
<1>10. ScreenIsOf' /\ AdministratorsLoad'
  BY DEF ScreenIsOf, AdministratorsLoad
<1> QED BY <1>7, <1>8, <1>9, <1>10

LEMMA ClickingSignOut ==
  ASSUME NEW c \in TabCalls, ConsoleInv, Console!ClickSignOut(c)
  PROVE  ConsoleInv'
<1> DEFINE next == Console!Sent("logout", tab.token)
<1>1. /\ (tab.user # "none" \/ tab.denied) /\ UNCHANGED <<sessions, disabled, tab, reloads>>
      /\ call' = [call EXCEPT ![c] = next] /\ clicks' \in 0..MaxClicks
  <2>1. MaxClicks \in Nat
    BY AdminAppAssumption DEF AdminAppAssumption
  <2>2. clicks < MaxClicks /\ clicks' = clicks + 1 /\ clicks \in Nat
    BY <2>1 DEF Console!ClickSignOut, Console!Click, ConsoleInv, ConsoleTypes
  <2>3. clicks' \in 0..MaxClicks
    BY <2>1, <2>2
  <2> QED BY <2>3 DEF Console!ClickSignOut, Console!Click
<1>2. tab.token \in 1..Len(sessions)
  BY <1>1 DEF ConsoleInv, ScreenIsOf, ConsoleTypes
<1>3. next \in TabCall
  BY <1>2, SentIs
<1>4. next.op = "logout" /\ next.token = tab.token /\ next.answer = "none"
  BY <1>2, SentIs
<1> HIDE DEF next
<1>5. call' \in [TabCalls -> TabCall] /\ call'[c] = next /\ OthersStay(c)
  BY <1>1, <1>3, CallReplaced DEF ConsoleInv, ConsoleTypes
<1>6. ConsoleTypes'
  BY <1>1, <1>5 DEF ConsoleInv, ConsoleTypes
<1> USE <1>1, <1>2, <1>4, <1>5 DEF ConsoleInv, OthersStay
<1>7. TokensAreGiven'
  BY DEF TokensAreGiven
<1>8. LoginIsAlone' /\ IdentityIsAwaited' /\ PageLoadsForUser' /\ ScreenIsOf' /\ AdministratorsLoad'
  BY DEF LoginIsAlone, IdentityIsAwaited, PageLoadsForUser, ScreenIsOf, AdministratorsLoad
<1> QED BY <1>6, <1>7, <1>8

LEMMA Reloading ==
  ASSUME NEW c \in TabCalls, ConsoleInv, Console!Reload(c)
  PROVE  ConsoleInv'
<1>1. /\ tab' = [token |-> tab.token, user |-> "none", denied |-> FALSE, data |-> "none"]
      /\ UNCHANGED <<sessions, disabled, clicks>> /\ reloads' \in 0..MaxReloads
  <2>1. MaxReloads \in Nat
    BY AdminAppAssumption DEF AdminAppAssumption
  <2>2. reloads' \in 0..MaxReloads
    BY <2>1 DEF Console!Reload, ConsoleInv, ConsoleTypes
  <2> QED BY <2>2 DEF Console!Reload, Console!SignedOut
<1>2. tab.token \in 0..Len(sessions) /\ Len(sessions) \in Nat
  BY DEF ConsoleInv, ConsoleTypes
<1>3. /\ call' \in [TabCalls -> TabCall]
      /\ \A d \in TabCalls: \/ d = c /\ tab.token # 0 /\ call'[d].op = "me" /\ call'[d].token = tab.token
                            \/ call'[d].op = "none" /\ call'[d].token = 0
  <2>1. Console!NoCall \in TabCall /\ Console!NoCall.op = "none" /\ Console!NoCall.token = 0
    BY DEF TabCall, Console!NoCall
  <2>2. /\ Console!Sent("me", tab.token) \in TabCall /\ Console!Sent("me", tab.token).op = "me"
        /\ Console!Sent("me", tab.token).token = tab.token
    BY <1>2, SentIs
  <2> QED BY <2>1, <2>2 DEF Console!Reload
<1>4. ConsoleTypes'
  BY <1>1, <1>2, <1>3 DEF ConsoleInv, ConsoleTypes
<1>5. TokensAreGiven' /\ LoginIsAlone'
  BY <1>1, <1>2, <1>3 DEF TokensAreGiven, LoginIsAlone
<1>6. IdentityIsAwaited' /\ PageLoadsForUser' /\ AdministratorsLoad'
  BY <1>1, <1>2, <1>3 DEF IdentityIsAwaited, PageLoadsForUser, AdministratorsLoad
<1>7. ScreenIsOf'
  BY <1>1 DEF ScreenIsOf
<1> QED BY <1>4, <1>5, <1>6, <1>7 DEF ConsoleInv

(* An answer is put into a call.                                            *)
LEMMA AnswerIsPut ==
  ASSUME ConsoleTypes, NEW c \in TabCalls, NEW answer \in {"OK", "401", "ERROR"}, Console!Answer(c, answer)
  PROVE  /\ call' \in [TabCalls -> TabCall] /\ OthersStay(c)
         /\ call'[c].op = call[c].op /\ call'[c].token = call[c].token /\ call'[c].as = call[c].as
         /\ call'[c].current = call[c].current /\ call'[c].answer = answer
<1> DEFINE next == [call[c] EXCEPT !.answer = answer]
<1>1. call[c] \in TabCall
  BY DEF ConsoleTypes
<1>2. /\ next \in TabCall /\ next.op = call[c].op /\ next.token = call[c].token /\ next.as = call[c].as
      /\ next.current = call[c].current /\ next.answer = answer
  BY <1>1 DEF TabCall
<1>3. call' = [call EXCEPT ![c] = next]
  BY DEF Console!Answer
<1> HIDE DEF next
<1> QED BY <1>2, <1>3, CallReplaced DEF ConsoleTypes

LEMMA SessionsStay ==
  ASSUME ConsoleTypes, sessions' = sessions
  PROVE  SessionsKeep
BY DEF ConsoleTypes, SessionsKeep

(* A session is closed, its holder stays.                                   *)
LEMMA SessionIsClosed ==
  ASSUME ConsoleTypes, NEW t \in 1..Len(sessions), sessions' = [sessions EXCEPT ![t].valid = FALSE]
  PROVE  SessionsKeep
<1> DEFINE closed == [sessions[t] EXCEPT !.valid = FALSE]
<1>1. sessions[t] \in Session /\ sessions \in Seq(Session)
  BY DEF ConsoleTypes
<1>2. closed \in Session /\ closed.of = sessions[t].of
  BY <1>1 DEF Session
<1>3. sessions' = [sessions EXCEPT ![t] = closed]
  OBVIOUS
<1> HIDE DEF closed
<1>4. sessions' \in Seq(Session) /\ Len(sessions') = Len(sessions)
  <2>1. sessions \in [1..Len(sessions) -> Session] /\ Len(sessions) \in Nat
    BY <1>1
  <2>2. sessions' \in [1..Len(sessions) -> Session]
    BY <1>2, <1>3, <2>1
  <2> QED BY <2>1, <2>2
<1>5. \A u \in 1..Len(sessions): sessions'[u].of = sessions[u].of
  BY <1>1, <1>2, <1>3
<1>6. Len(sessions) \in Nat /\ Len(sessions) <= MaxLogins
  BY DEF ConsoleTypes
<1> QED BY <1>4, <1>5, <1>6 DEF SessionsKeep

LEMMA LoginServed ==
  ASSUME NEW c \in TabCalls, ConsoleInv, Console!ServeLogin(c)
  PROVE  ConsoleInv'
<1>1. ConsoleTypes /\ call[c] \in TabCall /\ call[c].op = "login" /\ UNCHANGED <<tab, clicks, reloads, disabled>>
  BY DEF ConsoleInv, ConsoleTypes, Console!ServeLogin, Console!Waiting
<1>2. CASE Console!Answer(c, "401") /\ UNCHANGED sessions
  <2>1. SessionsKeep
    BY <1>1, <1>2, SessionsStay
  <2>2. /\ call' \in [TabCalls -> TabCall] /\ OthersStay(c)
        /\ call'[c].op = call[c].op /\ call'[c].token = call[c].token /\ call'[c].as = call[c].as
        /\ call'[c].current = call[c].current /\ call'[c].answer = "401"
    BY <1>1, <1>2, AnswerIsPut
  <2> QED BY <1>1, <2>1, <2>2, ServerAnswers DEF ConsoleTypes
<1>3. CASE /\ Len(sessions) < MaxLogins
           /\ sessions' = Append(sessions, [of |-> call[c].as, valid |-> TRUE])
           /\ call' = [call EXCEPT ![c] = [@ EXCEPT !.token = Len(sessions'), !.answer = "OK"]]
  <2> DEFINE new == [of |-> call[c].as, valid |-> TRUE]
             next == [call[c] EXCEPT !.token = Len(sessions'), !.answer = "OK"]
  <2>1. new \in Session
    <3>1. call[c].as \in Accounts
      BY <1>1 DEF ConsoleInv, LoginIsAlone
    <3> QED BY <3>1 DEF Session
  <2>2. sessions \in Seq(Session) /\ Len(sessions) \in Nat /\ MaxLogins \in Nat
    <3>1. sessions \in Seq(Session)
      BY <1>1 DEF ConsoleTypes
    <3>2. MaxLogins \in Nat
      BY AdminAppAssumption DEF AdminAppAssumption
    <3> QED BY <3>1, <3>2
  <2>3. sessions' = Append(sessions, new)
    BY <1>3
  <2> HIDE DEF new
  <2>4. sessions' \in Seq(Session) /\ Len(sessions') = Len(sessions) + 1
    BY <2>1, <2>2, <2>3
  <2>5. \A t \in 1..Len(sessions): sessions'[t] = sessions[t]
    BY <2>1, <2>2, <2>3
  <2>6. SessionsKeep
    BY <1>3, <2>2, <2>4, <2>5 DEF SessionsKeep
  <2>7. /\ next \in TabCall /\ next.op = call[c].op /\ next.as = call[c].as /\ next.current = call[c].current
        /\ next.token = Len(sessions')
    <3>1. Len(sessions') \in Nat /\ call[c] \in TabCall
      BY <1>1, <2>2, <2>4
    <3> QED BY <3>1 DEF TabCall
  <2>8. call' = [call EXCEPT ![c] = next]
    BY <1>3
  <2> HIDE DEF next
  <2>9. call' \in [TabCalls -> TabCall] /\ call'[c] = next /\ OthersStay(c)
    BY <1>1, <2>7, <2>8, CallReplaced DEF ConsoleTypes
  <2>10. call'[c].token \in 1..Len(sessions')
    BY <2>2, <2>4, <2>7, <2>9
  <2>11. disabled' \subseteq Accounts
    BY <1>1 DEF ConsoleTypes
  <2> QED BY <1>1, <2>6, <2>7, <2>9, <2>10, <2>11, ServerAnswers
<1> QED BY <1>2, <1>3 DEF Console!ServeLogin

LEMMA RequestServed ==
  ASSUME NEW c \in TabCalls, ConsoleInv, Console!Serve(c) \/ Console!Lose(c)
  PROVE  ConsoleInv'
<1>1. ConsoleTypes /\ UNCHANGED <<tab, clicks, reloads, disabled>>
  BY DEF ConsoleInv, Console!Serve, Console!Lose, Console!Waiting
<1>2. SessionsKeep
  <2>1. CASE UNCHANGED sessions
    BY <1>1, <2>1, SessionsStay
  <2>2. CASE sessions' # sessions
    <3>1. call[c].op \in {"me", "load", "logout"} /\ sessions' = [sessions EXCEPT ![call[c].token].valid = FALSE]
      BY <2>2 DEF Console!Serve, Console!Lose, Console!Waiting
    <3>2. call[c].token \in 1..Len(sessions)
      BY <1>1, <3>1 DEF ConsoleInv, TokensAreGiven, ConsoleTypes
    <3> QED BY <1>1, <3>1, <3>2, SessionIsClosed
  <2> QED BY <2>1, <2>2
<1>3. PICK answer \in {"OK", "401", "ERROR"}:
        Console!Answer(c, answer) /\ (answer = "OK" => call[c].op # "login")
  BY DEF Console!Serve, Console!Lose, Console!Waiting
<1>4. /\ call' \in [TabCalls -> TabCall] /\ OthersStay(c)
      /\ call'[c].op = call[c].op /\ call'[c].token = call[c].token /\ call'[c].as = call[c].as
      /\ call'[c].current = call[c].current /\ call'[c].answer = answer
  BY <1>1, <1>3, AnswerIsPut
<1>5. disabled' \subseteq Accounts
  BY <1>1 DEF ConsoleTypes
<1> QED BY <1>1, <1>2, <1>3, <1>4, <1>5, ServerAnswers

LEMMA AccountDisabled ==
  ASSUME NEW a \in Accounts, ConsoleInv, Console!Disable(a)
  PROVE  ConsoleInv'
<1>1. ConsoleTypes /\ UNCHANGED <<tab, call, clicks, reloads>> /\ disabled' \subseteq Accounts
  BY DEF ConsoleInv, ConsoleTypes, Console!Disable
<1> DEFINE closed(t) == [sessions[t] EXCEPT !.valid = @ /\ sessions[t].of # a]
<1>2. sessions \in Seq(Session) /\ Len(sessions) \in Nat /\ DOMAIN sessions = 1..Len(sessions)
  BY <1>1 DEF ConsoleTypes
<1>3. \A t \in 1..Len(sessions): closed(t) \in Session /\ closed(t).of = sessions[t].of
  <2> SUFFICES ASSUME NEW t \in 1..Len(sessions) PROVE closed(t) \in Session /\ closed(t).of = sessions[t].of
    OBVIOUS
  <2>1. sessions[t] \in Session
    BY <1>2
  <2> QED BY <2>1 DEF Session
<1>4. sessions' = [t \in 1..Len(sessions) |-> closed(t)]
  BY <1>2 DEF Console!Disable
<1> HIDE DEF closed
<1>5. sessions' \in Seq(Session) /\ Len(sessions') = Len(sessions)
  BY <1>2, <1>3, <1>4
<1>6. SessionsKeep
  BY <1>1, <1>2, <1>3, <1>4, <1>5 DEF SessionsKeep, ConsoleTypes
<1> USE <1>1, <1>2, <1>5, <1>6 DEF ConsoleInv, SessionsKeep
<1>7. ConsoleTypes'
  BY DEF ConsoleTypes
<1>8. TokensAreGiven' /\ LoginIsAlone' /\ IdentityIsAwaited'
  BY DEF TokensAreGiven, LoginIsAlone, IdentityIsAwaited
<1>9. PageLoadsForUser'
  BY DEF PageLoadsForUser, TokensAreGiven
<1>10. ScreenIsOf'
  BY DEF ScreenIsOf, ConsoleTypes
<1>11. AdministratorsLoad'
  BY DEF AdministratorsLoad, TokensAreGiven
<1> QED BY <1>7, <1>8, <1>9, <1>10, <1>11

LEMMA ConsoleSteps ==
  ASSUME ConsoleInv, [Console!Next]_console
  PROVE  ConsoleInv'
<1>1. CASE UNCHANGED console
  BY <1>1 DEF console, ConsoleInv, ConsoleTypes, TokensAreGiven, LoginIsAlone, IdentityIsAwaited, PageLoadsForUser,
     ScreenIsOf, AdministratorsLoad
<1>2. ASSUME NEW a \in Accounts, Console!Disable(a) PROVE ConsoleInv'
  BY <1>2, AccountDisabled
<1>3. ASSUME NEW c \in TabCalls, Console!Served(c) PROVE ConsoleInv'
  BY <1>3, LoginServed, RequestServed DEF Console!Served
<1>4. ASSUME NEW c \in TabCalls, Console!Handled(c) PROVE ConsoleInv'
  <2>1. CASE Console!LoggedIn(c)
    BY <2>1, LoggingIn
  <2>2. CASE Console!LoginFailed(c)
    BY <2>2, CallEnds DEF Console!LoginFailed, Console!Handle
  <2>3. CASE Console!Identity(c)
    BY <2>3, Identifying
  <2>4. CASE Console!NoIdentity(c)
    BY <2>4, CallEnds, SigningOut DEF Console!NoIdentity, Console!Handle
  <2>5. CASE Console!AuthenticationLoss(c)
    BY <2>5, SigningOut DEF Console!AuthenticationLoss, Console!Handle
  <2>6. CASE Console!Loaded(c)
    BY <2>6, PageLoading
  <2>7. CASE Console!LoggedOut(c)
    BY <2>7, SigningOut DEF Console!LoggedOut, Console!Handle
  <2> QED BY <1>4, <2>1, <2>2, <2>3, <2>4, <2>5, <2>6, <2>7 DEF Console!Handled
<1>5. ASSUME NEW c \in TabCalls, NEW a \in Accounts, Console!SubmitLogin(c, a) PROVE ConsoleInv'
  BY <1>5, SubmittingLogin
<1>6. ASSUME NEW c \in TabCalls, Console!SetPage(c) PROVE ConsoleInv'
  BY <1>6, SettingPage
<1>7. ASSUME NEW c \in TabCalls, Console!ClickSignOut(c) PROVE ConsoleInv'
  BY <1>7, ClickingSignOut
<1>8. ASSUME NEW c \in TabCalls, Console!Reload(c) PROVE ConsoleInv'
  BY <1>8, Reloading
<1> QED BY <1>1, <1>2, <1>3, <1>4, <1>5, <1>6, <1>7, <1>8 DEF Console!Next

LEMMA ConsoleIsRight ==
  ASSUME ConsoleInv
  PROVE  Console!TypeOK /\ Console!ScreenIsOfSession /\ Console!MembersLoadNothing
<1>1. \A c \in TabCalls: call[c] \in TabCall
  BY DEF ConsoleInv, ConsoleTypes
<1>2. sessions \in Seq([of: Accounts, valid: BOOLEAN])
  BY DEF ConsoleInv, ConsoleTypes, Session
<1>3. \A c \in TabCalls:
        /\ call[c].op \in {"none", "login", "me", "load", "logout"} /\ call[c].token \in 0..Len(sessions)
        /\ call[c].answer \in {"none", "OK", "401", "ERROR"}
        /\ call[c].op = "login" => tab.token = 0
  BY <1>1 DEF TabCall, ConsoleInv, TokensAreGiven, LoginIsAlone
<1>4. Console!TypeOK
  BY <1>2, <1>3 DEF ConsoleInv, ConsoleTypes, Console!TypeOK
<1> QED BY <1>4 DEF ConsoleInv, ScreenIsOf, AdministratorsLoad, Console!ScreenIsOfSession, Console!MembersLoadNothing,
        Console!Holder

(***************************************************************************)
(* The Employees page.                                                     *)
(***************************************************************************)

AccountStates == [Employees -> Staff!Status]
Snapshot == [status: AccountStates \cup {<<>>}, changes: 0..MaxChanges]

PageCall == [op: {"none", "people", "overrides", "change"}, on: Employees \cup {"none"},
             status: Staff!Status, current: BOOLEAN, answer: {"none", "OK", "ERROR"}, read: Snapshot]

EmployeesTypes ==
  /\ accounts \in [status: AccountStates, changes: 0..MaxChanges]
  /\ people \in [value: Snapshot, loading: BOOLEAN, error: BOOLEAN]
  /\ overrides \in [of: Employees \cup {"none"}, loading: BOOLEAN, error: BOOLEAN]
  /\ selected \in [id: Employees, status: Staff!Status] \cup {Staff!Nobody}
  /\ panel \in [confirm: BOOLEAN, reason: BOOLEAN, busy: BOOLEAN]
  /\ own \in 0..accounts.changes /\ presses \in 0..MaxPresses
  /\ request \in [PageCalls -> PageCall]

(* What a call has read is of the past, and a list has every employee.      *)
ReadsAreOfPast ==
  \A c \in PageCalls:
    /\ request[c].read.changes <= accounts.changes
    /\ request[c].op = "people" /\ request[c].answer = "OK" => request[c].read.status \in AccountStates

(* A list that will be shown has been read after the page's own change.     *)
OwnChangeIsRead ==
  /\ \A c \in PageCalls:
       request[c].op = "people" /\ request[c].current /\ request[c].answer = "OK" => request[c].read.changes >= own
  /\ ~people.loading /\ ~people.error => people.value.changes >= own

SelectedIsListed ==
  selected # Staff!Nobody =>
    people.value.status \in AccountStates /\ selected.status = people.value.status[selected.id]

OverridesOfSelected ==
  /\ \A c \in PageCalls: request[c].op = "overrides" /\ request[c].current =>
       selected # Staff!Nobody /\ request[c].on = selected.id
  /\ selected # Staff!Nobody /\ ~overrides.loading /\ ~overrides.error => overrides.of = selected.id

(* One change is on its way while the panel is busy, and none otherwise.    *)
ChangeIsAlone ==
  /\ panel.busy <=> \E c \in PageCalls: request[c].op = "change"
  /\ \A c, d \in PageCalls: request[c].op = "change" /\ request[d].op = "change" => c = d

EmployeesInv ==
  /\ EmployeesTypes /\ ReadsAreOfPast /\ OwnChangeIsRead /\ SelectedIsListed /\ OverridesOfSelected
  /\ ChangeIsAlone

RequestsStay(c) == \A d \in PageCalls \ {c}: request'[d] = request[d]

(* The calls of the hook that reads again are not current any more.         *)
RequestsLeft(c, op) == \A d \in PageCalls \ {c}:
  /\ request'[d].op = request[d].op /\ request'[d].on = request[d].on
  /\ request'[d].answer = request[d].answer /\ request'[d].read = request[d].read
  /\ IF request[d].op = op THEN ~request'[d].current ELSE request'[d].current = request[d].current

LEMMA NothingAsked ==
  /\ Staff!NoCall \in PageCall /\ Staff!NoCall.op = "none" /\ Staff!NoCall.read = [status |-> <<>>, changes |-> 0]
  /\ Staff!NoCall.read \in Snapshot /\ Staff!NoCall.read.changes = 0
<1>1. MaxChanges \in Nat
  BY AdminAppAssumption DEF AdminAppAssumption
<1>2. Staff!NoCall.read = [status |-> <<>>, changes |-> 0] /\ Staff!NoCall.op = "none"
  BY DEF Staff!NoCall
<1>3. Staff!NoCall.read \in Snapshot
  BY <1>1, <1>2 DEF Snapshot
<1>4. Staff!NoCall.on = "none" /\ Staff!NoCall.status \in Staff!Status /\ Staff!NoCall.current = FALSE
      /\ Staff!NoCall.answer = "none"
  BY DEF Staff!NoCall, Staff!Status
<1> DEFINE read == [status |-> <<>>, changes |-> 0]
<1>5. Staff!NoCall = [op |-> "none", on |-> "none", status |-> "ACTIVE", current |-> FALSE,
                      answer |-> "none", read |-> read]
  BY DEF Staff!NoCall
<1>6. read \in Snapshot
  BY <1>2, <1>3
<1> HIDE DEF read
<1>7. Staff!NoCall \in PageCall
  BY <1>5, <1>6 DEF PageCall, Staff!Status
<1> QED BY <1>2, <1>3, <1>7

(* What a hook asks.                                                        *)
LEMMA AskedIs ==
  ASSUME NEW op \in {"people", "overrides", "change"}, NEW on \in Employees \cup {"none"}
  PROVE  /\ Staff!Asked(op, on) \in PageCall
         /\ Staff!Asked(op, on).op = op /\ Staff!Asked(op, on).on = on
         /\ Staff!Asked(op, on).answer = "none" /\ Staff!Asked(op, on).read.changes = 0
<1> HIDE DEF Staff!NoCall
<1> USE NothingAsked
<1>1. Staff!Asked(op, on) = [Staff!NoCall EXCEPT !.op = op, !.on = on, !.current = TRUE]
  BY DEF Staff!Asked
<1>2. /\ Staff!Asked(op, on) \in PageCall
      /\ Staff!Asked(op, on).op = op /\ Staff!Asked(op, on).on = on
      /\ Staff!Asked(op, on).current = TRUE /\ Staff!Asked(op, on).read = Staff!NoCall.read
      /\ Staff!Asked(op, on).answer = Staff!NoCall.answer
  BY <1>1 DEF PageCall
<1>3. Staff!NoCall.answer = "none"
  BY DEF Staff!NoCall
<1> QED BY <1>2, <1>3

LEMMA RequestReplaced ==
  ASSUME request \in [PageCalls -> PageCall], NEW c \in PageCalls, NEW next \in PageCall,
         request' = [request EXCEPT ![c] = next]
  PROVE  request' \in [PageCalls -> PageCall] /\ request'[c] = next /\ RequestsStay(c)
BY DEF RequestsStay

LEMMA ListReadAgain ==
  ASSUME request \in [PageCalls -> PageCall], NEW c \in PageCalls, NEW op, op \in {"people", "overrides"},
         NEW on, on \in Employees \cup {"none"}, request' = Staff!Reload(request, c, op, on)
  PROVE  /\ request' \in [PageCalls -> PageCall] /\ RequestsLeft(c, op)
         /\ request'[c].op = op /\ request'[c].on = on /\ request'[c].answer = "none"
         /\ request'[c].read.changes = 0
<1> DEFINE left(d) == [request[d] EXCEPT !.current = FALSE]
<1>1. \A d \in PageCalls: /\ left(d) \in PageCall /\ left(d).op = request[d].op /\ left(d).on = request[d].on
                          /\ left(d).answer = request[d].answer /\ left(d).read = request[d].read
                          /\ left(d).current = FALSE
  <2> SUFFICES ASSUME NEW d \in PageCalls
               PROVE  /\ left(d) \in PageCall /\ left(d).op = request[d].op /\ left(d).on = request[d].on
                      /\ left(d).answer = request[d].answer /\ left(d).read = request[d].read
                      /\ left(d).current = FALSE
    OBVIOUS
  <2>1. request[d] \in PageCall
    OBVIOUS
  <2> QED BY <2>1 DEF PageCall
<1>2. request' = [d \in PageCalls |-> IF d = c THEN Staff!Asked(op, on)
                                      ELSE IF request[d].op = op THEN left(d) ELSE request[d]]
  BY DEF Staff!Reload
<1> HIDE DEF left
<1>3. Staff!Asked(op, on) \in PageCall
  BY AskedIs
<1>4. request' \in [PageCalls -> PageCall]
  BY <1>1, <1>2, <1>3
<1>5. request'[c] = Staff!Asked(op, on)
  BY <1>2
<1>6. RequestsLeft(c, op)
  BY <1>1, <1>2 DEF RequestsLeft
<1>7. /\ Staff!Asked(op, on).op = op /\ Staff!Asked(op, on).on = on
      /\ Staff!Asked(op, on).answer = "none" /\ Staff!Asked(op, on).read.changes = 0
  <2>1. op \in {"people", "overrides", "change"}
    OBVIOUS
  <2> QED BY <2>1, AskedIs
<1>8. /\ request'[c].op = op /\ request'[c].on = on /\ request'[c].answer = "none"
      /\ request'[c].read.changes = 0
  BY <1>5, <1>7
<1> QED BY <1>4, <1>6, <1>8

LEMMA EmployeesStart == Staff!Init => EmployeesInv
<1> SUFFICES ASSUME Staff!Init PROVE EmployeesInv
  OBVIOUS
<1>1. MaxChanges \in Nat /\ MaxPresses \in Nat
  BY AdminAppAssumption DEF AdminAppAssumption
<1>2. PICK c \in PageCalls: request = Staff!Reload([d \in PageCalls |-> Staff!NoCall], c, "people", "none")
  BY DEF Staff!Init
<1>3. /\ request \in [PageCalls -> PageCall]
      /\ \A d \in PageCalls: /\ request[d].read.changes = 0 /\ request[d].op \in {"none", "people"}
                             /\ request[d].op = "people" => request[d].answer = "none"
  <2> DEFINE nothing == [d \in PageCalls |-> Staff!NoCall]
  <2>1. \A d \in PageCalls: nothing[d] = Staff!NoCall
    OBVIOUS
  <2>2. request = [d \in PageCalls |-> IF d = c THEN Staff!Asked("people", "none") ELSE Staff!NoCall]
    BY <1>2, <2>1, NothingAsked DEF Staff!Reload
  <2> HIDE DEF nothing
  <2>3. /\ Staff!Asked("people", "none") \in PageCall /\ Staff!Asked("people", "none").op = "people"
        /\ Staff!Asked("people", "none").answer = "none" /\ Staff!Asked("people", "none").read.changes = 0
    BY AskedIs
  <2>4. request \in [PageCalls -> PageCall]
    BY <2>2, <2>3, NothingAsked
  <2> QED BY <2>2, <2>3, <2>4, NothingAsked
<1>4. /\ accounts = [status |-> [e \in Employees |-> "ACTIVE"], changes |-> 0]
      /\ people = [value |-> Staff!NoCall.read, loading |-> TRUE, error |-> FALSE]
      /\ overrides = [of |-> "none", loading |-> TRUE, error |-> FALSE]
      /\ selected = Staff!Nobody /\ own = 0 /\ presses = 0
      /\ panel = [confirm |-> FALSE, reason |-> FALSE, busy |-> FALSE]
  BY DEF Staff!Init
<1>5. EmployeesTypes
  <2>1. accounts \in [status: AccountStates, changes: 0..MaxChanges] /\ accounts.changes = 0
    BY <1>1, <1>4 DEF AccountStates, Staff!Status
  <2>2. people \in [value: Snapshot, loading: BOOLEAN, error: BOOLEAN]
    BY <1>4, NothingAsked
  <2> QED BY <1>1, <1>3, <1>4, <2>1, <2>2 DEF EmployeesTypes
<1>6. ReadsAreOfPast /\ OwnChangeIsRead
  BY <1>3, <1>4 DEF ReadsAreOfPast, OwnChangeIsRead
<1>7. SelectedIsListed /\ OverridesOfSelected
  BY <1>3, <1>4 DEF SelectedIsListed, OverridesOfSelected
<1>8. ChangeIsAlone
  BY <1>3, <1>4 DEF ChangeIsAlone
<1> QED BY <1>5, <1>6, <1>7, <1>8 DEF EmployeesInv

(* The API answers, and the accounts may change: the page stays.            *)
LEMMA EmployeesServed ==
  ASSUME NEW c \in PageCalls, EmployeesInv, UNCHANGED <<people, overrides, selected, panel, own, presses>>,
         accounts' \in [status: AccountStates, changes: 0..MaxChanges], accounts'.changes >= accounts.changes,
         request' \in [PageCalls -> PageCall], RequestsStay(c),
         request'[c].op = request[c].op, request'[c].on = request[c].on, request'[c].current = request[c].current,
         request'[c].read.changes <= accounts'.changes,
         request[c].op = "people" /\ request'[c].answer = "OK" =>
           request'[c].read.status \in AccountStates /\ request'[c].read.changes >= own
  PROVE  EmployeesInv'
<1>1. /\ accounts.changes \in Nat /\ accounts'.changes \in Nat /\ own \in 0..accounts.changes
      /\ \A d \in PageCalls: request[d].read.changes \in Nat
  <2>1. \A d \in PageCalls: request[d] \in PageCall
    BY DEF EmployeesInv, EmployeesTypes
  <2>2. \A d \in PageCalls: request[d].read \in Snapshot
    BY <2>1 DEF PageCall
  <2>3. \A d \in PageCalls: request[d].read.changes \in 0..MaxChanges
    BY <2>2 DEF Snapshot
  <2>4. accounts.changes \in 0..MaxChanges /\ accounts'.changes \in 0..MaxChanges /\ own \in 0..accounts.changes
    BY DEF EmployeesInv, EmployeesTypes
  <2> QED BY <2>3, <2>4
<1> USE <1>1 DEF EmployeesInv, RequestsStay
<1>2. EmployeesTypes'
  BY DEF EmployeesTypes
<1>3. ReadsAreOfPast'
  BY DEF ReadsAreOfPast
<1>4. OwnChangeIsRead'
  BY DEF OwnChangeIsRead
<1>5. SelectedIsListed' /\ OverridesOfSelected'
  BY DEF SelectedIsListed, OverridesOfSelected
<1>6. ChangeIsAlone'
  BY DEF ChangeIsAlone
<1> QED BY <1>2, <1>3, <1>4, <1>5, <1>6

(* The types of what the steps take from each other.                        *)
LEMMA EmployeesFacts ==
  ASSUME EmployeesInv
  PROVE  /\ accounts.status \in AccountStates /\ accounts.changes \in 0..MaxChanges /\ MaxChanges \in Nat
         /\ accounts \in Snapshot /\ own \in 0..accounts.changes
         /\ \A c \in PageCalls: /\ request[c] \in PageCall /\ request[c].read \in Snapshot
                                /\ request[c].read.changes \in 0..accounts.changes
                                /\ request[c].on \in Employees \cup {"none"} /\ request[c].status \in Staff!Status
                                /\ request[c].op \in {"none", "people", "overrides", "change"}
<1>1. MaxChanges \in Nat
  BY AdminAppAssumption DEF AdminAppAssumption
<1>2. accounts \in [status: AccountStates, changes: 0..MaxChanges] /\ own \in 0..accounts.changes
  BY DEF EmployeesInv, EmployeesTypes
<1>3. accounts \in Snapshot
  BY <1>2 DEF Snapshot
<1>4. \A c \in PageCalls: request[c] \in PageCall
  BY DEF EmployeesInv, EmployeesTypes
<1>5. \A c \in PageCalls: /\ request[c].read \in Snapshot
                          /\ request[c].on \in Employees \cup {"none"} /\ request[c].status \in Staff!Status
                          /\ request[c].op \in {"none", "people", "overrides", "change"}
  BY <1>4 DEF PageCall
<1>6. \A c \in PageCalls: request[c].read.changes \in 0..MaxChanges
  BY <1>5 DEF Snapshot
<1>7. \A c \in PageCalls: request[c].read.changes <= accounts.changes
  BY DEF EmployeesInv, ReadsAreOfPast
<1>8. \A c \in PageCalls: request[c].read.changes \in 0..accounts.changes
  BY <1>1, <1>2, <1>6, <1>7
<1> QED BY <1>1, <1>2, <1>3, <1>4, <1>5, <1>8

LEMMA AccountChanged ==
  ASSUME EmployeesInv, NEW e, NEW status \in Staff!Status, Staff!Changed(e, status)
  PROVE  /\ accounts' \in [status: AccountStates, changes: 0..MaxChanges]
         /\ accounts'.changes = accounts.changes + 1
<1> DEFINE states == [accounts.status EXCEPT ![e] = status]
<1>1. states \in AccountStates
  BY EmployeesFacts DEF AccountStates
<1>2. accounts.changes < MaxChanges /\ accounts' = [status |-> states, changes |-> accounts.changes + 1]
  BY DEF Staff!Changed
<1> HIDE DEF states
<1>3. accounts.changes + 1 \in 0..MaxChanges
  BY <1>2, EmployeesFacts
<1> QED BY <1>1, <1>2, <1>3

LEMMA ReadServed ==
  ASSUME NEW c \in PageCalls, EmployeesInv, Staff!ServeRead(c)
  PROVE  EmployeesInv'
<1> DEFINE next == [request[c] EXCEPT !.answer = "OK", !.read = accounts]
<1>1. UNCHANGED <<accounts, people, overrides, selected, panel, own, presses>> /\ request' = [request EXCEPT ![c] = next]
  BY DEF Staff!ServeRead, Staff!Waiting
<1>2. /\ next \in PageCall /\ next.op = request[c].op /\ next.on = request[c].on
      /\ next.current = request[c].current /\ next.read = accounts
  BY EmployeesFacts DEF PageCall
<1> HIDE DEF next
<1>3. request' \in [PageCalls -> PageCall] /\ request'[c] = next /\ RequestsStay(c)
  BY <1>1, <1>2, RequestReplaced DEF EmployeesInv, EmployeesTypes
<1>4. /\ request'[c].op = request[c].op /\ request'[c].on = request[c].on
      /\ request'[c].current = request[c].current /\ request'[c].read = accounts
  BY <1>2, <1>3
<1>5. /\ accounts' = accounts /\ accounts \in [status: AccountStates, changes: 0..MaxChanges]
      /\ accounts.changes >= accounts.changes /\ accounts.changes >= own /\ accounts.changes <= accounts.changes
  BY <1>1, EmployeesFacts DEF EmployeesInv, EmployeesTypes
<1> QED BY <1>1, <1>3, <1>4, <1>5, EmployeesFacts, EmployeesServed

LEMMA ChangeServed ==
  ASSUME NEW c \in PageCalls, EmployeesInv, Staff!ServeChange(c)
  PROVE  EmployeesInv'
<1>1. PICK answer \in {"OK", "ERROR"}: request' = [request EXCEPT ![c] =
        [@ EXCEPT !.answer = answer, !.read.changes = accounts'.changes]]
  BY DEF Staff!ServeChange
<1>2. /\ UNCHANGED <<people, overrides, selected, panel, own, presses>> /\ request[c].op = "change"
      /\ Staff!Changed(request[c].on, request[c].status)
  BY DEF Staff!ServeChange, Staff!Waiting
<1>3. /\ accounts' \in [status: AccountStates, changes: 0..MaxChanges]
      /\ accounts'.changes = accounts.changes + 1 /\ accounts'.changes \in 0..MaxChanges
  BY <1>2, EmployeesFacts, AccountChanged
<1> DEFINE read == [request[c].read EXCEPT !.changes = accounts'.changes]
           next == [request[c] EXCEPT !.answer = answer, !.read.changes = accounts'.changes]
<1>4. read \in Snapshot /\ read.changes = accounts'.changes
  BY <1>3, EmployeesFacts DEF Snapshot
<1>5. request' = [request EXCEPT ![c] = next]
  BY <1>1
<1>6. next = [request[c] EXCEPT !.answer = answer, !.read = read]
  BY EmployeesFacts DEF PageCall
<1> HIDE DEF read, next
<1>7. /\ next \in PageCall /\ next.op = request[c].op /\ next.on = request[c].on
      /\ next.current = request[c].current /\ next.read = read
  BY <1>4, <1>6, EmployeesFacts DEF PageCall
<1>8. request' \in [PageCalls -> PageCall] /\ request'[c] = next /\ RequestsStay(c)
  BY <1>5, <1>7, RequestReplaced DEF EmployeesInv, EmployeesTypes
<1>9. /\ request'[c].op = request[c].op /\ request'[c].on = request[c].on
      /\ request'[c].current = request[c].current /\ request'[c].read.changes = accounts'.changes
  BY <1>4, <1>7, <1>8
<1>10. accounts'.changes >= accounts.changes /\ accounts'.changes <= accounts'.changes /\ request[c].op # "people"
  BY <1>2, <1>3, EmployeesFacts
<1> QED BY <1>2, <1>3, <1>8, <1>9, <1>10, EmployeesServed

LEMMA RequestRefused ==
  ASSUME NEW c \in PageCalls, EmployeesInv, Staff!Refuse(c)
  PROVE  EmployeesInv'
<1> DEFINE next == [request[c] EXCEPT !.answer = "ERROR"]
<1>1. UNCHANGED <<accounts, people, overrides, selected, panel, own, presses>> /\ request' = [request EXCEPT ![c] = next]
  BY DEF Staff!Refuse, Staff!Waiting
<1>2. /\ next \in PageCall /\ next.op = request[c].op /\ next.on = request[c].on
      /\ next.current = request[c].current /\ next.read = request[c].read /\ next.answer = "ERROR"
  BY EmployeesFacts DEF PageCall
<1> HIDE DEF next
<1>3. request' \in [PageCalls -> PageCall] /\ request'[c] = next /\ RequestsStay(c)
  BY <1>1, <1>2, RequestReplaced DEF EmployeesInv, EmployeesTypes
<1>4. /\ request'[c].op = request[c].op /\ request'[c].on = request[c].on /\ request'[c].answer = "ERROR"
      /\ request'[c].current = request[c].current /\ request'[c].read.changes <= accounts.changes
  BY <1>2, <1>3, EmployeesFacts
<1>5. /\ accounts' = accounts /\ accounts \in [status: AccountStates, changes: 0..MaxChanges]
      /\ accounts.changes >= accounts.changes
  BY <1>1, EmployeesFacts DEF EmployeesInv, EmployeesTypes
<1> QED BY <1>1, <1>3, <1>4, <1>5, EmployeesServed

LEMMA OtherIsStatus ==
  ASSUME NEW status
  PROVE  Staff!Other(status) \in Staff!Status
<1>1. \E s \in Staff!Status: s # status
  BY DEF Staff!Status
<1> QED BY <1>1 DEF Staff!Other

LEMMA ChangedByOther ==
  ASSUME NEW e \in Employees, EmployeesInv, Staff!OtherChange(e)
  PROVE  EmployeesInv'
<1>1. /\ UNCHANGED <<people, overrides, selected, panel, own, request, presses>>
      /\ Staff!Changed(e, Staff!Other(accounts.status[e]))
  BY DEF Staff!OtherChange
<1>2. accounts' \in [status: AccountStates, changes: 0..MaxChanges] /\ accounts'.changes = accounts.changes + 1
  BY <1>1, OtherIsStatus, AccountChanged
<1>3. own \in 0..accounts'.changes
  BY <1>2, EmployeesFacts
<1>4. EmployeesTypes'
  BY <1>1, <1>2, <1>3 DEF EmployeesInv, EmployeesTypes
<1>5. \A c \in PageCalls: request[c].read.changes <= accounts'.changes
  BY <1>2, EmployeesFacts
<1>6. ReadsAreOfPast'
  BY <1>1, <1>5 DEF EmployeesInv, ReadsAreOfPast
<1>7. OwnChangeIsRead' /\ SelectedIsListed' /\ OverridesOfSelected' /\ ChangeIsAlone'
  BY <1>1 DEF EmployeesInv, OwnChangeIsRead, SelectedIsListed, OverridesOfSelected, ChangeIsAlone
<1> QED BY <1>4, <1>6, <1>7 DEF EmployeesInv

(* A call ends that was not a change: what remains of it is nothing.        *)
LEMMA RequestEnds ==
  ASSUME NEW c \in PageCalls, EmployeesInv, request' = [request EXCEPT ![c] = Staff!NoCall]
  PROVE  /\ request' \in [PageCalls -> PageCall] /\ RequestsStay(c)
         /\ request'[c].op = "none" /\ request'[c].read.changes = 0
<1>1. request' \in [PageCalls -> PageCall] /\ request'[c] = Staff!NoCall /\ RequestsStay(c)
  BY NothingAsked, RequestReplaced DEF EmployeesInv, EmployeesTypes
<1>2. request'[c].op = "none" /\ request'[c].read = Staff!NoCall.read
  BY <1>1, NothingAsked
<1> QED BY <1>1, <1>2, NothingAsked

LEMMA PeopleAnswered ==
  ASSUME NEW c \in PageCalls, EmployeesInv, Staff!PeopleLoaded(c)
  PROVE  EmployeesInv'
<1>1. /\ request[c].op = "people" /\ request[c].answer # "none"
      /\ UNCHANGED <<accounts, presses, overrides, panel, own>>
      /\ request' = [request EXCEPT ![c] = Staff!NoCall]
  BY DEF Staff!PeopleLoaded, Staff!Answered
<1>2. /\ request' \in [PageCalls -> PageCall] /\ RequestsStay(c)
      /\ request'[c].op = "none" /\ request'[c].read.changes = 0
  BY <1>1, RequestEnds
<1>3. ReadsAreOfPast'
  BY <1>1, <1>2, EmployeesFacts DEF EmployeesInv, ReadsAreOfPast, RequestsStay
<1>4. ChangeIsAlone'
  BY <1>1, <1>2 DEF EmployeesInv, ChangeIsAlone, RequestsStay
<1>5. CASE UNCHANGED <<people, selected>>
  <2>1. EmployeesTypes'
    BY <1>1, <1>2, <1>5 DEF EmployeesInv, EmployeesTypes
  <2>2. OwnChangeIsRead' /\ SelectedIsListed' /\ OverridesOfSelected'
    BY <1>1, <1>2, <1>5 DEF EmployeesInv, OwnChangeIsRead, SelectedIsListed, OverridesOfSelected, RequestsStay
  <2> QED BY <1>3, <1>4, <2>1, <2>2 DEF EmployeesInv
<1>6. CASE people' = Staff!Failed(people) /\ UNCHANGED selected
  <2>1. /\ people' \in [value: Snapshot, loading: BOOLEAN, error: BOOLEAN]
        /\ people'.value = people.value /\ people'.error
    BY <1>6 DEF Staff!Failed, EmployeesInv, EmployeesTypes
  <2>2. EmployeesTypes'
    BY <1>1, <1>2, <1>6, <2>1 DEF EmployeesInv, EmployeesTypes
  <2>3. OwnChangeIsRead' /\ SelectedIsListed' /\ OverridesOfSelected'
    BY <1>1, <1>2, <1>6, <2>1 DEF EmployeesInv, OwnChangeIsRead, SelectedIsListed, OverridesOfSelected, RequestsStay
  <2> QED BY <1>3, <1>4, <2>2, <2>3 DEF EmployeesInv
<1>7. CASE /\ request[c].current /\ request[c].answer = "OK"
           /\ people' = [value |-> request[c].read, loading |-> FALSE, error |-> FALSE]
           /\ selected' = Staff!Listed(selected, request[c].read)
  <2> DEFINE read == request[c].read
  <2>1. read \in Snapshot /\ read.status \in AccountStates /\ read.changes >= own
    BY <1>1, <1>7, EmployeesFacts DEF EmployeesInv, ReadsAreOfPast, OwnChangeIsRead
  <2>2. people' = [value |-> read, loading |-> FALSE, error |-> FALSE]
    BY <1>7
  <2> HIDE DEF read
  <2>3. /\ people' \in [value: Snapshot, loading: BOOLEAN, error: BOOLEAN] /\ people'.value = read
    BY <2>1, <2>2
  <2>4. \/ selected = Staff!Nobody /\ selected' = Staff!Nobody
        \/ /\ selected # Staff!Nobody /\ selected' # Staff!Nobody
           /\ selected' \in [id: Employees, status: Staff!Status] /\ selected'.id = selected.id
           /\ selected'.status = read.status[selected.id]
    <3>1. selected' = Staff!Listed(selected, read)
      BY <1>7 DEF read
    <3>2. CASE selected = Staff!Nobody
      BY <3>1, <3>2 DEF Staff!Listed
    <3>3. CASE selected # Staff!Nobody
      <4>1. selected \in [id: Employees, status: Staff!Status]
        BY <3>3 DEF EmployeesInv, EmployeesTypes
      <4>2. selected' = [selected EXCEPT !.status = read.status[selected.id]]
        BY <3>1, <3>3 DEF Staff!Listed
      <4>3. read.status[selected.id] \in Staff!Status
        BY <2>1, <4>1 DEF AccountStates
      <4>4. /\ selected' \in [id: Employees, status: Staff!Status] /\ selected'.id = selected.id
            /\ selected'.status = read.status[selected.id]
        BY <4>1, <4>2, <4>3
      <4>5. selected'.id \in Employees /\ "none" \notin Employees
        BY <4>1, <4>4, AdminAppAssumption DEF AdminAppAssumption
      <4>6. selected' # Staff!Nobody
        BY <4>5 DEF Staff!Nobody
      <4> QED BY <3>3, <4>4, <4>6
    <3> QED BY <3>2, <3>3
  <2>5. EmployeesTypes'
    BY <1>1, <1>2, <2>3, <2>4 DEF EmployeesInv, EmployeesTypes
  <2>6. OwnChangeIsRead'
    BY <1>1, <1>2, <2>1, <2>3 DEF EmployeesInv, OwnChangeIsRead, RequestsStay
  <2>7. SelectedIsListed'
    BY <2>1, <2>3, <2>4 DEF SelectedIsListed
  <2>8. OverridesOfSelected'
    BY <1>1, <1>2, <2>4 DEF EmployeesInv, OverridesOfSelected, RequestsStay
  <2> QED BY <1>3, <1>4, <2>5, <2>6, <2>7, <2>8 DEF EmployeesInv
<1> QED BY <1>1, <1>5, <1>6, <1>7, EmployeesFacts DEF Staff!PeopleLoaded, PageCall

LEMMA OverridesAnswered ==
  ASSUME NEW c \in PageCalls, EmployeesInv, Staff!OverridesLoaded(c)
  PROVE  EmployeesInv'
<1>1. /\ request[c].op = "overrides" /\ request[c].answer # "none"
      /\ UNCHANGED <<accounts, presses, people, selected, panel, own>>
      /\ request' = [request EXCEPT ![c] = Staff!NoCall]
  BY DEF Staff!OverridesLoaded, Staff!Answered
<1>2. /\ request' \in [PageCalls -> PageCall] /\ RequestsStay(c)
      /\ request'[c].op = "none" /\ request'[c].read.changes = 0
  BY <1>1, RequestEnds
<1>3. ReadsAreOfPast' /\ OwnChangeIsRead'
  BY <1>1, <1>2, EmployeesFacts DEF EmployeesInv, ReadsAreOfPast, OwnChangeIsRead, RequestsStay
<1>4. SelectedIsListed' /\ ChangeIsAlone'
  BY <1>1, <1>2 DEF EmployeesInv, SelectedIsListed, ChangeIsAlone, RequestsStay
<1>5. /\ overrides' \in [of: Employees \cup {"none"}, loading: BOOLEAN, error: BOOLEAN]
      /\ \/ overrides' = overrides \/ overrides'.error
         \/ request[c].current /\ overrides'.of = request[c].on
  <2>1. CASE overrides' = overrides
    BY <2>1 DEF EmployeesInv, EmployeesTypes
  <2>2. CASE overrides' = Staff!Failed(overrides)
    BY <2>2 DEF EmployeesInv, EmployeesTypes, Staff!Failed
  <2>3. CASE request[c].current /\ overrides' = [of |-> request[c].on, loading |-> FALSE, error |-> FALSE]
    BY <2>3, EmployeesFacts
  <2> QED BY <2>1, <2>2, <2>3 DEF Staff!OverridesLoaded
<1>6. EmployeesTypes'
  BY <1>1, <1>2, <1>5 DEF EmployeesInv, EmployeesTypes
<1>7. OverridesOfSelected'
  BY <1>1, <1>2, <1>5 DEF EmployeesInv, OverridesOfSelected, RequestsStay
<1> QED BY <1>3, <1>4, <1>6, <1>7 DEF EmployeesInv

(* The people are read again: the answers that are still on their way do    *)
(* not count any more.                                                      *)
LEMMA PeopleReadAgain ==
  ASSUME NEW c \in PageCalls, EmployeesInv, people' = Staff!Started(people),
         request' = Staff!Reload(request, c, "people", "none"),
         UNCHANGED <<accounts, overrides, selected>>, own' \in 0..accounts.changes, presses' \in 0..MaxPresses,
         \/ panel' = panel /\ request[c].op # "change"
         \/ panel' = [confirm |-> FALSE, reason |-> FALSE, busy |-> FALSE] /\ request[c].op = "change"
  PROVE  EmployeesInv'
<1>1. /\ request' \in [PageCalls -> PageCall] /\ RequestsLeft(c, "people")
      /\ request'[c].op = "people" /\ request'[c].answer = "none" /\ request'[c].read.changes = 0
  BY ListReadAgain DEF EmployeesInv, EmployeesTypes
<1>2. /\ people' \in [value: Snapshot, loading: BOOLEAN, error: BOOLEAN]
      /\ people'.value = people.value /\ people'.loading
  BY DEF Staff!Started, EmployeesInv, EmployeesTypes
<1>3. panel' \in [confirm: BOOLEAN, reason: BOOLEAN, busy: BOOLEAN]
  <2>1. panel \in [confirm: BOOLEAN, reason: BOOLEAN, busy: BOOLEAN]
    BY DEF EmployeesInv, EmployeesTypes
  <2>2. CASE panel' = panel
    BY <2>1, <2>2
  <2>3. CASE panel' = [confirm |-> FALSE, reason |-> FALSE, busy |-> FALSE]
    BY <2>3
  <2> QED BY <2>2, <2>3
<1>4. EmployeesTypes'
  BY <1>1, <1>2, <1>3 DEF EmployeesInv, EmployeesTypes
<1>5. ReadsAreOfPast'
  BY <1>1, EmployeesFacts DEF EmployeesInv, ReadsAreOfPast, RequestsLeft
<1>6. OwnChangeIsRead'
  BY <1>1, <1>2 DEF OwnChangeIsRead, RequestsLeft
<1>7. SelectedIsListed'
  BY <1>2 DEF EmployeesInv, SelectedIsListed
<1>8. OverridesOfSelected'
  <2>1. \A d \in PageCalls: request'[d].op = "overrides" /\ request'[d].current =>
          d # c /\ request[d].op = "overrides" /\ request[d].current /\ request'[d].on = request[d].on
    BY <1>1 DEF RequestsLeft
  <2> QED BY <2>1 DEF EmployeesInv, OverridesOfSelected
<1>9. ChangeIsAlone'
  <2>1. \A d \in PageCalls: request'[d].op = "change" <=> d # c /\ request[d].op = "change"
    BY <1>1 DEF RequestsLeft
  <2>2. CASE panel' = panel /\ request[c].op # "change"
    BY <2>1, <2>2 DEF EmployeesInv, ChangeIsAlone
  <2>3. CASE ~panel'.busy /\ request[c].op = "change"
    BY <2>1, <2>3 DEF EmployeesInv, ChangeIsAlone
  <2> QED BY <2>2, <2>3
<1> QED BY <1>4, <1>5, <1>6, <1>7, <1>8, <1>9 DEF EmployeesInv

LEMMA Pressing ==
  ASSUME EmployeesInv, Staff!Click
  PROVE  presses' \in 0..MaxPresses /\ UNCHANGED accounts
<1>1. MaxPresses \in Nat
  BY AdminAppAssumption DEF AdminAppAssumption
<1>2. presses \in 0..MaxPresses
  BY DEF EmployeesInv, EmployeesTypes
<1> QED BY <1>1, <1>2 DEF Staff!Click

LEMMA ChangeIsAnswered ==
  ASSUME NEW c \in PageCalls, EmployeesInv, Staff!ChangeAnswered(c)
  PROVE  EmployeesInv'
<1>1. request[c].op = "change" /\ UNCHANGED <<accounts, presses, overrides, selected>>
  BY DEF Staff!ChangeAnswered, Staff!Answered
<1>2. CASE /\ panel' = [panel EXCEPT !.busy = FALSE]
           /\ request' = [request EXCEPT ![c] = Staff!NoCall] /\ UNCHANGED <<people, own>>
  <2>1. /\ request' \in [PageCalls -> PageCall] /\ RequestsStay(c)
        /\ request'[c].op = "none" /\ request'[c].read.changes = 0
    BY <1>2, RequestEnds
  <2>2. panel' \in [confirm: BOOLEAN, reason: BOOLEAN, busy: BOOLEAN] /\ ~panel'.busy
    BY <1>2 DEF EmployeesInv, EmployeesTypes
  <2>3. EmployeesTypes'
    BY <1>1, <1>2, <2>1, <2>2 DEF EmployeesInv, EmployeesTypes
  <2>4. ReadsAreOfPast' /\ OwnChangeIsRead'
    BY <1>1, <1>2, <2>1, EmployeesFacts DEF EmployeesInv, ReadsAreOfPast, OwnChangeIsRead, RequestsStay
  <2>5. SelectedIsListed' /\ OverridesOfSelected'
    BY <1>1, <1>2, <2>1 DEF EmployeesInv, SelectedIsListed, OverridesOfSelected, RequestsStay
  <2>6. ChangeIsAlone'
    BY <1>1, <2>1, <2>2 DEF EmployeesInv, ChangeIsAlone, RequestsStay
  <2> QED BY <2>3, <2>4, <2>5, <2>6 DEF EmployeesInv
<1>3. CASE /\ panel' = [confirm |-> FALSE, reason |-> FALSE, busy |-> FALSE]
           /\ people' = Staff!Started(people) /\ request' = Staff!Reload(request, c, "people", "none")
           /\ own' = request[c].read.changes
  <2>1. own' \in 0..accounts.changes
    BY <1>3, EmployeesFacts
  <2>2. presses' \in 0..MaxPresses
    BY <1>1 DEF EmployeesInv, EmployeesTypes
  <2> QED BY <1>1, <1>3, <2>1, <2>2, PeopleReadAgain
<1> QED BY <1>2, <1>3 DEF Staff!ChangeAnswered

LEMMA Retrying ==
  ASSUME NEW c \in PageCalls, EmployeesInv, Staff!Retry(c)
  PROVE  EmployeesInv'
<1>1. /\ people' = Staff!Started(people) /\ request' = Staff!Reload(request, c, "people", "none")
      /\ UNCHANGED <<overrides, selected, panel, own>> /\ request[c] = Staff!NoCall /\ Staff!Click
  BY DEF Staff!Retry
<1>2. request[c].op # "change"
  BY <1>1, NothingAsked
<1>3. own' \in 0..accounts.changes
  BY <1>1, EmployeesFacts
<1> QED BY <1>1, <1>2, <1>3, Pressing, PeopleReadAgain

(* The overrides are read again, for the employee that is selected then.    *)
LEMMA OverridesReadAgain ==
  ASSUME NEW c \in PageCalls, EmployeesInv, NEW e \in Employees,
         request[c].op = "none", overrides' = Staff!Started(overrides),
         request' = Staff!Reload(request, c, "overrides", e),
         UNCHANGED <<accounts, people, panel, own>>, presses' \in 0..MaxPresses,
         selected' \in [id: Employees, status: Staff!Status], selected'.id = e,
         people.value.status \in AccountStates, selected'.status = people.value.status[e]
  PROVE  EmployeesInv'
<1>1. /\ request' \in [PageCalls -> PageCall] /\ RequestsLeft(c, "overrides")
      /\ request'[c].op = "overrides" /\ request'[c].on = e /\ request'[c].answer = "none"
      /\ request'[c].read.changes = 0
  BY ListReadAgain DEF EmployeesInv, EmployeesTypes
<1>2. /\ overrides' \in [of: Employees \cup {"none"}, loading: BOOLEAN, error: BOOLEAN] /\ overrides'.loading
  BY DEF Staff!Started, EmployeesInv, EmployeesTypes
<1>3. selected' # Staff!Nobody
  <2>1. "none" \notin Employees
    BY AdminAppAssumption DEF AdminAppAssumption
  <2>2. Staff!Nobody.id = "none"
    BY DEF Staff!Nobody
  <2> QED BY <2>1, <2>2
<1>4. EmployeesTypes'
  BY <1>1, <1>2 DEF EmployeesInv, EmployeesTypes
<1>5. ReadsAreOfPast'
  BY <1>1, EmployeesFacts DEF EmployeesInv, ReadsAreOfPast, RequestsLeft
<1>6. OwnChangeIsRead'
  <2>1. \A d \in PageCalls: request'[d].op = "people" =>
          d # c /\ request[d].op = "people" /\ (request'[d].current => request[d].current)
          /\ request'[d].answer = request[d].answer /\ request'[d].read = request[d].read
    BY <1>1 DEF RequestsLeft
  <2> QED BY <2>1 DEF EmployeesInv, OwnChangeIsRead
<1>7. SelectedIsListed'
  BY DEF SelectedIsListed
<1>8. OverridesOfSelected'
  <2>1. \A d \in PageCalls: request'[d].op = "overrides" /\ request'[d].current => d = c
    BY <1>1 DEF RequestsLeft
  <2> QED BY <1>1, <1>2, <1>3, <2>1 DEF OverridesOfSelected
<1>9. ChangeIsAlone'
  <2>1. \A d \in PageCalls: request'[d].op = "change" <=> request[d].op = "change"
    BY <1>1 DEF RequestsLeft
  <2> QED BY <2>1 DEF EmployeesInv, ChangeIsAlone
<1> QED BY <1>4, <1>5, <1>6, <1>7, <1>8, <1>9 DEF EmployeesInv

LEMMA Selecting ==
  ASSUME NEW c \in PageCalls, NEW e \in Employees, EmployeesInv, Staff!Select(c, e)
  PROVE  EmployeesInv'
<1>1. /\ people.value.status # <<>> /\ request[c] = Staff!NoCall /\ Staff!Click
      /\ selected' = [id |-> e, status |-> people.value.status[e]]
      /\ overrides' = Staff!Started(overrides) /\ request' = Staff!Reload(request, c, "overrides", e)
      /\ UNCHANGED <<people, panel, own>>
  BY DEF Staff!Select
<1>2. people.value.status \in AccountStates
  <2>1. people.value \in Snapshot
    BY DEF EmployeesInv, EmployeesTypes
  <2> QED BY <1>1, <2>1 DEF Snapshot
<1>3. people.value.status[e] \in Staff!Status
  BY <1>2 DEF AccountStates
<1>4. /\ selected' \in [id: Employees, status: Staff!Status] /\ selected'.id = e
      /\ selected'.status = people.value.status[e]
  BY <1>1, <1>3
<1>5. request[c].op = "none"
  BY <1>1, NothingAsked
<1> QED BY <1>1, <1>2, <1>4, <1>5, Pressing, OverridesReadAgain

LEMMA WritingOverrides ==
  ASSUME NEW c \in PageCalls, EmployeesInv, Staff!OverridesWritten(c)
  PROVE  EmployeesInv'
<1>1. /\ selected # Staff!Nobody /\ request[c] = Staff!NoCall /\ Staff!Click
      /\ overrides' = Staff!Started(overrides) /\ request' = Staff!Reload(request, c, "overrides", selected.id)
      /\ UNCHANGED <<people, selected, panel, own>>
  BY DEF Staff!OverridesWritten
<1>2. selected \in [id: Employees, status: Staff!Status]
  BY <1>1 DEF EmployeesInv, EmployeesTypes
<1>3. people.value.status \in AccountStates /\ selected.status = people.value.status[selected.id]
  BY <1>1 DEF EmployeesInv, SelectedIsListed
<1>4. request[c].op = "none"
  BY <1>1, NothingAsked
<1>5. selected.id \in Employees /\ selected' \in [id: Employees, status: Staff!Status] /\ selected'.id = selected.id
      /\ selected'.status = people.value.status[selected.id]
  BY <1>1, <1>2, <1>3
<1> QED BY <1>1, <1>3, <1>4, <1>5, Pressing, OverridesReadAgain

LEMMA PanelPressed ==
  ASSUME EmployeesInv, Staff!TypeReason \/ Staff!ClickChange \/ Staff!Cancel
  PROVE  EmployeesInv'
<1>1. UNCHANGED <<people, overrides, selected, own, request>> /\ Staff!Click
  BY DEF Staff!TypeReason, Staff!ClickChange, Staff!Cancel
<1>2. presses' \in 0..MaxPresses /\ UNCHANGED accounts
  BY <1>1, Pressing
<1>3. panel' \in [confirm: BOOLEAN, reason: BOOLEAN, busy: BOOLEAN] /\ panel'.busy = panel.busy
  BY DEF Staff!TypeReason, Staff!ClickChange, Staff!Cancel, EmployeesInv, EmployeesTypes
<1>4. EmployeesTypes'
  BY <1>1, <1>2, <1>3 DEF EmployeesInv, EmployeesTypes
<1>5. ReadsAreOfPast' /\ OwnChangeIsRead' /\ SelectedIsListed' /\ OverridesOfSelected'
  BY <1>1, <1>2 DEF EmployeesInv, ReadsAreOfPast, OwnChangeIsRead, SelectedIsListed, OverridesOfSelected
<1>6. ChangeIsAlone'
  BY <1>1, <1>3 DEF EmployeesInv, ChangeIsAlone
<1> QED BY <1>4, <1>5, <1>6 DEF EmployeesInv

LEMMA ConfirmingChange ==
  ASSUME NEW c \in PageCalls, EmployeesInv, Staff!ConfirmChange(c)
  PROVE  EmployeesInv'
<1> DEFINE next == [Staff!Asked("change", selected.id) EXCEPT !.status = Staff!Other(selected.status)]
<1>1. /\ selected # Staff!Nobody /\ ~panel.busy /\ request[c] = Staff!NoCall /\ Staff!Click
      /\ panel' = [panel EXCEPT !.busy = TRUE] /\ request' = [request EXCEPT ![c] = next]
      /\ UNCHANGED <<people, overrides, selected, own>>
  BY DEF Staff!ConfirmChange
<1>2. selected.id \in Employees
  BY <1>1 DEF EmployeesInv, EmployeesTypes
<1>3. Staff!Other(selected.status) \in Staff!Status
  BY OtherIsStatus
<1>4. /\ Staff!Asked("change", selected.id) \in PageCall /\ Staff!Asked("change", selected.id).op = "change"
      /\ Staff!Asked("change", selected.id).read.changes = 0
  BY <1>2, AskedIs
<1>5. next \in PageCall /\ next.op = "change" /\ next.read.changes = 0
  BY <1>3, <1>4 DEF PageCall
<1> HIDE DEF next
<1>6. request' \in [PageCalls -> PageCall] /\ request'[c] = next /\ RequestsStay(c)
  BY <1>1, <1>5, RequestReplaced DEF EmployeesInv, EmployeesTypes
<1>7. request'[c].op = "change" /\ request'[c].read.changes = 0
  BY <1>5, <1>6
<1>8. panel' \in [confirm: BOOLEAN, reason: BOOLEAN, busy: BOOLEAN] /\ panel'.busy
  BY <1>1 DEF EmployeesInv, EmployeesTypes
<1>9. presses' \in 0..MaxPresses /\ UNCHANGED accounts
  BY <1>1, Pressing
<1>10. EmployeesTypes'
  BY <1>1, <1>6, <1>8, <1>9 DEF EmployeesInv, EmployeesTypes
<1>11. ReadsAreOfPast' /\ OwnChangeIsRead'
  BY <1>1, <1>6, <1>7, <1>9, EmployeesFacts DEF EmployeesInv, ReadsAreOfPast, OwnChangeIsRead, RequestsStay
<1>12. SelectedIsListed' /\ OverridesOfSelected'
  BY <1>1, <1>6, <1>7 DEF EmployeesInv, SelectedIsListed, OverridesOfSelected, RequestsStay
<1>13. ChangeIsAlone'
  <2>1. \A d \in PageCalls: request[d].op # "change"
    BY <1>1 DEF EmployeesInv, ChangeIsAlone
  <2>2. \A d \in PageCalls: request'[d].op = "change" => d = c
    BY <1>6, <2>1 DEF RequestsStay
  <2> QED BY <1>7, <1>8, <2>2 DEF ChangeIsAlone
<1> QED BY <1>10, <1>11, <1>12, <1>13 DEF EmployeesInv

LEMMA EmployeesSteps ==
  ASSUME EmployeesInv, [Staff!Next]_employees
  PROVE  EmployeesInv'
<1>1. CASE UNCHANGED employees
  BY <1>1 DEF employees, EmployeesInv, EmployeesTypes, ReadsAreOfPast, OwnChangeIsRead, SelectedIsListed,
     OverridesOfSelected, ChangeIsAlone
<1>2. ASSUME NEW e \in Employees, Staff!OtherChange(e) PROVE EmployeesInv'
  BY <1>2, ChangedByOther
<1>3. ASSUME NEW c \in PageCalls, Staff!Serve(c) PROVE EmployeesInv'
  BY <1>3, ReadServed, ChangeServed, RequestRefused DEF Staff!Serve
<1>4. ASSUME NEW c \in PageCalls, Staff!Answer(c) PROVE EmployeesInv'
  BY <1>4, PeopleAnswered, OverridesAnswered, ChangeIsAnswered DEF Staff!Answer
<1>5. ASSUME NEW c \in PageCalls, Staff!Retry(c) PROVE EmployeesInv'
  BY <1>5, Retrying
<1>6. ASSUME NEW c \in PageCalls, Staff!OverridesWritten(c) PROVE EmployeesInv'
  BY <1>6, WritingOverrides
<1>7. ASSUME NEW c \in PageCalls, Staff!ConfirmChange(c) PROVE EmployeesInv'
  BY <1>7, ConfirmingChange
<1>8. ASSUME NEW c \in PageCalls, NEW e \in Employees, Staff!Select(c, e) PROVE EmployeesInv'
  BY <1>8, Selecting
<1>9. CASE Staff!TypeReason \/ Staff!ClickChange \/ Staff!Cancel
  BY <1>9, PanelPressed
<1> QED BY <1>1, <1>2, <1>3, <1>4, <1>5, <1>6, <1>7, <1>8, <1>9 DEF Staff!Next

LEMMA EmployeesAreRight ==
  ASSUME EmployeesInv
  PROVE  Staff!TypeOK /\ Staff!OwnChangeIsShown /\ Staff!PanelAgreesWithList /\ Staff!OverridesAreOfSelected
<1>1. Staff!Snapshots = Snapshot
  BY DEF Staff!Snapshots, Snapshot, AccountStates
<1>2. Staff!TypeOK
  BY <1>1, EmployeesFacts DEF EmployeesInv, EmployeesTypes, AccountStates, ChangeIsAlone, Staff!TypeOK
<1> QED BY <1>2 DEF EmployeesInv, OwnChangeIsRead, SelectedIsListed, OverridesOfSelected,
        Staff!OwnChangeIsShown, Staff!PanelAgreesWithList, Staff!OverridesAreOfSelected

(***************************************************************************)
(* The audit log.                                                          *)
(***************************************************************************)

EventSets == SUBSET Audit!Events
Lists == Seq(EventSets)
Cursors == Audit!Events \cup {Audit!NoEvent}

LogCall == [filter: Audit!Filters \cup {"none"}, cursor: Cursors, more: BOOLEAN, current: BOOLEAN,
            answer: {"none", "OK", "ERROR"}, page: EventSets, next: Cursors, from: EventSets]

AuditTypes ==
  /\ clock \in 0..MaxTime /\ appended \in EventSets /\ log \subseteq appended
  /\ view \in [filter: Audit!Filters, items: Lists, cursor: Cursors, loading: BOOLEAN, error: BOOLEAN]
  /\ load \in [LogCalls -> LogCall]
  /\ \A c \in LogCalls: load[c].from \subseteq log
  /\ basis \in [filter: Audit!Filters \cup {"mixed"}, events: EventSets] /\ basis.events \subseteq log
  /\ turns \in 0..MaxTurns

IdsAreUnique == \A e, f \in appended: e.id = f.id => e = f

(* The events a call asks for, of those it was answered from.               *)
AskedFor(c) ==
  {e \in load[c].from: Audit!Matches(e, load[c].filter)
                       /\ (load[c].cursor = Audit!NoEvent \/ Audit!Older(e, load[c].cursor))}

(* A page has the newest of them, and the cursor behind it is its oldest.   *)
PagesAreNewest ==
  \A c \in LogCalls: load[c].answer = "OK" =>
    /\ load[c].filter # "none" /\ load[c].page \subseteq AskedFor(c)
    /\ load[c].next = Audit!NoEvent => load[c].page = AskedFor(c)
    /\ load[c].next # Audit!NoEvent =>
         /\ load[c].next \in load[c].page
         /\ \A e \in load[c].page: ~Audit!Older(e, load[c].next)
         /\ \A e \in AskedFor(c) \ load[c].page: Audit!Older(e, load[c].next)

(* The answer that counts continues the list, or begins it.                 *)
CurrentContinues ==
  \A c \in LogCalls: load[c].current =>
    /\ load[c].filter = view.filter /\ view.loading
    /\ IF load[c].more THEN load[c].cursor = view.cursor /\ view.cursor # Audit!NoEvent
       ELSE load[c].cursor = Audit!NoEvent
    /\ load[c].more /\ load[c].answer = "OK" => basis.events \subseteq load[c].from
    /\ \A d \in LogCalls: load[d].current => d = c

ShownIn(items) == UNION {items[i]: i \in DOMAIN items}

(* The list, as far as its cursor, has what its first page was read for.    *)
ListReaches ==
  /\ ShownIn(view.items) \subseteq log
  /\ view.cursor # Audit!NoEvent =>
       view.cursor \in log /\ \A e \in ShownIn(view.items): ~Audit!Older(e, view.cursor)
  /\ basis.filter # "mixed" =>
       /\ \A e \in ShownIn(view.items): Audit!Matches(e, basis.filter)
       /\ \A e \in basis.events:
            Audit!Matches(e, basis.filter) /\ (view.cursor = Audit!NoEvent \/ ~Audit!Older(e, view.cursor)) =>
              e \in ShownIn(view.items)

AuditInv ==
  /\ AuditTypes /\ IdsAreUnique /\ PagesAreNewest /\ CurrentContinues /\ ListReaches /\ Audit!NewestFirst

(* The order of the log.                                                    *)
LEMMA OlderIsTransitive ==
  ASSUME NEW e \in Audit!Events, NEW f \in Audit!Events, NEW g \in Audit!Events,
         Audit!Older(e, f), Audit!Older(f, g)
  PROVE  Audit!Older(e, g)
BY DEF Audit!Older, Audit!Events

LEMMA OlderIsTotal ==
  ASSUME NEW e \in Audit!Events, NEW f \in Audit!Events, e.id # f.id
  PROVE  Audit!Older(e, f) \/ Audit!Older(f, e)
BY DEF Audit!Older, Audit!Events

LEMMA OlderIsIrreflexive ==
  ASSUME NEW e \in Audit!Events
  PROVE  ~Audit!Older(e, e)
BY DEF Audit!Older, Audit!Events

LEMMA NoEventIsNone == Audit!NoEvent \notin Audit!Events
<1> SUFFICES ASSUME Audit!NoEvent \in Audit!Events PROVE FALSE
  OBVIOUS
<1>1. Audit!NoEvent.id \in 1..MaxEvents
  BY DEF Audit!Events
<1>2. Audit!NoEvent.id = 0
  BY DEF Audit!NoEvent
<1> QED BY <1>1, <1>2

(* What is shown, after a page more, and of one page.                       *)
LEMMA ShownWithPage ==
  ASSUME NEW items \in Lists, NEW page \in EventSets
  PROVE  /\ Append(items, page) \in Lists /\ Len(items) \in Nat /\ DOMAIN items = 1..Len(items)
         /\ DOMAIN Append(items, page) = 1..(Len(items) + 1)
         /\ \A i \in 1..Len(items): Append(items, page)[i] = items[i]
         /\ Append(items, page)[Len(items) + 1] = page
         /\ ShownIn(Append(items, page)) = ShownIn(items) \cup page
<1>1. items \in Seq(EventSets)
  BY DEF Lists
<1> DEFINE longer == Append(items, page)
<1>2. /\ longer \in Seq(EventSets) /\ Len(items) \in Nat /\ DOMAIN items = 1..Len(items)
      /\ DOMAIN longer = 1..(Len(items) + 1)
      /\ \A i \in 1..Len(items): longer[i] = items[i]
      /\ longer[Len(items) + 1] = page
  BY <1>1
<1> HIDE DEF longer
<1>3. \A e: e \in ShownIn(longer) <=> e \in ShownIn(items) \cup page
  <2> SUFFICES ASSUME NEW e PROVE e \in ShownIn(longer) <=> e \in ShownIn(items) \cup page
    OBVIOUS
  <2>1. e \in ShownIn(longer) <=> \E i \in DOMAIN longer: e \in longer[i]
    BY DEF ShownIn
  <2>2. e \in ShownIn(items) <=> \E i \in DOMAIN items: e \in items[i]
    BY DEF ShownIn
  <2>3. \A i \in 1..(Len(items) + 1): i \in 1..Len(items) \/ i = Len(items) + 1
    BY <1>2
  <2>4. \A i \in 1..Len(items): i \in 1..(Len(items) + 1)
    BY <1>2
  <2>5. Len(items) + 1 \in 1..(Len(items) + 1)
    BY <1>2
  <2> QED BY <1>2, <2>1, <2>2, <2>3, <2>4, <2>5
<1>4. ShownIn(longer) = ShownIn(items) \cup page
  BY <1>3
<1> QED BY <1>2, <1>4 DEF longer, Lists

LEMMA ShownOfPage ==
  ASSUME NEW page \in EventSets
  PROVE  <<page>> \in Lists /\ DOMAIN <<page>> = {1} /\ ShownIn(<<page>>) = page
<1>1. <<page>> \in Seq(EventSets) /\ DOMAIN <<page>> = 1..1 /\ <<page>>[1] = page
  OBVIOUS
<1>2. DOMAIN <<page>> = {1}
  BY <1>1
<1>3. {<<page>>[i]: i \in DOMAIN <<page>>} = {page}
  BY <1>1, <1>2
<1>4. ShownIn(<<page>>) = UNION {page}
  BY <1>3 DEF ShownIn
<1> QED BY <1>1, <1>2, <1>4 DEF Lists

LEMMA NothingLoads ==
  /\ Audit!NoCall \in LogCall /\ Audit!NoCall.answer = "none" /\ ~Audit!NoCall.current
  /\ Audit!NoCall.filter = "none" /\ Audit!NoCall.from = {}
<1>1. {} \in EventSets /\ Audit!NoEvent \in Cursors
  BY DEF EventSets, Cursors
<1>2. Audit!NoCall \in LogCall
  BY <1>1 DEF Audit!NoCall, LogCall
<1>3. Audit!NoCall.answer = "none" /\ ~Audit!NoCall.current /\ Audit!NoCall.filter = "none"
      /\ Audit!NoCall.from = {}
  BY DEF Audit!NoCall
<1> QED BY <1>2, <1>3

(* What the steps take from the types.                                      *)
LEMMA AuditFacts ==
  ASSUME AuditInv
  PROVE  /\ log \subseteq Audit!Events /\ appended \subseteq Audit!Events /\ log \in EventSets
         /\ view.filter \in Audit!Filters /\ view.items \in Lists /\ view.cursor \in Cursors
         /\ basis.filter \in Audit!Filters \cup {"mixed"} /\ basis.events \in EventSets
         /\ \A c \in LogCalls: /\ load[c] \in LogCall /\ load[c].filter \in Audit!Filters \cup {"none"}
                               /\ load[c].cursor \in Cursors /\ load[c].next \in Cursors
                               /\ load[c].page \in EventSets /\ load[c].from \in EventSets
         /\ "none" \notin Audit!Filters /\ "mixed" \notin Audit!Filters
<1>1. log \subseteq Audit!Events /\ appended \subseteq Audit!Events /\ log \in EventSets
  BY DEF AuditInv, AuditTypes, EventSets
<1>2. view.filter \in Audit!Filters /\ view.items \in Lists /\ view.cursor \in Cursors
  BY DEF AuditInv, AuditTypes
<1>3. basis.filter \in Audit!Filters \cup {"mixed"} /\ basis.events \in EventSets
  BY DEF AuditInv, AuditTypes
<1>4. \A c \in LogCalls: load[c] \in LogCall
  BY DEF AuditInv, AuditTypes
<1>5. \A c \in LogCalls: /\ load[c].filter \in Audit!Filters \cup {"none"}
                         /\ load[c].cursor \in Cursors /\ load[c].next \in Cursors
                         /\ load[c].page \in EventSets /\ load[c].from \in EventSets
  BY <1>4 DEF LogCall
<1>6. "none" \notin Audit!Filters /\ "mixed" \notin Audit!Filters
  BY AdminAppAssumption DEF AdminAppAssumption, Audit!Filters
<1> QED BY <1>1, <1>2, <1>3, <1>4, <1>5, <1>6

LEMMA AuditStarts == Audit!Init => AuditInv
<1> SUFFICES ASSUME Audit!Init PROVE AuditInv
  OBVIOUS
<1>1. MaxTime \in Nat /\ MaxTurns \in Nat
  BY AdminAppAssumption DEF AdminAppAssumption
<1>2. /\ clock = 0 /\ appended = {} /\ log = {} /\ turns = 0 /\ basis = [filter |-> "", events |-> {}]
      /\ view = [filter |-> "", items |-> <<>>, cursor |-> Audit!NoEvent, loading |-> TRUE, error |-> FALSE]
  BY DEF Audit!Init
<1>3. "" \in Audit!Filters /\ <<>> \in Lists /\ Audit!NoEvent \in Cursors /\ {} \in EventSets
  BY DEF Audit!Filters, Lists, Cursors, EventSets
<1> DEFINE first == [Audit!NoCall EXCEPT !.filter = "", !.current = TRUE]
<1>4. PICK c \in LogCalls: load = [d \in LogCalls |-> IF d = c THEN first ELSE Audit!NoCall]
  BY DEF Audit!Init
<1>5. /\ first \in LogCall /\ first.filter = "" /\ first.answer = "none" /\ first.from = {}
      /\ ~first.more /\ first.cursor = Audit!NoEvent
  BY <1>3, NothingLoads DEF Audit!NoCall, LogCall
<1> HIDE DEF first
<1>6. load \in [LogCalls -> LogCall] /\ load[c] = first
  BY <1>4, <1>5, NothingLoads
<1>7. \A d \in LogCalls \ {c}: load[d] = Audit!NoCall
  BY <1>4
<1>8. AuditTypes
  <2>1. view \in [filter: Audit!Filters, items: Lists, cursor: Cursors, loading: BOOLEAN, error: BOOLEAN]
    BY <1>2, <1>3
  <2>2. basis \in [filter: Audit!Filters \cup {"mixed"}, events: EventSets] /\ basis.events \subseteq log
    BY <1>2, <1>3
  <2>3. \A d \in LogCalls: load[d].from \subseteq log
    BY <1>5, <1>6, <1>7, NothingLoads
  <2>4. clock \in 0..MaxTime /\ turns \in 0..MaxTurns
    <3>1. clock = 0 /\ turns = 0
      BY <1>2
    <3> QED BY <1>1, <3>1
  <2>5. appended \in EventSets /\ log \subseteq appended
    BY <1>2, <1>3
  <2> QED BY <1>6, <2>1, <2>2, <2>3, <2>4, <2>5 DEF AuditTypes
<1>9. IdsAreUnique
  BY <1>2 DEF IdsAreUnique
<1>10. PagesAreNewest
  <2>1. \A d \in LogCalls: load[d].answer = "none"
    BY <1>5, <1>6, <1>7, NothingLoads
  <2> QED BY <2>1 DEF PagesAreNewest
<1>11. CurrentContinues
  <2>1. \A d \in LogCalls: load[d].current => d = c
    BY <1>7, NothingLoads
  <2>2. view.filter = "" /\ view.loading
    BY <1>2
  <2> QED BY <1>5, <1>6, <2>1, <2>2 DEF CurrentContinues
<1>12. ListReaches /\ Audit!NewestFirst
  <2>1. view.items = <<>> /\ view.cursor = Audit!NoEvent /\ basis.events = {}
    BY <1>2
  <2>2. DOMAIN view.items = {}
    BY <2>1
  <2>3. ShownIn(view.items) = {}
    BY <2>2 DEF ShownIn
  <2>4. ListReaches
    BY <2>1, <2>3 DEF ListReaches
  <2> QED BY <2>2, <2>4 DEF Audit!NewestFirst
<1> QED BY <1>8, <1>9, <1>10, <1>11, <1>12 DEF AuditInv

(* The log is appended to, while the page rests.                            *)
LEMMA LogGrows ==
  ASSUME AuditInv, UNCHANGED <<view, load, basis, turns>>, clock' \in 0..MaxTime, appended' \in EventSets,
         log' \subseteq appended', log \subseteq log', IdsAreUnique'
  PROVE  AuditInv'
<1>1. AuditTypes'
  BY DEF AuditInv, AuditTypes
<1>2. PagesAreNewest'
  BY DEF AuditInv, PagesAreNewest, AskedFor
<1>3. CurrentContinues' /\ ListReaches' /\ Audit!NewestFirst'
  BY DEF AuditInv, CurrentContinues, ListReaches, Audit!NewestFirst
<1> QED BY <1>1, <1>2, <1>3 DEF AuditInv

LEMMA EventAppended ==
  ASSUME NEW e \in Audit!Events, AuditInv, Audit!AppendEvent(e)
  PROVE  AuditInv'
<1>1. /\ \A f \in appended: f.id # e.id
      /\ appended' = appended \cup {e} /\ UNCHANGED <<clock, log, view, load, basis, turns>>
  BY DEF Audit!AppendEvent
<1>2. appended' \in EventSets /\ log' \subseteq appended' /\ clock' \in 0..MaxTime
  BY <1>1 DEF AuditInv, AuditTypes, EventSets
<1>3. IdsAreUnique'
  BY <1>1 DEF AuditInv, IdsAreUnique
<1> QED BY <1>1, <1>2, <1>3, LogGrows

LEMMA EventCommitted ==
  ASSUME NEW e \in appended \ log, AuditInv, Audit!Commit(e)
  PROVE  AuditInv'
<1>1. log' = log \cup {e} /\ UNCHANGED <<clock, appended, view, load, basis, turns>>
  BY DEF Audit!Commit
<1>2. appended' \in EventSets /\ log' \subseteq appended' /\ clock' \in 0..MaxTime
  BY <1>1 DEF AuditInv, AuditTypes
<1>3. IdsAreUnique'
  BY <1>1 DEF AuditInv, IdsAreUnique
<1> QED BY <1>1, <1>2, <1>3, LogGrows

LEMMA TimePasses ==
  ASSUME AuditInv, Audit!Tick
  PROVE  AuditInv'
<1>1. clock < MaxTime /\ clock' = clock + 1 /\ UNCHANGED <<appended, log, view, load, basis, turns>>
  BY DEF Audit!Tick
<1>2. clock \in 0..MaxTime /\ MaxTime \in Nat
  BY AdminAppAssumption DEF AuditInv, AuditTypes, AdminAppAssumption
<1>3. clock' \in 0..MaxTime
  BY <1>1, <1>2
<1>4. appended' \in EventSets /\ log' \subseteq appended' /\ IdsAreUnique'
  BY <1>1 DEF AuditInv, AuditTypes, IdsAreUnique
<1> QED BY <1>1, <1>3, <1>4, LogGrows

LoadsStay(c) == \A d \in LogCalls \ {c}: load'[d] = load[d]

LEMMA LoadReplaced ==
  ASSUME load \in [LogCalls -> LogCall], NEW c \in LogCalls, NEW next \in LogCall,
         load' = [load EXCEPT ![c] = next]
  PROVE  load' \in [LogCalls -> LogCall] /\ load'[c] = next /\ LoadsStay(c)
BY DEF LoadsStay

(* A page of the log that was cut off has the newest of what was found.     *)
LEMMA PageIsNewest ==
  ASSUME AuditInv, NEW found \in SUBSET log, NEW page \in SUBSET found, NEW next, Audit!IsPage(page, next, found)
  PROVE  /\ next \in Cursors
         /\ next = Audit!NoEvent => page = found
         /\ next # Audit!NoEvent => /\ next \in page /\ \A e \in page: ~Audit!Older(e, next)
                                    /\ \A e \in found \ page: Audit!Older(e, next)
<1>1. CASE page = found /\ next = Audit!NoEvent
  BY <1>1 DEF Cursors
<1>2. CASE /\ next \in page /\ \A e \in page: ~Audit!Older(e, next)
           /\ \A e \in page: \A f \in found \ page: ~Audit!Older(e, f)
  <2>1. \A e \in found: e \in Audit!Events
    BY AuditFacts
  <2>2. next \in Audit!Events
    BY <1>2, <2>1
  <2>3. next # Audit!NoEvent /\ next \in Cursors
    BY <2>2, NoEventIsNone DEF Cursors
  <2>4. ASSUME NEW e \in found \ page PROVE Audit!Older(e, next)
    <3>1. e # next /\ e \in appended /\ next \in appended
      BY <1>2 DEF AuditInv, AuditTypes
    <3>2. e.id # next.id
      BY <3>1 DEF AuditInv, IdsAreUnique
    <3>3. e \in Audit!Events
      BY <2>1
    <3>4. Audit!Older(e, next) \/ Audit!Older(next, e)
      BY <2>2, <3>2, <3>3, OlderIsTotal
    <3> QED BY <1>2, <3>4
  <2> QED BY <1>2, <2>3, <2>4
<1> QED BY <1>1, <1>2 DEF Audit!IsPage

LEMMA LogServed ==
  ASSUME NEW c \in LogCalls, AuditInv, Audit!Serve(c)
  PROVE  AuditInv'
<1> DEFINE found == Audit!Found(load[c].filter, load[c].cursor)
<1>1. /\ load[c].filter # "none" /\ load[c].answer = "none"
      /\ UNCHANGED <<clock, appended, log, view, basis, turns>>
  BY DEF Audit!Serve, Audit!Waiting
<1>0. PICK page \in SUBSET found: \E next \in page \cup {Audit!NoEvent}:
        /\ Audit!IsPage(page, next, found)
        /\ load' = [load EXCEPT ![c] = [@ EXCEPT !.answer = "OK", !.page = page, !.next = next, !.from = log]]
  BY DEF Audit!Serve
<1>2. PICK next \in page \cup {Audit!NoEvent}:
        /\ Audit!IsPage(page, next, found)
        /\ load' = [load EXCEPT ![c] = [@ EXCEPT !.answer = "OK", !.page = page, !.next = next, !.from = log]]
  BY <1>0
<1>3. found = {e \in log: Audit!Matches(e, load[c].filter)
                          /\ (load[c].cursor = Audit!NoEvent \/ Audit!Older(e, load[c].cursor))}
  BY DEF Audit!Found
<1> HIDE DEF found
<1>4. found \in SUBSET log
  BY <1>3
<1>5. /\ next \in Cursors
      /\ next = Audit!NoEvent => page = found
      /\ next # Audit!NoEvent => /\ next \in page /\ \A e \in page: ~Audit!Older(e, next)
                                 /\ \A e \in found \ page: Audit!Older(e, next)
  BY <1>2, <1>4, PageIsNewest
<1>6. page \in EventSets
  BY <1>2, <1>4, AuditFacts DEF EventSets
<1> DEFINE new == [load[c] EXCEPT !.answer = "OK", !.page = page, !.next = next, !.from = log]
<1>7. /\ new \in LogCall /\ new.filter = load[c].filter /\ new.cursor = load[c].cursor
      /\ new.answer = "OK" /\ new.page = page /\ new.next = next /\ new.from = log
  BY <1>5, <1>6, AuditFacts DEF LogCall
<1>8. (new.more <=> load[c].more) /\ (new.current <=> load[c].current)
  BY AuditFacts DEF LogCall
<1>9. load' = [load EXCEPT ![c] = new]
  BY <1>2
<1> HIDE DEF new
<1>10. load' \in [LogCalls -> LogCall] /\ load'[c] = new /\ LoadsStay(c)
  BY <1>7, <1>9, LoadReplaced DEF AuditInv, AuditTypes
<1>11. /\ load'[c].filter = load[c].filter /\ load'[c].cursor = load[c].cursor /\ load'[c].answer = "OK"
       /\ load'[c].page = page /\ load'[c].next = next /\ load'[c].from = log
       /\ (load'[c].more <=> load[c].more) /\ (load'[c].current <=> load[c].current)
  BY <1>7, <1>8, <1>10
<1>12. AuditTypes'
  <2>1. \A d \in LogCalls: load'[d].from \subseteq log
    BY <1>10, <1>11 DEF AuditInv, AuditTypes, LoadsStay
  <2> QED BY <1>1, <1>10, <2>1 DEF AuditInv, AuditTypes
<1>13. IdsAreUnique' /\ Audit!NewestFirst' /\ ListReaches'
  BY <1>1 DEF AuditInv, IdsAreUnique, Audit!NewestFirst, ListReaches
<1>14. PagesAreNewest'
  <2>1. AskedFor(c)' = found
    BY <1>3, <1>11 DEF AskedFor
  <2>2. \A d \in LogCalls \ {c}: AskedFor(d)' = AskedFor(d)
    BY <1>10 DEF AskedFor, LoadsStay
  <2>3. ASSUME NEW d \in LogCalls, d # c, load'[d].answer = "OK"
        PROVE  /\ load'[d].filter # "none" /\ load'[d].page \subseteq AskedFor(d)'
               /\ load'[d].next = Audit!NoEvent => load'[d].page = AskedFor(d)'
               /\ load'[d].next # Audit!NoEvent =>
                    /\ load'[d].next \in load'[d].page
                    /\ \A e \in load'[d].page: ~Audit!Older(e, load'[d].next)
                    /\ \A e \in AskedFor(d)' \ load'[d].page: Audit!Older(e, load'[d].next)
    <3>1. load'[d] = load[d]
      BY <1>10, <2>3 DEF LoadsStay
    <3> QED BY <2>2, <2>3, <3>1 DEF AuditInv, PagesAreNewest
  <2> QED BY <1>1, <1>2, <1>5, <1>11, <2>1, <2>3 DEF PagesAreNewest
<1>15. CurrentContinues'
  <2>1. \A d \in LogCalls: load'[d].current <=> load[d].current
    BY <1>10, <1>11 DEF LoadsStay
  <2>2. basis.events \subseteq log
    BY DEF AuditInv, AuditTypes
  <2> QED BY <1>1, <1>10, <1>11, <2>1, <2>2 DEF AuditInv, CurrentContinues, LoadsStay
<1> QED BY <1>12, <1>13, <1>14, <1>15 DEF AuditInv

(* A call that is refused, or ends, leaves the pages of the others.         *)
LEMMA OtherPagesStay ==
  ASSUME AuditInv, NEW c \in LogCalls, LoadsStay(c), load'[c].answer # "OK"
  PROVE  PagesAreNewest'
<1>1. \A d \in LogCalls: load'[d].answer = "OK" => d # c /\ load'[d] = load[d]
  BY DEF LoadsStay
<1>2. \A d \in LogCalls: load'[d].answer = "OK" => AskedFor(d)' = AskedFor(d)
  BY <1>1 DEF AskedFor
<1> QED BY <1>1, <1>2 DEF AuditInv, PagesAreNewest

LEMMA LogRefused ==
  ASSUME NEW c \in LogCalls, AuditInv, Audit!Refuse(c)
  PROVE  AuditInv'
<1> DEFINE new == [load[c] EXCEPT !.answer = "ERROR"]
<1>1. load' = [load EXCEPT ![c] = new] /\ UNCHANGED <<clock, appended, log, view, basis, turns>>
  BY DEF Audit!Refuse
<1>2. /\ new \in LogCall /\ new.filter = load[c].filter /\ new.cursor = load[c].cursor
      /\ new.answer = "ERROR" /\ new.from = load[c].from
  BY AuditFacts DEF LogCall
<1>3. (new.more <=> load[c].more) /\ (new.current <=> load[c].current)
  BY AuditFacts DEF LogCall
<1> HIDE DEF new
<1>4. load' \in [LogCalls -> LogCall] /\ load'[c] = new /\ LoadsStay(c)
  BY <1>1, <1>2, LoadReplaced DEF AuditInv, AuditTypes
<1>5. /\ load'[c].filter = load[c].filter /\ load'[c].cursor = load[c].cursor /\ load'[c].answer = "ERROR"
      /\ load'[c].from = load[c].from
      /\ (load'[c].more <=> load[c].more) /\ (load'[c].current <=> load[c].current)
  BY <1>2, <1>3, <1>4
<1>6. AuditTypes'
  <2>1. \A d \in LogCalls: load'[d].from \subseteq log
    BY <1>4, <1>5 DEF AuditInv, AuditTypes, LoadsStay
  <2> QED BY <1>1, <1>4, <2>1 DEF AuditInv, AuditTypes
<1>7. IdsAreUnique' /\ Audit!NewestFirst' /\ ListReaches'
  BY <1>1 DEF AuditInv, IdsAreUnique, Audit!NewestFirst, ListReaches
<1>8. PagesAreNewest'
  BY <1>4, <1>5, OtherPagesStay
<1>9. CurrentContinues'
  <2>1. \A d \in LogCalls: load'[d].current <=> load[d].current
    BY <1>4, <1>5 DEF LoadsStay
  <2> QED BY <1>1, <1>4, <1>5, <2>1 DEF AuditInv, CurrentContinues, LoadsStay
<1> QED BY <1>6, <1>7, <1>8, <1>9 DEF AuditInv

(* What AuditLogs.load does: the new call is the only current one.          *)
LEMMA LogAsked ==
  ASSUME NEW c \in LogCalls, NEW filter \in Audit!Filters, NEW more \in BOOLEAN, AuditInv,
         Audit!Load(c, filter, more), turns' \in 0..MaxTurns,
         more => view.cursor # Audit!NoEvent
  PROVE  AuditInv'
<1>1. /\ view' = [view EXCEPT !.filter = filter, !.loading = TRUE, !.error = FALSE]
      /\ UNCHANGED <<clock, appended, log, basis>>
  BY DEF Audit!Load
<1>2. view \in [filter: Audit!Filters, items: Lists, cursor: Cursors, loading: BOOLEAN, error: BOOLEAN]
  BY DEF AuditInv, AuditTypes
<1>3. /\ view' \in [filter: Audit!Filters, items: Lists, cursor: Cursors, loading: BOOLEAN, error: BOOLEAN]
      /\ view'.filter = filter /\ view'.items = view.items /\ view'.cursor = view.cursor
  BY <1>1, <1>2
<1>4. view'.loading
  BY <1>1, <1>2
<1> DEFINE cursor == IF more THEN view.cursor ELSE Audit!NoEvent
           new == [Audit!NoCall EXCEPT !.filter = filter, !.more = more, !.current = TRUE, !.cursor = cursor]
           left(d) == [load[d] EXCEPT !.current = FALSE]
<1>5. load' = [d \in LogCalls |-> IF d = c THEN new ELSE left(d)]
  BY DEF Audit!Load
<1>6. cursor \in Cursors
  BY AuditFacts DEF Cursors
<1>7. /\ new \in LogCall /\ new.filter = filter /\ new.answer = "none" /\ new.from = {} /\ new.cursor = cursor
  BY <1>6, NothingLoads DEF LogCall, Audit!NoCall
<1>8. new.more <=> more
  BY DEF Audit!NoCall
<1>9. \A d \in LogCalls: /\ left(d) \in LogCall /\ left(d).filter = load[d].filter /\ left(d).cursor = load[d].cursor
                         /\ left(d).answer = load[d].answer /\ left(d).page = load[d].page
                         /\ left(d).next = load[d].next /\ left(d).from = load[d].from /\ ~left(d).current
  <2> SUFFICES ASSUME NEW d \in LogCalls
               PROVE  /\ left(d) \in LogCall /\ left(d).filter = load[d].filter /\ left(d).cursor = load[d].cursor
                      /\ left(d).answer = load[d].answer /\ left(d).page = load[d].page
                      /\ left(d).next = load[d].next /\ left(d).from = load[d].from /\ ~left(d).current
    OBVIOUS
  <2>1. load[d] \in LogCall
    BY AuditFacts
  <2> QED BY <2>1 DEF LogCall
<1> HIDE DEF new, left
<1>10. load' \in [LogCalls -> LogCall] /\ load'[c] = new
  BY <1>5, <1>7, <1>9
<1>11. \A d \in LogCalls \ {c}:
         /\ load'[d].filter = load[d].filter /\ load'[d].cursor = load[d].cursor
         /\ load'[d].answer = load[d].answer /\ load'[d].page = load[d].page
         /\ load'[d].next = load[d].next /\ load'[d].from = load[d].from /\ ~load'[d].current
  BY <1>5, <1>9
<1>12. /\ load'[c].filter = filter /\ load'[c].answer = "none" /\ load'[c].from = {} /\ load'[c].cursor = cursor
       /\ (load'[c].more <=> more)
  BY <1>7, <1>8, <1>10
<1>13. AuditTypes'
  <2>1. \A d \in LogCalls: load'[d].from \subseteq log
    BY <1>11, <1>12 DEF AuditInv, AuditTypes
  <2> QED BY <1>1, <1>3, <1>10, <2>1 DEF AuditInv, AuditTypes
<1>14. IdsAreUnique'
  BY <1>1 DEF AuditInv, IdsAreUnique
<1>15. ListReaches' /\ Audit!NewestFirst'
  BY <1>1, <1>3 DEF AuditInv, ListReaches, Audit!NewestFirst
<1>16. PagesAreNewest'
  <2>1. \A d \in LogCalls \ {c}: AskedFor(d)' = AskedFor(d)
    BY <1>11 DEF AskedFor
  <2> QED BY <1>11, <1>12, <2>1 DEF AuditInv, PagesAreNewest
<1>17. CurrentContinues'
  <2>1. \A d \in LogCalls: load'[d].current => d = c
    BY <1>11
  <2> QED BY <1>3, <1>4, <1>12, <2>1 DEF CurrentContinues
<1> QED BY <1>13, <1>14, <1>15, <1>16, <1>17 DEF AuditInv

LEMMA LogClicked ==
  ASSUME NEW c \in LogCalls, AuditInv,
         (\E filter \in Audit!Filters: Audit!SetFilter(c, filter)) \/ Audit!Refresh(c) \/ Audit!LoadMore(c)
  PROVE  AuditInv'
<1>1. MaxTurns \in Nat /\ turns \in 0..MaxTurns
  BY AdminAppAssumption DEF AdminAppAssumption, AuditInv, AuditTypes
<1>2. Audit!Click(c) => turns' \in 0..MaxTurns
  BY <1>1 DEF Audit!Click
<1>3. ASSUME NEW filter \in Audit!Filters, Audit!SetFilter(c, filter) PROVE AuditInv'
  BY <1>2, <1>3, LogAsked DEF Audit!SetFilter
<1>4. CASE Audit!Refresh(c)
  BY <1>2, <1>4, LogAsked, AuditFacts DEF Audit!Refresh
<1>5. CASE Audit!LoadMore(c)
  BY <1>2, <1>5, LogAsked, AuditFacts DEF Audit!LoadMore
<1> QED BY <1>3, <1>4, <1>5

(* A call ends: if it was the current one, none is current any more.        *)
LEMMA LoadEnds ==
  ASSUME NEW c \in LogCalls, AuditInv, load' = [load EXCEPT ![c] = Audit!NoCall], UNCHANGED <<appended, log>>
  PROVE  /\ load' \in [LogCalls -> LogCall] /\ LoadsStay(c) /\ load'[c].from = {} /\ PagesAreNewest'
         /\ \A d \in LogCalls: load'[d].current => d # c /\ load'[d] = load[d] /\ ~load[c].current
         /\ \A d \in LogCalls: load'[d].from \subseteq log
<1>1. load' \in [LogCalls -> LogCall] /\ load'[c] = Audit!NoCall /\ LoadsStay(c)
  BY NothingLoads, LoadReplaced DEF AuditInv, AuditTypes
<1>2. load'[c].answer = "none" /\ ~load'[c].current /\ load'[c].from = {}
  BY <1>1, NothingLoads
<1>3. PagesAreNewest'
  BY <1>1, <1>2, OtherPagesStay
<1>4. \A d \in LogCalls: load'[d].current => d # c /\ load'[d] = load[d]
  BY <1>1, <1>2 DEF LoadsStay
<1>5. \A d \in LogCalls: load'[d].current => ~load[c].current
  BY <1>4 DEF AuditInv, CurrentContinues
<1>6. \A d \in LogCalls: load'[d].from \subseteq log
  BY <1>1, <1>2 DEF AuditInv, AuditTypes, LoadsStay
<1> QED BY <1>1, <1>2, <1>3, <1>4, <1>5, <1>6

LEMMA LogFailed ==
  ASSUME NEW c \in LogCalls, AuditInv, Audit!Failed(c)
  PROVE  AuditInv'
<1>1. /\ load' = [load EXCEPT ![c] = Audit!NoCall] /\ UNCHANGED <<clock, appended, log, basis, turns>>
      /\ IF load[c].current THEN view' = [view EXCEPT !.error = TRUE, !.loading = FALSE] ELSE view' = view
  BY DEF Audit!Failed
<1>2. /\ load' \in [LogCalls -> LogCall] /\ LoadsStay(c) /\ load'[c].from = {} /\ PagesAreNewest'
      /\ \A d \in LogCalls: load'[d].current => d # c /\ load'[d] = load[d] /\ ~load[c].current
      /\ \A d \in LogCalls: load'[d].from \subseteq log
  BY <1>1, LoadEnds
<1>3. view \in [filter: Audit!Filters, items: Lists, cursor: Cursors, loading: BOOLEAN, error: BOOLEAN]
  BY DEF AuditInv, AuditTypes
<1>4. /\ view' \in [filter: Audit!Filters, items: Lists, cursor: Cursors, loading: BOOLEAN, error: BOOLEAN]
      /\ view'.filter = view.filter /\ view'.items = view.items /\ view'.cursor = view.cursor
  <2>1. CASE load[c].current
    BY <1>1, <1>3, <2>1
  <2>2. CASE ~load[c].current
    BY <1>1, <1>3, <2>2
  <2> QED BY <2>1, <2>2
<1>5. AuditTypes'
  BY <1>1, <1>2, <1>4 DEF AuditInv, AuditTypes
<1>6. IdsAreUnique'
  BY <1>1 DEF AuditInv, IdsAreUnique
<1>7. ListReaches' /\ Audit!NewestFirst'
  BY <1>1, <1>4 DEF AuditInv, ListReaches, Audit!NewestFirst
<1>8. CurrentContinues'
  BY <1>1, <1>2 DEF AuditInv, CurrentContinues
<1> QED BY <1>2, <1>5, <1>6, <1>7, <1>8 DEF AuditInv

(* A page that counts: what it leaves out is older than its cursor, or the  *)
(* end of the log is reached.                                               *)
LEMMA PageReaches ==
  ASSUME NEW c \in LogCalls, AuditInv, load[c].answer = "OK",
         NEW e \in load[c].from, Audit!Matches(e, load[c].filter),
         load[c].cursor = Audit!NoEvent \/ Audit!Older(e, load[c].cursor),
         load[c].next = Audit!NoEvent \/ ~Audit!Older(e, load[c].next)
  PROVE  e \in load[c].page
<1>1. e \in AskedFor(c)
  BY DEF AskedFor
<1> QED BY <1>1 DEF AuditInv, PagesAreNewest

LEMMA PageIsAskedFor ==
  ASSUME NEW c \in LogCalls, AuditInv, load[c].answer = "OK"
  PROVE  /\ load[c].page \subseteq log /\ load[c].page \in EventSets /\ load[c].next \in Cursors
         /\ \A e \in load[c].page: /\ Audit!Matches(e, load[c].filter)
                                   /\ load[c].cursor = Audit!NoEvent \/ Audit!Older(e, load[c].cursor)
         /\ load[c].next # Audit!NoEvent =>
              load[c].next \in load[c].page /\ \A e \in load[c].page: ~Audit!Older(e, load[c].next)
<1>1. load[c].page \subseteq AskedFor(c)
  BY DEF AuditInv, PagesAreNewest
<1>2. load[c].from \subseteq log
  BY DEF AuditInv, AuditTypes
<1>3. /\ load[c].page \subseteq log
      /\ \A e \in load[c].page: /\ Audit!Matches(e, load[c].filter)
                                /\ load[c].cursor = Audit!NoEvent \/ Audit!Older(e, load[c].cursor)
  BY <1>1, <1>2 DEF AskedFor
<1> QED BY <1>3, AuditFacts DEF AuditInv, PagesAreNewest

(* The first page begins the list.                                          *)
LEMMA ListBegins ==
  ASSUME NEW c \in LogCalls, AuditInv, load[c].answer = "OK", load[c].current, ~load[c].more,
         view'.items = <<load[c].page>>, view'.cursor = load[c].next, log' = log,
         basis' = [filter |-> load[c].filter, events |-> load[c].from]
  PROVE  ListReaches' /\ Audit!NewestFirst'
<1>1. /\ load[c].page \subseteq log /\ load[c].page \in EventSets
      /\ \A e \in load[c].page: Audit!Matches(e, load[c].filter)
      /\ load[c].next # Audit!NoEvent =>
           load[c].next \in load[c].page /\ \A e \in load[c].page: ~Audit!Older(e, load[c].next)
  BY PageIsAskedFor
<1>2. ShownIn(view'.items) = load[c].page /\ DOMAIN view'.items = {1}
  BY <1>1, ShownOfPage
<1>3. load[c].cursor = Audit!NoEvent
  BY DEF AuditInv, CurrentContinues
<1>4. \A e \in load[c].from:
        Audit!Matches(e, load[c].filter) /\ (load[c].next = Audit!NoEvent \/ ~Audit!Older(e, load[c].next)) =>
          e \in load[c].page
  BY <1>3, PageReaches
<1>5. basis'.filter = load[c].filter /\ basis'.events = load[c].from
  OBVIOUS
<1>6. ListReaches'
  BY <1>1, <1>2, <1>4, <1>5 DEF ListReaches
<1>7. Audit!NewestFirst'
  <2>1. \A i, j \in DOMAIN view'.items: i = 1 /\ j = 1
    BY <1>2
  <2>2. \A i, j \in DOMAIN view'.items: ~(i < j)
    BY <2>1
  <2> QED BY <2>2 DEF Audit!NewestFirst
<1> QED BY <1>6, <1>7

(* A further page continues it: everything in it is older than the cursor,  *)
(* and nothing that is shown is.                                            *)
LEMMA ListContinues ==
  ASSUME NEW c \in LogCalls, AuditInv, load[c].answer = "OK", load[c].current, load[c].more,
         view'.items = Append(view.items, load[c].page \ ShownIn(view.items)), view'.cursor = load[c].next,
         log' = log, basis'.events = basis.events,
         basis'.filter # "mixed" => basis'.filter = basis.filter /\ load[c].filter = basis.filter
  PROVE  ListReaches' /\ Audit!NewestFirst'
<1> DEFINE before == ShownIn(view.items)
           new == load[c].page \ before
           cursor == view.cursor
<1>1. /\ load[c].page \subseteq log /\ load[c].page \in EventSets /\ load[c].next \in Cursors
      /\ \A e \in load[c].page: /\ Audit!Matches(e, load[c].filter)
                                /\ load[c].cursor = Audit!NoEvent \/ Audit!Older(e, load[c].cursor)
      /\ load[c].next # Audit!NoEvent =>
           load[c].next \in load[c].page /\ \A e \in load[c].page: ~Audit!Older(e, load[c].next)
  BY PageIsAskedFor
<1>2. load[c].cursor = cursor /\ cursor # Audit!NoEvent /\ basis.events \subseteq load[c].from
  BY DEF AuditInv, CurrentContinues
<1>3. /\ before \subseteq log /\ cursor \in log /\ \A e \in before: ~Audit!Older(e, cursor)
      /\ basis.filter # "mixed" =>
           /\ \A e \in before: Audit!Matches(e, basis.filter)
           /\ \A e \in basis.events:
                Audit!Matches(e, basis.filter) /\ ~Audit!Older(e, cursor) => e \in before
  BY <1>2 DEF AuditInv, ListReaches
<1>4. view.items \in Lists /\ log \subseteq Audit!Events /\ log \subseteq appended
  BY AuditFacts DEF AuditInv, AuditTypes
<1>5. new \in EventSets
  BY <1>1 DEF EventSets
<1>6. view'.items = Append(view.items, new) /\ view'.cursor = load[c].next
  OBVIOUS
<1> HIDE DEF new
<1>7. /\ Len(view.items) \in Nat /\ DOMAIN view.items = 1..Len(view.items)
      /\ DOMAIN view'.items = 1..(Len(view.items) + 1)
      /\ \A i \in 1..Len(view.items): view'.items[i] = view.items[i]
      /\ view'.items[Len(view.items) + 1] = new
      /\ ShownIn(view'.items) = before \cup new
  <2> DEFINE longer == Append(view.items, new)
  <2>1. /\ Len(view.items) \in Nat /\ DOMAIN view.items = 1..Len(view.items)
        /\ DOMAIN longer = 1..(Len(view.items) + 1)
        /\ \A i \in 1..Len(view.items): longer[i] = view.items[i]
        /\ longer[Len(view.items) + 1] = new
        /\ ShownIn(longer) = before \cup new
    BY <1>4, <1>5, ShownWithPage
  <2>2. view'.items = longer
    BY <1>6
  <2> HIDE DEF longer
  <2> QED BY <2>1, <2>2
<1>8. before \cup new = before \cup load[c].page /\ new \subseteq load[c].page
  BY DEF new
<1>9. ASSUME load[c].next # Audit!NoEvent, NEW e \in before PROVE ~Audit!Older(e, load[c].next)
  <2>1. load[c].next \in log /\ Audit!Older(load[c].next, cursor)
    BY <1>1, <1>2, <1>9
  <2>2. e \in Audit!Events /\ load[c].next \in Audit!Events /\ cursor \in Audit!Events
    BY <1>3, <1>4, <1>9, <2>1
  <2> QED BY <1>3, <1>9, <2>1, <2>2, OlderIsTransitive
<1>10. ASSUME basis'.filter # "mixed", NEW e \in basis.events, Audit!Matches(e, basis.filter),
              load[c].next = Audit!NoEvent \/ ~Audit!Older(e, load[c].next)
       PROVE  e \in before \cup load[c].page
  <2>1. load[c].filter = basis.filter /\ basis.filter # "mixed"
    BY <1>10
  <2>2. CASE ~Audit!Older(e, cursor)
    BY <1>3, <1>10, <2>1, <2>2
  <2>3. CASE Audit!Older(e, cursor)
    BY <1>2, <1>10, <2>1, <2>3, PageReaches
  <2> QED BY <2>2, <2>3
<1> HIDE DEF before
<1>11. ListReaches'
  <2>1. (before \cup load[c].page) \subseteq log
    BY <1>1, <1>3
  <2>2. view'.cursor # Audit!NoEvent =>
          view'.cursor \in log /\ \A e \in before \cup load[c].page: ~Audit!Older(e, view'.cursor)
    BY <1>1, <1>6, <1>9
  <2>3. basis'.filter # "mixed" => \A e \in before \cup load[c].page: Audit!Matches(e, basis'.filter)
    BY <1>1, <1>3
  <2>4. basis'.filter # "mixed" =>
          \A e \in basis'.events:
            Audit!Matches(e, basis'.filter) /\ (view'.cursor = Audit!NoEvent \/ ~Audit!Older(e, view'.cursor)) =>
              e \in before \cup load[c].page
    BY <1>6, <1>10
  <2>5. ShownIn(view'.items) = before \cup load[c].page
    BY <1>7, <1>8
  <2> QED BY <2>1, <2>2, <2>3, <2>4, <2>5 DEF ListReaches
<1>12. Audit!NewestFirst'
  <2> DEFINE n == Len(view.items)
  <2>1. ASSUME NEW e \in before, NEW f \in new PROVE Audit!Older(f, e)
    <3>1. /\ f \in log /\ Audit!Older(f, cursor) /\ e \in log /\ ~Audit!Older(e, cursor)
      BY <1>1, <1>2, <1>3, <1>8, <2>1
    <3>2. e \in Audit!Events /\ f \in Audit!Events /\ cursor \in Audit!Events /\ e \in appended /\ cursor \in appended
      BY <1>3, <1>4, <3>1
    <3>3. CASE e = cursor
      BY <3>1, <3>3
    <3>4. CASE e # cursor
      <4>1. e.id # cursor.id
        BY <3>2, <3>4 DEF AuditInv, IdsAreUnique
      <4>2. Audit!Older(cursor, e)
        BY <3>1, <3>2, <4>1, OlderIsTotal
      <4> QED BY <3>1, <3>2, <4>2, OlderIsTransitive
    <3> QED BY <3>3, <3>4
  <2>2. SUFFICES ASSUME NEW i \in DOMAIN view'.items, NEW j \in DOMAIN view'.items, i < j,
                        NEW e \in view'.items[i], NEW f \in view'.items[j]
                 PROVE  Audit!Older(f, e)
    BY DEF Audit!NewestFirst
  <2>3. i \in 1..(n + 1) /\ j \in 1..(n + 1) /\ n \in Nat
    BY <1>7
  <2> HIDE DEF n
  <2>4. i \in 1..n
    BY <2>2, <2>3
  <2>5. i \in DOMAIN view.items /\ e \in view.items[i]
    BY <1>7, <2>4 DEF n
  <2>6. CASE j \in 1..n
    <3>1. j \in DOMAIN view.items /\ f \in view.items[j]
      BY <1>7, <2>6 DEF n
    <3> QED BY <2>2, <2>5, <3>1 DEF AuditInv, Audit!NewestFirst
  <2>7. CASE j = n + 1
    <3>1. f \in new
      BY <1>7, <2>7 DEF n
    <3>2. e \in before
      BY <2>5 DEF before, ShownIn
    <3> QED BY <2>1, <3>1, <3>2
  <2> QED BY <2>3, <2>6, <2>7
<1> QED BY <1>11, <1>12

LEMMA LogLoaded ==
  ASSUME NEW c \in LogCalls, AuditInv, Audit!Loaded(c)
  PROVE  AuditInv'
<1>1. /\ load[c].answer = "OK" /\ load' = [load EXCEPT ![c] = Audit!NoCall]
      /\ UNCHANGED <<clock, appended, log, turns>>
  BY DEF Audit!Loaded
<1>2. /\ load' \in [LogCalls -> LogCall] /\ LoadsStay(c) /\ load'[c].from = {} /\ PagesAreNewest'
      /\ \A d \in LogCalls: load'[d].current => d # c /\ load'[d] = load[d] /\ ~load[c].current
      /\ \A d \in LogCalls: load'[d].from \subseteq log
  BY <1>1, LoadEnds
<1>3. IdsAreUnique'
  BY <1>1 DEF AuditInv, IdsAreUnique
<1>4. CASE ~load[c].current
  <2>1. UNCHANGED <<view, basis>>
    BY <1>4 DEF Audit!Loaded
  <2>2. AuditTypes'
    BY <1>1, <1>2, <2>1 DEF AuditInv, AuditTypes
  <2>3. ListReaches' /\ Audit!NewestFirst'
    BY <1>1, <2>1 DEF AuditInv, ListReaches, Audit!NewestFirst
  <2>4. CurrentContinues'
    BY <1>2, <2>1 DEF AuditInv, CurrentContinues
  <2> QED BY <1>2, <1>3, <2>2, <2>3, <2>4 DEF AuditInv
<1>5. CASE load[c].current
  <2>1. /\ view' = [view EXCEPT !.items = Audit!Items(c), !.cursor = load[c].next, !.loading = FALSE]
        /\ basis' = Audit!Basis(c)
    BY <1>5 DEF Audit!Loaded
  <2>2. Audit!Shown = ShownIn(view.items)
    BY DEF Audit!Shown, ShownIn
  <2>3. /\ load[c].page \in EventSets /\ load[c].next \in Cursors /\ view.items \in Lists
    BY <1>1, PageIsAskedFor, AuditFacts
  <2>4. Audit!Items(c) \in Lists
    <3>1. load[c].page \ ShownIn(view.items) \in EventSets
      BY <2>3 DEF EventSets
    <3>2. CASE load[c].more
      BY <2>2, <2>3, <3>1, <3>2, ShownWithPage DEF Audit!Items
    <3>3. CASE ~load[c].more
      BY <2>3, <3>3, ShownOfPage DEF Audit!Items
    <3> QED BY <3>2, <3>3
  <2>5. view \in [filter: Audit!Filters, items: Lists, cursor: Cursors, loading: BOOLEAN, error: BOOLEAN]
    BY DEF AuditInv, AuditTypes
  <2>6. /\ view' \in [filter: Audit!Filters, items: Lists, cursor: Cursors, loading: BOOLEAN, error: BOOLEAN]
        /\ view'.items = Audit!Items(c) /\ view'.cursor = load[c].next
    BY <2>1, <2>3, <2>4, <2>5
  <2>7. load[c].filter = view.filter /\ view.filter \in Audit!Filters /\ load[c].from \in EventSets
    BY <1>5, AuditFacts DEF AuditInv, CurrentContinues
  <2>8. /\ basis' \in [filter: Audit!Filters \cup {"mixed"}, events: EventSets] /\ basis'.events \subseteq log
        /\ load[c].more => /\ basis'.events = basis.events
                           /\ basis'.filter # "mixed" => basis'.filter = basis.filter /\ load[c].filter = basis.filter
    <3>1. /\ basis \in [filter: Audit!Filters \cup {"mixed"}, events: EventSets]
          /\ basis.events \subseteq log /\ load[c].from \subseteq log
      BY DEF AuditInv, AuditTypes
    <3>2. CASE ~load[c].more
      BY <2>1, <2>7, <3>1, <3>2 DEF Audit!Basis
    <3>3. CASE load[c].more /\ load[c].filter = basis.filter
      BY <2>1, <3>1, <3>3 DEF Audit!Basis
    <3>4. CASE load[c].more /\ load[c].filter # basis.filter
      BY <2>1, <3>1, <3>4 DEF Audit!Basis
    <3> QED BY <3>2, <3>3, <3>4
  <2>9. AuditTypes'
    BY <1>1, <1>2, <2>6, <2>8 DEF AuditInv, AuditTypes
  <2>10. ListReaches' /\ Audit!NewestFirst'
    <3>1. CASE load[c].more
      <4>1. view'.items = Append(view.items, load[c].page \ ShownIn(view.items))
        BY <2>2, <2>6, <3>1 DEF Audit!Items
      <4> QED BY <1>1, <1>5, <2>6, <2>8, <3>1, <4>1, ListContinues
    <3>2. CASE ~load[c].more
      <4>1. view'.items = <<load[c].page>>
        BY <2>6, <3>2 DEF Audit!Items
      <4>2. basis' = [filter |-> load[c].filter, events |-> load[c].from]
        BY <2>1, <3>2 DEF Audit!Basis
      <4> QED BY <1>1, <1>5, <2>6, <3>2, <4>1, <4>2, ListBegins
    <3> QED BY <3>1, <3>2
  <2>11. CurrentContinues'
    BY <1>2, <1>5 DEF CurrentContinues
  <2> QED BY <1>2, <1>3, <2>9, <2>10, <2>11 DEF AuditInv
<1> QED BY <1>4, <1>5

LEMMA AuditSteps ==
  ASSUME AuditInv, [Audit!Next]_audit
  PROVE  AuditInv'
<1>1. CASE UNCHANGED audit
  <2>1. UNCHANGED <<clock, appended, log, view, load, basis, turns>>
    BY <1>1 DEF audit
  <2>2. clock' \in 0..MaxTime /\ appended' \in EventSets /\ log' \subseteq appended' /\ IdsAreUnique'
    BY <2>1 DEF AuditInv, AuditTypes, IdsAreUnique
  <2> QED BY <2>1, <2>2, LogGrows
<1>2. ASSUME NEW e \in Audit!Events, Audit!AppendEvent(e) PROVE AuditInv'
  BY <1>2, EventAppended
<1>3. ASSUME NEW e \in appended \ log, Audit!Commit(e) PROVE AuditInv'
  BY <1>3, EventCommitted
<1>4. CASE Audit!Tick
  BY <1>4, TimePasses
<1>5. ASSUME NEW c \in LogCalls, Audit!Serve(c) \/ Audit!Refuse(c) \/ Audit!Loaded(c) \/ Audit!Failed(c)
      PROVE  AuditInv'
  BY <1>5, LogServed, LogRefused, LogLoaded, LogFailed
<1>6. ASSUME NEW c \in LogCalls,
             (\E filter \in Audit!Filters: Audit!SetFilter(c, filter)) \/ Audit!Refresh(c) \/ Audit!LoadMore(c)
      PROVE  AuditInv'
  BY <1>6, LogClicked
<1> QED BY <1>1, <1>2, <1>3, <1>4, <1>5, <1>6 DEF Audit!Next

LEMMA AuditIsRight ==
  ASSUME AuditInv
  PROVE  AuditPages
<1>1. view \in [filter: Audit!Filters, items: Lists, cursor: Cursors, loading: BOOLEAN, error: BOOLEAN]
  BY DEF AuditInv, AuditTypes
<1>2. /\ DOMAIN view = {"filter", "items", "cursor", "loading", "error"}
      /\ view.filter \in Audit!Filters /\ view.items \in Seq(SUBSET Audit!Events)
      /\ view.cursor \in Audit!Events \cup {Audit!NoEvent}
  BY <1>1 DEF Lists, EventSets, Cursors
<1>3. {view.loading, view.error} \subseteq BOOLEAN
  BY <1>1
<1>4. Audit!TypeOK
  <2>1. clock \in 0..MaxTime /\ appended \subseteq Audit!Events /\ log \subseteq appended
    BY DEF AuditInv, AuditTypes, EventSets
  <2>2. basis.filter \in Audit!Filters \cup {"mixed"} /\ basis.events \subseteq log /\ turns \in 0..MaxTurns
    BY DEF AuditInv, AuditTypes
  <2>3. \A c \in LogCalls: load[c].filter \in Audit!Filters \cup {"none"} /\ load[c].from \subseteq log
    BY AuditFacts DEF AuditInv, AuditTypes
  <2> QED BY <1>2, <1>3, <2>1, <2>2, <2>3 DEF Audit!TypeOK
<1>5. Audit!ListIsWhole
  <2>1. Audit!Shown = ShownIn(view.items)
    BY DEF Audit!Shown, ShownIn
  <2>2. basis.filter = view.filter => basis.filter # "mixed"
    BY AuditFacts
  <2> QED BY <2>1, <2>2 DEF AuditInv, ListReaches, Audit!ListIsWhole
<1> QED BY <1>4, <1>5 DEF AuditInv, AuditPages

(***************************************************************************)
(* The whole console.                                                      *)
(***************************************************************************)

AppInv == ConsoleInv /\ EmployeesInv /\ AuditInv

LEMMA AppIsInvariant == AppSpec => []AppInv
<1>1. AppInit => AppInv
  BY ConsoleStarts, EmployeesStart, AuditStarts DEF AppInit, AppInv
<1>2. AppInv /\ [AppNext]_app => AppInv'
  <2> SUFFICES ASSUME AppInv, [AppNext]_app PROVE AppInv'
    OBVIOUS
  <2>1. [Console!Next]_console
    BY DEF AppNext, ConsoleStep, EmployeesStep, AuditStep, app
  <2>2. [Staff!Next]_employees
    BY DEF AppNext, ConsoleStep, EmployeesStep, AuditStep, app
  <2>3. [Audit!Next]_audit
    BY DEF AppNext, ConsoleStep, EmployeesStep, AuditStep, app
  <2> QED BY <2>1, <2>2, <2>3, ConsoleSteps, EmployeesSteps, AuditSteps DEF AppInv
<1> QED BY <1>1, <1>2, PTL DEF AppSpec

(* Everything on the screen belongs together, whatever answers are still on *)
(* their way: the names, the data and the refusal to the account that is    *)
(* signed in; the panel to the list, the list to the page's own changes,    *)
(* and the overrides to the selected employee; and a member loads nothing.  *)
THEOREM ScreensAreOfOne == AppSpec => []AdminScreens
<1>1. AppInv => AdminScreens
  BY ConsoleIsRight, EmployeesAreRight DEF AppInv, AdminScreens
<1> QED BY <1>1, AppIsInvariant, PTL

(* The audit log is paged without gaps while it grows: down to its cursor   *)
(* the list has every matching event that was committed when its first page *)
(* was read, each once and in the order of the log, whatever was appended,  *)
(* committed late or filtered by in between.                                *)
THEOREM PagesAreWhole == AppSpec => []AuditPages
<1>1. AppInv => AuditPages
  BY AuditIsRight DEF AppInv
<1> QED BY <1>1, AppIsInvariant, PTL

(***************************************************************************)
(* The Desktop's screens.                                                  *)
(***************************************************************************)

LEMMA ScreensBounds ==
  /\ MaxActs \in Nat /\ MaxKeys \in Nat /\ MaxSwitches \in Nat /\ MaxRemounts \in Nat /\ MaxTries \in Nat
  /\ MaxSelections \in Nat /\ MaxRetries \in Nat /\ PageSize \in Nat /\ MaxMessages \in Nat /\ MaxTaps \in Nat
BY ScreensAssumption DEF ScreensAssumption


(***************************************************************************)
(* The shell.                                                              *)
(***************************************************************************)

Owner == Members \cup {"none"}
Item(S) == {Shell!Nobody} \cup [id: S, by: Owner]
ShellView == [user: Owner, projects: Owner, project: Item(Projects), tasks: Item(Projects), task: Item(Tasks),
              artifacts: Item(Tasks), agents: Owner, agentsLoading: BOOLEAN, loading: BOOLEAN, error: BOOLEAN]
ShellCall == [op: Shell!Ops \cup {"none"}, generation: Nat, on: Members \cup Projects \cup Tasks \cup {"none"},
              next: [id: Projects \cup Tasks \cup {"none"}, by: Owner \cup {"submit", "decide"}], by: Owner,
              current: BOOLEAN, answer: {"none", "OK", "DENIED", "LOST"}]

OnTaskOps == {"startTask", "readFile", "prompt", "responses", "register", "artifacts", "submit", "decide", "result", "task"}
            \cup Shell!WriteOps

(* A call is made with what its operation takes.                            *)
Fits(k) ==
  /\ k.op = "none" => k = Shell!NoCall
  /\ k.op = "login" => k.on \in Members
  /\ k.op \in {"tasks", "createTask"} => k.on \in Projects
  /\ k.op \in OnTaskOps => k.on \in Tasks
  /\ k.op = "projects" => k.next \in Item(Projects)
  /\ k.op = "tasks" => k.next \in Item(Tasks)

Around ==
  /\ loadingRef \in BOOLEAN /\ due \subseteq {"project", "task"} /\ acts \in 0..MaxActs
  /\ shown \in [user: Owner, project: Projects \cup {"none"}, task: Tasks \cup {"none"}]
  /\ inbox \in Seq(ShellCalls \cup {"lost"})

ShellTypes ==
  /\ shell \in ShellView /\ generation \in Nat /\ main \in Owner
  /\ asking \in [ShellCalls -> ShellCall] /\ \A c \in ShellCalls: Fits(asking[c])
  /\ Around

(* Calls of no later generation, and what is open of this one: who the user *)
(* is asked only before it is known, a login alone is under way, and one    *)
(* load of the agents, which shows.                                         *)
Known(calls, g, user, loading) ==
  \A c \in ShellCalls:
    /\ calls[c].generation <= g
    /\ calls[c].answer = "OK" /\ calls[c].op # "login" => calls[c].by # "none"
    /\ calls[c].op = "me" => calls[c].generation = 0 /\ (g = 0 => user = "none")
    /\ calls[c].op = "login" => calls[c].generation # 0 /\ user = "none"
    /\ calls[c].op = "agents" /\ calls[c].generation = g => user # "none" /\ loading
    /\ \A d \in ShellCalls:
         /\ calls[d].op = calls[c].op
         /\ \/ calls[c].op \in {"me", "login"}
            \/ calls[c].op = "agents" /\ calls[c].generation = g /\ calls[d].generation = g
         => d = c

(* A call of the user who is signed in, in a session that Main may have     *)
(* lost meanwhile; so is what it selects.                                   *)
IsMine(k, user) ==
  /\ user # "none" /\ k.by \in {user, "none"}
  /\ k.op \in {"projects", "tasks"} => k.next.by \in {user, "none"}

(* What is open of this generation, but for the login, is of the user; and  *)
(* Main's session is that of the user, or of the one who is about to be.    *)
Owned(calls, g, user, m) ==
  /\ user # "none" => m \in {user, "none"}
  /\ \A c \in ShellCalls:
       /\ calls[c].generation = g /\ calls[c].op \notin {"none", "me", "login"} => IsMine(calls[c], user)
       /\ calls[c].generation = g /\ calls[c].op = "me" => m \in {calls[c].by, "none"}
       /\ calls[c].op = "login" /\ calls[c].answer = "OK" => m \in {calls[c].on, "none"}

(* What is shown is of the user; without one, nothing is selected.          *)
ShowsOwn(front) ==
  /\ {front.projects, front.project.by, front.tasks.by, front.artifacts.by, front.agents, front.task.by} \subseteq {front.user, "none"}
  /\ front.user = "none" => front.project = Shell!Nobody /\ front.task = Shell!Nobody

(* The calls and the screen belong together until a task of another account *)
(* has been shown; agents are loaded once at a time in any case.            *)
ShellInv ==
  /\ ShellTypes
  /\ Known(asking, generation, shell.user, shell.agentsLoading)
  /\ ~foreign => Owned(asking, generation, shell.user, main) /\ ShowsOwn(shell)

(* No call.                                                                 *)
LEMMA NoneAsked ==
  /\ Shell!NoCall \in ShellCall /\ Fits(Shell!NoCall) /\ Shell!Nobody \in [id: {"none"}, by: {"none"}]
  /\ Shell!NoCall.op = "none" /\ Shell!NoCall.generation = 0 /\ Shell!NoCall.by = "none" /\ Shell!NoCall.answer = "none"
  /\ ~Shell!NoCall.current
<1>1. Shell!Nobody \in [id: {"none"}, by: {"none"}]
  BY DEF Shell!Nobody
<1>2. Shell!Nobody \in [id: Projects \cup Tasks \cup {"none"}, by: Owner \cup {"submit", "decide"}]
  BY <1>1 DEF Owner
<1>3. Shell!NoCall \in ShellCall
  BY <1>2 DEF Shell!NoCall, ShellCall, Owner
<1>4. /\ Shell!NoCall.op = "none" /\ Shell!NoCall.generation = 0 /\ Shell!NoCall.by = "none" /\ Shell!NoCall.answer = "none"
      /\ ~Shell!NoCall.current
  BY DEF Shell!NoCall
<1>5. Fits(Shell!NoCall)
  BY <1>4 DEF Fits, OnTaskOps, Shell!WriteOps
<1> QED BY <1>1, <1>3, <1>4, <1>5

(* A call that is sent. *)
LEMMA CallSent ==
  ASSUME NEW op \in Shell!Ops, NEW g \in Nat, NEW on \in Members \cup Projects \cup Tasks \cup {"none"},
         NEW next \in [id: Projects \cup Tasks \cup {"none"}, by: Owner \cup {"submit", "decide"}], NEW by \in Owner
  PROVE  /\ Shell!Sent(op, g, on, next, by) \in ShellCall
         /\ Shell!Sent(op, g, on, next, by).op = op /\ Shell!Sent(op, g, on, next, by).generation = g
         /\ Shell!Sent(op, g, on, next, by).on = on /\ Shell!Sent(op, g, on, next, by).next = next
         /\ Shell!Sent(op, g, on, next, by).by = by
         /\ Shell!Sent(op, g, on, next, by).answer = "none" /\ Shell!Sent(op, g, on, next, by).current
<1> DEFINE k == Shell!Sent(op, g, on, next, by)
<1>1. /\ k.op = op /\ k.generation = g /\ k.on = on /\ k.next = next /\ k.by = by
      /\ k.answer = "none" /\ k.current
  BY DEF Shell!Sent
<1>2. k \in ShellCall
  BY DEF Shell!Sent, ShellCall
<1> QED BY <1>1, <1>2

(* A step that forgets calls and makes calls for the user who is signed in. *)
New(k, g) ==
  /\ k \in ShellCall /\ Fits(k) /\ k.op \notin {"none", "me", "login", "agents"}
  /\ k.generation = g /\ k.answer = "none"

LEMMA CallsKept ==
  ASSUME NEW calls \in [ShellCalls -> ShellCall], NEW g \in Nat, NEW user, NEW loading, Known(calls, g, user, loading),
         NEW next \in [ShellCalls -> ShellCall],
         \A d \in ShellCalls: next[d] = calls[d] \/ next[d] = Shell!NoCall \/ New(next[d], g)
  PROVE  Known(next, g, user, loading)
<1> SUFFICES ASSUME NEW c \in ShellCalls
             PROVE  /\ next[c].generation <= g
                    /\ next[c].answer = "OK" /\ next[c].op # "login" => next[c].by # "none"
                    /\ next[c].op = "me" => next[c].generation = 0 /\ (g = 0 => user = "none")
                    /\ next[c].op = "login" => next[c].generation # 0 /\ user = "none"
                    /\ next[c].op = "agents" /\ next[c].generation = g => user # "none" /\ loading
                    /\ \A d \in ShellCalls:
                         /\ next[d].op = next[c].op
                         /\ \/ next[c].op \in {"me", "login"}
                            \/ next[c].op = "agents" /\ next[c].generation = g /\ next[d].generation = g
                         => d = c
  BY DEF Known
<1>1. CASE next[c] = calls[c]
  <2>1. \A d \in ShellCalls: next[d].op = next[c].op /\ next[c].op \in {"me", "login", "agents"} => next[d] = calls[d]
    BY NoneAsked DEF New
  <2> QED BY <1>1, <2>1 DEF Known
<1>2. CASE next[c] = Shell!NoCall
  BY <1>2, NoneAsked
<1>3. CASE New(next[c], g)
  BY <1>3 DEF New
<1> QED BY <1>1, <1>2, <1>3

LEMMA OwnedKept ==
  ASSUME NEW calls, NEW g, NEW user, NEW m, Owned(calls, g, user, m), NEW next,
         \A d \in ShellCalls: next[d] = calls[d] \/ next[d] = Shell!NoCall \/ (New(next[d], g) /\ IsMine(next[d], user))
  PROVE  Owned(next, g, user, m)
BY NoneAsked DEF Owned, New

ListsOwn(front) == {front.projects, front.project.by, front.tasks.by, front.artifacts.by, front.agents} \subseteq {front.user, "none"}
Bare(front) == front.user = "none" => front.project = Shell!Nobody /\ front.task = Shell!Nobody

LEMMA Remembered ==
  ASSUME Remember, ~foreign'
  PROVE  ~foreign /\ shell'.task.by \in {shell'.user, "none"}
BY Zenon DEF Remember

(* A step that leaves the user and the generation alone. *)
LEMMA QuietStep ==
  ASSUME ShellInv, Remember, Around', generation' = generation, main' = main, shell' \in ShellView,
         shell'.user = shell.user, shell'.agentsLoading = shell.agentsLoading, asking' \in [ShellCalls -> ShellCall],
         \A d \in ShellCalls:
           \/ asking'[d] = asking[d] \/ asking'[d] = Shell!NoCall
           \/ New(asking'[d], generation) /\ (~foreign' => IsMine(asking'[d], shell.user)),
         ~foreign' => ListsOwn(shell') /\ Bare(shell')
  PROVE  ShellInv'
<1> USE DEF ShellInv
<1>1. ShellTypes'
  <2>1. \A d \in ShellCalls: Fits(asking'[d])
    BY NoneAsked DEF ShellTypes, New
  <2>2. generation' \in Nat /\ main' \in Owner
    BY DEF ShellTypes
  <2> HIDE DEF ShellInv
  <2> QED BY <2>1, <2>2 DEF ShellTypes, Around, Fits
<1>2. Known(asking, generation, shell.user, shell.agentsLoading)'
  <2>1. Known(asking', generation, shell.user, shell.agentsLoading)
    BY CallsKept DEF ShellTypes
  <2> QED BY <2>1 DEF Known
<1>3. ASSUME ~foreign' PROVE Owned(asking, generation, shell.user, main)' /\ ShowsOwn(shell)'
  <2>1. ~foreign /\ shell'.task.by \in {shell'.user, "none"}
    BY <1>3, Remembered
  <2>2. Owned(asking', generation, shell.user, main)
    BY <1>3, <2>1, OwnedKept
  <2>3. Owned(asking, generation, shell.user, main)'
    BY <2>2 DEF Owned, IsMine
  <2>4. ShowsOwn(shell)'
    BY <1>3, <2>1 DEF ShowsOwn, ListsOwn, Bare
  <2> QED BY <2>3, <2>4
<1> QED BY <1>1, <1>2, <1>3

LEMMA OneCallStep ==
  ASSUME ShellInv, Remember, Around', generation' = generation, main' = main, shell' \in ShellView,
         shell'.user = shell.user, shell'.agentsLoading = shell.agentsLoading, NEW c \in ShellCalls, NEW r,
         asking' = [asking EXCEPT ![c] = r],
         \/ r = Shell!NoCall
         \/ New(r, generation) /\ (~foreign' => IsMine(r, shell.user)),
         ~foreign' => ListsOwn(shell') /\ Bare(shell')
  PROVE  ShellInv'
<1>1. asking \in [ShellCalls -> ShellCall] /\ r \in ShellCall
  BY NoneAsked DEF ShellInv, ShellTypes, New
<1>2. /\ asking' \in [ShellCalls -> ShellCall] /\ asking'[c] = r
      /\ \A d \in ShellCalls \ {c}: asking'[d] = asking[d]
  BY <1>1
<1> QED BY <1>2, QuietStep

LEMMA MineNow ==
  ASSUME ShellInv, ~foreign, NEW c \in ShellCalls, ~Shell!Stale(c), asking[c].op \notin {"none", "me", "login"}
  PROVE  IsMine(asking[c], shell.user) /\ main \in {shell.user, "none"}
BY DEF ShellInv, Owned, IsMine, Shell!Stale

LEMMA OwnScreen ==
  ASSUME ShellInv, ~foreign
  PROVE  ListsOwn(shell) /\ Bare(shell)
BY DEF ShellInv, ShowsOwn, ListsOwn, Bare

LEMMA AnsweredCall ==
  ASSUME ShellInv, NEW c \in ShellCalls, NEW ops, NEW answer, Shell!Answered(c, ops, answer)
  PROVE  /\ asking[c] \in ShellCall /\ Fits(asking[c]) /\ asking[c].op \in ops /\ asking[c].answer = answer
         /\ inbox' \in Seq(ShellCalls \cup {"lost"}) /\ acts' \in 0..MaxActs /\ main' = main
         /\ shown' = shown /\ shown' \in [user: Owner, project: Projects \cup {"none"}, task: Tasks \cup {"none"}]
         /\ loadingRef \in BOOLEAN /\ due \subseteq {"project", "task"}
<1>1. inbox' = Tail(inbox) /\ inbox # <<>> /\ UNCHANGED <<shown, main, acts>> /\ asking[c].op \in ops /\ asking[c].answer = answer
  BY DEF Shell!Answered
<1>2. ShellTypes /\ Around
  BY DEF ShellInv, ShellTypes
<1>3. inbox' \in Seq(ShellCalls \cup {"lost"})
  BY <1>1, <1>2 DEF Around
<1>4. asking[c] \in ShellCall /\ Fits(asking[c])
  BY <1>2 DEF ShellTypes
<1>5. shown' = shown /\ main' = main /\ acts' = acts
  BY <1>1
<1>6. shown' \in [user: Owner, project: Projects \cup {"none"}, task: Tasks \cup {"none"}] /\ acts' \in 0..MaxActs
  BY <1>2, <1>5 DEF Around
<1>7. loadingRef \in BOOLEAN /\ due \subseteq {"project", "task"}
  BY <1>2 DEF Around
<1> QED BY <1>1, <1>3, <1>4, <1>5, <1>6, <1>7

LEMMA DiscardKeeps ==
  ASSUME ShellInv, Remember, NEW c \in ShellCalls, Shell!Discard(c)
  PROVE  ShellInv'
<1>1. PICK answer \in {"OK", "DENIED", "LOST"}: Shell!Answered(c, Shell!Ops \ {"agents", "task"}, answer)
  BY DEF Shell!Discard
<1>2. Around'
  BY <1>1, AnsweredCall DEF Shell!Discard, Around
<1>3. shell' = shell /\ generation' = generation /\ main' = main /\ asking' = [asking EXCEPT ![c] = Shell!NoCall]
  BY <1>1, AnsweredCall DEF Shell!Discard, Shell!Free, Shell!Put
<1> QED BY <1>2, <1>3, Remembered, OwnScreen, OneCallStep DEF ShellInv, ShellTypes

LEMMA FailedKeeps ==
  ASSUME ShellInv, Remember, NEW c \in ShellCalls, Shell!Failed(c)
  PROVE  ShellInv'
<1>1. Shell!Answered(c, Shell!Ops \ {"projects", "tasks", "agents", "me", "task"}, "LOST")
  BY DEF Shell!Failed
<1>2. Around'
  BY <1>1, AnsweredCall DEF Shell!Failed, Around, Shell!Same
<1>3. generation' = generation /\ main' = main /\ asking' = [asking EXCEPT ![c] = Shell!NoCall]
  BY <1>1, AnsweredCall DEF Shell!Failed, Shell!Free, Shell!Put, Shell!Same
<1>4. shell' \in {shell, [shell EXCEPT !.error = TRUE]}
  BY DEF Shell!Failed
<1>5. /\ shell' \in ShellView /\ shell'.user = shell.user /\ shell'.agentsLoading = shell.agentsLoading
      /\ (ListsOwn(shell) => ListsOwn(shell')) /\ (Bare(shell) => Bare(shell'))
  BY <1>4 DEF ShellInv, ShellTypes, ShellView, ListsOwn, Bare
<1> QED BY <1>2, <1>3, <1>5, Remembered, OwnScreen, OneCallStep

(* What is shown is of the user, where a call of this login was answered. *)
LEMMA ProjectsLoadedKeeps ==
  ASSUME ShellInv, Remember, NEW c \in ShellCalls, Shell!ProjectsLoaded(c)
  PROVE  ShellInv'
<1> DEFINE k == asking[c]
<1>1. PICK answer \in {"OK", "LOST"}:
        /\ Shell!Answered(c, {"projects"}, answer)
        /\ shell' = [shell EXCEPT !.projects = IF answer = "OK" THEN k.by ELSE @, !.project = Shell!Chosen(c, @),
                                  !.error = (answer = "LOST"), !.loading = FALSE]
  BY DEF Shell!ProjectsLoaded
<1>2. due' \in {due, due \cup {"project"}} /\ ~Shell!Stale(c) /\ asking' = [asking EXCEPT ![c] = Shell!NoCall]
      /\ generation' = generation /\ loadingRef' = loadingRef
  BY DEF Shell!ProjectsLoaded, Shell!Free, Shell!Put, Shell!Same
<1>3. Around' /\ main' = main
  BY <1>1, <1>2, AnsweredCall DEF Around
<1>4. k.by \in Owner /\ k.next \in Item(Projects) /\ k.op = "projects" /\ shell \in ShellView
  BY <1>1, AnsweredCall DEF Fits, ShellCall, ShellInv, ShellTypes
<1>5. Shell!Chosen(c, shell.project) \in {shell.project, k.next}
  BY DEF Shell!Chosen
<1>6. /\ shell' \in ShellView /\ shell'.user = shell.user /\ shell'.agentsLoading = shell.agentsLoading
      /\ shell'.projects \in {shell.projects, k.by} /\ shell'.project \in {shell.project, k.next}
      /\ shell'.tasks = shell.tasks /\ shell'.task = shell.task
      /\ shell'.artifacts = shell.artifacts /\ shell'.agents = shell.agents
  BY <1>1, <1>4, <1>5 DEF ShellView
<1>7. ASSUME ~foreign' PROVE ListsOwn(shell') /\ Bare(shell')
  <2>1. ~foreign /\ IsMine(k, shell.user) /\ ListsOwn(shell)
    BY <1>2, <1>4, <1>7, Remembered, MineNow, OwnScreen
  <2>2. k.by \in {shell.user, "none"} /\ k.next.by \in {shell.user, "none"} /\ shell.user # "none"
    BY <1>4, <2>1 DEF IsMine
  <2> QED BY <1>6, <2>1, <2>2 DEF ListsOwn, Bare
<1> QED BY <1>2, <1>3, <1>6, <1>7, OneCallStep

LEMMA TasksLoadedKeeps ==
  ASSUME ShellInv, Remember, NEW c \in ShellCalls, Shell!TasksLoaded(c)
  PROVE  ShellInv'
<1> DEFINE k == asking[c]
<1>1. PICK answer \in {"OK", "LOST"}:
        /\ Shell!Answered(c, {"tasks"}, answer)
        /\ shell' = [shell EXCEPT !.tasks = IF answer = "OK" THEN [id |-> k.on, by |-> k.by] ELSE @, !.task = Shell!Chosen(c, @),
                                  !.error = (answer = "LOST"), !.loading = FALSE]
  BY DEF Shell!TasksLoaded
<1>2. due' \in {due, due \cup {"task"}} /\ ~Shell!Stale(c) /\ asking' = [asking EXCEPT ![c] = Shell!NoCall]
      /\ generation' = generation /\ loadingRef' = loadingRef
  BY DEF Shell!TasksLoaded, Shell!Free, Shell!Put, Shell!Same
<1>3. Around' /\ main' = main
  BY <1>1, <1>2, AnsweredCall DEF Around
<1>4. k.by \in Owner /\ k.on \in Projects /\ k.next \in Item(Tasks) /\ k.op = "tasks" /\ shell \in ShellView
  BY <1>1, AnsweredCall DEF Fits, ShellCall, ShellInv, ShellTypes
<1>5. Shell!Chosen(c, shell.task) \in {shell.task, k.next} /\ [id |-> k.on, by |-> k.by] \in Item(Projects)
  BY <1>4 DEF Shell!Chosen, Item
<1>6. /\ shell' \in ShellView /\ shell'.user = shell.user /\ shell'.agentsLoading = shell.agentsLoading
      /\ shell'.tasks \in {shell.tasks, [id |-> k.on, by |-> k.by]}
      /\ shell'.projects = shell.projects /\ shell'.project = shell.project
      /\ shell'.artifacts = shell.artifacts /\ shell'.agents = shell.agents
  BY <1>1, <1>4, <1>5 DEF ShellView
<1>7. ASSUME ~foreign' PROVE ListsOwn(shell') /\ Bare(shell')
  <2>1. ~foreign /\ IsMine(k, shell.user) /\ ListsOwn(shell)
    BY <1>2, <1>4, <1>7, Remembered, MineNow, OwnScreen
  <2>2. k.by \in {shell.user, "none"} /\ shell.user # "none"
    BY <2>1 DEF IsMine
  <2> QED BY <1>6, <2>1, <2>2 DEF ListsOwn, Bare
<1> QED BY <1>2, <1>3, <1>6, <1>7, OneCallStep

LEMMA ArtifactsLoadedKeeps ==
  ASSUME ShellInv, Remember, NEW c \in ShellCalls, Shell!ArtifactsLoaded(c)
  PROVE  ShellInv'
<1> DEFINE k == asking[c]
<1>1. Shell!Answered(c, {"artifacts"}, "OK") /\ ~Shell!Stale(c) /\ asking' = [asking EXCEPT ![c] = Shell!NoCall]
      /\ shell' = [shell EXCEPT !.artifacts = [id |-> k.on, by |-> k.by]]
      /\ generation' = generation /\ loadingRef' = loadingRef /\ due' = due
  BY DEF Shell!ArtifactsLoaded, Shell!Free, Shell!Put, Shell!Same
<1>2. Around' /\ main' = main
  BY <1>1, AnsweredCall DEF Around
<1>3. k.by \in Owner /\ k.on \in Tasks /\ k.op = "artifacts" /\ shell \in ShellView
  BY <1>1, AnsweredCall DEF Fits, OnTaskOps, ShellCall, ShellInv, ShellTypes
<1>4. /\ shell' \in ShellView /\ shell'.user = shell.user /\ shell'.agentsLoading = shell.agentsLoading
      /\ shell'.artifacts.by = k.by /\ shell'.tasks = shell.tasks
      /\ shell'.projects = shell.projects /\ shell'.project = shell.project /\ shell'.agents = shell.agents
  BY <1>1, <1>3 DEF ShellView, Item
<1>5. ASSUME ~foreign' PROVE ListsOwn(shell') /\ Bare(shell')
  <2>1. ~foreign /\ IsMine(k, shell.user) /\ ListsOwn(shell)
    BY <1>1, <1>3, <1>5, Remembered, MineNow, OwnScreen
  <2> QED BY <1>4, <2>1 DEF ListsOwn, Bare, IsMine
<1> QED BY <1>1, <1>2, <1>4, <1>5, OneCallStep

(* Answers that at most clear the error or the loading. *)
LEMMA CalmStep ==
  ASSUME ShellInv, Remember, Around', NEW c \in ShellCalls, generation' = generation, main' = main,
         asking' = [asking EXCEPT ![c] = Shell!NoCall], NEW loading \in BOOLEAN, NEW error \in BOOLEAN,
         shell' = [shell EXCEPT !.loading = loading, !.error = error]
  PROVE  ShellInv'
<1>1. /\ shell' \in ShellView /\ shell'.user = shell.user /\ shell'.agentsLoading = shell.agentsLoading
      /\ (ListsOwn(shell) => ListsOwn(shell')) /\ (Bare(shell) => Bare(shell'))
  BY DEF ShellInv, ShellTypes, ShellView, ListsOwn, Bare
<1> QED BY <1>1, Remembered, OwnScreen, OneCallStep

LEMMA UnchangedScreen ==
  ASSUME ShellInv, Remember, Around', NEW c \in ShellCalls, generation' = generation, main' = main,
         asking' = [asking EXCEPT ![c] = Shell!NoCall], shell' = shell
  PROVE  ShellInv'
BY Remembered, OwnScreen, OneCallStep DEF ShellInv, ShellTypes

LEMMA WorkedKeeps ==
  ASSUME ShellInv, Remember, NEW c \in ShellCalls, Shell!Worked(c)
  PROVE  ShellInv'
<1>1. /\ Shell!Answered(c, {"readFile", "prompt", "responses"} \cup Shell!WriteOps, "OK")
      /\ shell' = [shell EXCEPT !.error = @ /\ asking[c].op \in {"prompt", "responses"}]
      /\ asking' = [asking EXCEPT ![c] = Shell!NoCall]
      /\ generation' = generation /\ loadingRef' = loadingRef /\ due' = due
  BY DEF Shell!Worked, Shell!Free, Shell!Put, Shell!Same
<1>2. Around' /\ main' = main
  BY <1>1, AnsweredCall DEF Around
<1>3. shell' \in {[shell EXCEPT !.error = FALSE], shell}
  <2>1. CASE asking[c].op \in {"prompt", "responses"}
    BY <1>1, <2>1 DEF ShellInv, ShellTypes, ShellView
  <2>2. CASE asking[c].op \notin {"prompt", "responses"}
    BY <1>1, <2>2 DEF ShellInv, ShellTypes, ShellView
  <2> QED BY <2>1, <2>2
<1>4. shell = [shell EXCEPT !.loading = shell.loading, !.error = shell.error] /\ shell.error \in BOOLEAN /\ shell.loading \in BOOLEAN
  BY DEF ShellInv, ShellTypes, ShellView
<1>5. [shell EXCEPT !.error = FALSE] = [shell EXCEPT !.loading = shell.loading, !.error = FALSE]
  BY DEF ShellInv, ShellTypes, ShellView
<1>6. CASE shell' = shell
  BY <1>1, <1>2, <1>6, UnchangedScreen
<1>7. CASE shell' = [shell EXCEPT !.error = FALSE]
  BY <1>1, <1>2, <1>4, <1>5, <1>7, CalmStep
<1> QED BY <1>3, <1>6, <1>7

LEMMA NoCurrentUserKeeps ==
  ASSUME ShellInv, Remember, NEW c \in ShellCalls, Shell!NoCurrentUser(c)
  PROVE  ShellInv'
<1>1. PICK answer \in {"DENIED", "LOST"}: Shell!Answered(c, {"me"}, answer)
  BY DEF Shell!NoCurrentUser
<1>2. /\ shell' = [shell EXCEPT !.loading = FALSE] /\ asking' = [asking EXCEPT ![c] = Shell!NoCall]
      /\ generation' = generation /\ loadingRef' = loadingRef /\ due' = due
  BY DEF Shell!NoCurrentUser, Shell!Free, Shell!Put, Shell!Same
<1>3. Around' /\ main' = main
  BY <1>1, <1>2, AnsweredCall DEF Around
<1>4. shell' = [shell EXCEPT !.loading = FALSE, !.error = shell.error] /\ shell.error \in BOOLEAN
  BY <1>2 DEF ShellInv, ShellTypes, ShellView
<1> QED BY <1>2, <1>3, <1>4, CalmStep

LEMMA ScreenStays ==
  ASSUME ShellInv, Remember, NEW c \in ShellCalls, Shell!LoginRefused(c) \/ Shell!AgentsRefusedLate(c) \/ Shell!ResultRefused(c)
  PROVE  ShellInv'
<1>1. Shell!Answered(c, {"login"}, "DENIED") \/ Shell!Answered(c, {"agents"}, "DENIED") \/ Shell!Answered(c, {"result"}, "DENIED")
  BY DEF Shell!LoginRefused, Shell!AgentsRefusedLate, Shell!ResultRefused
<1>2. /\ shell' = shell /\ asking' = [asking EXCEPT ![c] = Shell!NoCall]
      /\ generation' = generation /\ loadingRef' \in {loadingRef, FALSE} /\ due' = due
  BY DEF Shell!LoginRefused, Shell!AgentsRefusedLate, Shell!ResultRefused, Shell!Free, Shell!Put, Shell!Same
<1>3. loadingRef' \in BOOLEAN
  BY <1>1, <1>2, AnsweredCall, Zenon
<1>4. Around' /\ main' = main
  BY <1>1, <1>2, <1>3, AnsweredCall DEF Around
<1> QED BY <1>2, <1>4, UnchangedScreen

(* A non-stale answer of the agents: no other load of this login runs. *)
LEMMA AgentsLoadedKeeps ==
  ASSUME ShellInv, Remember, NEW c \in ShellCalls, Shell!AgentsLoaded(c)
  PROVE  ShellInv'
<1> DEFINE k == asking[c]
<1>1. PICK answer \in {"OK", "LOST"}:
        /\ Shell!Answered(c, {"agents"}, answer)
        /\ shell' = IF Shell!Stale(c) THEN shell
                    ELSE [shell EXCEPT !.agentsLoading = FALSE, !.agents = IF answer = "OK" THEN k.by ELSE @]
  BY DEF Shell!AgentsLoaded
<1>2. /\ asking' = [asking EXCEPT ![c] = Shell!NoCall]
      /\ generation' = generation /\ loadingRef' = FALSE /\ due' = due
  BY DEF Shell!AgentsLoaded, Shell!Free, Shell!Put
<1>3. Around' /\ main' = main
  BY <1>1, <1>2, AnsweredCall DEF Around
<1>4. CASE Shell!Stale(c)
  BY <1>1, <1>2, <1>3, <1>4, UnchangedScreen
<1>5. CASE ~Shell!Stale(c)
  <2>1. k.by \in Owner /\ k.op = "agents" /\ shell \in ShellView /\ asking \in [ShellCalls -> ShellCall] /\ generation \in Nat
    BY <1>1, AnsweredCall DEF ShellCall, ShellInv, ShellTypes
  <2>2. /\ shell' \in ShellView /\ shell'.user = shell.user /\ ~shell'.agentsLoading
        /\ shell'.agents \in {shell.agents, k.by} /\ shell'.tasks = shell.tasks /\ shell'.task = shell.task
        /\ shell'.projects = shell.projects /\ shell'.project = shell.project /\ shell'.artifacts = shell.artifacts
    BY <1>1, <1>5, <2>1 DEF ShellView
  <2>3. /\ asking' \in [ShellCalls -> ShellCall] /\ asking'[c] = Shell!NoCall
        /\ \A d \in ShellCalls \ {c}: asking'[d] = asking[d]
    BY <1>2, <2>1, NoneAsked
  <2>4. \A d \in ShellCalls: ~(asking'[d].op = "agents" /\ asking'[d].generation = generation)
    BY <1>5, <2>1, <2>3, NoneAsked DEF ShellInv, Known, Shell!Stale
  <2>5. Known(asking', generation, shell.user, shell.agentsLoading)
    BY <2>1, <2>3, CallsKept DEF ShellInv
  <2>6. Known(asking', generation, shell.user, FALSE)
    BY <2>4, <2>5 DEF Known
  <2>7. Known(asking, generation, shell.user, shell.agentsLoading)'
    BY <1>2, <2>2, <2>6 DEF Known
  <2>8. ShellTypes'
    <3>1. \A d \in ShellCalls: Fits(asking'[d])
      BY <2>3, NoneAsked DEF ShellInv, ShellTypes
    <3>2. generation' \in Nat /\ main' \in Owner
      BY <1>2, <1>3 DEF ShellInv, ShellTypes
    <3> QED BY <1>3, <2>2, <2>3, <3>1, <3>2 DEF ShellTypes, Around, Fits
  <2>9. ASSUME ~foreign' PROVE Owned(asking, generation, shell.user, main)' /\ ShowsOwn(shell)'
    <3>1. ~foreign /\ shell'.task.by \in {shell'.user, "none"}
      BY <2>9, Remembered
    <3>2. Owned(asking, generation, shell.user, main) /\ ShowsOwn(shell) /\ k.by \in {shell.user, "none"}
      BY <1>5, <2>1, <3>1, MineNow DEF ShellInv, IsMine
    <3>3. Owned(asking', generation, shell.user, main)
      BY <2>3, <3>2, OwnedKept
    <3>4. Owned(asking, generation, shell.user, main)'
      BY <1>2, <1>3, <2>2, <3>3 DEF Owned, IsMine
    <3> QED BY <2>2, <3>1, <3>2, <3>4 DEF ShowsOwn
  <2> QED BY <2>7, <2>8, <2>9 DEF ShellInv
<1> QED BY <1>4, <1>5

(* The shell is cleared, in a new generation. *)
LEMMA ClearedKeeps ==
  ASSUME ShellInv, Remember, NEW loading \in BOOLEAN, Shell!ClearAuthenticatedState(loading),
         due' \subseteq {"project", "task"}, acts' \in 0..MaxActs, inbox' \in Seq(ShellCalls \cup {"lost"}),
         shown' \in [user: Owner, project: Projects \cup {"none"}, task: Tasks \cup {"none"}],
         main' \in {main, "none"}, asking' \in [ShellCalls -> ShellCall],
         \A d \in ShellCalls:
           \/ asking'[d] = Shell!NoCall
           \/ /\ Fits(asking'[d]) /\ asking'[d].op = asking[d].op /\ asking'[d].generation = asking[d].generation
              /\ asking'[d].by = asking[d].by /\ asking'[d].on = asking[d].on /\ asking'[d].answer = asking[d].answer
  PROVE  ShellInv'
<1>1. shell' = [Shell!Blank EXCEPT !.agentsLoading = loading] /\ generation' = generation + 1 /\ loadingRef' = FALSE
  BY DEF Shell!ClearAuthenticatedState
<1>2. /\ shell' \in ShellView /\ shell'.user = "none" /\ shell'.project = Shell!Nobody /\ shell'.task = Shell!Nobody
      /\ shell'.projects = "none" /\ shell'.tasks = Shell!Nobody /\ shell'.artifacts = Shell!Nobody /\ shell'.agents = "none"
  BY <1>1 DEF Shell!Blank, ShellView, Item, Owner
<1>3. /\ generation \in Nat /\ main \in Owner /\ asking \in [ShellCalls -> ShellCall]
      /\ Known(asking, generation, shell.user, shell.agentsLoading)
      /\ \A d \in ShellCalls: asking[d].generation \in Nat
  BY DEF ShellInv, ShellTypes, ShellCall
<1>4. ShellTypes'
  <2>1. \A d \in ShellCalls: Fits(asking'[d])
    BY NoneAsked
  <2>2. generation' \in Nat /\ main' \in Owner
    BY <1>1, <1>3 DEF Owner
  <2>3. Around'
    BY <1>1 DEF Around
  <2> QED BY <1>2, <2>1, <2>2, <2>3 DEF ShellTypes, Around, Fits
<1>5. \A d \in ShellCalls: asking'[d].op # "none" => asking'[d].generation < generation + 1
  BY <1>3, NoneAsked DEF Known
<1>6. Known(asking', generation + 1, "none", loading)
  <2> SUFFICES ASSUME NEW c \in ShellCalls
               PROVE  /\ asking'[c].generation <= generation + 1
                      /\ asking'[c].answer = "OK" /\ asking'[c].op # "login" => asking'[c].by # "none"
                      /\ asking'[c].op = "me" => asking'[c].generation = 0 /\ (generation + 1 = 0 => "none" = "none")
                      /\ asking'[c].op = "login" => asking'[c].generation # 0 /\ "none" = "none"
                      /\ asking'[c].op = "agents" /\ asking'[c].generation = generation + 1 => "none" # "none" /\ loading
                      /\ \A d \in ShellCalls:
                           /\ asking'[d].op = asking'[c].op
                           /\ \/ asking'[c].op \in {"me", "login"}
                              \/ asking'[c].op = "agents" /\ asking'[c].generation = generation + 1 /\ asking'[d].generation = generation + 1
                           => d = c
    BY DEF Known
  <2>1. CASE asking'[c] = Shell!NoCall
    BY <1>3, <2>1, NoneAsked
  <2>2. CASE asking'[c] # Shell!NoCall
    <3>1. asking'[c].generation <= generation + 1
      BY <1>3, <2>2, NoneAsked DEF Known
    <3>2. \A d \in ShellCalls: ~(asking'[d].op = "agents" /\ asking'[d].generation = generation + 1)
      BY <1>3, <1>5
    <3>3. \A d \in ShellCalls: asking'[d].op = asking'[c].op /\ asking'[c].op \in {"me", "login"} => d = c
      BY <1>3, NoneAsked DEF Known
    <3> QED BY <1>3, <2>2, <3>1, <3>2, <3>3 DEF Known
  <2> QED BY <2>1, <2>2
<1>7. Known(asking, generation, shell.user, shell.agentsLoading)'
  <2>1. shell'.user = "none" /\ shell'.agentsLoading = loading
    BY <1>1 DEF Shell!Blank
  <2> QED BY <1>1, <1>6, <2>1 DEF Known
<1>8. ASSUME ~foreign' PROVE Owned(asking, generation, shell.user, main)' /\ ShowsOwn(shell)'
  <2>1. Owned(asking, generation, shell.user, main)
    BY <1>8, Remembered DEF ShellInv
  <2>2. Owned(asking, generation, shell.user, main)'
    <3> SUFFICES ASSUME NEW c \in ShellCalls
                 PROVE  /\ ~(asking'[c].generation = generation' /\ asking'[c].op # "none")
                        /\ asking'[c].op = "login" /\ asking'[c].answer = "OK" => main' \in {asking'[c].on, "none"}
      BY <1>2 DEF Owned, IsMine
    <3>1. ~(asking'[c].generation = generation' /\ asking'[c].op # "none")
      BY <1>1, <1>3, <1>5
    <3>2. asking'[c].op = "login" /\ asking'[c].answer = "OK" => main' \in {asking'[c].on, "none"}
      BY <2>1, NoneAsked DEF Owned
    <3> QED BY <3>1, <3>2
  <2>3. ShowsOwn(shell)'
    BY <1>2 DEF ShowsOwn, Shell!Nobody
  <2> QED BY <2>2, <2>3
<1> QED BY <1>4, <1>7, <1>8 DEF ShellInv

LEMMA OutdatedIs ==
  ASSUME NEW calls \in [ShellCalls -> ShellCall], \A c \in ShellCalls: Fits(calls[c])
  PROVE  LET outdated == Shell!Outdated(calls) IN
         /\ outdated \in [ShellCalls -> ShellCall]
         /\ \A d \in ShellCalls:
              /\ Fits(outdated[d]) /\ outdated[d].op = calls[d].op /\ outdated[d].generation = calls[d].generation
              /\ outdated[d].by = calls[d].by /\ outdated[d].on = calls[d].on /\ outdated[d].next = calls[d].next
              /\ outdated[d].answer = calls[d].answer
<1> DEFINE outdated == Shell!Outdated(calls)
<1>1. DOMAIN outdated = ShellCalls /\ outdated = [d \in ShellCalls |-> outdated[d]]
  BY DEF Shell!Outdated
<1>2. ASSUME NEW d \in ShellCalls
      PROVE  /\ outdated[d] \in ShellCall
             /\ Fits(outdated[d]) /\ outdated[d].op = calls[d].op /\ outdated[d].generation = calls[d].generation
             /\ outdated[d].by = calls[d].by /\ outdated[d].on = calls[d].on /\ outdated[d].next = calls[d].next
             /\ outdated[d].answer = calls[d].answer
  <2>1. outdated[d] = [calls[d] EXCEPT !.current = FALSE] /\ calls[d] \in ShellCall /\ Fits(calls[d])
    BY DEF Shell!Outdated
  <2>2. /\ outdated[d] \in ShellCall /\ outdated[d].op = calls[d].op /\ outdated[d].generation = calls[d].generation
        /\ outdated[d].by = calls[d].by /\ outdated[d].on = calls[d].on /\ outdated[d].next = calls[d].next
        /\ outdated[d].answer = calls[d].answer
    BY <2>1 DEF ShellCall
  <2>3. calls[d] = Shell!NoCall => outdated[d] = Shell!NoCall
    <3>1. ASSUME NEW k \in ShellCall, ~k.current PROVE [k EXCEPT !.current = FALSE] = k
      BY <3>1 DEF ShellCall
    <3> QED BY <2>1, <3>1, NoneAsked
  <2>4. Fits(outdated[d])
    BY <2>1, <2>2, <2>3 DEF Fits
  <2> QED BY <2>2, <2>4
<1> HIDE DEF outdated
<1>3. outdated \in [ShellCalls -> ShellCall]
  BY <1>1, <1>2
<1> QED BY <1>2, <1>3 DEF outdated

LEMMA AuthenticationLostKeeps ==
  ASSUME ShellInv, Remember, Shell!AuthenticationLost
  PROVE  ShellInv'
<1>1. Around /\ shell.agentsLoading \in BOOLEAN /\ ShellTypes
  BY DEF ShellInv, ShellTypes, ShellView
<1>2. /\ inbox # <<>> /\ inbox' = Tail(inbox) /\ Shell!ClearAuthenticatedState(shell.agentsLoading)
      /\ shown' = shown /\ due' = due /\ asking' = asking /\ main' = main /\ acts' = acts
  BY DEF Shell!AuthenticationLost
<1>3. inbox' \in Seq(ShellCalls \cup {"lost"}) /\ due' \subseteq {"project", "task"} /\ acts' \in 0..MaxActs
      /\ shown' \in [user: Owner, project: Projects \cup {"none"}, task: Tasks \cup {"none"}]
  <2> USE <1>1 DEF Around
  <2>1. inbox' \in Seq(ShellCalls \cup {"lost"})
    BY <1>2
  <2> QED BY <1>2, <2>1
<1>4. asking' \in [ShellCalls -> ShellCall] /\ \A d \in ShellCalls: Fits(asking'[d]) /\ asking'[d] = asking[d]
  BY <1>1, <1>2 DEF ShellTypes
<1> QED BY <1>1, <1>2, <1>3, <1>4, ClearedKeeps

LEMMA LogoutKeeps ==
  ASSUME ShellInv, Remember, Shell!Logout, shown' = Shell!Rendering(shell')
  PROVE  ShellInv'
<1>1. Around /\ shell.agentsLoading \in BOOLEAN /\ ShellTypes
  BY DEF ShellInv, ShellTypes, ShellView
<1>2. /\ acts < MaxActs /\ acts' = acts + 1 /\ inbox' = inbox /\ due' = due /\ main' = "none"
      /\ asking' = Shell!Outdated(asking) /\ Shell!ClearAuthenticatedState(shell.agentsLoading)
  BY DEF Shell!Logout, Shell!Click
<1>3. inbox' \in Seq(ShellCalls \cup {"lost"}) /\ due' \subseteq {"project", "task"} /\ acts' \in 0..MaxActs
  BY <1>1, <1>2, ScreensBounds DEF Around
<1>4. shell' = [Shell!Blank EXCEPT !.agentsLoading = shell.agentsLoading]
  BY <1>2 DEF Shell!ClearAuthenticatedState
<1>5. shown' \in [user: Owner, project: Projects \cup {"none"}, task: Tasks \cup {"none"}]
  BY <1>4 DEF Shell!Rendering, Shell!Blank, Shell!Nobody, Owner
<1>6. asking \in [ShellCalls -> ShellCall] /\ \A c \in ShellCalls: Fits(asking[c])
  BY <1>1 DEF ShellTypes
<1> QED BY <1>1, <1>2, <1>3, <1>5, <1>6, OutdatedIs, ClearedKeeps

LEMMA RefusedKeeps ==
  ASSUME ShellInv, Remember, NEW c \in ShellCalls, Shell!Refused(c)
  PROVE  ShellInv'
<1>1. /\ Shell!Answered(c, Shell!Ops \ {"me", "login", "result", "task"}, "DENIED")
      /\ asking' = [asking EXCEPT ![c] = Shell!NoCall] /\ due' = due
  BY DEF Shell!Refused, Shell!Free, Shell!Put
<1>2. CASE asking[c].op \in {"prompt", "responses"} /\ shown.task # asking[c].on
  <2>1. generation' = generation /\ loadingRef' = loadingRef /\ shell' = shell
    BY <1>2 DEF Shell!Refused, Shell!Same
  <2>2. Around' /\ main' = main
    BY <1>1, <2>1, AnsweredCall DEF Around
  <2> QED BY <1>1, <2>1, <2>2, UnchangedScreen
<1>3. CASE ~(asking[c].op \in {"prompt", "responses"} /\ shown.task # asking[c].on)
  <2> DEFINE loading == shell.agentsLoading /\ asking[c].op # "agents"
  <2>1. Shell!ClearAuthenticatedState(loading)
    BY <1>3 DEF Shell!Refused
  <2>2. loading \in BOOLEAN
    OBVIOUS
  <2>3. asking \in [ShellCalls -> ShellCall] /\ \A d \in ShellCalls: Fits(asking[d])
    BY DEF ShellInv, ShellTypes
  <2>4. asking' \in [ShellCalls -> ShellCall] /\ asking'[c] = Shell!NoCall /\ \A d \in ShellCalls \ {c}: asking'[d] = asking[d]
    BY <1>1, <2>3, NoneAsked
  <2>5. \A d \in ShellCalls:
           \/ asking'[d] = Shell!NoCall
           \/ /\ Fits(asking'[d]) /\ asking'[d].op = asking[d].op /\ asking'[d].generation = asking[d].generation
              /\ asking'[d].by = asking[d].by /\ asking'[d].on = asking[d].on /\ asking'[d].answer = asking[d].answer
    BY <2>3, <2>4
  <2> HIDE DEF loading
  <2> QED BY <1>1, <2>1, <2>2, <2>4, <2>5, AnsweredCall, ClearedKeeps
<1> QED BY <1>2, <1>3

LEMMA NewSent ==
  ASSUME NEW op \in Shell!Ops \ {"me", "login", "agents"}, NEW g \in Nat, NEW on \in Members \cup Projects \cup Tasks \cup {"none"},
         NEW next \in [id: Projects \cup Tasks \cup {"none"}, by: Owner \cup {"submit", "decide"}], NEW by \in Owner,
         op \in {"tasks", "createTask"} => on \in Projects, op \in OnTaskOps => on \in Tasks,
         op = "projects" => next \in Item(Projects), op = "tasks" => next \in Item(Tasks)
  PROVE  /\ New(Shell!Sent(op, g, on, next, by), g)
         /\ \A user: user # "none" /\ by \in {user, "none"} /\ (op \in {"projects", "tasks"} => next.by \in {user, "none"})
                       => IsMine(Shell!Sent(op, g, on, next, by), user)
<1> DEFINE k == Shell!Sent(op, g, on, next, by)
<1>1. /\ k \in ShellCall /\ k.op = op /\ k.generation = g /\ k.on = on /\ k.next = next /\ k.by = by
      /\ k.answer = "none"
  BY CallSent
<1> HIDE DEF k
<1>2. op # "none"
  BY DEF Shell!Ops, Shell!ProjectOps, Shell!AgentOps, Shell!WriteOps, Shell!ResultOps
<1>3. New(k, g)
  BY <1>1, <1>2 DEF New, Fits
<1>4. \A user: user # "none" /\ by \in {user, "none"} /\ (op \in {"projects", "tasks"} => next.by \in {user, "none"})
                => IsMine(k, user)
  BY <1>1 DEF IsMine
<1> QED BY <1>3, <1>4 DEF k

LEMMA Nothing ==
  /\ \A S: Shell!Nobody \in Item(S) /\ Shell!Nobody.by = "none"
  /\ Shell!Nobody \in [id: Projects \cup Tasks \cup {"none"}, by: Owner \cup {"submit", "decide"}]
  /\ Item(Projects) \cup Item(Tasks) \subseteq [id: Projects \cup Tasks \cup {"none"}, by: Owner \cup {"submit", "decide"}]
  /\ \A on \in {"submit", "decide"}: [id |-> "none", by |-> on] \in [id: Projects \cup Tasks \cup {"none"}, by: Owner \cup {"submit", "decide"}]
<1>1. Shell!Nobody \in [id: {"none"}, by: {"none"}] /\ Shell!Nobody.by = "none"
  BY DEF Shell!Nobody
<1>2. Shell!Nobody \in [id: Projects \cup Tasks \cup {"none"}, by: Owner \cup {"submit", "decide"}]
  BY <1>1 DEF Owner
<1> QED BY <1>1, <1>2 DEF Item

LEMMA OpsAre ==
  /\ {"projects", "tasks", "artifacts", "task", "result"} \subseteq Shell!Ops \ {"me", "login", "agents"}
  /\ {"createProject", "createTask", "startTask", "readFile", "prompt", "responses", "prepare", "approve", "reject", "register",
       "submit", "decide"} \subseteq Shell!Ops \ {"me", "login", "agents"}
  /\ "projects" \in Shell!Ops /\ "agents" \in Shell!Ops /\ "login" \in Shell!Ops
  /\ OnTaskOps \cap {"projects", "agents", "login", "tasks", "createProject", "createTask"} = {}
BY DEF Shell!Ops, Shell!ProjectOps, Shell!AgentOps, Shell!WriteOps, Shell!ResultOps, OnTaskOps

(* After the answer to a call of this login, another call in its place. *)
LEMMA FollowedKeeps ==
  ASSUME ShellInv, Remember, Around', NEW c \in ShellCalls, NEW ops, NEW answer, Shell!Answered(c, ops, answer), ~Shell!Stale(c),
         ops \cap {"none", "me", "login"} = {}, generation' = generation, shell' \in ShellView,
         shell'.user = shell.user, shell'.agentsLoading = shell.agentsLoading,
         (~foreign' /\ shell.user # "none" /\ asking[c].by \in {shell.user, "none"} /\ ListsOwn(shell)) => ListsOwn(shell'),
         NEW op \in Shell!Ops \ {"me", "login", "agents"}, NEW on \in Members \cup Projects \cup Tasks \cup {"none"},
         NEW next \in [id: Projects \cup Tasks \cup {"none"}, by: Owner \cup {"submit", "decide"}],
         op \in {"tasks", "createTask"} => on \in Projects, op \in OnTaskOps => on \in Tasks,
         op = "projects" => next \in Item(Projects), op = "tasks" => next \in Item(Tasks),
         op \in {"projects", "tasks"} => next.by \in {"none", asking[c].by},
         asking' = [asking EXCEPT ![c] = Shell!Sent(op, generation, on, next, main)]
  PROVE  ShellInv'
<1> DEFINE r == Shell!Sent(op, generation, on, next, main)
<1>1. generation \in Nat /\ main \in Owner /\ main' = main /\ asking[c].op \in ops
  BY AnsweredCall DEF ShellInv, ShellTypes
<1>2. New(r, generation)
  BY <1>1, NewSent
<1>3. ASSUME ~foreign' PROVE IsMine(r, shell.user) /\ ListsOwn(shell') /\ Bare(shell')
  <2>1. ~foreign /\ ListsOwn(shell)
    BY <1>3, Remembered, OwnScreen
  <2>2. IsMine(asking[c], shell.user) /\ main \in {shell.user, "none"}
    BY <1>1, <2>1, MineNow
  <2>3. shell.user # "none" /\ asking[c].by \in {shell.user, "none"}
    BY <2>2 DEF IsMine
  <2>4. op \in {"projects", "tasks"} => next.by \in {shell.user, "none"}
    BY <2>3
  <2>5. IsMine(r, shell.user)
    BY <1>1, <2>2, <2>3, <2>4, NewSent
  <2> QED BY <1>3, <2>1, <2>3, <2>5 DEF Bare
<1> HIDE DEF r
<1>4. asking' = [asking EXCEPT ![c] = r]
  BY DEF r
<1> QED BY <1>1, <1>2, <1>3, <1>4, OneCallStep

LEMMA ProjectCreatedKeeps ==
  ASSUME ShellInv, Remember, NEW c \in ShellCalls, Shell!ProjectCreated(c)
  PROVE  ShellInv'
<1>1. /\ Shell!Answered(c, {"createProject"}, "OK") /\ ~Shell!Stale(c) /\ generation' = generation
      /\ loadingRef' = loadingRef /\ due' = due /\ shell' = [shell EXCEPT !.error = FALSE, !.loading = TRUE]
  BY DEF Shell!ProjectCreated, Shell!Same
<1>2. PICK p \in Projects: asking' = [asking EXCEPT ![c] = Shell!Sent("projects", generation, "none", [id |-> p, by |-> asking[c].by], main)]
  BY DEF Shell!ProjectCreated, Shell!Put
<1>3. Around' /\ shell \in ShellView /\ asking[c].by \in Owner
  BY <1>1, AnsweredCall DEF Around, ShellInv, ShellTypes, ShellCall
<1>4. /\ shell' \in ShellView /\ shell'.user = shell.user /\ shell'.agentsLoading = shell.agentsLoading
      /\ (ListsOwn(shell) => ListsOwn(shell'))
  BY <1>1, <1>3 DEF ShellView, ListsOwn
<1> DEFINE next == [id |-> p, by |-> asking[c].by]
<1>5. next \in Item(Projects) /\ next.by = asking[c].by /\ next \in [id: Projects \cup Tasks \cup {"none"}, by: Owner \cup {"submit", "decide"}]
  BY <1>3 DEF Item
<1> HIDE DEF next
<1>6. asking' = [asking EXCEPT ![c] = Shell!Sent("projects", generation, "none", next, main)]
  BY <1>2 DEF next
<1>7. "projects" \notin OnTaskOps /\ "projects" \in Shell!Ops \ {"me", "login", "agents"}
  BY OpsAre DEF OnTaskOps, Shell!WriteOps
<1>8. next.by \in {"none", asking[c].by}
  BY <1>5
<1> QED BY <1>1, <1>3, <1>4, <1>5, <1>6, <1>7, <1>8, FollowedKeeps

LEMMA TaskCreatedKeeps ==
  ASSUME ShellInv, Remember, NEW c \in ShellCalls, Shell!TaskCreated(c)
  PROVE  ShellInv'
<1>1. /\ Shell!Answered(c, {"createTask"}, "OK") /\ ~Shell!Stale(c) /\ generation' = generation
      /\ loadingRef' = loadingRef /\ due' = due /\ shell' = [shell EXCEPT !.error = FALSE, !.loading = TRUE]
  BY DEF Shell!TaskCreated, Shell!Same
<1>2. PICK t \in Tasks: asking' = [asking EXCEPT ![c] = Shell!Sent("tasks", generation, asking[c].on, [id |-> t, by |-> asking[c].by], main)]
  BY DEF Shell!TaskCreated, Shell!Put
<1>3. Around' /\ shell \in ShellView /\ asking[c].by \in Owner /\ asking[c].on \in Projects
  BY <1>1, AnsweredCall DEF Around, ShellInv, ShellTypes, ShellCall, Fits
<1>4. /\ shell' \in ShellView /\ shell'.user = shell.user /\ shell'.agentsLoading = shell.agentsLoading
      /\ (ListsOwn(shell) => ListsOwn(shell'))
  BY <1>1, <1>3 DEF ShellView, ListsOwn
<1> DEFINE next == [id |-> t, by |-> asking[c].by]
<1>5. next \in Item(Tasks) /\ next.by = asking[c].by /\ next \in [id: Projects \cup Tasks \cup {"none"}, by: Owner \cup {"submit", "decide"}]
  BY <1>3 DEF Item
<1> HIDE DEF next
<1>6. asking' = [asking EXCEPT ![c] = Shell!Sent("tasks", generation, asking[c].on, next, main)]
  BY <1>2 DEF next
<1>7. "tasks" \notin OnTaskOps /\ "tasks" \in Shell!Ops \ {"me", "login", "agents"}
  BY OpsAre DEF OnTaskOps, Shell!WriteOps
<1>8. next.by \in {"none", asking[c].by}
  BY <1>5
<1> QED BY <1>1, <1>3, <1>4, <1>5, <1>6, <1>7, <1>8, FollowedKeeps

LEMMA RegisteredKeeps ==
  ASSUME ShellInv, Remember, NEW c \in ShellCalls, Shell!Registered(c)
  PROVE  ShellInv'
<1>1. /\ Shell!Answered(c, {"register"}, "OK") /\ ~Shell!Stale(c) /\ generation' = generation
      /\ loadingRef' = loadingRef /\ due' = due /\ shell' = [shell EXCEPT !.error = FALSE]
      /\ asking' = [asking EXCEPT ![c] = Shell!Sent("artifacts", generation, asking[c].on, Shell!Nobody, main)]
  BY DEF Shell!Registered, Shell!Same, Shell!Put
<1>2. Around' /\ shell \in ShellView /\ asking[c].on \in Tasks
  BY <1>1, AnsweredCall DEF Around, ShellInv, ShellTypes, ShellCall, Fits, OnTaskOps
<1>3. /\ shell' \in ShellView /\ shell'.user = shell.user /\ shell'.agentsLoading = shell.agentsLoading
      /\ (ListsOwn(shell) => ListsOwn(shell'))
  BY <1>1, <1>2 DEF ShellView, ListsOwn
<1> QED BY <1>1, <1>2, <1>3, OpsAre, Nothing, FollowedKeeps

(* A result is submitted, or decided on and read: the task is read again. *)
LEMMA ReadAgainKeeps ==
  ASSUME ShellInv, Remember, NEW c \in ShellCalls, Shell!Submitted(c) \/ Shell!Decided(c) \/ Shell!ResultRead(c)
  PROVE  ShellInv'
<1>1. PICK op \in {"submit", "decide", "result"}: Shell!Answered(c, {op}, "OK")
  BY DEF Shell!Submitted, Shell!Decided, Shell!ResultRead
<1>2. /\ ~Shell!Stale(c) /\ generation' = generation /\ loadingRef' = loadingRef /\ shell' = shell /\ due' = due
  BY DEF Shell!Submitted, Shell!Decided, Shell!ResultRead, Shell!Same
<1>3. asking[c].generation = generation
  BY <1>2 DEF Shell!Stale
<1>4. Around' /\ shell \in ShellView /\ asking[c].on \in Tasks /\ main' = main
  BY <1>1, <1>2, AnsweredCall DEF Around, ShellInv, ShellTypes, ShellCall, Fits, OnTaskOps
<1>5. \/ asking' = [asking EXCEPT ![c] = Shell!NoCall]
      \/ asking' = [asking EXCEPT ![c] = Shell!Sent("result", generation, asking[c].on, Shell!Nobody, main)]
      \/ asking' = [asking EXCEPT ![c] = Shell!Sent("task", generation, asking[c].on, [id |-> "none", by |-> "submit"], main)]
      \/ asking' = [asking EXCEPT ![c] = Shell!Sent("task", generation, asking[c].on, [id |-> "none", by |-> "decide"], main)]
  BY <1>3 DEF Shell!Submitted, Shell!Decided, Shell!ResultRead, Shell!Put, Shell!Free
<1>6. ASSUME NEW on \in {"submit", "decide"},
             asking' = [asking EXCEPT ![c] = Shell!Sent("task", generation, asking[c].on, [id |-> "none", by |-> on], main)]
      PROVE  ShellInv'
  <2> DEFINE next == [id |-> "none", by |-> on]
  <2>1. next \in [id: Projects \cup Tasks \cup {"none"}, by: Owner \cup {"submit", "decide"}]
    BY Nothing
  <2> HIDE DEF next
  <2>2. asking' = [asking EXCEPT ![c] = Shell!Sent("task", generation, asking[c].on, next, main)]
    BY <1>6 DEF next
  <2> QED BY <1>1, <1>2, <1>4, <2>1, <2>2, OpsAre, FollowedKeeps
<1>7. CASE asking' = [asking EXCEPT ![c] = Shell!NoCall]
  BY <1>2, <1>4, <1>7, UnchangedScreen
<1>8. CASE asking' = [asking EXCEPT ![c] = Shell!Sent("result", generation, asking[c].on, Shell!Nobody, main)]
  BY <1>1, <1>2, <1>4, <1>8, OpsAre, Nothing, FollowedKeeps
<1> QED BY <1>5, <1>6, <1>7, <1>8

(* A task that is shown was read for the user, unless it is remembered.     *)
LEMMA ShowTaskKeeps ==
  ASSUME ShellInv, Remember, NEW c \in ShellCalls, NEW ops, Shell!Answered(c, ops, "OK"), asking[c].op \in {"startTask", "task"},
         Shell!ShowTask(c, asking[c].on, TRUE) \/ Shell!ShowTask(c, asking[c].on, FALSE)
  PROVE  ShellInv'
<1> DEFINE t == asking[c].on
           by == asking[c].by
<1>1. /\ generation' = generation /\ loadingRef' = loadingRef /\ due' = due \cup {"task"}
      /\ asking' = [asking EXCEPT ![c] = Shell!Sent("tasks", generation, ProjectOf[t], Shell!Nobody, main)]
  BY DEF Shell!ShowTask, Shell!Put, Shell!Same
<1>2. PICK error \in BOOLEAN: shell' = [shell EXCEPT !.task = [id |-> t, by |-> by], !.loading = TRUE, !.error = error]
  <2>1. CASE Shell!ShowTask(c, asking[c].on, TRUE)
    BY <2>1 DEF Shell!ShowTask
  <2>2. CASE Shell!ShowTask(c, asking[c].on, FALSE)
    BY <2>2 DEF Shell!ShowTask
  <2> QED BY <2>1, <2>2
<1>3. /\ Around' /\ shell \in ShellView /\ t \in Tasks /\ by \in Members /\ main' = main
      /\ generation \in Nat /\ main \in Owner
  BY <1>1, AnsweredCall DEF Around, ShellInv, ShellTypes, ShellCall, Fits, OnTaskOps, Known, Owner
<1>4. ProjectOf[t] \in Projects /\ by # "none"
  BY <1>3, ScreensAssumption
<1> DEFINE r == Shell!Sent("tasks", generation, ProjectOf[t], Shell!Nobody, main)
<1>5. "tasks" \notin OnTaskOps /\ "tasks" \in Shell!Ops \ {"me", "login", "agents"}
  BY OpsAre DEF OnTaskOps, Shell!WriteOps
<1>6. New(r, generation) /\ \A user: user # "none" /\ main \in {user, "none"} => IsMine(r, user)
  BY <1>3, <1>4, <1>5, Nothing, NewSent
<1> HIDE DEF t, by, r
<1>7. /\ shell' \in ShellView /\ shell'.user = shell.user /\ shell'.agentsLoading = shell.agentsLoading
      /\ (ListsOwn(shell) => ListsOwn(shell')) /\ shell'.task.by = by
  BY <1>2, <1>3 DEF ShellView, ListsOwn, Item, Owner
<1>8. ASSUME ~foreign' PROVE IsMine(r, shell.user) /\ ListsOwn(shell') /\ Bare(shell')
  <2>1. ~foreign /\ by = shell.user /\ ListsOwn(shell)
    BY <1>4, <1>7, <1>8, Remembered, OwnScreen
  <2>2. main \in {shell.user, "none"}
    BY <1>4, <2>1 DEF ShellInv, Owned
  <2> QED BY <1>4, <1>6, <1>7, <2>1, <2>2 DEF Bare
<1>9. asking' = [asking EXCEPT ![c] = r]
  BY <1>1 DEF r, t
<1> QED BY <1>1, <1>3, <1>6, <1>7, <1>8, <1>9, OneCallStep

LEMMA TaskStartedKeeps ==
  ASSUME ShellInv, Remember, NEW c \in ShellCalls, Shell!TaskStarted(c)
  PROVE  ShellInv'
<1>1. Shell!Answered(c, {"startTask"}, "OK") /\ Shell!ShowTask(c, asking[c].on, TRUE)
  BY DEF Shell!TaskStarted
<1>2. asking[c].op = "startTask"
  BY <1>1, AnsweredCall
<1> QED BY <1>1, <1>2, ShowTaskKeeps

LEMMA TaskReadKeeps ==
  ASSUME ShellInv, Remember, NEW c \in ShellCalls, Shell!TaskRead(c)
  PROVE  ShellInv'
<1> DEFINE t == asking[c].on
           kept == asking[c].answer = "OK" /\ shown.task = t /\ (asking[c].next.by = "submit" => ~Shell!Stale(c))
           full == asking[c].next.by = "submit" \/ shown.project = ProjectOf[t]
<1>1. PICK answer \in {"OK", "DENIED", "LOST"}: Shell!Answered(c, {"task"}, answer)
  BY DEF Shell!TaskRead
<1>2. CASE ~kept
  <2>1. /\ asking' = [asking EXCEPT ![c] = Shell!NoCall] /\ shell' = shell /\ generation' = generation
        /\ loadingRef' = loadingRef /\ due' = due
    BY <1>2 DEF Shell!TaskRead, Shell!Free, Shell!Put, Shell!Same
  <2>2. Around' /\ main' = main
    BY <1>1, <2>1, AnsweredCall DEF Around
  <2> QED BY <2>1, <2>2, UnchangedScreen
<1>3. CASE kept /\ full
  <2>1. Shell!ShowTask(c, t, FALSE) /\ Shell!Answered(c, {"task"}, "OK")
    BY <1>1, <1>3, AnsweredCall DEF Shell!TaskRead
  <2>2. asking[c].op = "task"
    BY <2>1, AnsweredCall
  <2> QED BY <2>1, <2>2, ShowTaskKeeps
<1>4. CASE kept /\ ~full
  <2>1. /\ asking' = [asking EXCEPT ![c] = Shell!NoCall] /\ generation' = generation /\ loadingRef' = loadingRef
        /\ shell' = [shell EXCEPT !.task = [id |-> t, by |-> asking[c].by]] /\ due' = due \cup {"task"}
    BY <1>4 DEF Shell!TaskRead, Shell!Free, Shell!Put, Shell!Same
  <2>2. /\ Around' /\ shell \in ShellView /\ t \in Tasks /\ asking[c].by \in Members /\ main' = main
    BY <1>1, <1>4, <2>1, AnsweredCall DEF Around, ShellInv, ShellTypes, ShellCall, Fits, OnTaskOps, Known, Owner
  <2>3. /\ shell' \in ShellView /\ shell'.user = shell.user /\ shell'.agentsLoading = shell.agentsLoading
        /\ (ListsOwn(shell) => ListsOwn(shell')) /\ shell'.task.by = asking[c].by
    BY <2>1, <2>2 DEF ShellView, ListsOwn, Item, Owner
  <2>4. ASSUME ~foreign' PROVE ListsOwn(shell') /\ Bare(shell')
    <3>1. ~foreign /\ asking[c].by = shell.user /\ ListsOwn(shell) /\ asking[c].by # "none"
      BY <2>2, <2>3, <2>4, Remembered, OwnScreen, ScreensAssumption
    <3> QED BY <2>3, <3>1 DEF Bare
  <2> QED BY <2>1, <2>2, <2>3, <2>4, OneCallStep
<1> QED BY <1>2, <1>3, <1>4

(* The user becomes known: nothing of this login is under way yet. *)
LEMMA SignedInKeeps ==
  ASSUME ShellInv, Remember, NEW c \in ShellCalls, NEW ops, Shell!Answered(c, ops, "OK"), ~Shell!Stale(c), NEW a \in Members,
         \/ asking[c].op = "me" /\ a = asking[c].by
         \/ asking[c].op = "login" /\ a = asking[c].on,
         Shell!SignedIn(c, a)
  PROVE  ShellInv'
<1> DEFINE projects == Shell!Sent("projects", generation, "none", Shell!Nobody, main)
           agents == Shell!Sent("agents", generation, "none", Shell!Nobody, main)
<1>1. /\ shell \in ShellView /\ generation \in Nat /\ main \in Owner /\ main' = main /\ loadingRef \in BOOLEAN /\ a # "none"
      /\ asking \in [ShellCalls -> ShellCall] /\ asking[c].answer = "OK" /\ asking[c].generation = generation
      /\ \A d \in ShellCalls: asking[d].generation \in Nat
  BY AnsweredCall, ScreensAssumption DEF ShellInv, ShellTypes, Around, Shell!Stale, ShellCall
<1>2. generation' = generation /\ due' = due /\ loadingRef' = TRUE
  BY DEF Shell!SignedIn
<1>3. Around'
  BY <1>2, AnsweredCall DEF Around
<1>4. PICK loading \in BOOLEAN, error \in BOOLEAN:
        /\ shell' = [shell EXCEPT !.user = a, !.loading = TRUE, !.agentsLoading = loading, !.error = error]
        /\ ~loadingRef => loading
  <2> DEFINE loading == shell.agentsLoading \/ ~loadingRef
             error == asking[c].op = "me" /\ shell.error
  <2>1. shell' = [shell EXCEPT !.user = a, !.loading = TRUE, !.agentsLoading = loading, !.error = error]
    BY DEF Shell!SignedIn
  <2>2. loading \in BOOLEAN /\ error \in BOOLEAN /\ (~loadingRef => loading)
    OBVIOUS
  <2> HIDE DEF loading, error
  <2> QED BY <2>1, <2>2
<1>5. /\ shell' \in ShellView /\ shell'.user = a /\ shell'.agentsLoading = loading /\ shell'.task = shell.task
      /\ shell'.projects = shell.projects /\ shell'.project = shell.project /\ shell'.tasks = shell.tasks
      /\ shell'.artifacts = shell.artifacts /\ shell'.agents = shell.agents
  BY <1>1, <1>4 DEF ShellView, Owner
<1>6. PICK d \in ShellCalls:
        /\ asking' \in [ShellCalls -> ShellCall] /\ asking'[c] = projects
        /\ IF loadingRef THEN d = c ELSE d # c /\ asking[d] = Shell!NoCall /\ asking'[d] = agents
        /\ \A e \in ShellCalls \ {c, d}: asking'[e] = asking[e]
  <2>1. projects \in ShellCall /\ agents \in ShellCall
    <3> DEFINE nothing == Shell!Nobody
    <3>1. /\ "projects" \in Shell!Ops /\ "agents" \in Shell!Ops /\ generation \in Nat /\ main \in Owner
          /\ nothing \in [id: Projects \cup Tasks \cup {"none"}, by: Owner \cup {"submit", "decide"}]
      BY <1>1, OpsAre, Nothing
    <3> HIDE DEF nothing
    <3>2. \A op \in {"projects", "agents"}: Shell!Sent(op, generation, "none", nothing, main) \in ShellCall
      BY <3>1 DEF Shell!Sent, ShellCall
    <3> QED BY <3>2 DEF nothing
  <2> HIDE DEF projects, agents
  <2>2. CASE loadingRef
    <3>1. asking' = [asking EXCEPT ![c] = projects]
      BY <2>2 DEF Shell!SignedIn, Shell!Put, projects
    <3> QED BY <1>1, <2>1, <2>2, <3>1
  <2>3. CASE ~loadingRef
    <3>1. PICK d \in ShellCalls: asking[d] = Shell!NoCall /\ asking' = [asking EXCEPT ![c] = projects, ![d] = agents]
      BY <2>3 DEF Shell!SignedIn, Shell!Idle, projects, agents
    <3>2. d # c
      BY <1>1, <3>1, NoneAsked
    <3> QED BY <1>1, <2>1, <2>3, <3>1, <3>2
  <2> QED BY <2>2, <2>3
<1>7. New(projects, generation) /\ (main \in {a, "none"} => IsMine(projects, a))
  <2>1. "projects" \in Shell!Ops \ {"me", "login", "agents"} /\ "projects" \notin OnTaskOps
    BY OpsAre
  <2>2. New(projects, generation)
    BY <1>1, <2>1, Nothing, NewSent
  <2>3. projects.by = main /\ projects.next.by = "none"
    BY Nothing DEF Shell!Sent
  <2> QED BY <1>1, <2>2, <2>3 DEF IsMine
<1>8. agents \in ShellCall /\ agents.op = "agents" /\ agents.generation = generation /\ agents.by = main /\ agents.answer = "none"
  <2>1. "agents" \in Shell!Ops /\ Shell!Nobody \in [id: Projects \cup Tasks \cup {"none"}, by: Owner \cup {"submit", "decide"}]
    BY OpsAre, Nothing
  <2> QED BY <1>1, <2>1 DEF Shell!Sent, ShellCall
<1>9. Fits(agents)
  BY <1>8, OpsAre DEF Fits
<1> HIDE DEF projects, agents
<1>10. Known(asking, generation, shell.user, shell.agentsLoading)
  BY DEF ShellInv
<1>11. /\ shell.user = "none"
       /\ \A e \in ShellCalls \ {c}:
            /\ asking[e].op # "login" /\ (asking[e].op = "me" => generation # 0)
            /\ ~(asking[e].op = "agents" /\ asking[e].generation = generation)
  <2>1. shell.user = "none"
    BY <1>1, <1>10 DEF Known
  <2>2. CASE asking[c].op = "me"
    BY <1>1, <1>10, <2>1, <2>2 DEF Known
  <2>3. CASE asking[c].op = "login"
    BY <1>1, <1>10, <2>1, <2>3 DEF Known
  <2> QED BY <2>1, <2>2, <2>3
<1>12. \A e \in ShellCalls:
         \/ New(asking'[e], generation) /\ asking'[e] = projects
         \/ e = d /\ ~loadingRef /\ asking'[e] = agents
         \/ e # c /\ asking'[e] = asking[e]
  BY <1>6, <1>7
<1>13. ShellTypes'
  <2>1. \A e \in ShellCalls: Fits(asking'[e])
    BY <1>9, <1>12 DEF ShellInv, ShellTypes, New
  <2>2. generation' \in Nat /\ main' \in Owner
    BY <1>1, <1>2
  <2> QED BY <1>3, <1>5, <1>6, <2>1, <2>2 DEF ShellTypes, Around, Fits
<1>14. Known(asking', generation, a, loading)
  <2> SUFFICES ASSUME NEW e \in ShellCalls
               PROVE  /\ asking'[e].generation <= generation
                      /\ asking'[e].answer = "OK" /\ asking'[e].op # "login" => asking'[e].by # "none"
                      /\ asking'[e].op = "me" => asking'[e].generation = 0 /\ generation # 0
                      /\ asking'[e].op # "login"
                      /\ asking'[e].op = "agents" /\ asking'[e].generation = generation => e = d /\ loading
                      /\ \A f \in ShellCalls: asking'[f].op = asking'[e].op /\ asking'[e].op = "me" => f = e
    BY <1>1 DEF Known
  <2>1. CASE New(asking'[e], generation)
    BY <1>1, <2>1 DEF New
  <2>2. CASE e = d /\ ~loadingRef /\ asking'[e] = agents
    BY <1>1, <1>4, <1>8, <2>2
  <2>3. CASE e # c /\ asking'[e] = asking[e]
    <3>1. \A f \in ShellCalls: asking'[f].op = "me" => asking'[f] = asking[f]
      BY <1>8, <1>12 DEF New
    <3> QED BY <1>1, <1>10, <1>11, <2>3, <3>1 DEF Known
  <2> QED BY <1>12, <2>1, <2>2, <2>3
<1>15. Known(asking, generation, shell.user, shell.agentsLoading)'
  BY <1>2, <1>5, <1>14 DEF Known
<1>16. ASSUME ~foreign' PROVE Owned(asking, generation, shell.user, main)' /\ ShowsOwn(shell)'
  <2>1. ~foreign /\ shell'.task.by \in {shell'.user, "none"}
    BY <1>16, Remembered
  <2>2. Owned(asking, generation, shell.user, main) /\ ShowsOwn(shell)
    BY <2>1 DEF ShellInv
  <2>3. main \in {a, "none"}
    BY <1>1, <2>2 DEF Owned
  <2>4. Owned(asking', generation, a, main)
    <3> SUFFICES ASSUME NEW e \in ShellCalls
                 PROVE  /\ asking'[e].generation = generation /\ asking'[e].op \notin {"none", "me", "login"} => IsMine(asking'[e], a)
                        /\ ~(asking'[e].generation = generation /\ asking'[e].op = "me")
                        /\ asking'[e].op # "login"
      BY <2>3 DEF Owned
    <3>1. CASE New(asking'[e], generation) /\ asking'[e] = projects
      BY <1>7, <2>3, <3>1 DEF New
    <3>2. CASE e = d /\ asking'[e] = agents
      BY <1>1, <1>8, <2>3, <3>2 DEF IsMine
    <3>3. CASE e # c /\ asking'[e] = asking[e]
      BY <1>1, <1>10, <1>11, <2>2, <3>3 DEF Owned, IsMine, Known
    <3> QED BY <1>12, <3>1, <3>2, <3>3
  <2>5. Owned(asking, generation, shell.user, main)'
    BY <1>1, <1>2, <1>5, <2>4 DEF Owned, IsMine
  <2>6. ShowsOwn(shell)'
    BY <1>1, <1>5, <1>11, <2>1, <2>2 DEF ShowsOwn
  <2> QED BY <2>5, <2>6
<1> QED BY <1>13, <1>15, <1>16 DEF ShellInv

LEMMA EnteredKeeps ==
  ASSUME ShellInv, Remember, NEW c \in ShellCalls, Shell!CurrentUser(c) \/ Shell!LoggedIn(c)
  PROVE  ShellInv'
<1>1. CASE Shell!CurrentUser(c)
  <2>1. Shell!Answered(c, {"me"}, "OK") /\ ~Shell!Stale(c) /\ Shell!SignedIn(c, asking[c].by)
    BY <1>1 DEF Shell!CurrentUser
  <2>2. asking[c].op = "me" /\ asking[c].by \in Members
    BY <2>1, AnsweredCall DEF ShellInv, Known, ShellCall, Owner
  <2> QED BY <2>1, <2>2, SignedInKeeps
<1>2. CASE Shell!LoggedIn(c)
  <2>1. Shell!Answered(c, {"login"}, "OK") /\ ~Shell!Stale(c) /\ Shell!SignedIn(c, asking[c].on)
    BY <1>2 DEF Shell!LoggedIn
  <2>2. asking[c].op = "login" /\ asking[c].on \in Members
    BY <2>1, AnsweredCall DEF Fits
  <2> QED BY <2>1, <2>2, SignedInKeeps
<1> QED BY <1>1, <1>2

(* Main answers: only the answer of one call changes, and Main's session.   *)
LEMMA ShellServeKeeps ==
  ASSUME ShellInv, Remember, NEW c \in ShellCalls, NEW answer \in {"OK", "DENIED", "LOST"}, Shell!Serve(c, answer)
  PROVE  ShellInv'
<1> DEFINE k == asking[c]
           opens == answer = "OK" /\ k.op = "login"
<1> DEFINE ends == answer = "DENIED" /\ k.current
           refused == opens /\ ~k.current
           kept == IF ends \/ (opens /\ k.current) THEN Shell!Outdated(asking) ELSE asking
           said == IF refused THEN "DENIED" ELSE answer
<1>1. PICK calls \in {asking, Shell!Outdated(asking)}, reply \in {"OK", "DENIED", "LOST"}:
        /\ asking' = [calls EXCEPT ![c].answer = reply]
        /\ reply = "OK" => answer = "OK" /\ (opens => main' = k.on)
  <2>1. kept \in {asking, Shell!Outdated(asking)} /\ said \in {"OK", "DENIED", "LOST"}
    OBVIOUS
  <2>2. asking' = [kept EXCEPT ![c].answer = said]
    BY DEF Shell!Serve
  <2>3. said = "OK" => answer = "OK" /\ (opens => main' = k.on)
    BY DEF Shell!Serve
  <2> HIDE DEF kept, said, opens
  <2> QED BY <2>1, <2>2, <2>3
<1>2. /\ k.op # "none" /\ k.answer = "none" /\ (answer = "OK" => k.by # "none" \/ k.op = "login")
      /\ main' \in {"none", main} \/ (opens /\ main' = k.on)
      /\ \E more \in {inbox, Append(inbox, "lost")}: inbox' = more \o <<c>>
      /\ shell' = shell /\ generation' = generation /\ loadingRef' = loadingRef /\ shown' = shown /\ due' = due /\ acts' = acts
  BY DEF Shell!Serve
<1>3. /\ shell \in ShellView /\ generation \in Nat /\ main \in Owner
      /\ asking \in [ShellCalls -> ShellCall] /\ \A d \in ShellCalls: Fits(asking[d])
      /\ Around /\ Known(asking, generation, shell.user, shell.agentsLoading)
  BY DEF ShellInv, ShellTypes
<1>4. /\ calls \in [ShellCalls -> ShellCall]
      /\ \A d \in ShellCalls:
           /\ Fits(calls[d]) /\ calls[d].op = asking[d].op /\ calls[d].generation = asking[d].generation
           /\ calls[d].by = asking[d].by /\ calls[d].on = asking[d].on /\ calls[d].next = asking[d].next
           /\ calls[d].answer = asking[d].answer
  BY <1>1, <1>3, OutdatedIs
<1>5. asking' = [calls EXCEPT ![c] = [calls[c] EXCEPT !.answer = reply]]
  BY <1>1
<1> DEFINE r == [calls[c] EXCEPT !.answer = reply]
<1>6. /\ r \in ShellCall /\ r.op = k.op /\ r.generation = k.generation /\ r.by = k.by /\ r.on = k.on /\ r.next = k.next
      /\ r.answer = reply
  BY <1>4 DEF ShellCall
<1> HIDE DEF r
<1>7. /\ asking' \in [ShellCalls -> ShellCall] /\ asking'[c] = r
      /\ \A d \in ShellCalls \ {c}: asking'[d] = calls[d]
  BY <1>4, <1>5, <1>6 DEF r
<1>8. \A d \in ShellCalls:
        /\ asking'[d].op = asking[d].op /\ asking'[d].generation = asking[d].generation
        /\ asking'[d].by = asking[d].by /\ asking'[d].on = asking[d].on /\ asking'[d].next = asking[d].next
        /\ asking'[d].answer = asking[d].answer \/ (d = c /\ asking'[d].answer = reply)
  BY <1>4, <1>6, <1>7
<1>9. \A d \in ShellCalls: Fits(asking'[d])
  BY <1>2, <1>3, <1>4, <1>6, <1>7 DEF Fits
<1>10. Around'
  <2>1. inbox' \in Seq(ShellCalls \cup {"lost"})
    <3>1. PICK more \in {inbox, Append(inbox, "lost")}: inbox' = more \o <<c>>
      BY <1>2
    <3>2. inbox \in Seq(ShellCalls \cup {"lost"})
      BY <1>3 DEF Around
    <3>3. more \in Seq(ShellCalls \cup {"lost"}) /\ <<c>> \in Seq(ShellCalls \cup {"lost"})
      BY <3>2
    <3> QED BY <3>1, <3>3
  <2> QED BY <1>2, <1>3, <2>1 DEF Around
<1>11. ShellTypes'
  <2>1. main' \in Owner
    BY <1>2, <1>3 DEF Fits, Owner
  <2>2. shell' \in ShellView /\ generation' \in Nat
    BY <1>2, <1>3
  <2> QED BY <1>7, <1>9, <1>10, <2>1, <2>2 DEF ShellTypes, Around, Fits
<1>12. Known(asking', generation, shell.user, shell.agentsLoading)
  <2> SUFFICES ASSUME NEW d \in ShellCalls
               PROVE  /\ asking'[d].generation <= generation
                      /\ asking'[d].answer = "OK" /\ asking'[d].op # "login" => asking'[d].by # "none"
                      /\ asking'[d].op = "me" => asking'[d].generation = 0 /\ (generation = 0 => shell.user = "none")
                      /\ asking'[d].op = "login" => asking'[d].generation # 0 /\ shell.user = "none"
                      /\ asking'[d].op = "agents" /\ asking'[d].generation = generation => shell.user # "none" /\ shell.agentsLoading
                      /\ \A e \in ShellCalls:
                           /\ asking'[e].op = asking'[d].op
                           /\ \/ asking'[d].op \in {"me", "login"}
                              \/ asking'[d].op = "agents" /\ asking'[d].generation = generation /\ asking'[e].generation = generation
                           => e = d
    BY DEF Known
  <2>1. asking'[d].answer = "OK" /\ asking'[d].op # "login" => asking'[d].by # "none"
    BY <1>1, <1>2, <1>3, <1>8 DEF Known
  <2> QED BY <1>3, <1>8, <2>1 DEF Known
<1>13. Known(asking, generation, shell.user, shell.agentsLoading)'
  BY <1>2, <1>12 DEF Known
<1>14. ASSUME ~foreign' PROVE Owned(asking, generation, shell.user, main)' /\ ShowsOwn(shell)'
  <2>1. Owned(asking, generation, shell.user, main) /\ ShowsOwn(shell)
    BY <1>14, Remembered DEF ShellInv
  <2>2. opens => /\ shell.user = "none" /\ generation # 0
                 /\ \A d \in ShellCalls: asking[d].op = "login" => d = c
    <3>1. opens => k.generation # 0 /\ k.generation <= generation /\ k.generation \in Nat
      BY <1>3 DEF Known, ShellCall
    <3> QED BY <1>3, <3>1 DEF Known
  <2>3. shell.user # "none" => main' \in {shell.user, "none"}
    BY <1>2, <2>1, <2>2 DEF Owned
  <2>4. ASSUME NEW d \in ShellCalls
        PROVE  /\ asking'[d].generation = generation /\ asking'[d].op \notin {"none", "me", "login"} => IsMine(asking'[d], shell.user)
               /\ asking'[d].generation = generation /\ asking'[d].op = "me" => main' \in {asking'[d].by, "none"}
               /\ asking'[d].op = "login" /\ asking'[d].answer = "OK" => main' \in {asking'[d].on, "none"}
    <3>1. asking'[d].generation = generation /\ asking'[d].op \notin {"none", "me", "login"} => IsMine(asking'[d], shell.user)
      BY <1>8, <2>1 DEF Owned, IsMine
    <3>2. asking'[d].generation = generation /\ asking'[d].op = "me" => main' \in {asking'[d].by, "none"}
      <4>1. asking[d].op = "me" => asking[d].generation = 0
        BY <1>3 DEF Known
      <4> QED BY <1>2, <1>8, <2>1, <2>2, <4>1 DEF Owned
    <3>3. asking'[d].op = "login" /\ asking'[d].answer = "OK" => main' \in {asking'[d].on, "none"}
      <4>1. CASE opens
        BY <1>1, <1>2, <1>8, <2>2, <4>1
      <4>2. CASE ~opens
        BY <1>1, <1>2, <1>8, <2>1, <4>2 DEF Owned
      <4> QED BY <4>1, <4>2
    <3> QED BY <3>1, <3>2, <3>3
  <2>5. Owned(asking, generation, shell.user, main)'
    BY <1>2, <2>3, <2>4 DEF Owned, IsMine
  <2> QED BY <1>2, <2>1, <2>5 DEF ShowsOwn
<1> QED BY <1>11, <1>13, <1>14 DEF ShellInv

LEMMA RenderingIs ==
  ASSUME NEW front \in ShellView
  PROVE  Shell!Rendering(front) \in [user: Owner, project: Projects \cup {"none"}, task: Tasks \cup {"none"}]
<1>1. front.user \in Owner /\ front.project \in Item(Projects) /\ front.task \in Item(Tasks)
  BY DEF ShellView
<1>2. front.project.id \in Projects \cup {"none"} /\ front.task.id \in Tasks \cup {"none"}
  BY <1>1 DEF Item, Shell!Nobody
<1> QED BY <1>1, <1>2 DEF Shell!Rendering

LEMMA ClickIs ==
  ASSUME ShellInv, acts < MaxActs, acts' = acts + 1, inbox' = inbox, shell' \in ShellView, shown' = Shell!Rendering(shell'),
         loadingRef' \in BOOLEAN, due' \subseteq {"project", "task"}
  PROVE  Around'
<1>1. acts' \in 0..MaxActs /\ inbox' \in Seq(ShellCalls \cup {"lost"})
  BY ScreensBounds DEF ShellInv, ShellTypes, Around
<1>2. shown' \in [user: Owner, project: Projects \cup {"none"}, task: Tasks \cup {"none"}]
  BY RenderingIs
<1> QED BY <1>1, <1>2 DEF Around

LEMMA ScreenTypes ==
  ASSUME ShellInv
  PROVE  /\ shell \in ShellView /\ generation \in Nat /\ main \in Owner /\ loadingRef \in BOOLEAN /\ due \subseteq {"project", "task"}
         /\ asking \in [ShellCalls -> ShellCall] /\ \A c \in ShellCalls: Fits(asking[c])
         /\ shell.project # Shell!Nobody => shell.project.id \in Projects
         /\ shell.task # Shell!Nobody => shell.task.id \in Tasks
         /\ Shell!Screen # "login" => shell.user # "none"
BY DEF ShellInv, ShellTypes, ShellView, Around, Item, Shell!Screen

(* A click or a rendering of the user who is signed in sends a call. *)
LEMMA SentKeepsShell ==
  ASSUME ShellInv, Remember, Around', NEW c \in ShellCalls, generation' = generation, main' = main, shell' \in ShellView,
         shell'.user = shell.user, shell'.agentsLoading = shell.agentsLoading, ~foreign' => shell.user # "none",
         ListsOwn(shell) => ListsOwn(shell'),
         NEW op \in Shell!Ops \ {"me", "login", "agents"}, NEW on \in Members \cup Projects \cup Tasks \cup {"none"},
         op \in {"tasks", "createTask"} => on \in Projects, op \in OnTaskOps => on \in Tasks,
         asking' = [asking EXCEPT ![c] = Shell!Sent(op, generation, on, Shell!Nobody, main)]
  PROVE  ShellInv'
<1> DEFINE r == Shell!Sent(op, generation, on, Shell!Nobody, main)
<1>1. generation \in Nat /\ main \in Owner
  BY ScreenTypes
<1>2. New(r, generation) /\ r.by = main /\ r.next.by = "none"
  BY <1>1, Nothing, NewSent DEF Shell!Sent
<1> HIDE DEF r
<1>3. ASSUME ~foreign' PROVE IsMine(r, shell.user) /\ ListsOwn(shell') /\ Bare(shell')
  <2>1. ~foreign /\ ListsOwn(shell)
    BY <1>3, Remembered, OwnScreen
  <2>2. main \in {shell.user, "none"} /\ shell.user # "none"
    BY <1>3, <2>1 DEF ShellInv, Owned
  <2> QED BY <1>2, <2>1, <2>2 DEF IsMine, Bare
<1>4. asking' = [asking EXCEPT ![c] = r]
  BY DEF r
<1> QED BY <1>2, <1>3, <1>4, OneCallStep

LEMMA RequestedKeeps ==
  ASSUME ShellInv, Remember, Shell!Click, shown' = Shell!Rendering(shell'), Shell!Screen # "login", NEW c \in ShellCalls,
         NEW op \in Shell!Ops \ {"me", "login", "agents"}, NEW on \in Members \cup Projects \cup Tasks \cup {"none"},
         op \in {"tasks", "createTask"} => on \in Projects, op \in OnTaskOps => on \in Tasks, Shell!Request(c, op, on)
  PROVE  ShellInv'
<1>1. /\ acts < MaxActs /\ acts' = acts + 1 /\ inbox' = inbox
      /\ shell' = shell /\ generation' = generation /\ loadingRef' = loadingRef /\ due' = due /\ main' = main
      /\ asking' = [asking EXCEPT ![c] = Shell!Sent(op, generation, on, Shell!Nobody, main)]
  BY DEF Shell!Click, Shell!Request, Shell!Put
<1>2. Around' /\ shell \in ShellView /\ shell.user # "none"
  BY <1>1, ScreenTypes, ClickIs
<1> QED BY <1>1, <1>2, SentKeepsShell

LEMMA OnTaskKeeps ==
  ASSUME ShellInv, Remember, shown' = Shell!Rendering(shell'), NEW c \in ShellCalls,
         NEW op \in {"startTask", "readFile", "prompt", "responses", "register", "prepare", "approve", "reject", "submit"},
         Shell!OnTask(c, op)
  PROVE  ShellInv'
<1>1. Shell!Click /\ Shell!Screen = "project" /\ shell.task.id \in Tasks /\ Shell!Request(c, op, shell.task.id)
  BY ScreenTypes DEF Shell!OnTask
<1>2. op \in Shell!Ops \ {"me", "login", "agents"} /\ op \notin {"tasks", "createTask"}
  BY OpsAre
<1> QED BY <1>1, <1>2, RequestedKeeps

LEMMA CreationKeeps ==
  ASSUME ShellInv, Remember, shown' = Shell!Rendering(shell'), NEW c \in ShellCalls,
         \/ Shell!CreateProject(c) \/ Shell!CreateTask(c) \/ \E t \in Tasks: Shell!DecideResult(c, t)
  PROVE  ShellInv'
<1>1. CASE Shell!CreateProject(c)
  <2>1. Shell!Click /\ Shell!Screen = "home" /\ Shell!Request(c, "createProject", "none")
    BY <1>1 DEF Shell!CreateProject
  <2> QED BY <2>1, OpsAre, RequestedKeeps
<1>2. CASE Shell!CreateTask(c)
  <2>1. Shell!Click /\ Shell!Screen = "project" /\ Shell!Request(c, "createTask", shell.project.id)
    BY <1>2 DEF Shell!CreateTask
  <2>2. shell.project.id \in Projects
    BY <2>1, ScreenTypes DEF Shell!Screen
  <2> QED BY <2>1, <2>2, OpsAre, RequestedKeeps
<1>3. CASE \E t \in Tasks: Shell!DecideResult(c, t)
  <2>1. PICK t \in Tasks: Shell!Click /\ Shell!Screen = "project" /\ Shell!Request(c, "decide", t)
    BY <1>3 DEF Shell!DecideResult
  <2> QED BY <2>1, OpsAre, RequestedKeeps
<1> QED BY <1>1, <1>2, <1>3

LEMMA RetryKeeps ==
  ASSUME ShellInv, Remember, shown' = Shell!Rendering(shell'), NEW c \in ShellCalls, Shell!Retry(c)
  PROVE  ShellInv'
<1>1. /\ Shell!Screen = "error" /\ acts < MaxActs /\ acts' = acts + 1 /\ inbox' = inbox
      /\ shell' = [shell EXCEPT !.loading = TRUE] /\ generation' = generation /\ loadingRef' = loadingRef /\ due' = due /\ main' = main
  BY DEF Shell!Retry
<1>2. \/ shell.project # Shell!Nobody /\ asking' = [asking EXCEPT ![c] = Shell!Sent("tasks", generation, shell.project.id, Shell!Nobody, main)]
      \/ asking' = [asking EXCEPT ![c] = Shell!Sent("projects", generation, "none", Shell!Nobody, main)]
  BY DEF Shell!Retry, Shell!Put
<1>3. shell.user # "none" /\ shell \in ShellView /\ (shell.project # Shell!Nobody => shell.project.id \in Projects)
  BY <1>1, ScreenTypes
<1>4. /\ shell' \in ShellView /\ shell'.user = shell.user /\ shell'.agentsLoading = shell.agentsLoading
      /\ (ListsOwn(shell) => ListsOwn(shell'))
  BY <1>1, <1>3 DEF ShellView, ListsOwn
<1>5. Around'
  BY <1>1, <1>4, ScreenTypes, ClickIs
<1>6. CASE shell.project # Shell!Nobody /\ asking' = [asking EXCEPT ![c] = Shell!Sent("tasks", generation, shell.project.id, Shell!Nobody, main)]
  BY <1>1, <1>3, <1>4, <1>5, <1>6, OpsAre, SentKeepsShell
<1>7. CASE asking' = [asking EXCEPT ![c] = Shell!Sent("projects", generation, "none", Shell!Nobody, main)]
  BY <1>1, <1>3, <1>4, <1>5, <1>7, OpsAre, SentKeepsShell
<1> QED BY <1>2, <1>6, <1>7

(* Selecting sends nothing. *)
LEMMA SelectedKeeps ==
  ASSUME ShellInv, Remember, shown' = Shell!Rendering(shell'), acts < MaxActs, acts' = acts + 1, inbox' = inbox,
         shell' \in ShellView, shell'.user = shell.user, shell'.agentsLoading = shell.agentsLoading,
         due' \subseteq {"project", "task"}, generation' = generation, loadingRef' = loadingRef, asking' = asking, main' = main,
         ~foreign' /\ ListsOwn(shell) => ListsOwn(shell') /\ shell.user # "none"
  PROVE  ShellInv'
<1>1. Around' /\ asking' \in [ShellCalls -> ShellCall]
  BY ScreenTypes, ClickIs
<1>2. ~foreign' => ListsOwn(shell') /\ Bare(shell')
  BY Remembered, OwnScreen DEF Bare
<1> QED BY <1>1, <1>2, QuietStep

LEMMA SelectProjectKeeps ==
  ASSUME ShellInv, Remember, shown' = Shell!Rendering(shell'), NEW p \in Projects, Shell!SelectProject(p)
  PROVE  ShellInv'
<1>1. /\ acts < MaxActs /\ acts' = acts + 1 /\ inbox' = inbox /\ shell.projects # "none"
      /\ shell' = [shell EXCEPT !.project = [id |-> p, by |-> shell.projects], !.task = Shell!Nobody, !.error = FALSE]
      /\ due' = {"project", "task"} /\ generation' = generation /\ loadingRef' = loadingRef /\ asking' = asking /\ main' = main
  BY DEF Shell!SelectProject, Shell!Click
<1>2. shell \in ShellView
  BY ScreenTypes
<1>3. /\ shell' \in ShellView /\ shell'.user = shell.user /\ shell'.agentsLoading = shell.agentsLoading
      /\ ListsOwn(shell) => ListsOwn(shell') /\ shell.user # "none"
  BY <1>1, <1>2 DEF ShellView, ListsOwn, Item
<1> QED BY <1>1, <1>3, SelectedKeeps

LEMMA SelectTaskKeeps ==
  ASSUME ShellInv, Remember, shown' = Shell!Rendering(shell'), NEW t \in Tasks, Shell!SelectTask(t)
  PROVE  ShellInv'
<1>1. /\ acts < MaxActs /\ acts' = acts + 1 /\ inbox' = inbox /\ Shell!Screen = "project"
      /\ shell' = [shell EXCEPT !.task = [id |-> t, by |-> shell.tasks.by]]
      /\ due' = {"task"} /\ generation' = generation /\ loadingRef' = loadingRef /\ asking' = asking /\ main' = main
  BY DEF Shell!SelectTask, Shell!Click
<1>2. shell \in ShellView /\ shell.user # "none"
  BY <1>1, ScreenTypes
<1>3. shell.tasks.by \in Owner
  BY <1>2, Nothing DEF ShellView, Item, Owner
<1>4. /\ shell' \in ShellView /\ shell'.user = shell.user /\ shell'.agentsLoading = shell.agentsLoading
      /\ (ListsOwn(shell) => ListsOwn(shell'))
  BY <1>1, <1>2, <1>3 DEF ShellView, ListsOwn, Item
<1> QED BY <1>1, <1>2, <1>4, SelectedKeeps

(* A login is the only one, in a new generation. *)
LEMMA LoginKeeps ==
  ASSUME ShellInv, Remember, shown' = Shell!Rendering(shell'), NEW c \in ShellCalls, NEW a \in Members, Shell!Login(c, a)
  PROVE  ShellInv'
<1> DEFINE login == Shell!Sent("login", generation + 1, a, Shell!Nobody, main)
<1>1. /\ acts < MaxActs /\ acts' = acts + 1 /\ inbox' = inbox /\ Shell!Screen = "login" /\ \A d \in ShellCalls: asking[d].op # "login"
      /\ shell' = shell /\ generation' = generation + 1 /\ loadingRef' = loadingRef /\ due' = due /\ main' = main
      /\ asking' = [Shell!Outdated(asking) EXCEPT ![c] = login]
  BY DEF Shell!Login, Shell!Click
<1>2. /\ shell \in ShellView /\ generation \in Nat /\ main \in Owner /\ shell.user = "none"
      /\ asking \in [ShellCalls -> ShellCall] /\ \A d \in ShellCalls: Fits(asking[d])
      /\ Known(asking, generation, shell.user, shell.agentsLoading)
      /\ \A d \in ShellCalls: asking[d].generation \in Nat
  <2>1. shell.user = "none"
    BY <1>1 DEF Shell!Screen
  <2> QED BY <2>1, ScreenTypes DEF ShellInv, ShellCall
<1>3. Around'
  BY <1>1, <1>2, ScreenTypes, ClickIs
<1>4. /\ login \in ShellCall /\ login.op = "login" /\ login.generation = generation + 1 /\ login.answer = "none" /\ login.on = a
  <2>1. "login" \in Shell!Ops /\ Shell!Nobody \in [id: Projects \cup Tasks \cup {"none"}, by: Owner \cup {"submit", "decide"}]
    BY OpsAre, Nothing
  <2> QED BY <1>2, <2>1 DEF Shell!Sent, ShellCall
<1>5. Fits(login)
  BY <1>4, OpsAre DEF Fits
<1> HIDE DEF login
<1>6. /\ asking' \in [ShellCalls -> ShellCall] /\ asking'[c] = login /\ \A d \in ShellCalls: Fits(asking'[d])
      /\ \A d \in ShellCalls \ {c}:
           /\ asking'[d].op = asking[d].op /\ asking'[d].generation = asking[d].generation
           /\ asking'[d].by = asking[d].by /\ asking'[d].on = asking[d].on /\ asking'[d].next = asking[d].next
           /\ asking'[d].answer = asking[d].answer
  <2> DEFINE outdated == Shell!Outdated(asking)
  <2>1. /\ outdated \in [ShellCalls -> ShellCall]
        /\ \A d \in ShellCalls:
             /\ Fits(outdated[d]) /\ outdated[d].op = asking[d].op /\ outdated[d].generation = asking[d].generation
             /\ outdated[d].by = asking[d].by /\ outdated[d].on = asking[d].on /\ outdated[d].next = asking[d].next
             /\ outdated[d].answer = asking[d].answer
    BY <1>2, OutdatedIs
  <2> HIDE DEF outdated
  <2>2. asking' = [outdated EXCEPT ![c] = login]
    BY <1>1 DEF outdated
  <2>3. /\ asking' \in [ShellCalls -> ShellCall] /\ asking'[c] = login /\ \A d \in ShellCalls \ {c}: asking'[d] = outdated[d]
    BY <1>4, <2>1, <2>2
  <2> QED BY <1>5, <2>1, <2>3
<1>7. ShellTypes'
  <2>1. shell' \in ShellView /\ generation' \in Nat /\ main' \in Owner
    BY <1>1, <1>2
  <2> QED BY <1>3, <1>6, <2>1 DEF ShellTypes, Around, Fits
<1>8. Known(asking', generation + 1, shell.user, shell.agentsLoading)
  <2> SUFFICES ASSUME NEW d \in ShellCalls
               PROVE  /\ asking'[d].generation <= generation + 1
                      /\ asking'[d].answer = "OK" /\ asking'[d].op # "login" => asking'[d].by # "none"
                      /\ asking'[d].op = "me" => asking'[d].generation = 0
                      /\ asking'[d].op = "login" => asking'[d].generation # 0
                      /\ ~(asking'[d].op = "agents" /\ asking'[d].generation = generation + 1)
                      /\ \A e \in ShellCalls: asking'[e].op = asking'[d].op /\ asking'[d].op \in {"me", "login"} => e = d
    BY <1>2 DEF Known
  <2>1. CASE d = c
    <3>1. \A e \in ShellCalls: asking'[e].op = "login" => e = c
      BY <1>1, <1>6
    <3> QED BY <1>2, <1>4, <1>6, <2>1, <3>1
  <2>2. CASE d # c
    <3>1. asking[d].generation <= generation /\ asking[d].generation \in Nat
      BY <1>2 DEF Known
    <3>2. \A e \in ShellCalls: asking'[e].op = asking'[d].op /\ asking'[d].op = "me" => e = d
      BY <1>2, <1>4, <1>6, <2>2 DEF Known
    <3>3. asking'[d].answer = "OK" /\ asking'[d].op # "login" => asking'[d].by # "none"
      BY <1>2, <1>6, <2>2 DEF Known
    <3>4. asking'[d].op = "me" => asking'[d].generation = 0
      BY <1>2, <1>6, <2>2 DEF Known
    <3> QED BY <1>1, <1>2, <1>6, <2>2, <3>1, <3>2, <3>3, <3>4
  <2> QED BY <2>1, <2>2
<1>9. Known(asking, generation, shell.user, shell.agentsLoading)'
  BY <1>1, <1>8 DEF Known
<1>10. ASSUME ~foreign' PROVE Owned(asking, generation, shell.user, main)' /\ ShowsOwn(shell)'
  <2>1. ShowsOwn(shell)
    BY <1>10, Remembered DEF ShellInv
  <2>2. ASSUME NEW d \in ShellCalls
        PROVE  /\ ~(asking'[d].generation = generation + 1 /\ asking'[d].op \notin {"none", "login"})
               /\ ~(asking'[d].op = "login" /\ asking'[d].answer = "OK")
    <3>1. asking[d].generation <= generation /\ asking[d].generation \in Nat
      BY <1>2 DEF Known
    <3> QED BY <1>1, <1>2, <1>4, <1>6, <3>1
  <2>3. Owned(asking, generation, shell.user, main)'
    BY <1>1, <1>2, <2>2 DEF Owned, IsMine
  <2> QED BY <1>1, <2>1, <2>3 DEF ShowsOwn
<1> QED BY <1>7, <1>9, <1>10 DEF ShellInv

(* The agents are asked for again only where none of this login is under way. *)
LEMMA RefreshAgentsKeeps ==
  ASSUME ShellInv, Remember, shown' = Shell!Rendering(shell'), NEW c \in ShellCalls, Shell!RefreshAgents(c)
  PROVE  ShellInv'
<1> DEFINE agents == Shell!Sent("agents", generation, "none", Shell!Nobody, main)
<1>1. /\ acts < MaxActs /\ acts' = acts + 1 /\ inbox' = inbox /\ Shell!Screen = "project" /\ ~shell.agentsLoading
      /\ shell' = [shell EXCEPT !.agentsLoading = TRUE] /\ generation' = generation /\ loadingRef' = TRUE /\ due' = due /\ main' = main
      /\ asking' = [asking EXCEPT ![c] = agents]
  BY DEF Shell!RefreshAgents, Shell!Click, Shell!Put
<1>2. /\ shell \in ShellView /\ generation \in Nat /\ main \in Owner /\ shell.user # "none"
      /\ asking \in [ShellCalls -> ShellCall] /\ \A d \in ShellCalls: Fits(asking[d])
      /\ Known(asking, generation, shell.user, shell.agentsLoading)
  BY <1>1, ScreenTypes DEF ShellInv
<1>3. /\ shell' \in ShellView /\ shell'.user = shell.user /\ shell'.agentsLoading /\ shell'.task = shell.task
      /\ (ShowsOwn(shell) => ShowsOwn(shell'))
  BY <1>1, <1>2 DEF ShellView, ShowsOwn
<1>4. Around'
  BY <1>1, <1>2, <1>3, ScreenTypes, ClickIs
<1>5. /\ agents \in ShellCall /\ agents.op = "agents" /\ agents.generation = generation /\ agents.answer = "none" /\ agents.by = main
  <2>1. "agents" \in Shell!Ops /\ Shell!Nobody \in [id: Projects \cup Tasks \cup {"none"}, by: Owner \cup {"submit", "decide"}]
    BY OpsAre, Nothing
  <2> QED BY <1>2, <2>1 DEF Shell!Sent, ShellCall
<1>6. Fits(agents)
  BY <1>5, OpsAre DEF Fits
<1> HIDE DEF agents
<1>7. /\ asking' \in [ShellCalls -> ShellCall] /\ asking'[c] = agents /\ \A d \in ShellCalls \ {c}: asking'[d] = asking[d]
      /\ \A d \in ShellCalls: Fits(asking'[d])
  BY <1>1, <1>2, <1>5, <1>6
<1>8. ShellTypes'
  <2>1. generation' \in Nat /\ main' \in Owner
    BY <1>1, <1>2
  <2> QED BY <1>3, <1>4, <1>7, <2>1 DEF ShellTypes, Around, Fits
<1>9. \A d \in ShellCalls: ~(asking[d].op = "agents" /\ asking[d].generation = generation)
  BY <1>1, <1>2 DEF Known
<1>10. Known(asking', generation, shell.user, TRUE)
  <2> SUFFICES ASSUME NEW d \in ShellCalls
               PROVE  /\ asking'[d].generation <= generation
                      /\ asking'[d].answer = "OK" /\ asking'[d].op # "login" => asking'[d].by # "none"
                      /\ asking'[d].op = "me" => asking'[d].generation = 0 /\ (generation = 0 => shell.user = "none")
                      /\ asking'[d].op = "login" => asking'[d].generation # 0 /\ shell.user = "none"
                      /\ \A e \in ShellCalls:
                           /\ asking'[e].op = asking'[d].op
                           /\ \/ asking'[d].op \in {"me", "login"}
                              \/ asking'[d].op = "agents" /\ asking'[d].generation = generation /\ asking'[e].generation = generation
                           => e = d
    BY <1>2 DEF Known
  <2>1. CASE d = c
    BY <1>2, <1>5, <1>7, <1>9, <2>1
  <2>2. CASE d # c
    BY <1>2, <1>5, <1>7, <1>9, <2>2 DEF Known
  <2> QED BY <2>1, <2>2
<1>11. Known(asking, generation, shell.user, shell.agentsLoading)'
  BY <1>1, <1>3, <1>10 DEF Known
<1>12. ASSUME ~foreign' PROVE Owned(asking, generation, shell.user, main)' /\ ShowsOwn(shell)'
  <2>1. Owned(asking, generation, shell.user, main) /\ ShowsOwn(shell)
    BY <1>12, Remembered DEF ShellInv
  <2>2. Owned(asking', generation, shell.user, main)
    <3>1. IsMine(asking'[c], shell.user)
      BY <1>2, <1>5, <1>7, <2>1 DEF Owned, IsMine
    <3> QED BY <1>5, <1>7, <2>1, <3>1 DEF Owned
  <2>3. Owned(asking, generation, shell.user, main)'
    BY <1>1, <1>3, <2>2 DEF Owned, IsMine
  <2>4. ShowsOwn(shell)'
    BY <1>3, <2>1 DEF ShowsOwn
  <2> QED BY <2>3, <2>4
<1> QED BY <1>8, <1>11, <1>12 DEF ShellInv

LEMMA RenderKeeps ==
  ASSUME ShellInv, Remember, Shell!Render
  PROVE  ShellInv'
<1> DEFINE lists == "project" \in due /\ shell.project # Shell!Nobody
           files == "task" \in due /\ shell.task # Shell!Nobody
           tasks == Shell!Sent("tasks", generation, shell.project.id, Shell!Nobody, main)
           artifacts == Shell!Sent("artifacts", generation, shell.task.id, Shell!Nobody, main)
<1>1. /\ shown' = Shell!Rendering(shell) /\ due' = {} /\ generation' = generation /\ loadingRef' = loadingRef
      /\ inbox' = inbox /\ main' = main /\ acts' = acts
  BY DEF Shell!Render
<1>2. /\ shell \in ShellView /\ generation \in Nat /\ main \in Owner
      /\ asking \in [ShellCalls -> ShellCall] /\ Around
      /\ (lists => shell.project.id \in Projects) /\ (files => shell.task.id \in Tasks)
  BY ScreenTypes DEF ShellInv, ShellTypes
<1>3. Around'
  <2>1. shown' \in [user: Owner, project: Projects \cup {"none"}, task: Tasks \cup {"none"}]
    BY <1>1, <1>2, RenderingIs
  <2> QED BY <1>1, <1>2, <2>1 DEF Around
<1>4. PICK loading \in BOOLEAN, shows \in {shell.artifacts, Shell!Nobody}:
        shell' = [shell EXCEPT !.loading = loading, !.artifacts = shows]
  <2> DEFINE loading == shell.loading \/ lists
             shows == IF shell.task = Shell!Nobody THEN Shell!Nobody ELSE shell.artifacts
  <2>1. shell' = [shell EXCEPT !.loading = loading, !.artifacts = shows]
    BY DEF Shell!Render
  <2>2. loading \in BOOLEAN /\ shows \in {shell.artifacts, Shell!Nobody}
    OBVIOUS
  <2> HIDE DEF loading, shows
  <2> QED BY <2>1, <2>2
<1>5. /\ shell' \in ShellView /\ shell'.user = shell.user /\ shell'.agentsLoading = shell.agentsLoading
      /\ (ListsOwn(shell) => ListsOwn(shell')) /\ shell'.project = shell.project /\ shell'.task = shell.task
  <2>1. shows \in Item(Tasks) /\ shows.by \in {shell.artifacts.by, "none"}
    BY <1>2, <1>4, Nothing DEF ShellView
  <2>2. /\ shell' \in ShellView /\ shell'.user = shell.user /\ shell'.agentsLoading = shell.agentsLoading
        /\ shell'.projects = shell.projects /\ shell'.project = shell.project /\ shell'.tasks = shell.tasks
        /\ shell'.task = shell.task /\ shell'.artifacts = shows /\ shell'.agents = shell.agents
    BY <1>2, <1>4, <2>1 DEF ShellView
  <2>3. ListsOwn(shell) => ListsOwn(shell')
    <3> HIDE DEF lists, files, tasks, artifacts
    <3> QED BY <2>1, <2>2 DEF ListsOwn
  <2> QED BY <2>2, <2>3
<1>6. (lists => New(tasks, generation)) /\ (files => New(artifacts, generation))
  BY <1>2, OpsAre, Nothing, NewSent DEF OnTaskOps
<1>7. tasks.by = main /\ artifacts.by = main /\ tasks.next.by = "none" /\ artifacts.next.by = "none"
  BY Nothing DEF Shell!Sent
<1>8. \/ \E c, d \in ShellCalls: lists /\ files /\ asking' = [asking EXCEPT ![c] = tasks, ![d] = artifacts]
      \/ \E c \in ShellCalls: lists /\ asking' = [asking EXCEPT ![c] = tasks]
      \/ \E c \in ShellCalls: files /\ asking' = [asking EXCEPT ![c] = artifacts]
      \/ asking' = asking
  <2>1. CASE lists /\ files
    <3>1. PICK c \in Shell!Idle: \E d \in Shell!Idle \ {c}: asking' = [asking EXCEPT ![c] = tasks, ![d] = artifacts]
      BY <2>1 DEF Shell!Render
    <3> QED BY <2>1, <3>1 DEF Shell!Idle
  <2>2. CASE lists /\ ~files
    <3>1. PICK c \in Shell!Idle: asking' = [asking EXCEPT ![c] = tasks]
      BY <2>2 DEF Shell!Render, Shell!Put
    <3> QED BY <2>2, <3>1 DEF Shell!Idle
  <2>3. CASE ~lists /\ files
    <3>1. PICK c \in Shell!Idle: asking' = [asking EXCEPT ![c] = artifacts]
      BY <2>3 DEF Shell!Render, Shell!Put
    <3> QED BY <2>3, <3>1 DEF Shell!Idle
  <2>4. CASE ~lists /\ ~files
    BY <2>4 DEF Shell!Render
  <2> QED BY <2>1, <2>2, <2>3, <2>4
<1>9. ASSUME ~foreign' PROVE /\ ListsOwn(shell') /\ Bare(shell')
                            /\ (lists => IsMine(tasks, shell.user)) /\ (files => IsMine(artifacts, shell.user))
  <2>1. ~foreign /\ ListsOwn(shell) /\ Bare(shell)
    BY <1>9, Remembered, OwnScreen
  <2>2. lists \/ files => shell.user # "none"
    BY <2>1 DEF Bare
  <2>3. shell.user # "none" => main \in {shell.user, "none"}
    BY <2>1 DEF ShellInv, Owned
  <2> QED BY <1>5, <1>7, <2>1, <2>2, <2>3 DEF Bare, IsMine
<1> HIDE DEF lists, files, tasks, artifacts
<1>10. /\ asking' \in [ShellCalls -> ShellCall]
       /\ \A d \in ShellCalls:
            \/ asking'[d] = asking[d] \/ (lists /\ asking'[d] = tasks) \/ (files /\ asking'[d] = artifacts)
  <2>1. (lists => tasks \in ShellCall) /\ (files => artifacts \in ShellCall)
    BY <1>6 DEF New
  <2> QED BY <1>2, <1>8, <2>1
<1> QED BY <1>1, <1>3, <1>5, <1>6, <1>9, <1>10, QuietStep

LEMMA ShellStarts ==
  ASSUME Shell!Init, foreign = FALSE
  PROVE  ShellInv
<1>1. PICK a \in Owner, c \in ShellCalls:
        /\ shell = [Shell!Blank EXCEPT !.loading = TRUE]
        /\ generation = 0 /\ loadingRef = FALSE
        /\ shown = Shell!Rendering(Shell!Blank) /\ due = {}
        /\ asking = [d \in ShellCalls |-> IF d = c THEN Shell!Sent("me", 0, "none", Shell!Nobody, a) ELSE Shell!NoCall]
        /\ inbox = <<>> /\ main = a /\ acts = 0
  BY DEF Shell!Init, Owner
<1> DEFINE me == Shell!Sent("me", 0, "none", Shell!Nobody, a)
<1>2. /\ me \in ShellCall /\ me.op = "me" /\ me.generation = 0 /\ me.answer = "none" /\ me.by = a
  <2>1. "me" \in Shell!Ops /\ Shell!Nobody \in [id: Projects \cup Tasks \cup {"none"}, by: Owner \cup {"submit", "decide"}]
    BY Nothing DEF Shell!Ops
  <2> QED BY <2>1 DEF Shell!Sent, ShellCall
<1>3. Fits(me)
  BY <1>2 DEF Fits, OnTaskOps, Shell!WriteOps
<1> HIDE DEF me
<1>4. /\ asking \in [ShellCalls -> ShellCall] /\ asking[c] = me
      /\ \A d \in ShellCalls \ {c}: asking[d] = Shell!NoCall
  BY <1>1, <1>2, NoneAsked DEF me
<1>5. /\ shell \in ShellView /\ shell.user = "none" /\ shell.projects = "none" /\ shell.agents = "none" /\ ~shell.agentsLoading
      /\ shell.project = Shell!Nobody /\ shell.task = Shell!Nobody /\ shell.tasks = Shell!Nobody /\ shell.artifacts = Shell!Nobody
  BY <1>1 DEF Shell!Blank, ShellView, Item, Owner
<1>6. Around
  <2>1. shown \in [user: Owner, project: Projects \cup {"none"}, task: Tasks \cup {"none"}]
    BY <1>1 DEF Shell!Rendering, Shell!Blank, Shell!Nobody, Owner
  <2>2. acts \in 0..MaxActs /\ inbox \in Seq(ShellCalls \cup {"lost"})
    BY <1>1, ScreensBounds
  <2>3. loadingRef \in BOOLEAN /\ due \subseteq {"project", "task"}
    BY <1>1
  <2> QED BY <2>1, <2>2, <2>3 DEF Around
<1>7. ShellTypes
  BY <1>1, <1>3, <1>4, <1>5, <1>6, NoneAsked DEF ShellTypes
<1>8. Known(asking, generation, shell.user, shell.agentsLoading)
  BY <1>1, <1>2, <1>4, <1>5, NoneAsked DEF Known
<1>9. Owned(asking, generation, shell.user, main)
  BY <1>1, <1>2, <1>4, <1>5, NoneAsked DEF Owned
<1>10. ShowsOwn(shell)
  BY <1>5, Nothing DEF ShowsOwn
<1> QED BY <1>7, <1>8, <1>9, <1>10 DEF ShellInv

LEMMA ShellSteps ==
  ASSUME ShellInv, Remember, Shell!Next
  PROVE  ShellInv'
<1>1. CASE Shell!Message
  <2>1. CASE Shell!AuthenticationLost
    BY <2>1, AuthenticationLostKeeps
  <2>2. ASSUME NEW c \in ShellCalls,
               \/ Shell!Discard(c) \/ Shell!Refused(c) \/ Shell!Failed(c) \/ Shell!ProjectsLoaded(c) \/ Shell!TasksLoaded(c)
               \/ Shell!AgentsLoaded(c) \/ Shell!AgentsRefusedLate(c) \/ Shell!ArtifactsLoaded(c) \/ Shell!CurrentUser(c)
               \/ Shell!NoCurrentUser(c) \/ Shell!LoggedIn(c) \/ Shell!LoginRefused(c) \/ Shell!ProjectCreated(c)
               \/ Shell!TaskCreated(c) \/ Shell!TaskStarted(c) \/ Shell!Worked(c) \/ Shell!Registered(c) \/ Shell!Submitted(c)
               \/ Shell!Decided(c) \/ Shell!ResultRead(c) \/ Shell!ResultRefused(c) \/ Shell!TaskRead(c)
        PROVE  ShellInv'
    BY <2>2, DiscardKeeps, RefusedKeeps, FailedKeeps, ProjectsLoadedKeeps, TasksLoadedKeeps, AgentsLoadedKeeps, ArtifactsLoadedKeeps,
       ScreenStays, EnteredKeeps, NoCurrentUserKeeps, ProjectCreatedKeeps, TaskCreatedKeeps, TaskStartedKeeps, WorkedKeeps,
       RegisteredKeeps, ReadAgainKeeps, TaskReadKeeps
  <2> QED BY <1>1, <2>1, <2>2 DEF Shell!Message
<1>2. CASE Shell!User
  <2>1. shown' = Shell!Rendering(shell')
    BY <1>2 DEF Shell!User
  <2>2. ASSUME NEW c \in ShellCalls, NEW a \in Members, Shell!Login(c, a) PROVE ShellInv'
    BY <2>1, <2>2, LoginKeeps
  <2>3. ASSUME NEW c \in ShellCalls,
               Shell!CreateProject(c) \/ Shell!CreateTask(c) \/ Shell!RefreshAgents(c) \/ Shell!Retry(c)
                 \/ \E t \in Tasks: Shell!DecideResult(c, t)
        PROVE  ShellInv'
    BY <2>1, <2>3, CreationKeeps, RefreshAgentsKeeps, RetryKeeps
  <2>4. ASSUME NEW c \in ShellCalls,
               \/ Shell!StartTask(c) \/ Shell!ReadFile(c) \/ Shell!CreateModelResponse(c) \/ Shell!ListModelResponses(c)
               \/ Shell!RegisterArtifact(c) \/ Shell!PrepareWrite(c) \/ Shell!ApproveWrite(c) \/ Shell!RejectWrite(c)
               \/ Shell!SubmitResult(c)
        PROVE  ShellInv'
    <3>1. PICK op \in {"startTask", "readFile", "prompt", "responses", "register", "prepare", "approve", "reject", "submit"}:
            Shell!OnTask(c, op)
      BY <2>4 DEF Shell!StartTask, Shell!ReadFile, Shell!CreateModelResponse, Shell!ListModelResponses, Shell!RegisterArtifact,
           Shell!PrepareWrite, Shell!ApproveWrite, Shell!RejectWrite, Shell!SubmitResult
    <3> QED BY <2>1, <3>1, OnTaskKeeps
  <2>5. CASE Shell!Logout
    BY <2>1, <2>5, LogoutKeeps
  <2>6. ASSUME NEW p \in Projects, Shell!SelectProject(p) PROVE ShellInv'
    BY <2>1, <2>6, SelectProjectKeeps
  <2>7. ASSUME NEW t \in Tasks, Shell!SelectTask(t) PROVE ShellInv'
    BY <2>1, <2>7, SelectTaskKeeps
  <2> QED BY <1>2, <2>2, <2>3, <2>4, <2>5, <2>6, <2>7 DEF Shell!User
<1>3. CASE Shell!Render
  BY <1>3, RenderKeeps
<1>4. CASE \E c \in ShellCalls: Shell!Served(c)
  BY <1>4, ShellServeKeeps DEF Shell!Served
<1> QED BY <1>1, <1>2, <1>3, <1>4 DEF Shell!Next

LEMMA ShellIsRight ==
  ASSUME ShellInv
  PROVE  Shell!TypeOK /\ (foreign \/ Shell!ListsAreOfUser) /\ Shell!OneAgentsLoad
<1>1. Shell!TypeOK
  <2>1. /\ shell \in ShellView /\ generation \in Nat /\ main \in Owner /\ Around
        /\ asking \in [ShellCalls -> ShellCall] /\ \A c \in ShellCalls: Fits(asking[c])
    BY DEF ShellInv, ShellTypes
  <2>2. \A S: Item(S) \subseteq [id: S \cup {"none"}, by: Owner]
    BY DEF Item, Shell!Nobody, Owner
  <2>3. shell \in [user: Owner, projects: Owner, project: [id: Projects \cup {"none"}, by: Owner],
                   tasks: [id: Projects \cup {"none"}, by: Owner], task: [id: Tasks \cup {"none"}, by: Owner],
                   artifacts: [id: Tasks \cup {"none"}, by: Owner], agents: Owner, agentsLoading: BOOLEAN, loading: BOOLEAN, error: BOOLEAN]
    BY <2>1, <2>2 DEF ShellView
  <2>4. \A c \in ShellCalls: \/ asking[c] = Shell!NoCall
                            \/ /\ asking[c].op \in Shell!Ops /\ asking[c].by \in Owner
                               /\ asking[c].answer \in {"none", "OK", "DENIED", "LOST"}
    BY <2>1 DEF ShellCall, Fits
  <2> QED BY <2>1, <2>3, <2>4 DEF Shell!TypeOK, Around, Owner
<1>2. foreign \/ Shell!ListsAreOfUser
  BY DEF ShellInv, ShowsOwn, Shell!ListsAreOfUser
<1>3. Shell!OneAgentsLoad
  BY DEF ShellInv, Known, Shell!OneAgentsLoad, Shell!Stale
<1> QED BY <1>1, <1>2, <1>3

(***************************************************************************)
(* The view of a task.                                                     *)
(***************************************************************************)

ResultRow == [task: Tasks, artifacts: SUBSET Artifacts, status: View!Statuses]
PendingCall == [op: {"none", "create", "open", "submit", "decide", "reread"}, task: Tasks \cup {"none"},
                attempt: View!Attempts, result: 0..MaxKeys, answer: {"none", "OK", "ERROR"},
                status: View!Statuses \cup {"none"}, gone: BOOLEAN]

ViewTypes ==
  /\ task \in Tasks
  /\ detail \in [attempt: View!Attempts, submitting: BOOLEAN, error: BOOLEAN, candidate: 0..MaxKeys,
                 status: View!Statuses \cup {"none"}, active: 0..MaxKeys, reviewing: BOOLEAN]
  /\ DOMAIN results \subseteq View!Keys /\ results \in [DOMAIN results -> ResultRow]
  /\ pending \in [ViewCalls -> PendingCall]
  /\ last \in [artifacts: SUBSET Artifacts, key: 0..MaxKeys, shown: BOOLEAN]
  /\ keys \in 0..MaxKeys /\ asked \subseteq View!Keys /\ remounts \in Nat

(* Calls are about results there are, and creations have keys.              *)
SubjectsExist ==
  /\ detail.candidate # 0 => detail.candidate \in DOMAIN results
  /\ \A c \in ViewCalls:
       /\ pending[c].op \in {"open", "submit", "decide", "reread"} => pending[c].result \in DOMAIN results
       /\ pending[c].op = "create" => pending[c].attempt.key \in View!Keys /\ pending[c].task \in Tasks
       /\ pending[c].op = "create" /\ pending[c].answer = "OK" => pending[c].attempt.key \in DOMAIN results

(* What the view may turn to was asked for since the task was selected.     *)
ViewWasAsked ==
  \A k \in {detail.candidate, detail.active, detail.attempt.key}: k # 0 => k \in asked

(* A request that disables the buttons of the review is the only one.       *)
OneReviewing ==
  remounts = 0 => \A c \in ViewCalls: pending[c].op \in {"open", "decide"} =>
    detail.reviewing /\ \A d \in ViewCalls: pending[d].op \in {"open", "decide"} => d = c

(* Until its success is shown the last confirmation is the attempt.         *)
LastIsAttempt ==
  remounts = 0 /\ ~last.shown => detail.attempt = [artifacts |-> last.artifacts, key |-> last.key] /\ last.key # 0

ViewInv == ViewTypes /\ SubjectsExist /\ ViewWasAsked /\ OneReviewing /\ LastIsAttempt


LEMMA NothingPending ==
  /\ View!NoCall \in PendingCall /\ View!NoCall.op = "none"
  /\ View!NoAttempt \in View!Attempts /\ View!NoAttempt.key = 0
BY ScreensBounds DEF View!NoCall, View!NoAttempt, PendingCall, View!Attempts

LEMMA ViewStarts == View!Init => ViewInv
<1> SUFFICES ASSUME View!Init PROVE ViewInv
  OBVIOUS
<1> USE NothingPending, ScreensBounds DEF View!Init
<1>1. detail = View!Fresh /\ detail.candidate = 0 /\ detail.active = 0 /\ detail.attempt = View!NoAttempt
  BY DEF View!Fresh
<1>a. /\ detail \in [attempt: View!Attempts, submitting: BOOLEAN, error: BOOLEAN, candidate: 0..MaxKeys,
                 status: View!Statuses \cup {"none"}, active: 0..MaxKeys, reviewing: BOOLEAN]
      /\ last \in [artifacts: SUBSET Artifacts, key: 0..MaxKeys, shown: BOOLEAN]
  BY <1>1 DEF View!Fresh
<1>2. DOMAIN results = {} /\ results \in [DOMAIN results -> ResultRow]
  OBVIOUS
<1>3. pending \in [ViewCalls -> PendingCall] /\ \A c \in ViewCalls: pending[c].op = "none"
  OBVIOUS
<1>4. ViewTypes
  BY <1>a, <1>2, <1>3 DEF ViewTypes
<1> QED BY <1>1, <1>3, <1>4 DEF ViewInv, SubjectsExist, ViewWasAsked, OneReviewing, LastIsAttempt

(* Confirm, with an attempt that the view or a new key gives.               *)
LEMMA ConfirmKeeps ==
  ASSUME ViewInv, NEW c \in ViewCalls, NEW chosen \in [artifacts: SUBSET Artifacts, key: Nat], View!Confirm(c, chosen)
  PROVE  ViewInv'
<1> USE ScreensBounds DEF ViewInv, View!Confirm, View!Elsewhere, View!Put
<1> DEFINE r == [View!NoCall EXCEPT !.op = "create", !.task = task, !.attempt = chosen]
<1>1. chosen.key \in View!Keys /\ chosen \in View!Attempts /\ chosen.key # 0
  BY DEF View!Attempts, View!Keys
<1>2. r \in PendingCall /\ r.op = "create" /\ r.attempt = chosen /\ r.answer = "none" /\ r.task = task
  BY <1>1, NothingPending DEF ViewTypes, PendingCall, View!NoCall
<1>3. pending' = [pending EXCEPT ![c] = r] /\ detail' = [detail EXCEPT !.attempt = chosen, !.submitting = TRUE]
  OBVIOUS
<1> HIDE DEF r
<1>4. pending' \in [ViewCalls -> PendingCall] /\ pending'[c] = r /\ \A d \in ViewCalls \ {c}: pending'[d] = pending[d]
  BY <1>2, <1>3 DEF ViewTypes
<1>5. ViewTypes'
  <2>1. detail' \in [attempt: View!Attempts, submitting: BOOLEAN, error: BOOLEAN, candidate: 0..MaxKeys,
                     status: View!Statuses \cup {"none"}, active: 0..MaxKeys, reviewing: BOOLEAN]
    BY <1>1, <1>3 DEF ViewTypes
  <2>2. last' \in [artifacts: SUBSET Artifacts, key: 0..MaxKeys, shown: BOOLEAN]
    BY <1>1 DEF View!Keys
  <2>3. keys' \in 0..MaxKeys /\ asked' \subseteq View!Keys
    BY <1>1 DEF ViewTypes, View!Keys
  <2> QED BY <1>4, <2>1, <2>2, <2>3 DEF ViewTypes
<1>6. SubjectsExist'
  BY <1>1, <1>2, <1>3, <1>4 DEF SubjectsExist, ViewTypes
<1>7. ViewWasAsked'
  BY <1>1, <1>3 DEF ViewWasAsked, ViewTypes
<1>8. OneReviewing'
  BY <1>2, <1>3, <1>4 DEF OneReviewing, ViewTypes
<1>9. LastIsAttempt'
  BY <1>1, <1>3 DEF LastIsAttempt, ViewTypes
<1> QED BY <1>5, <1>6, <1>7, <1>8, <1>9

LEMMA AttemptIs ==
  ASSUME ViewTypes, NEW chosen \in SUBSET Artifacts
  PROVE  View!Attempt(chosen) \in [artifacts: SUBSET Artifacts, key: Nat]
BY ScreensBounds DEF ViewTypes, View!Attempt, View!Attempts

(* A request for a result: open, submit or decide.                          *)
LEMMA AskKeeps ==
  ASSUME ViewInv, NEW c \in ViewCalls, NEW op \in {"open", "submit", "decide"}, NEW r \in DOMAIN results,
         pending' = [pending EXCEPT ![c] = [View!NoCall EXCEPT !.op = op, !.task = task, !.result = r]],
         IF op = "submit" THEN detail' = [detail EXCEPT !.active = r, !.submitting = TRUE]
         ELSE detail' = [detail EXCEPT !.active = r, !.reviewing = TRUE] /\ ~detail.reviewing,
         asked' \in SUBSET View!Keys, asked \cup {r} \subseteq asked',
         UNCHANGED <<task, results, keys, last, switches, remounts>>
  PROVE  ViewInv'
<1> USE ScreensBounds DEF ViewInv
<1> DEFINE k == [View!NoCall EXCEPT !.op = op, !.task = task, !.result = r]
<1>1. r \in View!Keys /\ r \in 0..MaxKeys /\ r # 0
  BY DEF ViewTypes, View!Keys
<1>2. k \in PendingCall /\ k.op = op /\ k.result = r
  BY <1>1, NothingPending DEF ViewTypes, PendingCall, View!NoCall
<1>3. pending' = [pending EXCEPT ![c] = k]
  OBVIOUS
<1> HIDE DEF k
<1>4. pending' \in [ViewCalls -> PendingCall] /\ pending'[c] = k /\ \A d \in ViewCalls \ {c}: pending'[d] = pending[d]
  BY <1>2, <1>3 DEF ViewTypes
<1>5. /\ detail'.candidate = detail.candidate /\ detail'.attempt = detail.attempt /\ detail'.active = r
      /\ detail'.reviewing = (op # "submit" \/ detail.reviewing)
      /\ detail' \in [attempt: View!Attempts, submitting: BOOLEAN, error: BOOLEAN, candidate: 0..MaxKeys,
                 status: View!Statuses \cup {"none"}, active: 0..MaxKeys, reviewing: BOOLEAN]
  BY <1>1 DEF ViewTypes
<1>6. ViewTypes'
  BY <1>4, <1>5 DEF ViewTypes
<1>7. SubjectsExist'
  BY <1>2, <1>4, <1>5 DEF SubjectsExist
<1>8. ViewWasAsked'
  BY <1>5 DEF ViewWasAsked
<1>9. OneReviewing'
  BY <1>2, <1>4, <1>5 DEF OneReviewing, ViewTypes
<1>10. LastIsAttempt'
  BY <1>5 DEF LastIsAttempt
<1> QED BY <1>6, <1>7, <1>8, <1>9, <1>10

LEMMA RequestsKeep ==
  ASSUME ViewInv, NEW c \in ViewCalls,
         \/ \E r \in View!Keys: View!OpenResult(c, r)
         \/ View!SubmitForReview(c) \/ View!Decide(c)
  PROVE  ViewInv'
<1> USE DEF View!Elsewhere, View!Put
<1>1. CASE \E r \in View!Keys: View!OpenResult(c, r)
  <2>1. PICK r \in View!Keys: View!OpenResult(c, r)
    BY <1>1
  <2>2. r \in DOMAIN results /\ asked' \in SUBSET View!Keys /\ asked \cup {r} \subseteq asked'
    BY <2>1 DEF View!OpenResult, ViewInv, ViewTypes
  <2> QED BY <2>1, <2>2, AskKeeps DEF View!OpenResult
<1>2. ASSUME View!SubmitForReview(c) \/ View!Decide(c) PROVE ViewInv'
  <2>1. detail.candidate \in DOMAIN results /\ detail.candidate \in asked /\ asked \subseteq View!Keys
    BY <1>2 DEF View!SubmitForReview, View!Decide, ViewInv, SubjectsExist, ViewWasAsked, ViewTypes
  <2>2. asked' \in SUBSET View!Keys /\ asked \cup {detail.candidate} \subseteq asked'
    BY <1>2, <2>1 DEF View!SubmitForReview, View!Decide
  <2> QED BY <1>2, <2>1, <2>2, AskKeeps DEF View!SubmitForReview, View!Decide
<1> QED BY <1>1, <1>2

LEMMA SelectKeeps ==
  ASSUME ViewInv, NEW t \in Tasks, View!SelectTask(t)
  PROVE  ViewInv'
<1> USE ScreensBounds, NothingPending DEF ViewInv, View!SelectTask
<1>1. /\ detail'.candidate = 0 /\ detail'.active = 0 /\ detail'.attempt = View!NoAttempt
      /\ detail'.reviewing = detail.reviewing
      /\ detail' \in [attempt: View!Attempts, submitting: BOOLEAN, error: BOOLEAN, candidate: 0..MaxKeys,
                 status: View!Statuses \cup {"none"}, active: 0..MaxKeys, reviewing: BOOLEAN]
  <2>1. detail' = [attempt |-> View!NoAttempt, submitting |-> FALSE, error |-> FALSE, candidate |-> 0,
                   status |-> "none", active |-> 0, reviewing |-> detail.reviewing]
    BY DEF View!Reset, View!Fresh
  <2> QED BY <2>1 DEF ViewTypes
<1>2. ViewTypes'
  BY <1>1 DEF ViewTypes
<1> QED BY <1>1, <1>2 DEF SubjectsExist, ViewWasAsked, OneReviewing, LastIsAttempt, ViewTypes

LEMMA RemountKeeps ==
  ASSUME ViewInv, View!Remount
  PROVE  ViewInv'
<1> USE ScreensBounds, NothingPending DEF ViewInv, View!Remount
<1>1. /\ detail'.candidate = 0 /\ detail'.active = 0 /\ detail'.attempt = View!NoAttempt
      /\ detail' \in [attempt: View!Attempts, submitting: BOOLEAN, error: BOOLEAN, candidate: 0..MaxKeys,
                 status: View!Statuses \cup {"none"}, active: 0..MaxKeys, reviewing: BOOLEAN]
  BY DEF ViewTypes, View!Fresh
<1>2. \A c \in ViewCalls:
        /\ pending'[c] \in PendingCall /\ pending'[c].op = pending[c].op
        /\ pending[c].op # "none" => pending'[c].result = pending[c].result /\ pending'[c].answer = pending[c].answer
                                     /\ pending'[c].attempt = pending[c].attempt /\ pending'[c].task = pending[c].task
  BY DEF ViewTypes, PendingCall
<1>3. pending' \in [ViewCalls -> PendingCall]
  BY <1>2
<1>4. ViewTypes'
  BY <1>1, <1>3 DEF ViewTypes
<1>5. SubjectsExist'
  BY <1>1, <1>2 DEF SubjectsExist
<1>6. remounts' # 0
  BY DEF ViewTypes
<1> QED BY <1>1, <1>4, <1>5, <1>6 DEF ViewWasAsked, OneReviewing, LastIsAttempt

(* The API: results are added and never taken away.                         *)
LEMMA EffectIs ==
  ASSUME ViewInv, NEW c \in ViewCalls, pending[c].op # "none"
  PROVE  LET effect == View!Effect(pending[c]) IN
         /\ DOMAIN results \subseteq DOMAIN effect /\ DOMAIN effect \subseteq View!Keys
         /\ effect \in [DOMAIN effect -> ResultRow]
         /\ View!Subject(pending[c]) \in DOMAIN effect
<1> DEFINE k == pending[c]
<1> USE DEF ViewInv
<1>1. k \in PendingCall /\ results \in [DOMAIN results -> ResultRow] /\ DOMAIN results \subseteq View!Keys
  BY DEF ViewTypes
<1>2. k.op = "create" => k.attempt.key \in View!Keys /\ k.task \in Tasks /\ k.attempt.artifacts \in SUBSET Artifacts
  BY <1>1 DEF SubjectsExist, PendingCall, View!Attempts
<1>3. k.op # "create" => k.result \in DOMAIN results
  BY <1>1 DEF SubjectsExist, PendingCall
<1>4. CASE k.op = "create"
  <2> DEFINE row == [task |-> k.task, artifacts |-> k.attempt.artifacts, status |-> "CANDIDATE"]
             more == [r \in DOMAIN results \cup {k.attempt.key} |-> IF r = k.attempt.key THEN row ELSE results[r]]
  <2>1. row \in ResultRow
    BY <1>2, <1>4 DEF ResultRow, View!Statuses
  <2>2. more \in [DOMAIN results \cup {k.attempt.key} -> ResultRow]
    BY <1>1, <2>1
  <2>3. CASE k.attempt.key \notin DOMAIN results
    <3>1. View!Effect(k) = more
      BY <1>4, <2>3 DEF View!Effect
    <3> QED BY <1>1, <1>2, <1>4, <2>2, <3>1 DEF View!Subject
  <2>4. CASE k.attempt.key \in DOMAIN results
    <3>1. View!Effect(k) = results
      BY <1>4, <2>4 DEF View!Effect
    <3> QED BY <1>1, <1>2, <1>4, <2>4, <3>1 DEF View!Subject
  <2> QED BY <2>3, <2>4
<1>5. CASE k.op # "create"
  <2>1. \A s \in View!Statuses: LET f == [results EXCEPT ![k.result].status = s] IN
          DOMAIN f = DOMAIN results /\ f \in [DOMAIN results -> ResultRow]
    BY <1>1, <1>3, <1>5 DEF ResultRow
  <2>2. \/ View!Effect(k) = results
        \/ \E s \in View!Statuses: View!Effect(k) = [results EXCEPT ![k.result].status = s]
    BY <1>5 DEF View!Effect, View!Statuses
  <2>3. View!Subject(k) = k.result
    BY <1>5 DEF View!Subject
  <2> QED BY <1>1, <1>3, <1>5, <2>1, <2>2, <2>3
<1> QED BY <1>4, <1>5

LEMMA ServeKeeps ==
  ASSUME ViewInv, NEW c \in ViewCalls, View!Served(c)
  PROVE  ViewInv'
<1> USE DEF ViewInv
<1>1. PICK reached \in BOOLEAN, answer \in {"OK", "ERROR"}: View!Serve(c, reached, answer)
  BY DEF View!Served
<1> DEFINE k == pending[c]
           record == [k EXCEPT !.answer = answer,
                               !.status = IF answer = "OK" THEN results'[View!Subject(k)].status ELSE "none"]
<1>2. /\ k.op # "none" /\ results' = (IF reached THEN View!Effect(k) ELSE results)
      /\ pending' = [pending EXCEPT ![c] = record] /\ (answer = "OK" => reached)
      /\ UNCHANGED <<task, detail, keys, last, asked, switches, remounts>>
  BY <1>1 DEF View!Serve, View!Put
<1>3. /\ DOMAIN results \subseteq DOMAIN results' /\ DOMAIN results' \subseteq View!Keys
      /\ results' \in [DOMAIN results' -> ResultRow]
      /\ answer = "OK" => View!Subject(k) \in DOMAIN results'
  BY <1>2, EffectIs DEF ViewTypes
<1>4. k \in PendingCall
  BY DEF ViewTypes
<1>5. answer = "OK" => results'[View!Subject(k)].status \in View!Statuses
  BY <1>3 DEF ResultRow
<1>6. record \in PendingCall /\ record.op = k.op /\ record.result = k.result /\ record.attempt = k.attempt
      /\ record.task = k.task /\ record.answer = answer
  BY <1>4, <1>5 DEF PendingCall
<1> HIDE DEF record
<1>7. pending' \in [ViewCalls -> PendingCall] /\ pending'[c] = record /\ \A d \in ViewCalls \ {c}: pending'[d] = pending[d]
  BY <1>2, <1>6 DEF ViewTypes
<1>8. ViewTypes'
  BY <1>2, <1>3, <1>7 DEF ViewTypes
<1>9. SubjectsExist'
  <2>1. k.op = "create" /\ answer = "OK" => k.attempt.key \in DOMAIN results'
    BY <1>3 DEF View!Subject
  <2> QED BY <1>2, <1>3, <1>6, <1>7, <2>1 DEF SubjectsExist
<1>10. ViewWasAsked' /\ OneReviewing' /\ LastIsAttempt'
  BY <1>2, <1>6, <1>7 DEF ViewWasAsked, OneReviewing, LastIsAttempt
<1> QED BY <1>8, <1>9, <1>10

(* An answer is handled, and its call is over or reads the result again.    *)
LEMMA AnswerKeeps ==
  ASSUME ViewInv, NEW c \in ViewCalls, View!Answer(c)
  PROVE  ViewInv'
<1> USE DEF ViewInv
<1> DEFINE k == pending[c]
<1>1. /\ UNCHANGED <<task, results, keys, asked, switches, remounts>>
      /\ k \in PendingCall /\ k.op # "none" /\ k.answer # "none"
  BY DEF View!Answer, View!Created, View!Opened, View!Submitted, View!Decided, View!Reread, View!Answered,
         View!Elsewhere, ViewTypes
<1>2. PICK record \in {View!NoCall, [k EXCEPT !.op = "reread", !.answer = "none"]}:
        pending' = [pending EXCEPT ![c] = record] /\ (k.op # "decide" => record = View!NoCall)
  BY DEF View!Answer, View!Created, View!Opened, View!Submitted, View!Decided, View!Reread, View!Answered,
         View!Free, View!Put
<1>3. /\ record \in PendingCall /\ record.op \in {"none", "reread"}
      /\ record.op = "reread" => record.result = k.result /\ k.op = "decide"
  BY <1>1, <1>2, NothingPending DEF PendingCall
<1>4. pending' \in [ViewCalls -> PendingCall] /\ pending'[c] = record /\ \A d \in ViewCalls \ {c}: pending'[d] = pending[d]
  BY <1>2, <1>3 DEF ViewTypes
<1>5. /\ k.op = "create" => k.attempt.key \in View!Keys
      /\ k.op = "create" /\ k.answer = "OK" => k.attempt.key \in DOMAIN results
      /\ k.op # "create" => k.result \in DOMAIN results
      /\ DOMAIN results \subseteq View!Keys /\ \A j \in View!Keys: j # 0 /\ j \in 0..MaxKeys
      /\ k.answer \in {"OK", "ERROR"} /\ k.status \in View!Statuses \cup {"none"}
  BY <1>1, ScreensBounds DEF SubjectsExist, ViewTypes, PendingCall, View!Keys
<1>6. last' \in [artifacts: SUBSET Artifacts, key: 0..MaxKeys, shown: BOOLEAN]
      /\ last'.artifacts = last.artifacts /\ last'.key = last.key /\ (last.shown => last'.shown)
  BY DEF View!Answer, View!Created, View!Opened, View!Submitted, View!Decided, View!Reread, ViewTypes
<1>7. /\ detail' \in [attempt: View!Attempts, submitting: BOOLEAN, error: BOOLEAN, candidate: 0..MaxKeys,
                 status: View!Statuses \cup {"none"}, active: 0..MaxKeys, reviewing: BOOLEAN]
      /\ detail'.active = detail.active
      /\ detail'.attempt = detail.attempt \/ (k.op = "create" /\ k.answer = "OK" /\ detail.attempt = k.attempt
                                              /\ detail'.attempt = View!NoAttempt)
      /\ \/ detail'.candidate = detail.candidate
         \/ k.op = "create" /\ k.answer = "OK" /\ detail.attempt = k.attempt /\ detail'.candidate = k.attempt.key
         \/ k.op # "create" /\ detail.active = k.result /\ detail'.candidate = k.result
      /\ k.op \notin {"open", "decide"} => detail'.reviewing = detail.reviewing
  <2>1. CASE View!Created(c)
    <3>1. CASE detail' = detail
      BY <2>1, <3>1 DEF View!Created, View!Answered, ViewTypes
    <3>2. CASE detail' = [detail EXCEPT !.submitting = FALSE, !.error = TRUE]
      BY <2>1, <3>2 DEF View!Created, View!Answered, ViewTypes
    <3>3. CASE /\ detail' = [detail EXCEPT !.submitting = FALSE, !.error = FALSE, !.attempt = View!NoAttempt,
                                          !.candidate = k.attempt.key, !.status = k.status]
               /\ k.answer = "OK" /\ detail.attempt = k.attempt
      BY <2>1, <3>3, <1>5, NothingPending DEF View!Created, View!Answered, ViewTypes
    <3> QED BY <2>1, <3>1, <3>2, <3>3 DEF View!Created
  <2>2. CASE View!Opened(c)
    BY <2>2, <1>5 DEF View!Opened, View!Answered, View!Current, ViewTypes
  <2>3. CASE View!Submitted(c)
    BY <2>3, <1>5 DEF View!Submitted, View!Answered, View!Current, ViewTypes, View!Statuses
  <2>4. CASE View!Decided(c)
    BY <2>4, <1>5 DEF View!Decided, View!Answered, View!Current, ViewTypes
  <2>5. CASE View!Reread(c)
    BY <2>5, <1>5 DEF View!Reread, View!Answered, View!Current, ViewTypes
  <2> QED BY <2>1, <2>2, <2>3, <2>4, <2>5 DEF View!Answer
<1>8. ViewTypes'
  BY <1>1, <1>4, <1>6, <1>7 DEF ViewTypes
<1>9. SubjectsExist'
  BY <1>1, <1>3, <1>4, <1>5, <1>7 DEF SubjectsExist
<1>10. ViewWasAsked'
  BY <1>1, <1>5, <1>7, NothingPending DEF ViewWasAsked
<1>11. OneReviewing'
  BY <1>1, <1>3, <1>4, <1>7 DEF OneReviewing
<1>12. LastIsAttempt'
  <2>1. detail'.attempt = detail.attempt \/ remounts # 0 \/ last'.shown
    <3>1. CASE View!Created(c)
      <4>1. CASE /\ detail' = [detail EXCEPT !.submitting = FALSE, !.error = FALSE, !.attempt = View!NoAttempt,
                                            !.candidate = k.attempt.key, !.status = k.status]
                 /\ detail.attempt = k.attempt
                 /\ last' = [last EXCEPT !.shown = @ \/ last.key = k.attempt.key]
        <5>1. last'.shown = (last.shown \/ last.key = k.attempt.key)
          BY <4>1 DEF ViewTypes
        <5>2. remounts = 0 /\ ~last.shown => detail.attempt.key = last.key
          BY DEF LastIsAttempt
        <5> QED BY <4>1, <5>1, <5>2
      <4>2. CASE detail' \in {detail, [detail EXCEPT !.submitting = FALSE, !.error = TRUE]}
        BY <4>2 DEF ViewTypes
      <4> QED BY <3>1, <4>1, <4>2 DEF View!Created
    <3>2. CASE ~View!Created(c)
      BY <3>2 DEF View!Answer, View!Opened, View!Submitted, View!Decided, View!Reread, View!Answered, ViewTypes
    <3> QED BY <3>1, <3>2
  <2> QED BY <1>1, <1>6, <2>1 DEF LastIsAttempt
<1> QED BY <1>8, <1>9, <1>10, <1>11, <1>12

LEMMA ViewSteps ==
  ASSUME ViewInv, [View!Next]_viewVars
  PROVE  ViewInv'
<1>1. CASE UNCHANGED viewVars
  BY <1>1 DEF viewVars, ViewInv, ViewTypes, SubjectsExist, ViewWasAsked, OneReviewing, LastIsAttempt
<1>2. ASSUME NEW c \in ViewCalls, NEW chosen \in SUBSET Artifacts, View!Create(c, chosen) PROVE ViewInv'
  BY <1>2, AttemptIs, ConfirmKeeps DEF View!Create, ViewInv
<1>3. ASSUME NEW c \in ViewCalls, View!RetryCreate(c) PROVE ViewInv'
  <2>1. detail.attempt \in [artifacts: SUBSET Artifacts, key: Nat]
    BY ScreensBounds DEF ViewInv, ViewTypes, View!Attempts
  <2> QED BY <1>3, <2>1, ConfirmKeeps DEF View!RetryCreate
<1> QED BY <1>1, <1>2, <1>3, RequestsKeep, SelectKeeps, RemountKeeps, ServeKeeps, AnswerKeeps DEF View!Next

LEMMA ViewIsRight ==
  ASSUME ViewInv
  PROVE  View!TypeOK /\ View!CandidateWasAsked /\ (remounts = 0 => View!OneDecision)
<1>1. View!TypeOK
  BY DEF ViewInv, ViewTypes, View!TypeOK, ResultRow, PendingCall
<1>2. View!CandidateWasAsked
  BY DEF ViewInv, ViewWasAsked, View!CandidateWasAsked
<1>3. ASSUME remounts = 0 PROVE View!OneDecision
  BY <1>3 DEF ViewInv, OneReviewing, View!OneDecision
<1> QED BY <1>1, <1>2, <1>3

(* A confirmation in the same view has the key of the attempt.              *)
LEMMA ConfirmationsRepeat ==
  ASSUME ViewInv, [View!Next]_viewVars, remounts = 0, last'.artifacts = last.artifacts, ~last.shown
  PROVE  last'.key = last.key
<1>1. detail.attempt = [artifacts |-> last.artifacts, key |-> last.key] /\ last.key # 0
  BY DEF ViewInv, LastIsAttempt
<1>2. ASSUME NEW c \in ViewCalls, NEW chosen \in SUBSET Artifacts, View!Create(c, chosen) PROVE last'.key = last.key
  <2>1. last' = [artifacts |-> View!Attempt(chosen).artifacts, key |-> View!Attempt(chosen).key, shown |-> FALSE]
    BY <1>2 DEF View!Create, View!Confirm
  <2> QED BY <1>1, <2>1 DEF View!Attempt
<1>3. ASSUME NEW c \in ViewCalls, View!RetryCreate(c) PROVE last'.key = last.key
  BY <1>1, <1>3 DEF View!RetryCreate, View!Confirm
<1>4. ASSUME NEW t \in Tasks, View!SelectTask(t) PROVE last'.key = last.key
  BY <1>4 DEF View!SelectTask, ViewInv, ViewTypes
<1>5. ASSUME NEW c \in ViewCalls, View!Answer(c) PROVE last'.key = last.key
  BY <1>5 DEF View!Answer, View!Created, View!Opened, View!Submitted, View!Decided, View!Reread, ViewInv, ViewTypes
<1>6. ASSUME NEW c \in ViewCalls, NEW r \in View!Keys, View!OpenResult(c, r) \/ View!SubmitForReview(c) \/ View!Decide(c)
      PROVE  last'.key = last.key
  BY <1>6 DEF View!OpenResult, View!SubmitForReview, View!Decide
<1>7. ASSUME NEW c \in ViewCalls, View!Served(c) PROVE last'.key = last.key
  BY <1>7 DEF View!Served, View!Serve
<1>8. ASSUME View!Remount \/ UNCHANGED viewVars PROVE last'.key = last.key
  BY <1>8 DEF View!Remount, viewVars
<1>9. ASSUME NEW c \in ViewCalls, View!SubmitForReview(c) \/ View!Decide(c) PROVE last'.key = last.key
  BY <1>9 DEF View!SubmitForReview, View!Decide
<1> QED BY <1>2, <1>3, <1>4, <1>5, <1>6, <1>7, <1>8, <1>9 DEF View!Next


(***************************************************************************)
(* The panel of model responses.                                           *)
(***************************************************************************)

Invocation == [task: Tasks, status: {"COMPLETED", "FAILED"}]
PanelCall == [op: {"none", "create", "list"}, task: Tasks \cup {"none"}, key: 0..MaxTries,
              answer: {"none", "OK", "ERROR"}, items: SUBSET Panel!Keys]

PanelTypes ==
  /\ ofTask \in Tasks /\ attempt \in 0..tries /\ tries \in 0..MaxTries
  /\ list \in [busy: BOOLEAN, loading: BOOLEAN, error: BOOLEAN, items: SUBSET Panel!Keys]
  /\ DOMAIN invocations \subseteq 1..tries /\ invocations \in [DOMAIN invocations -> Invocation]
  /\ query \in [PanelCalls -> PanelCall]
  /\ selections \in 0..MaxSelections /\ retries \in 0..MaxRetries

(* Invocations of one task.                                                 *)
AreOf(invs, items, t) == \A k \in items: k \in DOMAIN invs /\ invs[k].task = t

ListsAreOfTask ==
  /\ AreOf(invocations, list.items, ofTask)
  /\ \A c \in PanelCalls: AreOf(invocations, query[c].items, query[c].task)

(* A key is sent for one task only.                                         *)
KeyIsOf(invs, calls, k, t) ==
  /\ k \in DOMAIN invs => invs[k].task = t
  /\ \A c \in PanelCalls: calls[c].op = "create" /\ calls[c].key = k => calls[c].task = t

KeysAreOfTasks ==
  /\ attempt # 0 => KeyIsOf(invocations, query, attempt, ofTask)
  /\ \A c \in PanelCalls:
       /\ query[c].op # "none" => query[c].task \in Tasks
       /\ query[c].op = "create" => query[c].key \in 1..tries /\ KeyIsOf(invocations, query, query[c].key, query[c].task)
       /\ query[c].op = "create" /\ query[c].answer = "OK" => query[c].key \in DOMAIN invocations

PanelInv == PanelTypes /\ ListsAreOfTask /\ KeysAreOfTasks

LEMMA NothingQueried ==
  /\ Panel!NoCall \in PanelCall /\ Panel!NoCall.op = "none" /\ Panel!NoCall.items = {}
  /\ Panel!NoCall.answer = "none"
  /\ \A t \in Tasks: /\ Panel!List(t) \in PanelCall /\ Panel!List(t).op = "list" /\ Panel!List(t).task = t
                     /\ Panel!List(t).items = {}
<1>1. Panel!NoCall = [op |-> "none", task |-> "none", key |-> 0, answer |-> "none", items |-> {}]
  BY DEF Panel!NoCall
<1>2. 0 \in 0..MaxTries /\ {} \in SUBSET Panel!Keys
  BY ScreensBounds
<1>3. /\ Panel!NoCall \in PanelCall /\ Panel!NoCall.op = "none" /\ Panel!NoCall.items = {}
      /\ Panel!NoCall.answer = "none"
  BY <1>1, <1>2 DEF PanelCall
<1> QED BY <1>3 DEF PanelCall, Panel!List

LEMMA PanelStarts == Panel!Init => PanelInv
<1> SUFFICES ASSUME Panel!Init PROVE PanelInv
  OBVIOUS
<1> USE NothingQueried, ScreensBounds DEF Panel!Init
<1>1. PICK c \in PanelCalls: query = [d \in PanelCalls |-> IF d = c THEN Panel!List(ofTask) ELSE Panel!NoCall]
  OBVIOUS
<1>2. query \in [PanelCalls -> PanelCall]
  BY <1>1
<1>3. \A d \in PanelCalls: query[d].op \in {"none", "list"} /\ query[d].items = {} /\ (query[d].op # "none" => query[d].task \in Tasks)
  BY <1>1
<1>4. DOMAIN invocations = {} /\ invocations \in [DOMAIN invocations -> Invocation]
  OBVIOUS
<1>5. PanelTypes
  BY <1>2, <1>4 DEF PanelTypes, Panel!Fresh
<1> QED BY <1>3, <1>5 DEF PanelInv, ListsAreOfTask, KeysAreOfTasks, AreOf, Panel!Fresh

(* The list is read: of another task, or again.                             *)
LEMMA ListingKeeps ==
  ASSUME PanelInv, NEW c \in PanelCalls, NEW t \in Tasks, Panel!SelectTask(c, t) \/ Panel!Refresh(c)
  PROVE  PanelInv'
<1> USE NothingQueried, ScreensBounds DEF PanelInv, Panel!SelectTask, Panel!Refresh, Panel!Put
<1>1. /\ UNCHANGED <<invocations, tries>> /\ ofTask' \in Tasks
      /\ query' = [query EXCEPT ![c] = Panel!List(ofTask')]
      /\ \/ attempt' = 0
         \/ attempt' = attempt /\ ofTask' = ofTask
  BY DEF PanelTypes
<1>2. /\ list' \in [busy: BOOLEAN, loading: BOOLEAN, error: BOOLEAN, items: SUBSET Panel!Keys]
      /\ \/ list'.items = {}
         \/ list'.items = list.items /\ ofTask' = ofTask
  <2>1. CASE Panel!SelectTask(c, t)
    BY <2>1 DEF Panel!Fresh
  <2>2. CASE Panel!Refresh(c)
    BY <2>2 DEF PanelTypes
  <2> QED BY <2>1, <2>2
<1>3. /\ query' \in [PanelCalls -> PanelCall]
      /\ query'[c] = Panel!List(ofTask') /\ \A d \in PanelCalls \ {c}: query'[d] = query[d]
  BY <1>1 DEF PanelTypes
<1>4. PanelTypes'
  BY <1>1, <1>2, <1>3 DEF PanelTypes
<1>5. ListsAreOfTask'
  BY <1>1, <1>2, <1>3 DEF ListsAreOfTask, AreOf
<1>6. KeysAreOfTasks'
  BY <1>1, <1>3 DEF KeysAreOfTasks, KeyIsOf
<1> QED BY <1>4, <1>5, <1>6

(* An attempt is sent, with a new key or the one it had.                    *)
LEMMA SubmitKeeps ==
  ASSUME PanelInv, NEW c \in PanelCalls, NEW key \in Nat, Panel!Submit(c, key),
         \/ key = tries + 1 /\ tries' = key /\ UNCHANGED retries
         \/ key = attempt /\ attempt # 0 /\ UNCHANGED tries /\ retries' \in 0..MaxRetries
  PROVE  PanelInv'
<1> USE NothingQueried, ScreensBounds DEF PanelInv, Panel!Submit, Panel!Put
<1> DEFINE r == [Panel!NoCall EXCEPT !.op = "create", !.task = ofTask, !.key = key]
<1>1. key \in 1..tries' /\ tries' \in 0..MaxTries /\ tries' >= tries /\ key \in 1..MaxTries
  BY DEF PanelTypes, Panel!Keys
<1>a. key \in 0..MaxTries /\ ofTask \in Tasks
  BY <1>1 DEF PanelTypes
<1>2. r \in PanelCall /\ r.op = "create" /\ r.task = ofTask /\ r.key = key /\ r.items = {} /\ r.answer = "none"
  BY <1>a DEF PanelCall
<1>3. query' = [query EXCEPT ![c] = r] /\ UNCHANGED <<ofTask, invocations, selections>> /\ attempt' = key
  OBVIOUS
<1> HIDE DEF r
<1>4. query' \in [PanelCalls -> PanelCall] /\ query'[c] = r /\ \A d \in PanelCalls \ {c}: query'[d] = query[d]
  BY <1>2, <1>3 DEF PanelTypes
<1>5. KeyIsOf(invocations, query, key, ofTask)
  <2>1. CASE key = attempt /\ attempt # 0
    BY <2>1 DEF KeysAreOfTasks
  <2>2. CASE key = tries + 1
    BY <2>2 DEF KeysAreOfTasks, KeyIsOf, PanelTypes
  <2> QED BY <2>1, <2>2
<1>6. list' \in [busy: BOOLEAN, loading: BOOLEAN, error: BOOLEAN, items: SUBSET Panel!Keys] /\ list'.items = list.items
  BY DEF PanelTypes
<1>7. PanelTypes'
  <2>1. DOMAIN invocations \subseteq 1..tries'
    BY <1>1 DEF PanelTypes
  <2>2. retries' \in 0..MaxRetries /\ attempt' \in 0..tries'
    BY <1>1, <1>3 DEF PanelTypes
  <2> QED BY <1>1, <1>3, <1>4, <1>6, <2>1, <2>2 DEF PanelTypes
<1>8. ListsAreOfTask'
  BY <1>2, <1>3, <1>4, <1>6 DEF ListsAreOfTask, AreOf
<1>9. \A k, t: KeyIsOf(invocations, query, k, t) /\ (k = key => t = ofTask) => KeyIsOf(invocations', query', k, t)
  BY <1>2, <1>3, <1>4 DEF KeyIsOf
<1>10. KeysAreOfTasks'
  <2>1. ASSUME NEW d \in PanelCalls, query'[d].op = "create"
        PROVE  query'[d].key \in 1..tries' /\ KeyIsOf(invocations', query', query'[d].key, query'[d].task)
    <3>1. CASE d = c
      BY <1>1, <1>2, <1>4, <1>5, <1>9, <3>1
    <3>2. CASE d # c
      <4>1. query[d].key \in 1..tries /\ KeyIsOf(invocations, query, query[d].key, query[d].task)
        BY <1>4, <2>1, <3>2 DEF KeysAreOfTasks
      <4>2. query[d].key = key => query[d].task = ofTask
        BY <1>4, <1>5, <2>1, <3>2 DEF KeyIsOf
      <4>3. query'[d] = query[d] /\ query[d].key \in 1..tries'
        BY <1>1, <1>4, <3>2, <4>1 DEF PanelTypes
      <4>4. KeyIsOf(invocations', query', query[d].key, query[d].task)
        BY <1>9, <4>1, <4>2
      <4> QED BY <4>3, <4>4
    <3> QED BY <3>1, <3>2
  <2>2. \A d \in PanelCalls: query'[d].op # "none" => query'[d].task \in Tasks
    BY <1>2, <1>4 DEF KeysAreOfTasks, PanelTypes
  <2>3. \A d \in PanelCalls: query'[d].op = "create" /\ query'[d].answer = "OK" => query'[d].key \in DOMAIN invocations'
    BY <1>2, <1>3, <1>4 DEF KeysAreOfTasks
  <2>4. KeyIsOf(invocations', query', attempt', ofTask')
    BY <1>3, <1>5, <1>9
  <2> QED BY <2>1, <2>2, <2>3, <2>4 DEF KeysAreOfTasks
<1> QED BY <1>7, <1>8, <1>10

LEMMA AttemptsKeep ==
  ASSUME PanelInv, NEW c \in PanelCalls, Panel!Ask(c) \/ Panel!TryAgain(c) \/ Panel!Retry(c)
  PROVE  PanelInv'
<1> USE ScreensBounds DEF PanelInv, PanelTypes
<1>1. CASE Panel!Ask(c) \/ Panel!TryAgain(c)
  BY <1>1, SubmitKeeps DEF Panel!Ask, Panel!TryAgain
<1>2. CASE Panel!Retry(c)
  <2>1. retries' \in 0..MaxRetries /\ attempt \in Nat
    BY <1>2 DEF Panel!Retry
  <2> QED BY <1>2, <2>1, SubmitKeeps DEF Panel!Retry
<1> QED BY <1>1, <1>2

LEMMA ForgetKeeps ==
  ASSUME PanelInv, Panel!Forget
  PROVE  PanelInv'
BY ScreensBounds DEF PanelInv, Panel!Forget, PanelTypes, ListsAreOfTask, KeysAreOfTasks, AreOf, KeyIsOf

(* The API keeps what it has, and adds at most the key of the request.      *)
LEMMA PanelServeKeeps ==
  ASSUME PanelInv, NEW c \in PanelCalls, Panel!Served(c)
  PROVE  PanelInv'
<1> USE DEF PanelInv
<1>1. PICK answer \in {"OK", "ERROR"}: Panel!Serve(c, answer)
  BY DEF Panel!Served
<1> DEFINE k == query[c]
           record == [k EXCEPT !.answer = answer,
                               !.items = {i \in DOMAIN invocations': invocations'[i].task = k.task}]
<1>2. /\ k.op # "none" /\ k.task \in Tasks /\ k \in PanelCall
      /\ query' = [query EXCEPT ![c] = record]
      /\ UNCHANGED <<ofTask, attempt, list, tries, selections, retries>>
      /\ answer = "OK" /\ k.op = "create" => k.key \in DOMAIN invocations'
  BY <1>1 DEF Panel!Serve, Panel!Put, KeysAreOfTasks, PanelTypes
<1>3. /\ DOMAIN invocations \subseteq DOMAIN invocations' /\ DOMAIN invocations' \subseteq 1..tries
      /\ invocations' \in [DOMAIN invocations' -> Invocation]
      /\ \A i \in DOMAIN invocations: invocations'[i].task = invocations[i].task
      /\ \A i \in DOMAIN invocations' \ DOMAIN invocations: k.op = "create" /\ i = k.key /\ invocations'[i].task = k.task
  <2>1. CASE invocations' = invocations
    BY <2>1 DEF PanelTypes
  <2>2. CASE k.op = "create" /\ k.key \notin DOMAIN invocations /\ \E status \in {"COMPLETED", "FAILED"}:
             invocations' = [i \in DOMAIN invocations \cup {k.key} |->
               IF i = k.key THEN [task |-> k.task, status |-> status] ELSE invocations[i]]
    <3>1. PICK status \in {"COMPLETED", "FAILED"}:
             invocations' = [i \in DOMAIN invocations \cup {k.key} |->
               IF i = k.key THEN [task |-> k.task, status |-> status] ELSE invocations[i]]
      BY <2>2
    <3>2. [task |-> k.task, status |-> status] \in Invocation
      BY <1>2 DEF Invocation
    <3>3. k.key \in 1..tries
      BY <2>2 DEF KeysAreOfTasks
    <3> QED BY <2>2, <3>1, <3>2, <3>3 DEF PanelTypes
  <2> QED BY <1>1, <2>1, <2>2 DEF Panel!Serve
<1>4. /\ record \in PanelCall /\ record.op = k.op /\ record.task = k.task /\ record.key = k.key
      /\ record.answer = answer
      /\ \A i \in record.items: i \in DOMAIN invocations' /\ invocations'[i].task = k.task
  <2>1. DOMAIN invocations' \subseteq Panel!Keys
    BY <1>3, ScreensBounds DEF PanelTypes, Panel!Keys
  <2> QED BY <1>2, <2>1 DEF PanelCall
<1> HIDE DEF record
<1>5. query' \in [PanelCalls -> PanelCall] /\ query'[c] = record /\ \A d \in PanelCalls \ {c}: query'[d] = query[d]
  BY <1>2, <1>4 DEF PanelTypes
<1>6. PanelTypes'
  BY <1>2, <1>3, <1>5 DEF PanelTypes
<1>7. ListsAreOfTask'
  BY <1>2, <1>3, <1>4, <1>5 DEF ListsAreOfTask, AreOf
<1>8. ASSUME NEW i, NEW t, KeyIsOf(invocations, query, i, t), k.op = "create" /\ i = k.key => t = k.task PROVE KeyIsOf(invocations', query', i, t)
  BY <1>3, <1>4, <1>5, <1>8 DEF KeyIsOf
<1>9. KeysAreOfTasks'
  <2>1. attempt' # 0 => KeyIsOf(invocations', query', attempt', ofTask')
    BY <1>2, <1>8 DEF KeysAreOfTasks, KeyIsOf
  <2>2. ASSUME NEW d \in PanelCalls, query'[d].op = "create"
        PROVE  query'[d].key \in 1..tries' /\ KeyIsOf(invocations', query', query'[d].key, query'[d].task)
    <3>1. /\ query[d].op = "create" /\ query'[d].key = query[d].key /\ query'[d].task = query[d].task
      BY <1>4, <1>5, <2>2
    <3>2. query[d].key \in 1..tries /\ KeyIsOf(invocations, query, query[d].key, query[d].task)
      BY <3>1 DEF KeysAreOfTasks
    <3>3. k.op = "create" /\ query[d].key = k.key => query[d].task = k.task
      BY <3>2 DEF KeyIsOf
    <3> QED BY <1>2, <1>8, <3>1, <3>2, <3>3
  <2>3. \A d \in PanelCalls: query'[d].op # "none" => query'[d].task \in Tasks
    BY <1>2, <1>4, <1>5 DEF KeysAreOfTasks
  <2>4. \A d \in PanelCalls: query'[d].op = "create" /\ query'[d].answer = "OK" => query'[d].key \in DOMAIN invocations'
    BY <1>2, <1>3, <1>4, <1>5 DEF KeysAreOfTasks
  <2> QED BY <2>1, <2>2, <2>3, <2>4 DEF KeysAreOfTasks
<1> QED BY <1>6, <1>7, <1>9

LEMMA PanelAnswerKeeps ==
  ASSUME PanelInv, NEW c \in PanelCalls, Panel!Answer(c)
  PROVE  PanelInv'
<1> USE NothingQueried DEF PanelInv
<1> DEFINE k == query[c]
<1>1. /\ query' = [query EXCEPT ![c] = Panel!NoCall] /\ UNCHANGED <<ofTask, invocations, tries, selections, retries>>
      /\ attempt' \in {0, attempt} /\ k.op \in {"list", "create"} /\ k \in PanelCall /\ k.answer # "none"
  BY DEF Panel!Answer, Panel!Listed, Panel!Created, Panel!Answered, Panel!Put, PanelTypes
<1>2. query' \in [PanelCalls -> PanelCall] /\ query'[c] = Panel!NoCall /\ \A d \in PanelCalls \ {c}: query'[d] = query[d]
  BY <1>1 DEF PanelTypes
<1>3. k.op = "create" => k.key \in Panel!Keys
  BY ScreensBounds DEF KeysAreOfTasks, PanelTypes, Panel!Keys
<1>4. /\ list' \in [busy: BOOLEAN, loading: BOOLEAN, error: BOOLEAN, items: SUBSET Panel!Keys]
      /\ AreOf(invocations, list'.items, ofTask)
  <2>1. CASE Panel!Listed(c)
    <3>1. CASE list'.items = list.items /\ list' \in [busy: BOOLEAN, loading: BOOLEAN, error: BOOLEAN, items: SUBSET Panel!Keys]
      BY <3>1 DEF ListsAreOfTask
    <3>2. CASE list' = [list EXCEPT !.loading = FALSE, !.error = FALSE, !.items = k.items] /\ ofTask = k.task
      BY <1>1, <3>2 DEF ListsAreOfTask, PanelTypes, PanelCall
    <3>3. CASE list' = [list EXCEPT !.loading = FALSE, !.error = TRUE]
      BY <3>1, <3>3 DEF PanelTypes
    <3> QED BY <2>1, <3>1, <3>2, <3>3 DEF Panel!Listed, PanelTypes
  <2>2. CASE Panel!Created(c)
    <3>1. CASE list'.items = list.items /\ list' \in [busy: BOOLEAN, loading: BOOLEAN, error: BOOLEAN, items: SUBSET Panel!Keys]
      BY <3>1 DEF ListsAreOfTask
    <3>2. CASE /\ list' = [list EXCEPT !.busy = FALSE, !.error = FALSE, !.items = @ \cup {k.key}]
               /\ ofTask = k.task /\ k.answer # "ERROR"
      <4>1. k.op = "create" /\ k.key \in DOMAIN invocations /\ invocations[k.key].task = ofTask
        BY <1>1, <2>2, <3>2 DEF Panel!Created, Panel!Answered, KeysAreOfTasks, KeyIsOf, PanelCall
      <4> QED BY <1>3, <3>2, <4>1 DEF ListsAreOfTask, AreOf, PanelTypes
    <3>3. CASE list' = [list EXCEPT !.busy = FALSE, !.error = TRUE]
      BY <3>1, <3>3 DEF PanelTypes
    <3> QED BY <2>2, <3>1, <3>2, <3>3 DEF Panel!Created, PanelTypes
  <2> QED BY <2>1, <2>2 DEF Panel!Answer
<1>5. PanelTypes'
  BY <1>1, <1>2, <1>4 DEF PanelTypes
<1>6. ListsAreOfTask'
  BY <1>1, <1>2, <1>4 DEF ListsAreOfTask, AreOf
<1>7. KeysAreOfTasks'
  BY <1>1, <1>2 DEF KeysAreOfTasks, KeyIsOf
<1> QED BY <1>5, <1>6, <1>7

LEMMA PanelSteps ==
  ASSUME PanelInv, [Panel!Next]_panelVars
  PROVE  PanelInv'
<1>1. CASE UNCHANGED panelVars
  BY <1>1 DEF panelVars, PanelInv, PanelTypes, ListsAreOfTask, KeysAreOfTasks, AreOf, KeyIsOf
<1>2. ofTask \in Tasks
  BY DEF PanelInv, PanelTypes
<1> QED BY <1>1, <1>2, ListingKeeps, AttemptsKeep, ForgetKeeps, PanelServeKeeps, PanelAnswerKeeps DEF Panel!Next

LEMMA PanelIsRight ==
  ASSUME PanelInv
  PROVE  Panel!TypeOK /\ Panel!ItemsAreOfTask
<1>1. Panel!TypeOK
  BY ScreensBounds DEF PanelInv, PanelTypes, Panel!TypeOK, Invocation, PanelCall
<1>2. Panel!ItemsAreOfTask
  BY DEF PanelInv, ListsAreOfTask, AreOf, Panel!ItemsAreOfTask
<1> QED BY <1>1, <1>2


(***************************************************************************)
(* The collaboration panel.                                                *)
(***************************************************************************)

ThreadView == [loading: BOOLEAN, error: {"none"} \cup Talk!Failures, items: {"none"} \cup Talk!Contexts,
               open: {"none"} \cup Talk!Threads, messages: Seq(Talk!Messages)]
TalkCall == [op: {"none", "load", "open", "send", "mark"}, on: {"none"} \cup Talk!Contexts \cup Talk!Threads,
             current: BOOLEAN, answer: {"none", "OK"} \cup Talk!Failures, page: Seq(Talk!Messages)]
PaneStates == [Talk!Panes -> {"unmounted", "loading", "error", "denied", "shown"}]

TalkTypes ==
  /\ context \in Talk!Contexts /\ thread \in ThreadView /\ draft \in BOOLEAN
  /\ panes \in PaneStates /\ fetch \in [TalkCalls -> TalkCall]
  /\ posted \in [Talk!Threads -> 0..MaxMessages] /\ taps \in 0..MaxTaps

(* The open conversation is of the selected project.                        *)
OpenIsOfContext == thread.open # "none" => context \in Projects /\ thread.open \in Conversations[context]

(* Who has the request identity: one that loads alone, or what is sent from *)
(* the open conversation.                                                   *)
IdentityIsOf ==
  \A c \in TalkCalls: fetch[c].current =>
    /\ fetch[c].op \in {"load", "open"} =>
         /\ thread.loading /\ thread.error = "none" /\ thread.messages = <<>>
         /\ \A d \in TalkCalls \ {c}: ~fetch[d].current
    /\ fetch[c].op = "load" => fetch[c].on = context /\ thread.open = "none"
    /\ fetch[c].op \in {"open", "send"} => fetch[c].on = thread.open
    /\ fetch[c].op = "send" => ~thread.loading

(* A message that is stored.                                                *)
Stored(m, t) == m[1] = t /\ m[2] <= posted[t]

PagesAreStored ==
  \A c \in TalkCalls:
    /\ fetch[c].op \in {"open", "send"} => fetch[c].on \in Talk!Threads
    /\ \A i \in DOMAIN fetch[c].page:
         /\ fetch[c].op \in {"open", "send"} /\ Stored(fetch[c].page[i], fetch[c].on)
         /\ fetch[c].op = "open" => fetch[c].page[i][2] = i
    /\ fetch[c].op = "send" => Len(fetch[c].page) = (IF fetch[c].answer = "OK" THEN 1 ELSE 0)

MessagesAreStored ==
  \A i \in DOMAIN thread.messages: Stored(thread.messages[i], thread.open)

(* What was sent and is on its way is neither shown nor sent twice.         *)
SentIsNew ==
  \A c \in TalkCalls: fetch[c].op = "send" /\ fetch[c].current /\ fetch[c].answer = "OK" =>
    /\ \A i \in DOMAIN thread.messages: thread.messages[i] # fetch[c].page[1]
    /\ \A d \in TalkCalls: fetch[d].op = "send" /\ fetch[d].current /\ fetch[d].answer = "OK"
                           /\ fetch[d].page[1] = fetch[c].page[1] => d = c

TalkInv ==
  /\ TalkTypes /\ OpenIsOfContext /\ IdentityIsOf /\ PagesAreStored /\ MessagesAreStored /\ SentIsNew
  /\ Talk!ItemsAreOfContext /\ Talk!MessageShownOnce

LEMMA NothingFetched ==
  /\ Talk!NoCall \in TalkCall /\ Talk!NoCall.op = "none" /\ ~Talk!NoCall.current /\ Talk!NoCall.page = <<>>
  /\ Talk!NoCall.answer = "none"
BY DEF Talk!NoCall, TalkCall

LEMMA FetchedIs ==
  ASSUME NEW op \in {"load", "open", "send", "mark"}, NEW on \in {"none"} \cup Talk!Contexts \cup Talk!Threads
  PROVE  /\ Talk!Asked(op, on) \in TalkCall /\ Talk!Asked(op, on).op = op /\ Talk!Asked(op, on).on = on
         /\ Talk!Asked(op, on).current /\ Talk!Asked(op, on).page = <<>> /\ Talk!Asked(op, on).answer = "none"
BY NothingFetched DEF Talk!Asked, TalkCall

LEMMA ThreadsAre ==
  /\ "none" \notin Talk!Threads /\ Projects \subseteq Talk!Contexts /\ Projects \cap {"notifications", "library"} = {}
  /\ \A p \in Projects: Conversations[p] \subseteq Talk!Threads
BY ScreensAssumption DEF ScreensAssumption, Talk!Threads, Talk!Contexts

LEMMA TalkStarts == Talk!Init => TalkInv
<1> SUFFICES ASSUME Talk!Init PROVE TalkInv
  OBVIOUS
<1> USE ScreensBounds DEF Talk!Init
<1>1. PICK c \in TalkCalls: fetch = [d \in TalkCalls |-> IF d = c THEN Talk!Asked("load", context) ELSE Talk!NoCall]
  OBVIOUS
<1> DEFINE r == Talk!Asked("load", context)
<1>a. /\ r \in TalkCall /\ r.op = "load" /\ r.on = context /\ r.current /\ r.page = <<>> /\ r.answer = "none"
  BY FetchedIs
<1> HIDE DEF r
<1>2. fetch \in [TalkCalls -> TalkCall] /\ fetch[c] = r
      /\ \A d \in TalkCalls \ {c}: fetch[d] = Talk!NoCall
  BY <1>1, <1>a, NothingFetched DEF r
<1>3. thread \in ThreadView /\ thread.loading /\ thread.error = "none" /\ thread.open = "none" /\ thread.messages = <<>>
  BY DEF ThreadView
<1>4. TalkTypes
  <2>1. panes \in PaneStates
    BY DEF PaneStates
  <2>2. posted \in [Talk!Threads -> 0..MaxMessages]
    OBVIOUS
  <2>3. context \in Talk!Contexts /\ taps \in 0..MaxTaps
    OBVIOUS
  <2>4. draft \in BOOLEAN
    BY Zenon DEF Talk!Init
  <2> HIDE DEF Talk!Init
  <2> QED BY <1>2, <1>3, <2>1, <2>2, <2>3, <2>4 DEF TalkTypes
<1>5. IdentityIsOf
  BY <1>a, <1>2, <1>3, NothingFetched DEF IdentityIsOf
<1>6. PagesAreStored /\ SentIsNew
  BY <1>a, <1>2, NothingFetched DEF PagesAreStored, SentIsNew
<1>7. OpenIsOfContext /\ MessagesAreStored /\ Talk!ItemsAreOfContext /\ Talk!MessageShownOnce
  BY <1>3 DEF OpenIsOfContext, MessagesAreStored, Talk!ItemsAreOfContext, Talk!MessageShownOnce
<1> QED BY <1>4, <1>5, <1>6, <1>7 DEF TalkInv

LEMMA PanesAre ==
  ASSUME TalkTypes, Talk!Render
  PROVE  panes' \in PaneStates
BY DEF TalkTypes, PaneStates, Talk!Render

(* A call with a new request identity.                                      *)
LEMMA RequestKeeps ==
  ASSUME TalkInv, NEW c \in TalkCalls, NEW op \in {"load", "open"},
         NEW on \in Talk!Contexts \cup Talk!Threads, NEW open \in {"none"} \cup Talk!Threads,
         Talk!Request(c, Talk!Asked(op, on)),
         thread' = [thread EXCEPT !.loading = TRUE, !.error = "none", !.open = open, !.messages = <<>>],
         context' \in Talk!Contexts, panes' \in PaneStates, taps' \in 0..MaxTaps, UNCHANGED <<draft, posted>>,
         op = "load" => open = "none" /\ on = context',
         op = "open" => open = on /\ context' \in Projects /\ on \in Conversations[context']
  PROVE  TalkInv'
<1> USE DEF TalkInv
<1> DEFINE r == Talk!Asked(op, on)
<1>1. /\ r \in TalkCall /\ r.op = op /\ r.on = on /\ r.current /\ r.page = <<>> /\ r.answer = "none"
  BY FetchedIs
<1>2. fetch' = [d \in TalkCalls |-> IF d = c THEN r ELSE [fetch[d] EXCEPT !.current = FALSE]]
  BY DEF Talk!Request
<1> HIDE DEF r
<1>3. /\ fetch' \in [TalkCalls -> TalkCall] /\ fetch'[c] = r
      /\ \A d \in TalkCalls \ {c}: /\ fetch'[d].op = fetch[d].op /\ fetch'[d].on = fetch[d].on
                                   /\ fetch'[d].answer = fetch[d].answer /\ fetch'[d].page = fetch[d].page
                                   /\ ~fetch'[d].current
  BY <1>1, <1>2 DEF TalkTypes, TalkCall
<1>4. thread' \in ThreadView /\ thread'.loading /\ thread'.error = "none" /\ thread'.open = open /\ thread'.messages = <<>>
  <2>1. thread \in ThreadView /\ <<>> \in Seq(Talk!Messages)
    BY DEF TalkTypes
  <2> HIDE DEF TalkInv
  <2>2. thread' \in ThreadView
    BY <2>1 DEF ThreadView
  <2> QED BY <2>1, <2>2 DEF ThreadView
<1>5. TalkTypes'
  BY <1>3, <1>4 DEF TalkTypes
<1>6. IdentityIsOf' /\ OpenIsOfContext'
  BY <1>1, <1>3, <1>4 DEF IdentityIsOf, OpenIsOfContext
<1>7. PagesAreStored'
  BY <1>1, <1>3, ThreadsAre DEF PagesAreStored, Stored
<1>8. SentIsNew'
  BY <1>1, <1>3 DEF SentIsNew
<1>9. MessagesAreStored' /\ Talk!ItemsAreOfContext' /\ Talk!MessageShownOnce'
  BY <1>4 DEF MessagesAreStored, Talk!ItemsAreOfContext, Talk!MessageShownOnce
<1> QED BY <1>5, <1>6, <1>7, <1>8, <1>9

LEMMA LoadsKeep ==
  ASSUME TalkInv, NEW c \in TalkCalls, Talk!Load(c), context' \in Talk!Contexts, taps' \in 0..MaxTaps
  PROVE  TalkInv'
<1>1. panes' \in PaneStates
  BY PanesAre DEF Talk!Load, TalkInv
<1> QED BY <1>1, RequestKeeps DEF Talk!Load

LEMMA SelectionsKeep ==
  ASSUME TalkInv, NEW c \in TalkCalls,
         \/ \E ctx \in Talk!Contexts: Talk!SwitchContext(c, ctx)
         \/ Talk!Back(c) \/ Talk!Retry(c)
  PROVE  TalkInv'
<1>1. Talk!Load(c) /\ context' \in Talk!Contexts /\ Talk!Click
  BY DEF Talk!SwitchContext, Talk!Back, Talk!Retry, TalkInv, TalkTypes
<1>2. taps' \in 0..MaxTaps
  BY <1>1, ScreensBounds DEF Talk!Click, TalkInv, TalkTypes
<1> QED BY <1>1, <1>2, LoadsKeep

LEMMA OpenKeeps ==
  ASSUME TalkInv, NEW c \in TalkCalls, NEW t \in Talk!Threads, Talk!OpenConversation(c, t)
  PROVE  TalkInv'
<1>1. panes' \in PaneStates
  BY PanesAre DEF Talk!OpenConversation, TalkInv
<1>2. taps' \in 0..MaxTaps /\ context' = context /\ context \in Talk!Contexts
  BY ScreensBounds DEF Talk!OpenConversation, Talk!Click, TalkInv, TalkTypes
<1> QED BY <1>1, <1>2, RequestKeeps DEF Talk!OpenConversation, Talk!Listing

(* The user sends and marks read.                                           *)
LEMMA MessagesKeep ==
  ASSUME TalkInv, NEW c \in TalkCalls, Talk!Send(c) \/ Talk!MarkRead(c)
  PROVE  TalkInv'
<1> USE ScreensBounds DEF TalkInv
<1>1. PICK op \in {"send", "mark"}, on \in Talk!Contexts \cup Talk!Threads:
        /\ fetch' = [fetch EXCEPT ![c] = Talk!Asked(op, on)]
        /\ op = "send" => on = thread.open /\ on \in Talk!Threads
        /\ ~thread.loading
  BY ThreadsAre DEF Talk!Send, Talk!MarkRead, Talk!Keep, Talk!Composing, TalkTypes, ThreadView
<1>2. /\ UNCHANGED <<context, thread, draft, panes, posted>> /\ taps' \in 0..MaxTaps
  BY DEF Talk!Send, Talk!MarkRead, Talk!Click, TalkTypes
<1> DEFINE r == Talk!Asked(op, on)
<1>3. /\ r \in TalkCall /\ r.op = op /\ r.on = on /\ r.current /\ r.page = <<>> /\ r.answer = "none"
  <2>1. op \in {"load", "open", "send", "mark"} /\ on \in {"none"} \cup Talk!Contexts \cup Talk!Threads
    OBVIOUS
  <2> HIDE DEF TalkInv, r
  <2>2. Talk!Asked(op, on) = r
    BY DEF r
  <2> QED BY <2>1, <2>2, FetchedIs
<1>4. fetch' = [fetch EXCEPT ![c] = r]
  BY <1>1
<1> HIDE DEF r
<1>5. fetch' \in [TalkCalls -> TalkCall] /\ fetch'[c] = r /\ \A d \in TalkCalls \ {c}: fetch'[d] = fetch[d]
  BY <1>3, <1>4 DEF TalkTypes
<1>6. TalkTypes'
  BY <1>2, <1>5 DEF TalkTypes
<1>7. IdentityIsOf'
  BY <1>1, <1>2, <1>3, <1>5 DEF IdentityIsOf
<1>8. PagesAreStored'
  BY <1>1, <1>2, <1>3, <1>5 DEF PagesAreStored, Stored
<1>9. SentIsNew'
  BY <1>2, <1>3, <1>5 DEF SentIsNew
<1> QED BY <1>2, <1>6, <1>7, <1>8, <1>9 DEF OpenIsOfContext, MessagesAreStored, Stored, Talk!ItemsAreOfContext,
                                           Talk!MessageShownOnce

(* The first page of a conversation.                                        *)
LEMMA PageIs ==
  ASSUME TalkTypes, NEW t \in Talk!Threads
  PROVE  /\ Talk!Page(t) \in Seq(Talk!Messages)
         /\ \A i \in DOMAIN Talk!Page(t): Stored(Talk!Page(t)[i], t) /\ Talk!Page(t)[i][2] = i
<1> DEFINE n == IF posted[t] < PageSize THEN posted[t] ELSE PageSize
<1>1. posted[t] \in 0..MaxMessages /\ n \in Nat /\ n <= posted[t] /\ n <= MaxMessages
  BY ScreensBounds DEF TalkTypes
<1>2. Talk!Page(t) = [i \in 1..n |-> <<t, i>>]
  BY DEF Talk!Page
<1>3. \A i \in 1..n: i \in 1..MaxMessages /\ <<t, i>> \in Talk!Messages
  BY <1>1, ScreensBounds DEF Talk!Messages
<1>4. Talk!Page(t) \in Seq(Talk!Messages)
  BY <1>1, <1>2, <1>3
<1> QED BY <1>1, <1>2, <1>4 DEF Stored

(* A call that is served: its answer, its page and what was stored.         *)
LEMMA ServedKeeps ==
  ASSUME TalkInv, NEW c \in TalkCalls, fetch[c].op # "none", fetch[c].answer = "none",
         UNCHANGED <<context, thread, draft, panes, taps>>,
         NEW record \in TalkCall, fetch' = [fetch EXCEPT ![c] = record],
         record.op = fetch[c].op, record.on = fetch[c].on, record.current = fetch[c].current,
         IF fetch[c].op = "send" THEN
            \/ record.answer # "OK" /\ record.page = <<>> /\ posted' = posted
            \/ /\ posted[fetch[c].on] < MaxMessages /\ posted' = [posted EXCEPT ![fetch[c].on] = @ + 1]
               /\ record.page = IF record.answer = "OK" THEN <<<<fetch[c].on, posted[fetch[c].on] + 1>>>> ELSE <<>>
         ELSE /\ posted' = posted
              /\ \/ record.page = fetch[c].page
                 \/ record.page = IF fetch[c].op = "open" THEN Talk!Page(fetch[c].on) ELSE <<>>
  PROVE  TalkInv'
<1> USE DEF TalkInv
<1> DEFINE k == fetch[c]
<1>1. k.op \in {"open", "send"} => k.on \in Talk!Threads
  BY DEF PagesAreStored
<1>2. fetch' \in [TalkCalls -> TalkCall] /\ fetch'[c] = record /\ \A d \in TalkCalls \ {c}: fetch'[d] = fetch[d]
  BY DEF TalkTypes
<1>3. posted' \in [Talk!Threads -> 0..MaxMessages] /\ \A t \in Talk!Threads: posted[t] <= posted'[t]
  BY <1>1, ScreensBounds DEF TalkTypes
<1>4. \A d \in TalkCalls: \A i \in DOMAIN fetch[d].page:
        /\ fetch[d].on \in Talk!Threads /\ fetch[d].page[i] \in Talk!Messages
        /\ Stored(fetch[d].page[i], fetch[d].on) /\ fetch[d].page[i][2] <= posted'[fetch[d].on]
  <2> SUFFICES ASSUME NEW d \in TalkCalls, NEW i \in DOMAIN fetch[d].page
               PROVE  /\ fetch[d].on \in Talk!Threads /\ fetch[d].page[i] \in Talk!Messages
                      /\ Stored(fetch[d].page[i], fetch[d].on) /\ fetch[d].page[i][2] <= posted'[fetch[d].on]
    OBVIOUS
  <2>1. fetch[d].on \in Talk!Threads /\ Stored(fetch[d].page[i], fetch[d].on)
    BY DEF PagesAreStored
  <2>2. fetch[d].page \in Seq(Talk!Messages)
    BY DEF TalkTypes, TalkCall
  <2>3. fetch[d].page[i] \in Talk!Messages
    BY <2>2
  <2>4. fetch[d].page[i][2] \in Nat
    BY <2>3, ScreensBounds DEF Talk!Messages
  <2>5. fetch[d].page[i][2] <= posted[fetch[d].on] /\ posted[fetch[d].on] <= posted'[fetch[d].on]
    BY <1>3, <2>1 DEF Stored
  <2> QED BY <1>3, <2>1, <2>3, <2>4, <2>5, ScreensBounds DEF TalkTypes
<1>5. \A i \in DOMAIN thread.messages:
        /\ thread.open \in Talk!Threads /\ thread.messages[i] \in Talk!Messages
        /\ Stored(thread.messages[i], thread.open) /\ thread.messages[i][2] <= posted'[thread.open]
  <2> SUFFICES ASSUME NEW i \in DOMAIN thread.messages
               PROVE  /\ thread.open \in Talk!Threads /\ thread.messages[i] \in Talk!Messages
                      /\ Stored(thread.messages[i], thread.open) /\ thread.messages[i][2] <= posted'[thread.open]
    OBVIOUS
  <2>1. thread.messages \in Seq(Talk!Messages) /\ Stored(thread.messages[i], thread.open)
    BY DEF TalkTypes, ThreadView, MessagesAreStored
  <2>2. thread.messages[i] \in Talk!Messages
    BY <2>1
  <2>3. thread.messages[i][2] \in Nat /\ thread.open \in Talk!Threads
    BY <2>1, <2>2, ScreensBounds DEF Talk!Messages, Stored
  <2>4. thread.messages[i][2] <= posted[thread.open] /\ posted[thread.open] <= posted'[thread.open]
    BY <1>3, <2>1, <2>3 DEF Stored
  <2> QED BY <1>3, <2>1, <2>2, <2>3, <2>4, ScreensBounds DEF TalkTypes
<1>6. TalkTypes'
  BY <1>2, <1>3 DEF TalkTypes
<1>7. IdentityIsOf'
  BY <1>2 DEF IdentityIsOf
<1>8. PagesAreStored'
  <2>1. ASSUME NEW d \in TalkCalls, d # c
        PROVE  /\ fetch'[d].op \in {"open", "send"} => fetch'[d].on \in Talk!Threads
               /\ \A i \in DOMAIN fetch'[d].page:
                    /\ fetch'[d].op \in {"open", "send"}
                    /\ fetch'[d].page[i][1] = fetch'[d].on /\ fetch'[d].page[i][2] <= posted'[fetch'[d].on]
                    /\ fetch'[d].op = "open" => fetch'[d].page[i][2] = i
               /\ fetch'[d].op = "send" => Len(fetch'[d].page) = (IF fetch'[d].answer = "OK" THEN 1 ELSE 0)
    BY <1>2, <1>4, <2>1 DEF PagesAreStored, Stored
  <2>2. /\ record.op \in {"open", "send"} => record.on \in Talk!Threads
        /\ \A i \in DOMAIN record.page:
             /\ record.op \in {"open", "send"}
             /\ record.page[i][1] = record.on /\ record.page[i][2] <= posted'[record.on]
             /\ record.op = "open" => record.page[i][2] = i
        /\ record.op = "send" => Len(record.page) = (IF record.answer = "OK" THEN 1 ELSE 0)
    <3>1. CASE k.op = "send"
      <4>1. CASE record.page = <<>> /\ record.answer # "OK"
        BY <1>1, <3>1, <4>1
      <4>2. CASE record.page = <<<<k.on, posted[k.on] + 1>>>> /\ posted' = [posted EXCEPT ![k.on] = @ + 1] /\ record.answer = "OK"
        BY <1>1, <3>1, <4>2 DEF TalkTypes
      <4> QED BY <3>1, <4>1, <4>2
    <3>2. CASE k.op # "send"
      <4>1. CASE record.page = k.page
        BY <1>1, <1>4, <3>2, <4>1 DEF PagesAreStored, Stored
      <4>2. CASE record.page = <<>>
        BY <1>1, <3>2, <4>2
      <4>3. CASE k.op = "open" /\ record.page = Talk!Page(k.on)
        BY <1>1, <3>2, <4>3, PageIs DEF Stored
      <4> QED BY <3>2, <4>1, <4>2, <4>3
    <3> QED BY <3>1, <3>2
  <2> QED BY <1>2, <2>1, <2>2 DEF PagesAreStored, Stored
<1>9. MessagesAreStored'
  BY <1>5 DEF MessagesAreStored, Stored
<1>10. SentIsNew'
  <2>1. ASSUME k.op = "send", record.answer = "OK", k.current
        PROVE  /\ record.page[1] = <<k.on, posted[k.on] + 1>> /\ k.on = thread.open
               /\ \A i \in DOMAIN thread.messages: thread.messages[i] # record.page[1]
               /\ \A d \in TalkCalls: fetch[d].op = "send" /\ fetch[d].answer = "OK" => fetch[d].page[1] # record.page[1]
    <3>1. record.page[1] = <<k.on, posted[k.on] + 1>> /\ k.on = thread.open /\ k.on \in Talk!Threads
      BY <1>1, <2>1 DEF IdentityIsOf
    <3>2. posted[k.on] \in Nat
      BY <3>1, ScreensBounds DEF TalkTypes
    <3>3. \A i \in DOMAIN thread.messages: thread.messages[i] # record.page[1]
      BY <1>5, <3>1, <3>2 DEF Stored
    <3>4. ASSUME NEW d \in TalkCalls, fetch[d].op = "send", fetch[d].answer = "OK" PROVE fetch[d].page[1] # record.page[1]
      <4>1. Len(fetch[d].page) = 1 /\ fetch[d].page \in Seq(Talk!Messages)
        BY <3>4 DEF PagesAreStored, TalkTypes, TalkCall
      <4>2. 1 \in DOMAIN fetch[d].page
        BY <4>1
      <4>3. Stored(fetch[d].page[1], fetch[d].on)
        BY <1>4, <4>2
      <4> QED BY <3>1, <3>2, <4>3 DEF Stored
    <3> QED BY <3>1, <3>3, <3>4
  <2> QED BY <1>2, <2>1 DEF SentIsNew
<1> QED BY <1>6, <1>7, <1>8, <1>9, <1>10 DEF OpenIsOfContext, Talk!ItemsAreOfContext, Talk!MessageShownOnce

LEMMA TalkServeKeeps ==
  ASSUME TalkInv, NEW c \in TalkCalls, Talk!Serve(c)
  PROVE  TalkInv'
<1> DEFINE k == fetch[c]
<1>1. /\ k \in TalkCall /\ k.op # "none" /\ k.answer = "none"
      /\ UNCHANGED <<context, thread, draft, panes, taps>>
  BY DEF Talk!Serve, TalkTypes, TalkInv
<1>2. /\ k.op \in {"open", "send"} => k.on \in Talk!Threads
      /\ k.op = "send" => k.page = <<>>
  BY <1>1 DEF PagesAreStored, TalkCall, TalkInv
<1>3. ASSUME NEW failure \in Talk!Failures, fetch' = [fetch EXCEPT ![c] = [k EXCEPT !.answer = failure]],
             \/ posted' = posted
             \/ k.op = "send" /\ posted[k.on] < MaxMessages /\ posted' = [posted EXCEPT ![k.on] = @ + 1]
      PROVE  TalkInv'
  <2> DEFINE r == [k EXCEPT !.answer = failure]
  <2>1. r \in TalkCall /\ r.answer # "OK" /\ r.op = k.op /\ r.on = k.on /\ r.current = k.current /\ r.page = k.page
    BY <1>1 DEF TalkCall, Talk!Failures
  <2>2. fetch' = [fetch EXCEPT ![c] = r]
    BY <1>3
  <2> HIDE DEF r
  <2> QED BY <1>1, <1>2, <1>3, <2>1, <2>2, ServedKeeps
<1>4. ASSUME k.op # "send", posted' = posted,
             Talk!Keep(c, [k EXCEPT !.answer = "OK", !.page = IF k.op = "open" THEN Talk!Page(k.on) ELSE <<>>])
      PROVE  TalkInv'
  <2> DEFINE p == IF k.op = "open" THEN Talk!Page(k.on) ELSE <<>>
             r == [k EXCEPT !.answer = "OK", !.page = p]
  <2>1. p \in Seq(Talk!Messages)
    BY <1>2, PageIs DEF TalkInv
  <2>2. r \in TalkCall /\ r.op = k.op /\ r.on = k.on /\ r.current = k.current /\ r.page = p
    BY <1>1, <2>1 DEF TalkCall
  <2>3. fetch' = [fetch EXCEPT ![c] = r]
    BY <1>4 DEF Talk!Keep
  <2> HIDE DEF r
  <2> QED BY <1>1, <1>4, <2>2, <2>3, ServedKeeps
<1>5. ASSUME k.op = "send", posted[k.on] < MaxMessages, posted' = [posted EXCEPT ![k.on] = @ + 1],
             Talk!Keep(c, [k EXCEPT !.answer = "OK", !.page = <<<<k.on, posted'[k.on]>>>>])
      PROVE  TalkInv'
  <2> DEFINE n == posted[k.on] + 1
             p == <<<<k.on, n>>>>
             r == [k EXCEPT !.answer = "OK", !.page = p]
  <2>1. k.on \in Talk!Threads /\ posted[k.on] \in 0..MaxMessages /\ posted'[k.on] = n /\ n \in 1..MaxMessages
    BY <1>2, <1>5, ScreensBounds DEF TalkInv, TalkTypes
  <2>2. <<k.on, n>> \in Talk!Messages
    BY <2>1 DEF Talk!Messages
  <2>5. p \in Seq(Talk!Messages)
    BY <2>2
  <2>4. fetch' = [fetch EXCEPT ![c] = r]
    BY <1>5, <2>1 DEF Talk!Keep
  <2>6. p = <<<<k.on, posted[k.on] + 1>>>>
    OBVIOUS
  <2> HIDE DEF p
  <2>3. r \in TalkCall /\ r.op = k.op /\ r.on = k.on /\ r.current = k.current /\ r.page = p /\ r.answer = "OK"
    BY <1>1, <2>5 DEF TalkCall
  <2> HIDE DEF r
  <2> QED BY <1>1, <1>5, <2>6, <2>3, <2>4, ServedKeeps
<1> QED BY <1>3, <1>4, <1>5 DEF Talk!Serve, Talk!Keep, Talk!Failures

(* A message appended to those shown.                                       *)
LEMMA Appended ==
  ASSUME NEW S, NEW shows \in Seq(S), NEW page \in Seq(S), Len(page) = 1
  PROVE  /\ shows \o page \in Seq(S) /\ DOMAIN (shows \o page) = 1..(Len(shows) + 1)
         /\ \A i \in DOMAIN shows: (shows \o page)[i] = shows[i]
         /\ (shows \o page)[Len(shows) + 1] = page[1]
<1>1. Len(shows) \in Nat /\ DOMAIN shows = 1..Len(shows)
  OBVIOUS
<1>2. /\ shows \o page \in Seq(S) /\ Len(shows \o page) = Len(shows) + Len(page)
      /\ \A i \in 1..(Len(shows) + Len(page)):
           (shows \o page)[i] = IF i <= Len(shows) THEN shows[i] ELSE page[i - Len(shows)]
  BY ConcatProperties, Zenon
<1>3. DOMAIN (shows \o page) = 1..(Len(shows) + 1)
  BY <1>1, <1>2
<1> DEFINE both == shows \o page
<1>4. \A i \in 1..(Len(shows) + 1): both[i] = IF i <= Len(shows) THEN shows[i] ELSE page[i - Len(shows)]
  BY <1>2
<1> HIDE DEF both
<1>5. (\A i \in 1..Len(shows): both[i] = shows[i]) /\ both[Len(shows) + 1] = page[1]
  BY <1>1, <1>4
<1> QED BY <1>1, <1>2, <1>3, <1>5 DEF both

(* The answer to a request that is not current any more, or that failed.    *)
LEMMA DroppedKeeps ==
  ASSUME TalkInv, NEW c \in TalkCalls, fetch' = [fetch EXCEPT ![c] = Talk!NoCall],
         UNCHANGED <<context, draft, posted, taps>>, panes' \in PaneStates,
         thread' \in ThreadView, thread'.open = thread.open, thread'.messages = thread.messages,
         \/ thread' = thread
         \/ fetch[c].current /\ thread'.error # "none" /\ (thread'.loading => thread.loading)
  PROVE  TalkInv'
<1> USE DEF TalkInv
<1>1. fetch' \in [TalkCalls -> TalkCall] /\ fetch'[c] = Talk!NoCall /\ \A d \in TalkCalls \ {c}: fetch'[d] = fetch[d]
  BY NothingFetched DEF TalkTypes
<1>3. TalkTypes'
  BY <1>1 DEF TalkTypes
<1>4. IdentityIsOf'
  <2>1. CASE thread' = thread
    BY <1>1, <2>1, NothingFetched DEF IdentityIsOf
  <2>2. CASE thread' # thread
    <3>1. \A d \in TalkCalls \ {c}: fetch[d].current => fetch[d].op \notin {"load", "open"}
      BY <2>2 DEF IdentityIsOf
    <3>2. thread'.loading => thread.loading
      BY <2>2
    <3> QED BY <1>1, <3>1, <3>2, NothingFetched DEF IdentityIsOf
  <2> QED BY <2>1, <2>2
<1>a. PagesAreStored /\ SentIsNew /\ posted' = posted
  OBVIOUS
<1>5. PagesAreStored'
  <2> HIDE DEF TalkInv
  <2>1. fetch'[c].op = "none" /\ fetch'[c].page = <<>>
    BY <1>1, NothingFetched
  <2>2. \A i \in DOMAIN fetch'[c].page: FALSE
    BY <2>1
  <2> QED BY <1>1, <1>a, <2>1, <2>2 DEF PagesAreStored, Stored
<1>6. SentIsNew'
  <2> HIDE DEF TalkInv
  <2>1. fetch'[c].op = "none"
    BY <1>1, NothingFetched
  <2> QED BY <1>1, <1>a, <2>1 DEF SentIsNew
<1> QED BY <1>6, <1>3, <1>4, <1>5 DEF OpenIsOfContext, MessagesAreStored, Stored, Talk!ItemsAreOfContext,
                                      Talk!MessageShownOnce

LEMMA LoadedKeeps ==
  ASSUME TalkInv, NEW c \in TalkCalls, Talk!Loaded(c)
  PROVE  TalkInv'
<1> USE DEF TalkInv
<1> DEFINE k == fetch[c]
<1>1. /\ k.op = "load" /\ k.answer # "none" /\ UNCHANGED <<context, posted, taps, draft>>
      /\ fetch' = [fetch EXCEPT ![c] = Talk!NoCall] /\ panes' \in PaneStates
  BY PanesAre DEF Talk!Loaded, Talk!Answered, Talk!Keep
<1>2. k \in TalkCall /\ thread \in ThreadView
  BY DEF TalkTypes
<1>3. CASE ~k.current
  <2>1. thread' = thread
    BY <1>3 DEF Talk!Loaded
  <2> QED BY <1>1, <1>2, <2>1, DroppedKeeps
<1>4. CASE k.current /\ k.answer # "OK"
  <2>1. thread' = [thread EXCEPT !.loading = FALSE, !.error = k.answer] /\ k.answer \in Talk!Failures
    BY <1>1, <1>2, <1>4 DEF Talk!Loaded, Talk!Failed, TalkCall, ThreadView
  <2>2. thread' \in ThreadView /\ thread'.open = thread.open /\ thread'.messages = thread.messages
        /\ thread'.error # "none" /\ ~thread'.loading
    BY <1>2, <2>1 DEF ThreadView, Talk!Failures
  <2> QED BY <1>1, <1>4, <2>2, DroppedKeeps
<1>5. CASE k.current /\ k.answer = "OK"
  <2>1. thread' = [thread EXCEPT !.loading = FALSE, !.items = k.on]
    BY <1>5 DEF Talk!Loaded
  <2>2. /\ k.on = context /\ thread.open = "none" /\ thread.messages = <<>> /\ context \in Talk!Contexts
        /\ \A d \in TalkCalls \ {c}: ~fetch[d].current
    BY <1>1, <1>5 DEF IdentityIsOf, TalkTypes
  <2>3. thread' \in ThreadView /\ thread'.items = context /\ thread'.open = "none" /\ thread'.messages = <<>>
    BY <1>2, <2>1, <2>2 DEF ThreadView
  <2>4. fetch' \in [TalkCalls -> TalkCall] /\ fetch'[c] = Talk!NoCall /\ \A d \in TalkCalls \ {c}: fetch'[d] = fetch[d]
    BY <1>1, NothingFetched DEF TalkTypes
  <2>5. TalkTypes'
    BY <1>1, <2>3, <2>4 DEF TalkTypes
  <2>6. IdentityIsOf' /\ SentIsNew'
    BY <2>2, <2>4, NothingFetched DEF IdentityIsOf, SentIsNew
  <2>7. PagesAreStored'
    BY <1>1, <2>4, NothingFetched DEF PagesAreStored, Stored
  <2>8. MessagesAreStored' /\ Talk!MessageShownOnce'
    BY <2>3 DEF MessagesAreStored, Talk!MessageShownOnce
  <2>9. OpenIsOfContext' /\ Talk!ItemsAreOfContext'
    BY <1>1, <2>3 DEF OpenIsOfContext, Talk!ItemsAreOfContext
  <2> QED BY <2>5, <2>6, <2>7, <2>8, <2>9
<1> QED BY <1>3, <1>4, <1>5

LEMMA OpenedKeeps ==
  ASSUME TalkInv, NEW c \in TalkCalls, Talk!Opened(c)
  PROVE  TalkInv'
<1> USE DEF TalkInv
<1> DEFINE k == fetch[c]
<1>1. /\ k.op = "open" /\ k.answer # "none" /\ UNCHANGED <<context, posted, taps, draft>>
      /\ fetch' = [fetch EXCEPT ![c] = Talk!NoCall] /\ panes' \in PaneStates
  BY PanesAre DEF Talk!Opened, Talk!Answered, Talk!Keep
<1>2. k \in TalkCall /\ thread \in ThreadView
  BY DEF TalkTypes
<1>3. CASE ~k.current
  <2>1. thread' = thread
    BY <1>3 DEF Talk!Opened
  <2> QED BY <1>1, <1>2, <2>1, DroppedKeeps
<1>4. CASE k.current /\ k.answer # "OK"
  <2>1. thread' = [thread EXCEPT !.loading = FALSE, !.error = k.answer] /\ k.answer \in Talk!Failures
    BY <1>1, <1>2, <1>4 DEF Talk!Opened, Talk!Failed, TalkCall, ThreadView
  <2>2. thread' \in ThreadView /\ thread'.open = thread.open /\ thread'.messages = thread.messages
        /\ thread'.error # "none" /\ ~thread'.loading
    BY <1>2, <2>1 DEF ThreadView, Talk!Failures
  <2> QED BY <1>1, <1>4, <2>2, DroppedKeeps
<1>5. CASE k.current /\ k.answer = "OK"
  <2>1. thread' = [thread EXCEPT !.loading = FALSE, !.messages = k.page]
    BY <1>5 DEF Talk!Opened
  <2>2. /\ k.on = thread.open /\ thread.open \in Talk!Threads
        /\ \A d \in TalkCalls \ {c}: ~fetch[d].current
    BY <1>1, <1>5 DEF IdentityIsOf, PagesAreStored
  <2>3. thread' \in ThreadView /\ thread'.open = thread.open /\ thread'.messages = k.page /\ thread.open # "none"
    BY <1>2, <2>1, <2>2, ThreadsAre DEF ThreadView, TalkCall
  <2>4. fetch' \in [TalkCalls -> TalkCall] /\ fetch'[c] = Talk!NoCall /\ \A d \in TalkCalls \ {c}: fetch'[d] = fetch[d]
    BY <1>1, NothingFetched DEF TalkTypes
  <2>5. TalkTypes'
    BY <1>1, <2>3, <2>4 DEF TalkTypes
  <2>6. IdentityIsOf' /\ SentIsNew'
    BY <2>2, <2>4, NothingFetched DEF IdentityIsOf, SentIsNew
  <2>7. PagesAreStored'
    BY <1>1, <2>4, NothingFetched DEF PagesAreStored, Stored
  <2>8. \A i \in DOMAIN k.page: Stored(k.page[i], thread.open) /\ k.page[i][2] = i
    BY <1>1, <2>2 DEF PagesAreStored
  <2>9. MessagesAreStored' /\ Talk!MessageShownOnce'
    BY <1>1, <2>3, <2>8 DEF MessagesAreStored, Talk!MessageShownOnce, Stored
  <2>10. OpenIsOfContext' /\ Talk!ItemsAreOfContext'
    BY <1>1, <2>3 DEF OpenIsOfContext, Talk!ItemsAreOfContext
  <2> QED BY <2>5, <2>6, <2>7, <2>9, <2>10
<1> QED BY <1>3, <1>4, <1>5

LEMMA SentKeeps ==
  ASSUME TalkInv, NEW c \in TalkCalls, Talk!Sent(c)
  PROVE  TalkInv'
<1> USE DEF TalkInv
<1> DEFINE k == fetch[c]
<1>1. /\ k.op = "send" /\ k.answer # "none" /\ UNCHANGED <<context, posted, taps>>
      /\ fetch' = [fetch EXCEPT ![c] = Talk!NoCall] /\ panes' \in PaneStates
  BY PanesAre DEF Talk!Sent, Talk!Answered, Talk!Keep
<1>2. k \in TalkCall /\ thread \in ThreadView
  BY DEF TalkTypes
<1>3. CASE ~k.current
  <2>1. thread' = thread /\ draft' = draft
    BY <1>3 DEF Talk!Sent
  <2> QED BY <1>1, <1>2, <2>1, DroppedKeeps
<1>4. CASE k.current /\ k.answer # "OK"
  <2>1. thread' = [thread EXCEPT !.error = k.answer] /\ draft' = draft /\ k.answer \in Talk!Failures
    BY <1>1, <1>2, <1>4 DEF Talk!Sent, Talk!Failed, TalkCall
  <2>2. thread' \in ThreadView /\ thread'.open = thread.open /\ thread'.messages = thread.messages
        /\ thread'.error # "none" /\ thread'.loading = thread.loading
    BY <1>2, <2>1 DEF ThreadView, Talk!Failures
  <2> QED BY <1>1, <1>4, <2>1, <2>2, DroppedKeeps
<1>5. CASE k.current /\ k.answer = "OK"
  <2> DEFINE shows == thread.messages
             n == Len(shows) + 1
  <2>1. thread' = [thread EXCEPT !.messages = shows \o k.page] /\ draft' = FALSE
    BY <1>5 DEF Talk!Sent
  <2>2. /\ k.on = thread.open /\ thread.open \in Talk!Threads /\ ~thread.loading
        /\ \A d \in TalkCalls: fetch[d].current => fetch[d].op \notin {"load", "open"}
    BY <1>1, <1>5 DEF IdentityIsOf, PagesAreStored
  <2>3. shows \in Seq(Talk!Messages) /\ k.page \in Seq(Talk!Messages) /\ Len(k.page) = 1
    BY <1>1, <1>2, <1>5 DEF ThreadView, TalkCall, PagesAreStored
  <2> DEFINE both == shows \o k.page
  <2>17. Len(shows) \in Nat /\ DOMAIN shows = 1..Len(shows)
    BY <2>3
  <2>4. /\ both \in Seq(Talk!Messages) /\ DOMAIN both = 1..n
        /\ \A i \in DOMAIN shows: both[i] = shows[i]
        /\ both[n] = k.page[1]
    BY <2>3, Appended, Zenon
  <2> HIDE DEF both
  <2>5. thread' \in ThreadView /\ thread'.open = thread.open /\ thread'.messages = both /\ thread.open # "none"
        /\ ~thread'.loading
    <3>1. thread' = [thread EXCEPT !.messages = both]
      BY <2>1 DEF both
    <3> QED BY <1>2, <2>2, <2>4, <3>1, ThreadsAre DEF ThreadView
  <2>6. fetch' \in [TalkCalls -> TalkCall] /\ fetch'[c] = Talk!NoCall /\ \A d \in TalkCalls \ {c}: fetch'[d] = fetch[d]
    BY <1>1, NothingFetched DEF TalkTypes
  <2>7. /\ \A i \in 1..n: \/ i \in DOMAIN shows /\ thread'.messages[i] = shows[i]
                          \/ i = n /\ thread'.messages[i] = k.page[1]
        /\ DOMAIN thread'.messages = 1..n
    <3>1. \A i \in 1..n: i \in 1..Len(shows) \/ i = n
      BY <2>17
    <3>2. \A i \in 1..n: i \in DOMAIN shows \/ i = n
      BY <2>17, <3>1, Zenon
    <3> HIDE DEF shows
    <3> QED BY <2>4, <2>5, <3>2
  <2>8. Stored(k.page[1], thread.open) /\ \A i \in DOMAIN shows: shows[i] # k.page[1]
    <3>1. 1 \in DOMAIN k.page
      BY <2>3
    <3> QED BY <1>1, <1>5, <2>2, <3>1 DEF PagesAreStored, SentIsNew
  <2>9. draft' \in BOOLEAN
    BY <2>1, Zenon
  <2>10. TalkTypes'
    BY <1>1, <2>5, <2>6, <2>9 DEF TalkTypes
  <2>11. IdentityIsOf'
    BY <1>1, <2>2, <2>5, <2>6, NothingFetched DEF IdentityIsOf
  <2>12. PagesAreStored'
    BY <1>1, <2>6, NothingFetched DEF PagesAreStored, Stored
  <2>13. MessagesAreStored'
    BY <1>1, <2>5, <2>7, <2>8 DEF MessagesAreStored, Stored
  <2>14. Talk!MessageShownOnce'
    BY <2>7, <2>8 DEF Talk!MessageShownOnce
  <2>15. SentIsNew'
    <3> SUFFICES ASSUME NEW d \in TalkCalls, fetch'[d].op = "send", fetch'[d].current, fetch'[d].answer = "OK"
                 PROVE  \A i \in 1..n: thread'.messages[i] # fetch'[d].page[1]
      BY <2>6, <2>7, NothingFetched DEF SentIsNew
    <3>1. d # c /\ fetch'[d] = fetch[d]
      BY <2>6, NothingFetched
    <3>2. fetch[d].page[1] # k.page[1] /\ \A i \in DOMAIN shows: shows[i] # fetch[d].page[1]
      BY <1>1, <1>5, <3>1 DEF SentIsNew
    <3> QED BY <2>7, <3>1, <3>2
  <2>16. OpenIsOfContext' /\ Talk!ItemsAreOfContext'
    BY <1>1, <2>5 DEF OpenIsOfContext, Talk!ItemsAreOfContext
  <2> QED BY <2>10, <2>11, <2>12, <2>13, <2>14, <2>15, <2>16
<1> QED BY <1>3, <1>4, <1>5

LEMMA MarkedKeeps ==
  ASSUME TalkInv, NEW c \in TalkCalls, Talk!Marked(c)
  PROVE  TalkInv'
<1> USE DEF TalkInv
<1> DEFINE k == fetch[c]
<1>1. k.op = "mark" /\ k.answer # "none" /\ UNCHANGED <<context, posted, taps>>
  BY DEF Talk!Marked, Talk!Answered
<1>2. k \in TalkCall /\ thread \in ThreadView /\ context' \in Talk!Contexts /\ taps' \in 0..MaxTaps
  BY <1>1 DEF TalkTypes
<1>3. CASE k.current /\ k.answer = "OK"
  <2>1. Talk!Load(c)
    BY <1>3 DEF Talk!Marked
  <2> QED BY <1>2, <2>1, LoadsKeep
<1>4. CASE ~(k.current /\ k.answer = "OK")
  <2>1. /\ fetch' = [fetch EXCEPT ![c] = Talk!NoCall] /\ panes' \in PaneStates /\ draft' = draft
        /\ thread' = IF k.current THEN [thread EXCEPT !.error = k.answer] ELSE thread
    BY <1>4, PanesAre DEF Talk!Marked, Talk!Keep, Talk!Failed
  <2>2. CASE ~k.current
    BY <1>1, <1>2, <2>1, <2>2, DroppedKeeps
  <2>3. CASE k.current
    <3>1. k.answer \in Talk!Failures /\ k.answer # "none"
      BY <1>1, <1>2, <1>4, <2>3 DEF TalkCall
    <3>2. thread' \in ThreadView /\ thread'.open = thread.open /\ thread'.messages = thread.messages
          /\ thread'.error # "none" /\ thread'.loading = thread.loading
      BY <1>2, <2>1, <2>3, <3>1 DEF ThreadView
    <3> QED BY <1>1, <2>1, <2>3, <3>2, DroppedKeeps
  <2> QED BY <2>2, <2>3
<1> QED BY <1>3, <1>4

(* The panes keep to themselves.                                            *)
LEMMA PaneKeeps ==
  ASSUME TalkInv, NEW p \in Talk!Panes, Talk!PaneAnswered(p) \/ Talk!RetryPane(p)
  PROVE  TalkInv'
<1> USE ScreensBounds DEF TalkInv
<1>1. UNCHANGED <<context, thread, draft, fetch, posted>> /\ taps' \in 0..MaxTaps
  BY DEF Talk!PaneAnswered, Talk!RetryPane, Talk!Click, TalkTypes
<1>2. panes' \in PaneStates
  BY DEF Talk!PaneAnswered, Talk!RetryPane, TalkTypes, PaneStates
<1>3. TalkTypes'
  BY <1>1, <1>2 DEF TalkTypes
<1> QED BY <1>1, <1>3 DEF IdentityIsOf, PagesAreStored, MessagesAreStored, SentIsNew, Stored,
                          OpenIsOfContext, Talk!ItemsAreOfContext, Talk!MessageShownOnce

LEMMA TalkSteps ==
  ASSUME TalkInv, [Talk!Next]_talkVars
  PROVE  TalkInv'
<1>1. CASE UNCHANGED talkVars
  BY <1>1 DEF talkVars, TalkInv, TalkTypes, IdentityIsOf, PagesAreStored, MessagesAreStored, SentIsNew, Stored,
              OpenIsOfContext, Talk!ItemsAreOfContext, Talk!MessageShownOnce
<1>2. CASE Talk!Type
  <2>1. draft' \in BOOLEAN
    BY <1>2, Zenon DEF Talk!Type
  <2>2. UNCHANGED <<context, thread, panes, fetch, posted>> /\ taps' \in 0..MaxTaps
    BY <1>2, ScreensBounds DEF Talk!Type, Talk!Click, TalkInv, TalkTypes
  <2> QED BY <2>1, <2>2 DEF TalkInv, TalkTypes, IdentityIsOf, PagesAreStored, MessagesAreStored, SentIsNew, Stored,
              OpenIsOfContext, Talk!ItemsAreOfContext, Talk!MessageShownOnce
<1> QED BY <1>1, <1>2, SelectionsKeep, OpenKeeps, MessagesKeep, TalkServeKeeps, LoadedKeeps, OpenedKeeps, SentKeeps,
           MarkedKeeps, PaneKeeps DEF Talk!Next, Talk!Answer

LEMMA TalkIsRight ==
  ASSUME TalkInv
  PROVE  Talk!TypeOK /\ Talk!ItemsAreOfContext /\ Talk!MessagesAreOfConversation /\ Talk!MessageShownOnce
<1> USE DEF TalkInv
<1>1. Talk!TypeOK
  BY DEF TalkTypes, ThreadView, PaneStates, TalkCall, Talk!TypeOK
<1>2. Talk!MessagesAreOfConversation
  <2> SUFFICES ASSUME NEW i \in DOMAIN thread.messages
               PROVE  thread.messages[i][1] = thread.open /\ thread.open \in Conversations[context]
    BY DEF Talk!MessagesAreOfConversation
  <2>1. thread.messages \in Seq(Talk!Messages)
    BY DEF TalkTypes, ThreadView
  <2>2. thread.messages[i] \in Talk!Messages /\ thread.messages[i][1] = thread.open
    BY <2>1 DEF MessagesAreStored, Stored
  <2>3. thread.open # "none"
    BY <2>2, ThreadsAre DEF Talk!Messages
  <2> QED BY <2>2, <2>3 DEF OpenIsOfContext
<1> QED BY <1>1, <1>2

(***************************************************************************)
(* The screens together.                                                   *)
(***************************************************************************)

ScreensInv == ShellInv /\ ViewInv /\ PanelInv /\ TalkInv

LEMMA ScreensStart == ScreensInit => ScreensInv
BY ShellStarts, ViewStarts, PanelStarts, TalkStarts DEF ScreensInit, ScreensInv

LEMMA ScreensStep ==
  ASSUME ScreensInv, [ScreensNext]_screens
  PROVE  ScreensInv'
<1>1. ShellInv'
  <2>1. CASE ShellStep
    BY <2>1, ShellSteps DEF ScreensInv, ShellStep
  <2>2. CASE UNCHANGED shellVars
    <3>1. UNCHANGED <<shell, generation, loadingRef, shown, due, asking, inbox, main, acts, foreign>>
      BY <2>2 DEF shellVars
    <3> QED BY <3>1 DEF ScreensInv, ShellInv, ShellTypes, Around, Fits, Known, Owned, IsMine, ShowsOwn
  <2> QED BY <2>1, <2>2 DEF ScreensNext, ViewStep, PanelStep, TalkStep, screens
<1>2. [View!Next]_viewVars
  BY DEF ScreensNext, ShellStep, ViewStep, PanelStep, TalkStep, screens
<1>3. [Panel!Next]_panelVars
  BY DEF ScreensNext, ShellStep, ViewStep, PanelStep, TalkStep, screens
<1>4. [Talk!Next]_talkVars
  BY DEF ScreensNext, ShellStep, ViewStep, PanelStep, TalkStep, screens
<1> QED BY <1>1, <1>2, <1>3, <1>4, ViewSteps, PanelSteps, TalkSteps DEF ScreensInv

(* What a screen shows belongs to the account, task, project or             *)
(* conversation that is selected, and nothing is loaded, decided or shown   *)
(* twice, however many logins, losses of the session, clicks and late       *)
(* answers there have been.                                                 *)
THEOREM ScreensShowTheSelected == ScreensSpec => []ScreensBelong
<1>1. ScreensInv /\ [ScreensNext]_screens => ScreensInv'
  BY ScreensStep
<1>2. ScreensInv => ScreensBelong
  BY ShellIsRight, ViewIsRight, PanelIsRight, TalkIsRight DEF ScreensInv, ScreensBelong
<1> QED BY <1>1, <1>2, ScreensStart, PTL DEF ScreensSpec

(* However often a confirmation of the same artifacts is repeated before    *)
(* its success is shown, and whatever was answered in between, it carries   *)
(* the key of the first.                                                    *)
THEOREM RetriesRepeatTheKey == ScreensSpec => RetryKeepsKey
<1>1. ScreensInv /\ [ScreensNext]_screens => ScreensInv'
  BY ScreensStep
<1>2. ScreensInv /\ [ScreensNext]_screens
        => [remounts = 0 => last.artifacts # last'.artifacts \/ last.shown \/ last'.key = last.key]_screens
  <2> SUFFICES ASSUME ScreensInv, [ScreensNext]_screens, remounts = 0, last'.artifacts = last.artifacts, ~last.shown
               PROVE  last'.key = last.key
    OBVIOUS
  <2>1. [View!Next]_viewVars
    BY DEF ScreensNext, ShellStep, ViewStep, PanelStep, TalkStep, screens
  <2> QED BY <2>1, ConfirmationsRepeat DEF ScreensInv
<1> QED BY <1>1, <1>2, ScreensStart, PTL DEF ScreensSpec, RetryKeepsKey
===============================================================================
