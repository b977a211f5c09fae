---------------------------- MODULE GatewaySession ----------------------------
(***************************************************************************)
(* The session of the desktop: DesktopApiGateway in Electron Main and the  *)
(* part of the Employee API that opens, checks and revokes sessions.       *)
(*                                                                         *)
(* Logins, logouts and protected requests overlap: each is sent, served    *)
(* by the API and answered in separate steps, in any order.  Either        *)
(* message may be lost, sessions expire or are revoked, and the            *)
(* application may restart, which forgets the token and the calls.  A      *)
(* token stands for its session, named by the login that opened it.        *)
(***************************************************************************)
EXTENDS Naturals

CONSTANTS
  Calls,         \* calls of the gateway
  MaxRestarts    \* bound: restarts of the application

VARIABLES
  token,        \* DesktopApiGateway.bearerToken
  generation,   \* DesktopApiGateway.authGeneration
  call,         \* what each call captured, and how far it is; for the properties
                \* also the token it found (left) and the intent it served
  sessions,     \* sessions that are neither expired nor revoked
  intent,       \* what the user asked for last: a login, a logout, or nothing
  restarts

vars == <<token, generation, call, sessions, intent, restarts>>

NoCall == [kind |-> "none", generation |-> 0, token |-> "none", left |-> "none",
           intent |-> "none", at |-> "idle"]

(* A call is answered OK or DENIED (a 401), or LOST: fetch throws. *)
TypeOK ==
  /\ token \in Calls \cup {"none"}
  /\ generation \in Nat
  /\ call \in [Calls -> [
       kind: {"none", "login", "logout", "request"}, generation: Nat,
       token: Calls \cup {"none"}, left: Calls \cup {"none"}, intent: Calls \cup {"none"},
       at: {"idle", "sent", "OK", "DENIED", "LOST", "ended"}]]
  /\ sessions \subseteq {c \in Calls: call[c].kind = "login"}
  /\ intent \in Calls \cup {"none"}
  /\ restarts \in 0..MaxRestarts

Init ==
  /\ token = "none"
  /\ generation = 0
  /\ call = [c \in Calls |-> NoCall]
  /\ sessions = {}
  /\ intent = "none"
  /\ restarts = 0

(* request() reads the generation and the token before it waits. *)
Send(c, kind, bearer, wish) ==
  /\ call[c].at = "idle"
  /\ call' = [call EXCEPT ![c] = [kind |-> kind, generation |-> generation', token |-> bearer,
                                  left |-> token, intent |-> wish, at |-> "sent"]]
  /\ UNCHANGED <<sessions, restarts>>

Login(c) ==
  /\ generation' = generation + 1
  /\ intent' = c
  /\ Send(c, "login", token, c)
  /\ UNCHANGED token

(* Mutant: the token is cleared before it is captured. *)
LogoutCleared(c) ==
  /\ generation' = generation + 1
  /\ token' = "none"
  /\ intent' = c
  /\ Send(c, "logout", "none", c)

(* The captured token is sent, the gateway's own is already gone. *)
Logout(c) ==
  /\ generation' = generation + 1
  /\ token' = "none"
  /\ intent' = c
  /\ Send(c, "logout", token, c)

(* Any method that only forwards: me, projects, tasks, runs, results... *)
Ask(c) ==
  /\ UNCHANGED <<token, generation, intent>>
  /\ Send(c, "request", token, intent)

-----------------------------------------------------------------------------
(* The API. *)

Resolved(c) == call[c].token \in sessions

Reply(c, status) == call' = [call EXCEPT ![c].at = status]

ServeLogin(c) ==
  /\ call[c].kind = "login" /\ call[c].at = "sent"
  /\ \/ Reply(c, "OK") /\ sessions' = sessions \cup {c}
     \/ Reply(c, "DENIED") /\ UNCHANGED sessions
  /\ UNCHANGED <<token, generation, intent, restarts>>

(* preHandler refuses every route but the login without a session. *)
ServeLogout(c) ==
  /\ call[c].kind = "logout" /\ call[c].at = "sent"
  /\ Reply(c, IF Resolved(c) THEN "OK" ELSE "DENIED")
  /\ sessions' = sessions \ {call[c].token}
  /\ UNCHANGED <<token, generation, intent, restarts>>

ServeRequest(c) ==
  /\ call[c].kind = "request" /\ call[c].at = "sent"
  /\ Reply(c, IF Resolved(c) THEN "OK" ELSE "DENIED")
  /\ UNCHANGED <<token, generation, sessions, intent, restarts>>

(* A session expires, or its account is disabled. *)
Revoke(s) ==
  /\ sessions' = sessions \ {s}
  /\ UNCHANGED <<token, generation, call, intent, restarts>>

(* The request or its answer does not arrive. *)
Lose(c) ==
  /\ call[c].at \in {"sent", "OK", "DENIED"}
  /\ Reply(c, "LOST")
  /\ UNCHANGED <<token, generation, sessions, intent, restarts>>

-----------------------------------------------------------------------------
(* Answers. *)

End(c) == call' = [call EXCEPT ![c].at = "ended"]

(* Mutant: a login installs its token whatever happened since. *)
InstallAnyway(c) ==
  /\ call[c].kind = "login" /\ call[c].at = "OK"
  /\ token' = c
  /\ End(c)
  /\ UNCHANGED <<generation, sessions, intent, restarts>>

(* An earlier login response must never replace a newer session. *)
Install(c) ==
  /\ call[c].kind = "login" /\ call[c].at = "OK"
  /\ token' = IF call[c].generation = generation THEN c ELSE token
  /\ End(c)
  /\ UNCHANGED <<generation, sessions, intent, restarts>>

Return(c) ==
  /\ call[c].at = "LOST" \/ (call[c].at = "OK" /\ call[c].kind # "login")
  /\ End(c)
  /\ UNCHANGED <<token, generation, sessions, intent, restarts>>

(* Mutant: a 401 restores the generation of before the login. *)
RefusedBack(c) ==
  /\ call[c].at = "DENIED"
  /\ token' = "none" /\ generation' = generation - 1
  /\ End(c)
  /\ UNCHANGED <<sessions, intent, restarts>>

(* Mutant: every 401 ends the session. *)
RefusedAlways(c) ==
  /\ call[c].at = "DENIED"
  /\ token' = "none" /\ generation' = generation + 1
  /\ End(c)
  /\ UNCHANGED <<sessions, intent, restarts>>

(* A 401 of the session that is still current ends it: onAuthenticationLost. *)
Refused(c) ==
  /\ call[c].at = "DENIED"
  /\ IF call[c].generation = generation /\ call[c].token = token
     THEN token' = "none" /\ generation' = generation + 1
     ELSE UNCHANGED <<token, generation>>
  /\ End(c)
  /\ UNCHANGED <<sessions, intent, restarts>>

(* What was sent before may still reach the API; nobody hears the answer. *)
Restart ==
  /\ restarts < MaxRestarts
  /\ restarts' = restarts + 1
  /\ token' = "none" /\ generation' = 0 /\ intent' = "none"
  /\ \E reached \in SUBSET {c \in Calls: call[c].at = "sent"}:
       sessions' = (sessions \cup {c \in reached: call[c].kind = "login"})
                     \ {call[c].token: c \in {d \in reached: call[d].kind = "logout"}}
  /\ call' = [c \in Calls |-> IF call[c].at = "idle" THEN NoCall ELSE [call[c] EXCEPT !.at = "ended"]]

Next ==
  \/ \E c \in Calls:
       \/ Login(c) \/ Logout(c) \/ Ask(c)
       \/ ServeLogin(c) \/ ServeLogout(c) \/ ServeRequest(c) \/ Lose(c)
       \/ Install(c) \/ Return(c) \/ Refused(c)
  \/ \E s \in sessions: Revoke(s)
  \/ Restart

Spec == Init /\ [][Next]_vars

-----------------------------------------------------------------------------
(* Once the user has asked to log out, no answer brings a session back,    *)
(* whichever logins were still on their way (logout 104-106).              *)
LogoutIsFinal == intent # "none" => (call[intent].kind = "logout" => token = "none")

(* The gateway starts to use a session only if its login is the last thing *)
(* the user asked for: one that was overtaken never replaces it (login 90).*)
NoOlderLogin == [][token' \in {token, "none"} \/ token' = intent]_vars

(* An answer to a call made before the user's last login or logout changes *)
(* neither the token nor which login will be installed (request 436-444).  *)
LateAnswersHarmless ==
  [][\A c \in Calls:
       call[c].intent # intent /\ call'[c].at = "ended" /\ call[c].at # "ended" /\ restarts' = restarts
         => UNCHANGED <<token, generation>>]_vars

(* When a logout has been answered, the session it ended is not accepted   *)
(* any more: logout sends the token that it has already cleared.           *)
LoggedOutIsRevoked ==
  [][\A c \in Calls:
       call[c].kind = "logout" /\ call[c].at \in {"OK", "DENIED"} /\ call'[c].at = "ended"
         => call[c].left \notin sessions']_vars

(* "Late requests/logouts cannot affect a later login": an accepted login  *)
(* that neither a login nor a logout overtook is installed.                *)
LaterLoginUnaffected ==
  [][\A c \in Calls:
       call[c].kind = "login" /\ call[c].at = "OK" /\ call'[c].at = "ended"
         /\ intent = c /\ restarts' = restarts => token' = c]_vars
===============================================================================
