---------------------------- MODULE ConfirmedWrite ----------------------------
(***************************************************************************)
(* The desktop's confirmed-write workflow: ConfirmedWriteCoordinator with  *)
(* its payload and grant stores in Electron Main, the session that the     *)
(* API gateway holds, the employee's workspace binding and the server's    *)
(* decision and completion of the run (AgentRun has these in detail).      *)
(*                                                                         *)
(* Each gateway call is a step that acts on the server with the session of *)
(* that moment; its continuation is another step, and between the two      *)
(* every handler may run.  An answer may be lost with or without the       *)
(* effect.  A write request is named by its confirmation: it has one run,  *)
(* one tool call and one target path, the same file in each folder.  Grant *)
(* and confirmation detail are read from the rows that created them, so    *)
(* sameDetail, sameGrant and sameCreation pass for one confirmation and    *)
(* only their comparison of the user is kept.  grants.put and grants.take  *)
(* run in one turn: the grant map is empty between steps.                  *)
(***************************************************************************)
EXTENDS Integers

CONSTANTS
  Users,
  Writes,      \* confirmation ids
  Folders,     \* local folders that can be bound to the project
  Calls,       \* approve and reject calls in progress
  Faulty,      \* whether answers are lost, sessions end and the app restarts
  Signed,      \* the employee signed in at first
  Full         \* whether the target exists at first

ASSUME WriteAssumption ==
  /\ Faulty \in BOOLEAN
  /\ Full \in BOOLEAN
  /\ Signed \in Users
  /\ "NONE" \notin Users \cup Folders
  /\ Writes \cap {"ABSENT", "OTHER"} = {}

VARIABLES
  session,    \* whose bearer token the gateway holds
  binding,    \* the folder each employee has bound to the project
  file,       \* content of the target in each folder
  run,        \* status of the request's run on the server
  owner,      \* its user
  prep,       \* progress of prepare
  asked,      \* folder and current content that prepare hashed
  payloads,   \* PendingWritePayloadStore
  consumed,   \* ApprovedWriteExecutionGrantStore.consumed
  call,       \* approve and reject calls
  writes      \* how often each request has written the file

server == <<run, owner>>
memory == <<payloads, consumed>>
local == <<binding, file, writes>>
vars == <<session, binding, file, run, owner, prep, asked, payloads, consumed, call, writes>>

Contents == Writes \cup {"ABSENT", "OTHER"}
Bound == Folders \cup {"NONE"}
Idle == [pc |-> "idle"]

TypeOK ==
  /\ session \in Users \cup {"NONE"}
  /\ binding \in [Users -> Bound]
  /\ file \in [Folders -> Contents]
  /\ run \in [Writes -> {"NONE", "WAITING_HUMAN", "RUNNING", "SUCCEEDED", "FAILED", "CANCELLED"}]
  /\ owner \in [Writes -> Users \cup {"NONE"}]
  /\ \A w \in Writes: run[w] = "NONE" <=> owner[w] = "NONE"
  /\ prep \in [Writes -> {"idle", "hashed", "created", "answered", "done", "failed"}]
  /\ asked \in [Writes -> [folder: Bound, expected: Contents]]
  /\ payloads \subseteq Writes
  /\ consumed \subseteq Writes
  /\ \A c \in Calls:
       \/ call[c] = Idle
       \/ call[c] \in [pc: {"check", "approve", "granted", "write", "written", "unwritten", "rejected"},
                       w: Writes, as: Users, folder: Bound]
  /\ writes \in [Writes -> Nat]

Init ==
  /\ session = Signed
  /\ binding \in [Users -> Folders]
  /\ file = [f \in Folders |-> IF Full THEN "OTHER" ELSE "ABSENT"]
  /\ run = [w \in Writes |-> "NONE"]
  /\ owner = [w \in Writes |-> "NONE"]
  /\ prep = [w \in Writes |-> "idle"]
  /\ asked = [w \in Writes |-> [folder |-> "NONE", expected |-> "ABSENT"]]
  /\ payloads = {}
  /\ consumed = {}
  /\ call = [c \in Calls |-> Idle]
  /\ writes = [w \in Writes |-> 0]

-----------------------------------------------------------------------------
(* prepare *)

Prepare(w, from, to) == prep[w] = from /\ prep' = [prep EXCEPT ![w] = to]

(* The bound folder is looked up and the target hashed in it. *)
HashTarget(w) ==
  /\ session # "NONE"
  /\ binding[session] # "NONE"
  /\ Prepare(w, "idle", "hashed")
  /\ asked' = [asked EXCEPT ![w] =
       [folder |-> binding[session], expected |-> file[binding[session]]]]
  /\ UNCHANGED <<session, server, memory, local, call>>

CreateAgentRun(w) ==
  /\ session # "NONE"
  /\ \/ Prepare(w, "hashed", "created")
     \/ Faulty /\ Prepare(w, "hashed", "failed")
  /\ run' = [run EXCEPT ![w] = "WAITING_HUMAN"]
  /\ owner' = [owner EXCEPT ![w] = session]
  /\ UNCHANGED <<session, asked, memory, local, call>>

(* getHumanConfirmation shows a confirmation to its user only. *)
GetConfirmation(w) ==
  /\ session = owner[w]
  /\ Prepare(w, "created", "answered")
  /\ UNCHANGED <<session, server, asked, memory, local, call>>

PrepareFails(w) ==
  /\ \/ Faulty
     \/ session = "NONE"
     \/ prep[w] = "created" /\ session # owner[w]
  /\ Prepare(w, "hashed", "failed") \/ Prepare(w, "created", "failed")
  /\ UNCHANGED <<session, server, asked, memory, local, call>>

(* The answer of getHumanConfirmation has arrived: nothing asks whether    *)
(* the session that the request was sent in still lasts.                   *)
KeepPayload(w) ==
  /\ Prepare(w, "answered", "done")
  /\ payloads' = payloads \cup {w}
  /\ UNCHANGED <<session, server, asked, consumed, local, call>>

-----------------------------------------------------------------------------
(* approve *)

Step(c, from, to) == call[c].pc = from /\ call' = [call EXCEPT ![c].pc = to]
End(c) == call' = [call EXCEPT ![c] = Idle]

BeginApprove(c, w) ==
  /\ session # "NONE"
  /\ prep[w] = "done" /\ w \in payloads
  /\ call[c] = Idle
  /\ call' = [call EXCEPT ![c] = [pc |-> "check", w |-> w, as |-> session, folder |-> "NONE"]]
  /\ UNCHANGED <<session, prep, asked, server, memory, local>>

(* The detail, the current user and the write context have arrived. *)
CheckProvenance(c) ==
  /\ call[c].pc = "check"
  /\ LET u == call[c].as IN
       IF owner[call[c].w] = u /\ binding[u] # "NONE"
       THEN call' = [call EXCEPT ![c] = [call[c] EXCEPT !.pc = "approve", !.folder = binding[u]]]
       ELSE End(c)
  /\ UNCHANGED <<session, prep, asked, server, memory, local>>

(* approveHumanConfirmation.  Repeated approvals of a running request carry *)
(* the grant again; a finished one is answered without a grant.             *)
Approve(c) ==
  /\ call[c].pc = "approve"
  /\ LET w == call[c].w
         mine == session = owner[w]
         started == IF mine /\ run[w] = "WAITING_HUMAN" THEN "RUNNING" ELSE run[w]
     IN /\ run' = [run EXCEPT ![w] = started]
        /\ \/ mine /\ started = "RUNNING" /\ Step(c, "approve", "granted")
           \/ (Faulty \/ ~mine \/ started # "RUNNING") /\ End(c)
  /\ UNCHANGED <<session, prep, asked, owner, memory, local>>

(* Mutant: the grant and the payload are read where they should be taken. *)
ReadGrant(c) ==
  /\ call[c].pc = "granted"
  /\ IF call[c].w \in payloads THEN Step(c, "granted", "write") ELSE End(c)
  /\ UNCHANGED <<session, prep, asked, server, memory, local>>

(* put fails once the grant was consumed; take consumes it; the payload is *)
(* taken too, and may be gone.                                             *)
TakeGrant(c) ==
  /\ call[c].pc = "granted"
  /\ LET w == call[c].w IN
       IF w \in consumed THEN End(c) /\ UNCHANGED memory
       ELSE /\ consumed' = consumed \cup {w}
            /\ payloads' = payloads \ {w}
            /\ IF w \in payloads THEN Step(c, "granted", "write") ELSE End(c)
  /\ UNCHANGED <<session, prep, asked, server, local>>

(* LocalWriteService.execute: see GuardedFile and LocalWrite. *)
Execute(c) ==
  /\ call[c].pc = "write"
  /\ LET w == call[c].w
         f == call[c].folder
     IN \/ /\ file[f] = asked[w].expected
           /\ file' = [file EXCEPT ![f] = w]
           /\ writes' = [writes EXCEPT ![w] = @ + 1]
           /\ Step(c, "write", "written")
        \/ /\ Faulty \/ file[f] # asked[w].expected
           /\ Step(c, "write", "unwritten")
           /\ UNCHANGED <<file, writes>>
  /\ UNCHANGED <<session, prep, asked, server, memory, binding>>

(* Mutant: a failed write is not reported. *)
ReportSuccessOnly(c) ==
  /\ call[c].pc \in {"written", "unwritten"}
  /\ End(c)
  /\ run' = [run EXCEPT ![call[c].w] =
       IF call[c].pc = "written" /\ @ = "RUNNING" THEN "SUCCEEDED" ELSE @]
  /\ UNCHANGED <<session, prep, asked, owner, memory, local>>

(* completeAgentRun with the receipt, in the session of this moment. *)
Report(c) ==
  /\ call[c].pc \in {"written", "unwritten"}
  /\ End(c)
  /\ LET w == call[c].w
         status == IF call[c].pc = "written" THEN "SUCCEEDED" ELSE "FAILED"
     IN \/ session = owner[w] /\ run[w] = "RUNNING" /\ run' = [run EXCEPT ![w] = status]
        \/ (Faulty \/ session # owner[w] \/ run[w] # "RUNNING") /\ UNCHANGED run
  /\ UNCHANGED <<session, prep, asked, owner, memory, local>>

-----------------------------------------------------------------------------
(* reject *)

(* Mutant: a running request can be rejected. *)
RejectRunning(c, w) ==
  /\ prep[w] = "done" /\ session = owner[w] /\ call[c] = Idle
  /\ run[w] \in {"WAITING_HUMAN", "RUNNING", "CANCELLED"}
  /\ run' = [run EXCEPT ![w] = "CANCELLED"]
  /\ UNCHANGED <<session, prep, asked, owner, memory, local, call>>

Reject(c, w) ==
  /\ prep[w] = "done"
  /\ session = owner[w]
  /\ call[c] = Idle
  /\ run[w] \in {"WAITING_HUMAN", "CANCELLED"}
  /\ run' = [run EXCEPT ![w] = "CANCELLED"]
  /\ \/ call' = [call EXCEPT ![c] = [pc |-> "rejected", w |-> w, as |-> session, folder |-> "NONE"]]
     \/ Faulty /\ UNCHANGED call
  /\ UNCHANGED <<session, prep, asked, owner, memory, local>>

DropPayload(c) ==
  /\ call[c].pc = "rejected"
  /\ End(c)
  /\ payloads' = payloads \ {call[c].w}
  /\ UNCHANGED <<session, prep, asked, server, consumed, local>>

-----------------------------------------------------------------------------
(* The session, the employee and the process *)

(* Mutant: an ended session leaves the payloads. *)
ClearGrantsOnly == consumed' = {} /\ UNCHANGED payloads

ClearSensitiveState == payloads' = {} /\ consumed' = {}

Login(u) ==
  /\ session = "NONE"
  /\ session' = u
  /\ UNCHANGED <<prep, asked, server, memory, local, call>>

(* auth:logout: the state is cleared, then the gateway drops its token. *)
Logout ==
  /\ Faulty /\ session # "NONE"
  /\ ClearSensitiveState
  /\ session' = "NONE"
  /\ UNCHANGED <<prep, asked, server, local, call>>

(* An answer of 401 ends the session: the gateway drops the token and      *)
(* calls onAuthenticationLost.                                             *)
AuthenticationLost ==
  /\ Faulty /\ session # "NONE"
  /\ session' = "NONE"
  /\ ClearSensitiveState
  /\ UNCHANGED <<prep, asked, server, local, call>>

(* The process stops and starts again: its memory is gone. *)
Restart ==
  /\ Faulty
  /\ session' = "NONE"
  /\ payloads' = {} /\ consumed' = {}
  /\ call' = [c \in Calls |-> Idle]
  /\ prep' = [w \in Writes |-> IF prep[w] \in {"idle", "done"} THEN prep[w] ELSE "failed"]
  /\ UNCHANGED <<asked, server, local>>

(* workspace:select and workspace:unbind *)
Rebind(f) ==
  /\ session # "NONE"
  /\ binding' = [binding EXCEPT ![session] = f]
  /\ UNCHANGED <<session, prep, asked, server, memory, file, writes, call>>

(* Another program changes the target. *)
Edit(f) ==
  /\ \E content \in {"ABSENT", "OTHER"}: file' = [file EXCEPT ![f] = content]
  /\ UNCHANGED <<session, prep, asked, server, memory, binding, writes, call>>

Workflow(w) == CreateAgentRun(w) \/ GetConfirmation(w) \/ PrepareFails(w) \/ KeepPayload(w)
Continue(c) ==
  \/ CheckProvenance(c) \/ Approve(c) \/ TakeGrant(c) \/ Execute(c) \/ Report(c) \/ DropPayload(c)

Next ==
  \/ \E w \in Writes: HashTarget(w) \/ Workflow(w)
  \/ \E c \in Calls: Continue(c)
  \/ \E c \in Calls, w \in Writes: BeginApprove(c, w) \/ Reject(c, w)
  \/ \E u \in Users: Login(u)
  \/ \E f \in Bound: Rebind(f)
  \/ \E f \in Folders: Edit(f)
  \/ Logout \/ AuthenticationLost \/ Restart

Spec == Init /\ [][Next]_vars

(* Promises are settled and their continuations run. *)
Fairness == \A c \in Calls: WF_vars(Continue(c))

-----------------------------------------------------------------------------
(* Safety *)

(* A request writes the file at most once, although the server hands the   *)
(* grant out at every repeated approval and a logout forgets which grants  *)
(* were consumed (ADR-021's one-shot grant).                               *)
OneShot == \A w \in Writes: writes[w] <= 1

(* The server says SUCCEEDED only of a request that wrote the file, and    *)
(* FAILED or CANCELLED only of one that never did and never will.          *)
ReportTrue ==
  \A w \in Writes:
    /\ run[w] = "SUCCEEDED" => writes[w] = 1
    /\ run[w] \in {"FAILED", "CANCELLED"} =>
         writes[w] = 0 /\ \A c \in Calls: ~(call[c].pc = "write" /\ call[c].w = w)

(* A payload is used by a call only while the employee who asked for it is *)
(* signed in: a call that outlives its session finds nothing to write,     *)
(* even when its user or another one has signed in since.                  *)
UsedInOwnSession ==
  [][\A c \in Calls:
       (call[c].pc = "granted" /\ call'[c].pc = "write") => session = owner[call[c].w]]_vars

(* clears pending payloads ... at an authentication boundary (the test):   *)
(* nobody's payload is retained while nobody is signed in.                 *)
ClearedAtBoundary == session = "NONE" => payloads = {}

(* The workflow keeps the promise of WriteLifecycle. *)
Stage(w) ==
  CASE run[w] = "NONE" -> "none"
    [] run[w] = "WAITING_HUMAN" -> "waiting"
    [] run[w] = "CANCELLED" -> "cancelled"
    [] run[w] = "RUNNING" -> IF writes[w] = 0 THEN "approved" ELSE "written"
    [] run[w] = "SUCCEEDED" -> "succeeded"
    [] run[w] = "FAILED" -> "failed"

Lifecycle == INSTANCE WriteLifecycle WITH stage <- [w \in Writes |-> Stage(w)]

(* Every step is a step of WriteLifecycle or leaves every stage alone. *)
RefinesLifecycle == Lifecycle!Spec

(* Liveness: a request that runs while every answer arrives is reported.   *)
(* The code promises this only then: with a lost answer it runs for ever.  *)
RunsAreReported ==
  \A w \in Writes: (run[w] = "RUNNING") ~> (run[w] \in {"SUCCEEDED", "FAILED"})
===============================================================================
