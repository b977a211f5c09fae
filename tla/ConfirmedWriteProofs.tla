------------------------- MODULE ConfirmedWriteProofs -------------------------
(***************************************************************************)
(* For every number of employees, requests, folders and calls, and every   *)
(* failure: a request writes its file at most once, the server's status is *)
(* true, a payload is used in its owner's session, and the workflow        *)
(* implements WriteLifecycle.                                              *)
(*                                                                         *)
(* The argument: prepare stores the payload of a request once, before any  *)
(* call can name the request.  Whoever takes the payload is the only call  *)
(* that will ever write; forgetting which grants were consumed is harmless,*)
(* because the payload is forgotten at the same time and never comes back. *)
(***************************************************************************)
EXTENDS ConfirmedWrite, TLAPS

Calling == [pc: {"check", "approve", "granted", "write", "written", "unwritten", "rejected"},
            w: Writes, as: Users, folder: Bound]

Active(k) == k.pc \in {"write", "written", "unwritten"}

(* The types that the steps preserve. *)
Types ==
  /\ session \in Users \cup {"NONE"}
  /\ binding \in [Users -> Bound]
  /\ file \in [Folders -> Contents]
  /\ run \in [Writes -> {"NONE", "WAITING_HUMAN", "RUNNING", "SUCCEEDED", "FAILED", "CANCELLED"}]
  /\ owner \in [Writes -> Users \cup {"NONE"}]
  /\ \A w \in Writes: run[w] = "NONE" <=> owner[w] = "NONE"
  /\ prep \in [Writes -> {"idle", "hashed", "created", "answered", "done", "failed"}]
  /\ asked \in [Writes -> [folder: Bound, expected: Contents]]
  /\ payloads \subseteq Writes
  /\ consumed \subseteq Writes
  /\ call \in [Calls -> {Idle} \cup Calling]
  /\ writes \in [Writes -> {0, 1}]

(* What is known of a request. *)
OfRequest(w) ==
  /\ prep[w] \in {"idle", "hashed"} => run[w] = "NONE"
  /\ prep[w] # "done" => w \notin payloads /\ run[w] \in {"NONE", "WAITING_HUMAN"}
  /\ w \in payloads => writes[w] = 0 /\ run[w] \notin {"SUCCEEDED", "FAILED"}
  /\ run[w] \notin {"RUNNING", "SUCCEEDED"} => writes[w] = 0
  /\ run[w] = "SUCCEEDED" => writes[w] = 1

(* What is known of a call: one that holds the grant finds a payload only   *)
(* in its owner's session, and one that took it is the last that will.      *)
OfCall(k) ==
  k # Idle =>
    /\ prep[k.w] = "done"
    /\ k.pc = "granted" =>
         /\ run[k.w] \in {"RUNNING", "SUCCEEDED", "FAILED"}
         /\ k.w \in payloads => session = owner[k.w]
    /\ Active(k) =>
         /\ run[k.w] = "RUNNING" /\ k.w \notin payloads
         /\ writes[k.w] = IF k.pc = "written" THEN 1 ELSE 0

OneActive ==
  \A c, d \in Calls: c # d /\ Active(call[c]) /\ Active(call[d]) => call[c].w # call[d].w

IInv ==
  /\ Types
  /\ \A w \in Writes: OfRequest(w)
  /\ \A c \in Calls: OfCall(call[c])
  /\ OneActive

-----------------------------------------------------------------------------
LEMMA Begins == Init => IInv
<1> SUFFICES ASSUME Init PROVE IInv
  OBVIOUS
<1>1. Types
  BY WriteAssumption DEF Init, Types, Contents, Bound
<1>2. \A w \in Writes: OfRequest(w)
  BY DEF Init, OfRequest
<1>3. (\A c \in Calls: OfCall(call[c])) /\ OneActive
  BY DEF Init, OfCall, OneActive, Active, Idle
<1> QED
  BY <1>1, <1>2, <1>3 DEF IInv

(* The target is hashed. *)
LEMMA HashTargetKeeps ==
  ASSUME IInv, NEW w \in Writes, HashTarget(w) PROVE IInv'
<1> USE DEF HashTarget, Prepare, server, memory, local, IInv
<1>1. Types'
  BY WriteAssumption DEF Types, Bound, Contents, Calling, Idle
<1>2. ASSUME NEW v \in Writes PROVE OfRequest(v)'
  BY DEF Types, OfRequest, OfCall, Active, Calling, Idle
<1>3. ASSUME NEW d \in Calls PROVE OfCall(call[d])'
  BY DEF Types, OfRequest, OfCall, Active, Calling, Idle
<1>4. OneActive'
  BY DEF Types, OneActive, OfCall, Active, Calling, Idle
<1> QED
  BY <1>1, <1>2, <1>3, <1>4

(* The run is created: no call names the request yet. *)
LEMMA CreateAgentRunKeeps ==
  ASSUME IInv, NEW w \in Writes, CreateAgentRun(w) PROVE IInv'
<1> USE DEF CreateAgentRun, Prepare, server, memory, local, IInv
<1>1. Types'
  BY WriteAssumption DEF Types, Bound, Contents, Calling, Idle
<1>2. ASSUME NEW v \in Writes PROVE OfRequest(v)'
  BY DEF Types, OfRequest, OfCall, Active, Calling, Idle
<1>3. ASSUME NEW d \in Calls PROVE OfCall(call[d])'
  BY DEF Types, OfRequest, OfCall, Active, Calling, Idle
<1>4. OneActive'
  BY DEF Types, OneActive, OfCall, Active, Calling, Idle
<1> QED
  BY <1>1, <1>2, <1>3, <1>4

(* The confirmation is read. *)
LEMMA GetConfirmationKeeps ==
  ASSUME IInv, NEW w \in Writes, GetConfirmation(w) PROVE IInv'
<1> USE DEF GetConfirmation, Prepare, server, memory, local, IInv
<1>1. Types'
  BY WriteAssumption DEF Types, Bound, Contents, Calling, Idle
<1>2. ASSUME NEW v \in Writes PROVE OfRequest(v)'
  BY DEF Types, OfRequest, OfCall, Active, Calling, Idle
<1>3. ASSUME NEW d \in Calls PROVE OfCall(call[d])'
  BY DEF Types, OfRequest, OfCall, Active, Calling, Idle
<1>4. OneActive'
  BY DEF Types, OneActive, OfCall, Active, Calling, Idle
<1> QED
  BY <1>1, <1>2, <1>3, <1>4

(* The preparation fails. *)
LEMMA PrepareFailsKeeps ==
  ASSUME IInv, NEW w \in Writes, PrepareFails(w) PROVE IInv'
<1> USE DEF PrepareFails, Prepare, server, memory, local, IInv
<1>1. Types'
  BY WriteAssumption DEF Types, Bound, Contents, Calling, Idle
<1>2. ASSUME NEW v \in Writes PROVE OfRequest(v)'
  BY DEF Types, OfRequest, OfCall, Active, Calling, Idle
<1>3. ASSUME NEW d \in Calls PROVE OfCall(call[d])'
  BY DEF Types, OfRequest, OfCall, Active, Calling, Idle
<1>4. OneActive'
  BY DEF Types, OneActive, OfCall, Active, Calling, Idle
<1> QED
  BY <1>1, <1>2, <1>3, <1>4

(* The payload is stored, when no call names the request. *)
LEMMA KeepPayloadKeeps ==
  ASSUME IInv, NEW w \in Writes, KeepPayload(w) PROVE IInv'
<1> USE DEF KeepPayload, Prepare, server, memory, local, IInv
<1>1. Types'
  BY WriteAssumption DEF Types, Bound, Contents, Calling, Idle
<1>2. ASSUME NEW v \in Writes PROVE OfRequest(v)'
  BY DEF Types, OfRequest, OfCall, Active, Calling, Idle
<1>3. ASSUME NEW d \in Calls PROVE OfCall(call[d])'
  BY DEF Types, OfRequest, OfCall, Active, Calling, Idle
<1>4. OneActive'
  BY DEF Types, OneActive, OfCall, Active, Calling, Idle
<1> QED
  BY <1>1, <1>2, <1>3, <1>4

(* An approval begins. *)
LEMMA BeginApproveKeeps ==
  ASSUME IInv, NEW c \in Calls, NEW w \in Writes, BeginApprove(c, w) PROVE IInv'
<1> USE DEF BeginApprove, server, memory, local, IInv
<1>1. Types'
  BY WriteAssumption DEF Types, Bound, Contents, Calling, Idle
<1>2. ASSUME NEW v \in Writes PROVE OfRequest(v)'
  BY DEF Types, OfRequest, OfCall, Active, Calling, Idle
<1>3. ASSUME NEW d \in Calls PROVE OfCall(call[d])'
  BY DEF Types, OfRequest, OfCall, Active, Calling, Idle
<1>4. OneActive'
  BY DEF Types, OneActive, OfCall, Active, Calling, Idle
<1> QED
  BY <1>1, <1>2, <1>3, <1>4

(* A call goes on: it names the same request, and no other call changes.    *)
LEMMA StepMoves ==
  ASSUME Types, NEW c \in Calls, NEW from, NEW to, from # "idle",
         to \in {"granted", "write", "written", "unwritten"}, Step(c, from, to)
  PROVE  /\ call' \in [Calls -> {Idle} \cup Calling]
         /\ call[c] \in Calling /\ call[c].pc = from
         /\ call'[c] \in Calling /\ call'[c].pc = to /\ call'[c].w = call[c].w
         /\ \A d \in Calls: d # c => call'[d] = call[d]
<1>1. call[c] \in Calling /\ call[c].pc = from
  BY DEF Types, Step, Idle
<1>2. [call[c] EXCEPT !.pc = to] \in Calling
  BY <1>1 DEF Calling
<1>3. call' = [call EXCEPT ![c] = [call[c] EXCEPT !.pc = to]]
  BY DEF Step
<1> QED
  BY <1>1, <1>2, <1>3 DEF Types, Calling

(* The context was checked: the call goes on in a bound folder.             *)
LEMMA CheckMoves ==
  ASSUME Types, NEW c \in Calls, CheckProvenance(c)
  PROVE  /\ call' \in [Calls -> {Idle} \cup Calling]
         /\ call[c] \in Calling
         /\ \/ call'[c] = Idle
            \/ call'[c] \in Calling /\ call'[c].pc = "approve" /\ call'[c].w = call[c].w
         /\ \A d \in Calls: d # c => call'[d] = call[d]
<1>1. call[c] \in Calling
  BY DEF Types, CheckProvenance, Idle
<1>2. binding[call[c].as] \in Bound
  BY <1>1 DEF Types, Calling
<1> DEFINE k == [call[c] EXCEPT !.pc = "approve", !.folder = binding[call[c].as]]
<1>3. k \in Calling /\ k.pc = "approve" /\ k.w = call[c].w
  BY <1>1, <1>2 DEF Calling
<1>4. call' = [call EXCEPT ![c] = Idle] \/ call' = [call EXCEPT ![c] = k]
  BY DEF CheckProvenance, End
<1> HIDE DEF k
<1> QED
  BY <1>1, <1>3, <1>4 DEF Types

(* The context of an approval is checked. *)
LEMMA CheckProvenanceKeeps ==
  ASSUME IInv, NEW c \in Calls, CheckProvenance(c) PROVE IInv'
<1>0. UNCHANGED <<session, binding, file, run, owner, prep, asked, payloads, consumed, writes>>
  BY DEF CheckProvenance, server, memory, local
<1>1. Types'
  BY <1>0, CheckMoves DEF IInv, Types
<1>2. ASSUME NEW v \in Writes PROVE OfRequest(v)'
  BY <1>0 DEF IInv, OfRequest
<1>3. ASSUME NEW d \in Calls PROVE OfCall(call[d])'
  <2>1. CASE d # c
    BY <1>0, <2>1, CheckMoves DEF IInv, OfCall, Active
  <2>2. CASE d = c
    BY <1>0, <2>2, CheckMoves DEF IInv, OfCall, Active, Calling, Idle
  <2> QED
    BY <2>1, <2>2
<1>4. OneActive'
  BY CheckMoves DEF IInv, OneActive, Active, Idle
<1> QED
  BY <1>1, <1>2, <1>3, <1>4 DEF IInv

(* The server hands the grant out, to the owner only. *)
LEMMA ApproveKeeps ==
  ASSUME IInv, NEW c \in Calls, Approve(c) PROVE IInv'
<1>0. /\ call[c] \in Calling /\ call[c].pc = "approve" /\ call[c].w \in Writes
      /\ UNCHANGED <<session, prep, asked, owner, payloads, consumed, binding, file, writes>>
  BY DEF IInv, Types, Approve, Calling, Idle, memory, local
<1> DEFINE w == call[c].w
           started == IF session = owner[w] /\ run[w] = "WAITING_HUMAN" THEN "RUNNING" ELSE run[w]
<1>a. /\ run' = [run EXCEPT ![w] = started]
      /\ \/ session = owner[w] /\ started = "RUNNING" /\ Step(c, "approve", "granted")
         \/ End(c)
  BY DEF Approve
<1>b. /\ call' \in [Calls -> {Idle} \cup Calling]
      /\ \A d \in Calls: d # c => call'[d] = call[d]
      /\ \/ call'[c] = Idle
         \/ /\ call'[c] \in Calling /\ call'[c].pc = "granted" /\ call'[c].w = w
            /\ session = owner[w] /\ started = "RUNNING"
  <2>1. CASE Step(c, "approve", "granted") /\ session = owner[w] /\ started = "RUNNING"
    BY <2>1, StepMoves DEF IInv
  <2>2. CASE End(c)
    BY <2>2 DEF IInv, Types, End
  <2> QED
    BY <1>a, <2>1, <2>2
<1>c. run' \in [Writes -> {"NONE", "WAITING_HUMAN", "RUNNING", "SUCCEEDED", "FAILED", "CANCELLED"}]
      /\ run'[w] = started /\ \A v \in Writes: v # w => run'[v] = run[v]
  BY <1>0, <1>a DEF IInv, Types
<1> HIDE DEF w
<1>1. Types'
  BY <1>0, <1>b, <1>c DEF IInv, Types
<1>2. ASSUME NEW v \in Writes PROVE OfRequest(v)'
  BY <1>0, <1>c DEF IInv, OfRequest, OfCall, Idle, Calling, w
<1>3. ASSUME NEW d \in Calls PROVE OfCall(call[d])'
  <2>1. CASE d # c
    <3>1. call'[d] = call[d] /\ (call[d] = Idle \/ call[d].w \in Writes)
      BY <1>b, <2>1 DEF IInv, Types, Calling
    <3>2. ASSUME NEW v \in Writes, run[v] \in {"RUNNING", "SUCCEEDED", "FAILED"} PROVE run'[v] = run[v]
      BY <1>c, <3>2
    <3> QED
      BY <1>0, <3>1, <3>2 DEF IInv, OfCall, Active
  <2>2. CASE d = c
    BY <1>0, <1>b, <1>c, <2>2 DEF IInv, OfCall, Active, Calling, Idle, w
  <2> QED
    BY <2>1, <2>2
<1>4. OneActive'
  BY <1>b DEF IInv, OneActive, Active, Idle
<1> QED
  BY <1>1, <1>2, <1>3, <1>4 DEF IInv

(* The payload is taken: no other call has taken it. *)
LEMMA TakeGrantKeeps ==
  ASSUME IInv, NEW c \in Calls, TakeGrant(c) PROVE IInv'
<1> USE DEF TakeGrant, Step, End, server, memory, local, IInv
<1>1. Types'
  BY WriteAssumption DEF Types, Bound, Contents, Calling, Idle
<1>2. ASSUME NEW v \in Writes PROVE OfRequest(v)'
  BY DEF Types, OfRequest, OfCall, Active, Calling, Idle
<1>3. ASSUME NEW d \in Calls PROVE OfCall(call[d])'
  BY DEF Types, OfRequest, OfCall, Active, Calling, Idle
<1>4. OneActive'
  BY DEF Types, OneActive, OfCall, Active, Calling, Idle
<1> QED
  BY <1>1, <1>2, <1>3, <1>4

(* The file is written, for the first time. *)
LEMMA ExecuteKeeps ==
  ASSUME IInv, NEW c \in Calls, Execute(c) PROVE IInv'
<1> DEFINE w == call[c].w
<1>0. /\ call[c] \in Calling /\ call[c].pc = "write" /\ w \in Writes /\ call[c].folder \in Bound
      /\ UNCHANGED <<session, prep, asked, run, owner, payloads, consumed, binding>>
  BY DEF IInv, Types, Execute, Calling, Idle, server, memory
<1>a. writes[w] = 0 /\ prep[w] = "done" /\ run[w] = "RUNNING" /\ w \notin payloads
  BY <1>0 DEF IInv, OfCall, Active, Idle
<1>b. \A d \in Calls: d # c /\ Active(call[d]) => call[d].w # w
  BY <1>0 DEF IInv, OneActive, Active
<1>c. /\ call' \in [Calls -> {Idle} \cup Calling]
      /\ \A d \in Calls: d # c => call'[d] = call[d]
      /\ call'[c] \in Calling /\ call'[c].w = w
      /\ \/ call'[c].pc = "written" /\ writes' = [writes EXCEPT ![w] = 1]
         \/ call'[c].pc = "unwritten" /\ writes' = writes
  <2>1. CASE Step(c, "write", "written") /\ writes' = [writes EXCEPT ![w] = @ + 1]
    BY <1>a, <2>1, StepMoves DEF IInv
  <2>2. CASE Step(c, "write", "unwritten") /\ writes' = writes
    BY <2>2, StepMoves DEF IInv
  <2> QED
    BY <2>1, <2>2 DEF Execute
<1>d. file' \in [Folders -> Contents]
  BY <1>0 DEF IInv, Types, Execute, Contents
<1> HIDE DEF w
<1>1. Types'
  BY <1>0, <1>c, <1>d DEF IInv, Types
<1>2. ASSUME NEW v \in Writes PROVE OfRequest(v)'
  BY <1>0, <1>a, <1>c DEF IInv, Types, OfRequest
<1>3. ASSUME NEW d \in Calls PROVE OfCall(call[d])'
  <2>1. CASE d # c
    BY <1>0, <1>b, <1>c, <2>1 DEF IInv, Types, OfCall, Active, Calling
  <2>2. CASE d = c
    BY <1>0, <1>a, <1>c, <2>2 DEF IInv, Types, OfCall, Active, Idle
  <2> QED
    BY <2>1, <2>2
<1>4. OneActive'
  BY <1>0, <1>b, <1>c DEF IInv, OneActive
<1> QED
  BY <1>1, <1>2, <1>3, <1>4 DEF IInv

(* The outcome is reported, and the last call that was active ends. *)
LEMMA ReportKeeps ==
  ASSUME IInv, NEW c \in Calls, Report(c) PROVE IInv'
<1> DEFINE w == call[c].w
<1>0. /\ call[c] \in Calling /\ Active(call[c]) /\ w \in Writes
      /\ UNCHANGED <<session, prep, asked, owner, payloads, consumed, binding, file, writes>>
  BY DEF IInv, Types, Report, Active, Calling, Idle, memory, local
<1>a. /\ prep[w] = "done" /\ run[w] = "RUNNING" /\ w \notin payloads
      /\ writes[w] = IF call[c].pc = "written" THEN 1 ELSE 0
  BY <1>0 DEF IInv, OfCall, Active, Idle
<1>b. \A d \in Calls: d # c /\ Active(call[d]) => call[d].w # w
  BY <1>0 DEF IInv, OneActive
<1>c. /\ call' \in [Calls -> {Idle} \cup Calling] /\ call'[c] = Idle
      /\ \A d \in Calls: d # c => call'[d] = call[d]
  BY DEF IInv, Types, Report, End
<1>d. /\ run' \in [Writes -> {"NONE", "WAITING_HUMAN", "RUNNING", "SUCCEEDED", "FAILED", "CANCELLED"}]
      /\ \A v \in Writes: v # w => run'[v] = run[v]
      /\ run'[w] \in {"RUNNING", IF call[c].pc = "written" THEN "SUCCEEDED" ELSE "FAILED"}
  BY <1>0, <1>a DEF IInv, Types, Report
<1> HIDE DEF w
<1>1. Types'
  BY <1>0, <1>a, <1>c, <1>d DEF IInv, Types
<1>2. ASSUME NEW v \in Writes PROVE OfRequest(v)'
  BY <1>0, <1>a, <1>d DEF IInv, OfRequest
<1>3. ASSUME NEW d \in Calls PROVE OfCall(call[d])'
  <2>1. CASE d # c
    BY <1>0, <1>b, <1>c, <1>d, <2>1 DEF IInv, Types, OfCall, Active, Calling
  <2>2. CASE d = c
    BY <1>c, <2>2 DEF OfCall
  <2> QED
    BY <2>1, <2>2
<1>4. OneActive'
  BY <1>c DEF IInv, OneActive, Active, Idle
<1> QED
  BY <1>1, <1>2, <1>3, <1>4 DEF IInv

(* A request that waits is rejected: nothing was written. *)
LEMMA RejectKeeps ==
  ASSUME IInv, NEW c \in Calls, NEW w \in Writes, Reject(c, w) PROVE IInv'
<1> USE DEF Reject, server, memory, local, IInv
<1>1. Types'
  BY WriteAssumption DEF Types, Bound, Contents, Calling, Idle
<1>2. ASSUME NEW v \in Writes PROVE OfRequest(v)'
  BY DEF Types, OfRequest, OfCall, Active, Calling, Idle
<1>3. ASSUME NEW d \in Calls PROVE OfCall(call[d])'
  BY DEF Types, OfRequest, OfCall, Active, Calling, Idle
<1>4. OneActive'
  BY DEF Types, OneActive, OfCall, Active, Calling, Idle
<1> QED
  BY <1>1, <1>2, <1>3, <1>4

(* A rejected request loses its payload. *)
LEMMA DropPayloadKeeps ==
  ASSUME IInv, NEW c \in Calls, DropPayload(c) PROVE IInv'
<1> USE DEF DropPayload, End, server, memory, local, IInv
<1>1. Types'
  BY WriteAssumption DEF Types, Bound, Contents, Calling, Idle
<1>2. ASSUME NEW v \in Writes PROVE OfRequest(v)'
  BY DEF Types, OfRequest, OfCall, Active, Calling, Idle
<1>3. ASSUME NEW d \in Calls PROVE OfCall(call[d])'
  BY DEF Types, OfRequest, OfCall, Active, Calling, Idle
<1>4. OneActive'
  BY DEF Types, OneActive, OfCall, Active, Calling, Idle
<1> QED
  BY <1>1, <1>2, <1>3, <1>4

(* A login: a call that holds a grant finds no payload. *)
LEMMA LoginKeeps ==
  ASSUME IInv, NEW u \in Users, Login(u) PROVE IInv'
<1> USE DEF Login, server, memory, local, IInv
<1>1. Types'
  BY WriteAssumption DEF Types, Bound, Contents, Calling, Idle
<1>2. ASSUME NEW v \in Writes PROVE OfRequest(v)'
  BY DEF Types, OfRequest, OfCall, Active, Calling, Idle
<1>3. ASSUME NEW d \in Calls PROVE OfCall(call[d])'
  BY DEF Types, OfRequest, OfCall, Active, Calling, Idle
<1>4. OneActive'
  BY DEF Types, OneActive, OfCall, Active, Calling, Idle
<1> QED
  BY <1>1, <1>2, <1>3, <1>4

(* The session ends, and with it every payload. *)
LEMMA SessionEndKeeps ==
  ASSUME IInv, Logout \/ AuthenticationLost PROVE IInv'
<1> USE DEF Logout, AuthenticationLost, ClearSensitiveState, server, memory, local, IInv
<1>1. Types'
  BY WriteAssumption DEF Types, Bound, Contents, Calling, Idle
<1>2. ASSUME NEW v \in Writes PROVE OfRequest(v)'
  BY DEF Types, OfRequest, OfCall, Active, Calling, Idle
<1>3. ASSUME NEW d \in Calls PROVE OfCall(call[d])'
  BY DEF Types, OfRequest, OfCall, Active, Calling, Idle
<1>4. OneActive'
  BY DEF Types, OneActive, OfCall, Active, Calling, Idle
<1> QED
  BY <1>1, <1>2, <1>3, <1>4

(* The memory is lost, calls and payloads together. *)
LEMMA RestartKeeps ==
  ASSUME IInv, Restart PROVE IInv'
<1> USE DEF Restart, server, memory, local, IInv
<1>1. Types'
  BY WriteAssumption DEF Types, Bound, Contents, Calling, Idle
<1>2. ASSUME NEW v \in Writes PROVE OfRequest(v)'
  BY DEF Types, OfRequest, OfCall, Active, Calling, Idle
<1>3. ASSUME NEW d \in Calls PROVE OfCall(call[d])'
  BY DEF Types, OfRequest, OfCall, Active, Calling, Idle
<1>4. OneActive'
  BY DEF Types, OneActive, OfCall, Active, Calling, Idle
<1> QED
  BY <1>1, <1>2, <1>3, <1>4

(* A folder is bound. *)
LEMMA RebindKeeps ==
  ASSUME IInv, NEW f \in Bound, Rebind(f) PROVE IInv'
<1> USE DEF Rebind, server, memory, local, IInv
<1>1. Types'
  BY WriteAssumption DEF Types, Bound, Contents, Calling, Idle
<1>2. ASSUME NEW v \in Writes PROVE OfRequest(v)'
  BY DEF Types, OfRequest, OfCall, Active, Calling, Idle
<1>3. ASSUME NEW d \in Calls PROVE OfCall(call[d])'
  BY DEF Types, OfRequest, OfCall, Active, Calling, Idle
<1>4. OneActive'
  BY DEF Types, OneActive, OfCall, Active, Calling, Idle
<1> QED
  BY <1>1, <1>2, <1>3, <1>4

(* Another program changes the file. *)
LEMMA EditKeeps ==
  ASSUME IInv, NEW f \in Folders, Edit(f) PROVE IInv'
<1> USE DEF Edit, server, memory, local, IInv
<1>1. Types'
  BY WriteAssumption DEF Types, Bound, Contents, Calling, Idle
<1>2. ASSUME NEW v \in Writes PROVE OfRequest(v)'
  BY DEF Types, OfRequest, OfCall, Active, Calling, Idle
<1>3. ASSUME NEW d \in Calls PROVE OfCall(call[d])'
  BY DEF Types, OfRequest, OfCall, Active, Calling, Idle
<1>4. OneActive'
  BY DEF Types, OneActive, OfCall, Active, Calling, Idle
<1> QED
  BY <1>1, <1>2, <1>3, <1>4

LEMMA Preserved == IInv /\ [Next]_vars => IInv'
<1> SUFFICES ASSUME IInv, [Next]_vars PROVE IInv'
  OBVIOUS
<1>1. ASSUME NEW w \in Writes, HashTarget(w) \/ Workflow(w) PROVE IInv'
  BY <1>1, HashTargetKeeps, CreateAgentRunKeeps, GetConfirmationKeeps, PrepareFailsKeeps, KeepPayloadKeeps
     DEF Workflow
<1>2. ASSUME NEW c \in Calls, Continue(c) PROVE IInv'
  BY <1>2, CheckProvenanceKeeps, ApproveKeeps, TakeGrantKeeps, ExecuteKeeps, ReportKeeps, DropPayloadKeeps
     DEF Continue
<1>3. ASSUME NEW c \in Calls, NEW w \in Writes, BeginApprove(c, w) \/ Reject(c, w) PROVE IInv'
  BY <1>3, BeginApproveKeeps, RejectKeeps
<1>4. ASSUME NEW u \in Users, Login(u) PROVE IInv'
  BY <1>4, LoginKeeps
<1>5. ASSUME NEW f \in Bound, Rebind(f) PROVE IInv'
  BY <1>5, RebindKeeps
<1>6. ASSUME NEW f \in Folders, Edit(f) PROVE IInv'
  BY <1>6, EditKeeps
<1>7. CASE Logout \/ AuthenticationLost \/ Restart
  BY <1>7, SessionEndKeeps, RestartKeeps
<1>8. CASE UNCHANGED vars
  BY <1>8 DEF vars, server, memory, local, IInv, Types, OfRequest, OfCall, OneActive
<1> QED
  BY <1>1, <1>2, <1>3, <1>4, <1>5, <1>6, <1>7, <1>8 DEF Next

LEMMA Invariant == Spec => []IInv
<1> QED
  BY Begins, Preserved, PTL DEF Spec

-----------------------------------------------------------------------------
(* Types, which the strengthened invariant contains.                        *)
THEOREM TypeCorrect == Spec => []TypeOK
<1>1. IInv => TypeOK
  BY DEF IInv, Types, TypeOK, Calling
<1> QED
  BY <1>1, Invariant, PTL

(* A request writes the file at most once, although grants are handed out   *)
(* again and a logout or a restart forgets which ones were consumed.        *)
THEOREM WrittenOnce == Spec => []OneShot
<1>1. IInv => OneShot
  BY DEF IInv, Types, OneShot
<1> QED
  BY <1>1, Invariant, PTL

(* The final status of the server is true: SUCCEEDED of a request that      *)
(* wrote the file, FAILED or CANCELLED of one that never will.              *)
THEOREM StatusIsTrue == Spec => []ReportTrue
<1>1. IInv => ReportTrue
  <2> SUFFICES ASSUME IInv, NEW w \in Writes
               PROVE  /\ run[w] = "SUCCEEDED" => writes[w] = 1
                      /\ run[w] \in {"FAILED", "CANCELLED"} =>
                           writes[w] = 0 /\ \A c \in Calls: ~(call[c].pc = "write" /\ call[c].w = w)
    BY DEF ReportTrue
  <2>1. (run[w] = "SUCCEEDED" => writes[w] = 1) /\ (run[w] \in {"FAILED", "CANCELLED"} => writes[w] = 0)
    BY DEF IInv, OfRequest
  <2>2. ASSUME NEW c \in Calls, call[c].pc = "write", call[c].w = w PROVE run[w] = "RUNNING"
    BY <2>2 DEF IInv, OfCall, Active, Idle
  <2> QED
    BY <2>1, <2>2
<1> QED
  BY <1>1, Invariant, PTL

(* A call that outlives its session finds nothing to write.                 *)
THEOREM UsedByItsOwner == Spec => UsedInOwnSession
<1> DEFINE Used == \A c \in Calls: (call[c].pc = "granted" /\ call'[c].pc = "write") => session = owner[call[c].w]
<1>1. IInv /\ [Next]_vars => [Used]_vars
  <2> SUFFICES ASSUME IInv, Next, NEW c \in Calls, call[c].pc = "granted", call'[c].pc = "write"
               PROVE  session = owner[call[c].w]
    OBVIOUS
  <2>1. call[c] # Idle /\ (call[c].w \in payloads => session = owner[call[c].w])
    BY DEF IInv, OfCall, Idle
  <2>2. ASSUME NEW d \in Calls, Continue(d) PROVE call[c].w \in payloads
    <3>1. CASE TakeGrant(d)
      BY <3>1 DEF IInv, Types, TakeGrant, Step, End, Idle
    <3>2. CASE CheckProvenance(d) \/ Report(d) \/ DropPayload(d)
      BY <3>2, CheckMoves DEF IInv, Types, Report, DropPayload, End, Idle
    <3>3. CASE Approve(d) \/ Execute(d)
      BY <3>3 DEF IInv, Types, Approve, Execute, Step, End, Idle
    <3> QED
      BY <2>2, <3>1, <3>2, <3>3 DEF Continue
  <2>3. ASSUME NEW d \in Calls, NEW w \in Writes, BeginApprove(d, w) \/ Reject(d, w) PROVE FALSE
    BY <2>3 DEF IInv, Types, BeginApprove, Reject, Idle
  <2>4. ASSUME call' = call PROVE FALSE
    BY <2>4
  <2>5. CASE Restart
    BY <2>5 DEF Restart, Idle
  <2> QED
    BY <2>1, <2>2, <2>3, <2>4, <2>5
       DEF Next, Workflow, HashTarget, CreateAgentRun, GetConfirmation, PrepareFails, KeepPayload,
           Login, Rebind, Edit, Logout, AuthenticationLost
<1> QED
  BY <1>1, Invariant, PTL DEF Spec, UsedInOwnSession

-----------------------------------------------------------------------------
(* A step changes the stage of no request but one, and of that one as       *)
(* WriteLifecycle allows.                                                   *)
LEMMA Advances ==
  ASSUME NEW w \in Writes, \A v \in Writes: v # w => Stage(v)' = Stage(v),
         \/ Stage(w)' = Stage(w)
         \/ Stage(w) = "none" /\ Stage(w)' = "waiting"
         \/ Stage(w) = "waiting" /\ Stage(w)' \in {"approved", "cancelled"}
         \/ Stage(w) = "approved" /\ Stage(w)' \in {"written", "failed"}
         \/ Stage(w) = "written" /\ Stage(w)' = "succeeded"
  PROVE  [Lifecycle!Next]_([v \in Writes |-> Stage(v)])
<1> DEFINE S == [v \in Writes |-> Stage(v)]
<1>1. CASE Stage(w)' = Stage(w)
  BY <1>1
<1>2. CASE Stage(w)' # Stage(w)
  <2>1. S' = [S EXCEPT ![w] = Stage(w)']
    OBVIOUS
  <2>2. Lifecycle!Request(w) \/ Lifecycle!Decide(w) \/ Lifecycle!Write(w) \/ Lifecycle!Report(w)
    BY <1>2, <2>1 DEF Lifecycle!Request, Lifecycle!Decide, Lifecycle!Write, Lifecycle!Report, Lifecycle!Move
  <2> QED
    BY <2>2 DEF Lifecycle!Next
<1> QED
  BY <1>1, <1>2

(* The workflow implements WriteLifecycle.                                  *)
THEOREM Implements == Spec => RefinesLifecycle
<1>1. Init => Lifecycle!Init
  BY DEF Init, Lifecycle!Init, Stage
<1>2. IInv /\ [Next]_vars => [Lifecycle!Next]_([w \in Writes |-> Stage(w)])
  <2> SUFFICES ASSUME IInv, [Next]_vars PROVE [Lifecycle!Next]_([w \in Writes |-> Stage(w)])
    OBVIOUS
  <2>1. ASSUME UNCHANGED <<run, writes>> PROVE UNCHANGED [w \in Writes |-> Stage(w)]
    BY <2>1 DEF Stage
  <2>2. ASSUME NEW w \in Writes, CreateAgentRun(w) PROVE [Lifecycle!Next]_([v \in Writes |-> Stage(v)])
    <3>1. run[w] = "NONE" /\ run' = [run EXCEPT ![w] = "WAITING_HUMAN"] /\ writes' = writes
      BY <2>2 DEF IInv, OfRequest, CreateAgentRun, Prepare, local
    <3>2. /\ Stage(w) = "none" /\ Stage(w)' = "waiting"
          /\ \A v \in Writes: v # w => Stage(v)' = Stage(v)
      BY <3>1 DEF IInv, Types, Stage
    <3> QED
      BY <3>2, Advances
  <2>3. ASSUME NEW c \in Calls, Approve(c) PROVE [Lifecycle!Next]_([v \in Writes |-> Stage(v)])
    <3>0. PICK w \in Writes: w = call[c].w
      BY <2>3 DEF IInv, Types, Approve, Idle, Calling
    <3>1. writes' = writes
      BY <2>3, <3>0 DEF IInv, Types, Approve, Idle, Calling, local
    <3>2. run' = run \/ (run[w] = "WAITING_HUMAN" /\ run' = [run EXCEPT ![w] = "RUNNING"])
      BY <2>3, <3>0, <3>1 DEF IInv, Types, Approve
    <3>3. CASE run[w] = "WAITING_HUMAN" /\ run' = [run EXCEPT ![w] = "RUNNING"]
      <4>1. writes[w] = 0
        BY <3>1, <3>3 DEF IInv, OfRequest
      <4>2. /\ Stage(w) = "waiting" /\ Stage(w)' = "approved"
            /\ \A v \in Writes: v # w => Stage(v)' = Stage(v)
        BY <3>1, <3>3, <4>1 DEF IInv, Types, Stage
      <4> QED
        BY <3>1, <4>2, Advances
    <3> QED
      BY <2>1, <3>1, <3>2, <3>3
  <2>4. ASSUME NEW c \in Calls, Execute(c) PROVE [Lifecycle!Next]_([v \in Writes |-> Stage(v)])
    <3>0. PICK w \in Writes: w = call[c].w
      BY <2>4 DEF IInv, Types, Execute, Idle, Calling
    <3>1. run' = run /\ run[w] = "RUNNING" /\ writes[w] = 0
      BY <2>4, <3>0 DEF IInv, Types, Execute, OfCall, Active, Idle, Calling, server
    <3>2. writes' = writes \/ writes' = [writes EXCEPT ![w] = 1]
      BY <2>4, <3>0, <3>1 DEF Execute
    <3>3. CASE writes' = [writes EXCEPT ![w] = 1]
      <4>1. /\ Stage(w) = "approved" /\ Stage(w)' = "written"
            /\ \A v \in Writes: v # w => Stage(v)' = Stage(v)
        BY <3>1, <3>3 DEF IInv, Types, Stage
      <4> QED
        BY <3>1, <4>1, Advances
    <3> QED
      BY <2>1, <3>1, <3>2, <3>3
  <2>5. ASSUME NEW c \in Calls, Report(c) PROVE [Lifecycle!Next]_([v \in Writes |-> Stage(v)])
    <3>0. PICK w \in Writes: w = call[c].w
      BY <2>5 DEF IInv, Types, Report, Idle, Calling
    <3> DEFINE status == IF call[c].pc = "written" THEN "SUCCEEDED" ELSE "FAILED"
    <3>1. /\ writes' = writes /\ run[w] = "RUNNING"
          /\ writes[w] = IF call[c].pc = "written" THEN 1 ELSE 0
      BY <2>5, <3>0 DEF IInv, Types, Report, OfCall, Active, Idle, Calling, local
    <3>2. run' = run \/ run' = [run EXCEPT ![w] = status]
      BY <2>5, <3>0 DEF Report
    <3>3. CASE run' = [run EXCEPT ![w] = status]
      <4>1. /\ \/ Stage(w) = "written" /\ Stage(w)' = "succeeded"
               \/ Stage(w) = "approved" /\ Stage(w)' = "failed"
            /\ \A v \in Writes: v # w => Stage(v)' = Stage(v)
        BY <3>1, <3>3 DEF IInv, Types, Stage
      <4> QED
        BY <3>1, <4>1, Advances
    <3> QED
      BY <2>1, <3>1, <3>2, <3>3
  <2>6. ASSUME NEW c \in Calls, NEW w \in Writes, Reject(c, w) PROVE [Lifecycle!Next]_([v \in Writes |-> Stage(v)])
    <3>1. /\ writes' = writes /\ run' = [run EXCEPT ![w] = "CANCELLED"]
          /\ run[w] \in {"WAITING_HUMAN", "CANCELLED"}
      BY <2>6 DEF Reject, local
    <3>2. /\ \/ Stage(w) = "waiting" /\ Stage(w)' = "cancelled"
             \/ Stage(w)' = Stage(w)
          /\ \A v \in Writes: v # w => Stage(v)' = Stage(v)
      BY <3>1 DEF IInv, Types, Stage
    <3> QED
      BY <3>2, Advances
  <2>7. ASSUME NEW w \in Writes, HashTarget(w) \/ GetConfirmation(w) \/ PrepareFails(w) \/ KeepPayload(w)
        PROVE  UNCHANGED <<run, writes>>
    BY <2>7 DEF HashTarget, GetConfirmation, PrepareFails, KeepPayload, server, local
  <2>8. ASSUME NEW c \in Calls, CheckProvenance(c) \/ TakeGrant(c) \/ DropPayload(c)
        PROVE  UNCHANGED <<run, writes>>
    BY <2>8 DEF CheckProvenance, TakeGrant, DropPayload, server, local
  <2>9. ASSUME NEW c \in Calls, NEW w \in Writes, BeginApprove(c, w) PROVE UNCHANGED <<run, writes>>
    BY <2>9 DEF BeginApprove, server, local
  <2>10. ASSUME \/ \E u \in Users: Login(u)
                \/ \E f \in Bound: Rebind(f)
                \/ \E f \in Folders: Edit(f)
                \/ Logout \/ AuthenticationLost \/ Restart \/ UNCHANGED vars
         PROVE  UNCHANGED <<run, writes>>
    BY <2>10 DEF Login, Rebind, Edit, Logout, AuthenticationLost, Restart, vars, server, local
  <2> QED
    BY <2>1, <2>2, <2>3, <2>4, <2>5, <2>6, <2>7, <2>8, <2>9, <2>10 DEF Next, Workflow, Continue
<1> QED
  BY <1>1, <1>2, Invariant, PTL DEF Spec, RefinesLifecycle, Lifecycle!Spec
===============================================================================
