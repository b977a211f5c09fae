--------------------------- MODULE WorkspaceBinding ---------------------------
(***************************************************************************)
(* The desktop's workspace bindings: WorkspaceService over WorkspaceStore, *)
(* and the agent runs that read in the bound folder                        *)
(* (DesktopAgentRunCoordinator, AgentToolExecutor), on one device for one  *)
(* project.                                                                *)
(*                                                                         *)
(* The store keeps all bindings in one JSON file.  mutate reads, changes   *)
(* and replaces the whole file behind a chain of promises, so a mutation   *)
(* that overtook another would write back a stale image of every other     *)
(* employee's binding.  get waits for the mutations called before it only. *)
(* An IPC call is used once; folders stand for canonical paths, and the    *)
(* file is replaced by rename, which a reader sees whole.                  *)
(***************************************************************************)
EXTENDS Sequences, SequencesExt, FiniteSets

CONSTANTS
  Users,
  Folders,
  Selects, Unbinds, Reads, Runs   \* calls of each kind

Calls == Selects \cup Unbinds \cup Reads \cup Runs

VARIABLES
  session,   \* whose token the gateway holds
  disk,      \* workspace-bindings.json: each employee's binding
  chain,     \* mutations whose promise is not settled, in the order of their calls
  call

vars == <<session, disk, chain, call>>

NoBinding == [id |-> "NONE", folder |-> "NONE"]
Bindings == [id: Selects, folder: Folders] \cup {NoBinding}
Fresh == [pc |-> "start", as |-> "NONE", owner |-> "NONE", want |-> NoBinding,
          wait |-> {}, image |-> [u \in Users |-> NoBinding], read |-> FALSE, got |-> "NONE"]
Ended == {"done", "failed"}

TypeOK ==
  /\ session \in Users \cup {"NONE"}
  /\ disk \in [Users -> Bindings]
  /\ IsInjective(chain) /\ Range(chain) \subseteq Selects \cup Unbinds
  /\ \A c \in Calls:
       /\ call[c].pc \in {"start", "dialog", "check", "authorize", "get", "mutate", "read", "report"} \cup Ended
       /\ {call[c].as, call[c].owner} \subseteq Users \cup {"NONE"}
       /\ call[c].want \in [id: Selects \cup {"NONE"}, folder: Folders \cup {"NONE"}]
       /\ call[c].wait \subseteq Selects \cup Unbinds
       /\ call[c].image \in [Users -> Bindings]
       /\ call[c].got \in Folders \cup {"NONE"}
  /\ \A c \in Selects \cup Unbinds: call[c].pc = "mutate" <=> c \in Range(chain)

Init ==
  /\ session \in Users
  /\ disk = [u \in Users |-> NoBinding]
  /\ chain = <<>>
  /\ call = [c \in Calls |-> Fresh]

Go(c, from, to) == call[c].pc = from /\ call' = [call EXCEPT ![c].pc = to]

(* Starts store.get for the employee of the call: it awaits this.pending. *)
Lookup(c, from, u, want) ==
  /\ call[c].pc = from
  /\ call' = [call EXCEPT ![c].pc = "get", ![c].as = u, ![c].want = want, ![c].wait = Range(chain)]

(* Mutant: get reads at once. *)
NoWait(c) == TRUE

Settled(c) == \A m \in call[c].wait: call[m].pc \in Ended

-----------------------------------------------------------------------------
(* WorkspaceService *)

(* select: authorize, then the dialog stays open as long as it likes. *)
OpenDialog(c) ==
  /\ session # "NONE"
  /\ call[c].pc = "start"
  /\ call' = [call EXCEPT ![c].pc = "dialog", ![c].as = session]
  /\ UNCHANGED <<session, disk, chain>>

Choose(c) ==
  /\ \/ \E f \in Folders:
          Lookup(c, "dialog", call[c].as, [id |-> "NONE", folder |-> f])
     \/ Go(c, "dialog", "done")
  /\ UNCHANGED <<session, disk, chain>>

(* Mutant: the binding to replace is found by project and device only. *)
UpsertAnyUser(c) ==
  /\ call[c].pc = "get" /\ Settled(c)
  /\ \E u \in Users:
       call' = [call EXCEPT ![c].pc = "mutate",
                            ![c].want.id = IF disk[u].id = "NONE" THEN c ELSE disk[u].id]
  /\ chain' = Append(chain, c)
  /\ UNCHANGED <<session, disk>>

(* The binding keeps the id of the one it replaces, and is upserted. *)
Upsert(c) ==
  /\ call[c].pc = "get" /\ Settled(c)
  /\ LET existing == disk[call[c].as].id IN
       call' = [call EXCEPT ![c].pc = "mutate",
                            ![c].want.id = IF existing = "NONE" THEN c ELSE existing]
  /\ chain' = Append(chain, c)
  /\ UNCHANGED <<session, disk>>

(* unbind asks for the current user, not for the project. *)
Unbind(c) ==
  /\ session # "NONE"
  /\ call[c].pc = "start"
  /\ call' = [call EXCEPT ![c].pc = "mutate", ![c].as = session]
  /\ chain' = Append(chain, c)
  /\ UNCHANGED <<session, disk>>

(* listDirectory and readFile *)
Authorize(c) ==
  /\ session # "NONE"
  /\ Lookup(c, IF c \in Runs THEN "authorize" ELSE "start", session, NoBinding)
  /\ UNCHANGED <<session, disk, chain>>

AuthorizedBinding(c) ==
  /\ call[c].pc = "get" /\ Settled(c)
  /\ LET b == disk[call[c].as] IN
       call' = [call EXCEPT ![c].pc = IF b # NoBinding THEN "read"
                                      ELSE IF c \in Runs THEN "report" ELSE "failed",
                            ![c].got = b.folder]
  /\ UNCHANGED <<session, disk, chain>>

ReadFolder(c) ==
  /\ \/ Go(c, "read", IF c \in Runs THEN "report" ELSE "done")
     \/ /\ call[c].pc = "read"
        /\ call' = [call EXCEPT ![c].pc = IF c \in Runs THEN "report" ELSE "failed", ![c].got = "NONE"]
  /\ UNCHANGED <<session, disk, chain>>

-----------------------------------------------------------------------------
(* DesktopAgentRunCoordinator.run and AgentToolExecutor.execute *)

CreateAgentRun(c) ==
  /\ session # "NONE"
  /\ call[c].pc = "start"
  /\ call' = [call EXCEPT ![c].pc = "check", ![c].owner = session]
  /\ UNCHANGED <<session, disk, chain>>

(* The tool runs only for the user the request names; otherwise, as when   *)
(* nobody is signed in, the failure itself is reported.                    *)
CheckUser(c) ==
  /\ Go(c, "check", IF session = call[c].owner THEN "authorize" ELSE "report")
  /\ UNCHANGED <<session, disk, chain>>

AuthorizeFails(c) ==
  /\ session = "NONE"
  /\ \/ c \in Runs /\ Go(c, "authorize", "report")
     \/ c \notin Runs /\ Go(c, "start", "failed")
  /\ UNCHANGED <<session, disk, chain>>

(* completeAgentRun: only the owner's session may report.  The local       *)
(* result is returned to the renderer with the completed run.              *)
Complete(c) ==
  /\ Go(c, "report", IF session = call[c].owner THEN "done" ELSE "failed")
  /\ UNCHANGED <<session, disk, chain>>

-----------------------------------------------------------------------------
(* WorkspaceStore.mutate *)

Turn(c) == Head(chain) = c

Mutation(c) ==
  [call[c].image EXCEPT ![call[c].as] = IF c \in Unbinds THEN NoBinding ELSE call[c].want]

(* Mutant: the file is read when the mutation is called. *)
ReadEarly(c) ==
  /\ call[c].pc = "mutate"
  /\ ~call[c].read
  /\ call' = [call EXCEPT ![c].image = disk, ![c].read = TRUE]
  /\ UNCHANGED <<session, disk, chain>>

ReadRaw(c) ==
  /\ call[c].pc = "mutate" /\ Turn(c)
  /\ ~call[c].read
  /\ call' = [call EXCEPT ![c].image = disk, ![c].read = TRUE]
  /\ UNCHANGED <<session, disk, chain>>

WriteJsonAtomically(c) ==
  /\ call[c].pc = "mutate" /\ Turn(c)
  /\ call[c].read
  /\ disk' = Mutation(c)
  /\ chain' = Tail(chain)
  /\ call' = [call EXCEPT ![c].pc = "done"]
  /\ UNCHANGED session

(* Mutant: pending does not catch, so that what follows is never run.      *)
FailForGood(c) ==
  /\ call[c].pc = "mutate" /\ Turn(c)
  /\ call' = [call EXCEPT ![c].pc = "failed"]
  /\ UNCHANGED <<session, disk, chain>>

(* Reading or writing fails: the caller is told, pending catches it. *)
Fail(c) ==
  /\ call[c].pc = "mutate" /\ Turn(c)
  /\ chain' = Tail(chain)
  /\ call' = [call EXCEPT ![c].pc = "failed"]
  /\ UNCHANGED <<session, disk>>

SwitchUser(u) == session' = u /\ UNCHANGED <<disk, chain, call>>

Mutate(c) == ReadRaw(c) \/ WriteJsonAtomically(c) \/ Fail(c)

Next ==
  \/ \E c \in Selects: OpenDialog(c) \/ Choose(c) \/ Upsert(c)
  \/ \E c \in Unbinds: Unbind(c)
  \/ \E c \in Reads \cup Runs: Authorize(c) \/ AuthorizeFails(c) \/ AuthorizedBinding(c) \/ ReadFolder(c)
  \/ \E c \in Runs: CreateAgentRun(c) \/ CheckUser(c) \/ Complete(c)
  \/ \E c \in Selects \cup Unbinds: Mutate(c)
  \/ \E u \in Users \cup {"NONE"}: SwitchUser(u)

Spec == Init /\ [][Next]_vars

Fairness ==
  /\ \A c \in Selects: WF_vars(Upsert(c))
  /\ \A c \in Reads \cup Runs: WF_vars(AuthorizedBinding(c)) /\ WF_vars(ReadFolder(c))
  /\ \A c \in Runs: WF_vars(CheckUser(c)) /\ WF_vars(Complete(c))
  /\ \A c \in Selects \cup Unbinds: WF_vars(Mutate(c))

-----------------------------------------------------------------------------
(* A mutation changes the binding of its own employee and leaves every     *)
(* other one in the file, although it rewrites the whole file.             *)
NothingLost ==
  [][disk' # disk => \E c \in Range(chain): \A u \in Users \ {call[c].as}: disk'[u] = disk[u]]_vars

(* get observes a started mutation: no lookup answers before every         *)
(* mutation called before it has ended.                                    *)
ObservesStarted ==
  [][\A c \in Calls:
       call[c].pc = "get" /\ call'[c].pc # "get" => Range(chain) \cap call[c].wait = {}]_vars

(* Two employees never share a binding id, however selections, removals    *)
(* and changes of the session mix.                                         *)
OwnId == \A u, v \in Users: u # v /\ disk[u] # NoBinding => disk[u].id # disk[v].id

(* Liveness: the queue of mutations is always worked off, although those   *)
(* at its head may fail.                                                   *)
ChainDrains == (chain # <<>>) ~> (chain = <<>>)
===============================================================================
