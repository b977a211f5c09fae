------------------------------ MODULE DesktopMain ------------------------------
(***************************************************************************)
(* Electron Main: its services side by side in one event loop.  They share *)
(* no variable: LocalWriteService replaces files, DesktopApiGateway keeps  *)
(* the session, WorkspaceService the bindings, LocalReadService reads, and *)
(* one tool run is answered to the API.  To WorkspaceService the session   *)
(* is another's, which may change at any time.                             *)
(***************************************************************************)
EXTENDS LocalWrite, Naturals, Sequences

CONSTANTS
  GatewayCalls, MaxRestarts,                             \* GatewaySession
  Users, Folders, Selects, Unbinds, FolderReads, Runs,   \* WorkspaceBinding
  Names, Root, Links, Requests, MaxRead, MaxSize,        \* LocalRead
  Hashes, MaxWrite                                       \* ToolReceipt

VARIABLES
  token, generation, asked, sessions, wanted, restarts,         \* GatewaySession
  session, disk, chain, call,                                   \* WorkspaceBinding
  size, info, read, ends, at, path, opened,                     \* LocalRead
  platform, intent, request, status, shown, sent, verdict       \* ToolReceipt

Gateway == INSTANCE GatewaySession WITH Calls <- GatewayCalls, call <- asked, intent <- wanted
Binding == INSTANCE WorkspaceBinding WITH Reads <- FolderReads
Reading == INSTANCE LocalRead WITH Limit <- MaxRead, pc <- at
Receipt == INSTANCE ToolReceipt WITH Limit <- MaxWrite

gateway == <<token, generation, asked, sessions, wanted, restarts>>
binding == <<session, disk, chain, call>>
reading == <<size, info, read, ends, at, path, opened>>
receipt == <<platform, intent, request, status, shown, sent, verdict>>
desktop == <<vars, gateway, binding, reading, receipt>>

(* A call is of one kind, "none" and "NONE" are nobody's name, and the      *)
(* file system answers realpath with a path.                                *)
ASSUME DesktopMainAssumption ==
  /\ "none" \notin GatewayCalls /\ MaxRestarts \in Nat
  /\ "NONE" \notin Users \cup Folders \cup Selects
  /\ Selects \cap Unbinds = {} /\ FolderReads \cap Runs = {}
  /\ (Selects \cup Unbinds) \cap (FolderReads \cup Runs) = {}
  /\ MaxRead \in Nat /\ MaxSize \in Nat /\ MaxWrite \in Nat
  /\ Root \in Seq(Names)
  /\ \A r \in Requests: Reading!Valid(r) => Reading!RealPath(Root \o r) \in Seq(Names)

MainInit == Init /\ Gateway!Init /\ Binding!Init /\ Reading!Init /\ Receipt!Init

WriteStep == Next /\ UNCHANGED <<gateway, binding, reading, receipt>>
GatewayStep == Gateway!Next /\ UNCHANGED <<vars, binding, reading, receipt>>
BindingStep == Binding!Next /\ UNCHANGED <<vars, gateway, reading, receipt>>
ReadStep == Reading!Next /\ UNCHANGED <<vars, gateway, binding, receipt>>
ReceiptStep == Receipt!Next /\ UNCHANGED <<vars, gateway, binding, reading>>

MainNext == WriteStep \/ GatewayStep \/ BindingStep \/ ReadStep \/ ReceiptStep

MainSpec == MainInit /\ [][MainNext]_desktop /\ Fairness /\ Binding!Fairness

-----------------------------------------------------------------------------
(* The session is the one the user asked for last: an answer that was       *)
(* overtaken by a later login or logout installs nothing, brings no session *)
(* back and takes none away, and a logout revokes the token it gave up.     *)
LatestIntentWins ==
  /\ [](Gateway!TypeOK /\ Gateway!LogoutIsFinal)
  /\ Gateway!NoOlderLogin
  /\ Gateway!LateAnswersHarmless
  /\ Gateway!LoggedOutIsRevoked

(* Bindings of other employees survive every mutation, although each        *)
(* rewrites the whole file; ids stay apart; and a lookup answers only when  *)
(* the mutations called before it have ended.                               *)
BindingsKept ==
  /\ [](Binding!TypeOK /\ Binding!OwnId)
  /\ Binding!NothingLost
  /\ Binding!ObservesStarted

(* Liveness: the queue of mutations of the bindings is always worked off,   *)
(* although those at its head may fail.                                     *)
MutationsEnd == Binding!ChainDrains

(* A read stays in the workspace folder whatever links there are, what it   *)
(* returns is never cut short, although the file's size changes, and a      *)
(* write that ended leaves no temporary file.                               *)
FilesAreWhole ==
  /\ TypeOK /\ NoLitter
  /\ Reading!TypeOK /\ Reading!InsideWorkspace /\ Reading!NeverTruncated

(* What the Desktop answers to a portable request is taken by the API, on   *)
(* Windows and elsewhere, and a confirmation that was shown can be written. *)
ReceiptsAreTaken == Receipt!TypeOK /\ Receipt!ReceiptsAreTaken /\ Receipt!ShownCanBeWritten
===============================================================================
