------------------------------ MODULE ToolReceipt ------------------------------
(***************************************************************************)
(* One tool run between the API and Electron Main: which requests the API  *)
(* stores, what the Desktop makes of them, and which receipts the API then *)
(* takes.  The API's lexical rule of paths is portable; the Desktop's is   *)
(* that of its platform, and differs between reading and writing.          *)
(*                                                                         *)
(* A path is described by what the rules tell apart: how it begins and     *)
(* whether it climbs (has a segment "..").  A path with a NUL is left out: *)
(* no column can hold it.  Sizes are 0, Limit and one more.                *)
(***************************************************************************)
EXTENDS Naturals

CONSTANTS
  Hashes,      \* SHA-256 hashes
  Limit        \* MAX_WRITE_PAYLOAD_BYTES and MAX_WRITE_BYTES

VARIABLES
  platform,   \* of the Desktop: posix or win32
  intent,     \* what the user asked for
  request,    \* the stored ToolRequest, or None
  status,     \* of the AgentRun
  shown,      \* whether the Desktop showed the confirmation of a write
  sent,       \* the receipt that the Desktop sent, or None
  verdict     \* how the API answered it

vars == <<platform, intent, request, status, shown, sent, verdict>>

Starts == {"name", "empty", "blank", "slash", "backslash", "drive", "driveRoot"}
PathForms == {p \in [start: Starts, climbs: BOOLEAN]: p.start \in {"empty", "blank"} => ~p.climbs}
Sizes == {0, Limit, Limit + 1}
None == [name |-> "none"]

Reads == [name: {"list_directory", "read_file"}, path: PathForms]
Writes == [name: {"write_file"}, path: PathForms, size: Sizes, sha: Hashes, effect: {"CREATE", "REPLACE"},
           expected: Hashes \cup {"none"}]
Failed == [name |-> "FAILED"]

TypeOK ==
  /\ platform \in {"posix", "win32"}
  /\ intent \in Reads \cup Writes /\ request \in {intent, None}
  /\ status \in {"none", "RUNNING", "WAITING_HUMAN", "SUCCEEDED", "FAILED"}
  /\ shown \in BOOLEAN
  /\ sent = None \/ sent = Failed \/ sent.name = intent.name
  /\ verdict \in {"none", "taken", "INVALID"}

Init ==
  /\ platform \in {"posix", "win32"}
  /\ intent \in Reads \cup Writes
  /\ request = None /\ status = "none" /\ shown = FALSE /\ sent = None /\ verdict = "none"

-----------------------------------------------------------------------------
(* The API: runtime-validation.ts *)

Safe(p, allowEmpty) ==
  /\ p.start = "empty" => allowEmpty
  /\ p.start \in {"empty", "name"} /\ ~p.climbs

(* normalizeToolRequest # undefined *)
Normal(r) ==
  /\ Safe(r.path, r.name = "list_directory")
  /\ r.name = "write_file" =>
       /\ r.size <= Limit
       /\ r.effect = "CREATE" <=> r.expected = "none"

(* Mutant: the size of a read is limited, and the limit is one byte off. *)
MatchesBelowLimit(r, receipt) ==
  /\ receipt.name = r.name /\ receipt.path = r.path
  /\ r.name = "read_file" => receipt.size < Limit
  /\ r.name = "write_file" => receipt.size = r.size /\ receipt.sha = r.sha /\ receipt.effect = r.effect

Matches(r, receipt) ==
  /\ receipt.name = r.name /\ receipt.path = r.path
  /\ r.name = "write_file" => receipt.size = r.size /\ receipt.sha = r.sha /\ receipt.effect = r.effect

(* The route's schema.  createCatalogRun stores what it admits as it is.    *)
Admitted(r) ==
  /\ r.name # "list_directory" => r.path.start # "empty"
  /\ r.name = "write_file" => r.size <= Limit /\ (r.effect = "CREATE" <=> r.expected = "none")

Store ==
  /\ request' = intent
  /\ status' = IF intent.name = "write_file" THEN "WAITING_HUMAN" ELSE "RUNNING"
  /\ UNCHANGED <<platform, intent, shown, sent, verdict>>

-----------------------------------------------------------------------------
(* The Desktop *)

Absolute(p) ==
  p.start \in {"slash"} \cup IF platform = "win32" THEN {"backslash", "driveRoot"} ELSE {}

(* validateRelativePath *)
Readable(p, allowEmpty) == (p.start = "empty" => allowEmpty) /\ ~Absolute(p) /\ ~p.climbs

(* resolveTarget *)
Writable(p) == p.start \notin {"empty", "blank"} /\ ~Absolute(p) /\ ~p.climbs

(* DesktopAgentRunCoordinator.run: every intent goes to the API first. *)
CreateRead ==
  /\ request = None /\ intent \in Reads /\ Admitted(intent)
  /\ Store

(* ConfirmedWriteCoordinator.prepare: the file is looked at first. *)
CreateWrite ==
  /\ request = None /\ intent \in Writes
  /\ intent.size <= Limit /\ Writable(intent.path) /\ (intent.effect = "CREATE" <=> intent.expected = "none")
  /\ Admitted(intent)
  /\ Store

(* Mutant: what prepare asked for is shown, not what the API answers. *)
ShowUnread ==
  /\ status = "WAITING_HUMAN" /\ ~shown
  /\ shown' = TRUE
  /\ UNCHANGED <<platform, intent, request, status, sent, verdict>>

(* getHumanConfirmation: without a normal request there is no detail.       *)
Show ==
  /\ status = "WAITING_HUMAN" /\ ~shown
  /\ Normal(request)
  /\ shown' = TRUE
  /\ UNCHANGED <<platform, intent, request, status, sent, verdict>>

Approve ==
  /\ status = "WAITING_HUMAN" /\ shown
  /\ Normal(request)
  /\ status' = "RUNNING"
  /\ UNCHANGED <<platform, intent, request, shown, sent, verdict>>

Send(receipt) ==
  /\ status = "RUNNING" /\ sent = None
  /\ sent' = receipt
  /\ UNCHANGED <<platform, intent, request, status, shown, verdict>>

(* AgentToolExecutor.execute, with the path as it was asked for.            *)
Listed == request.name = "list_directory" /\ Readable(request.path, TRUE) /\ Send(request)
Read ==
  /\ request.name = "read_file" /\ Readable(request.path, FALSE)
  /\ \E size \in {0, Limit}, sha \in Hashes:
       Send([name |-> "read_file", path |-> request.path, size |-> size, sha |-> sha])

(* successReceipt: from the grant.                                          *)
Written ==
  /\ request.name = "write_file"
  /\ Send([name |-> "write_file", path |-> request.path, size |-> request.size, sha |-> request.sha,
           effect |-> request.effect])

(* No such file, a file of the wrong kind, a refused path, a changed file.  *)
FailedLocally == Send(Failed)

-----------------------------------------------------------------------------
(* AgentRunRepository.complete *)

Complete ==
  /\ sent # None /\ verdict = "none"
  /\ LET taken == Normal(request) /\ (sent = Failed \/ Matches(request, sent))
     IN /\ verdict' = IF taken THEN "taken" ELSE "INVALID"
        /\ status' = IF ~taken THEN status ELSE IF sent = Failed THEN "FAILED" ELSE "SUCCEEDED"
  /\ UNCHANGED <<platform, intent, request, shown, sent>>

Next == CreateRead \/ CreateWrite \/ Show \/ Approve \/ Listed \/ Read \/ Written \/ FailedLocally \/ Complete

Spec == Init /\ [][Next]_vars

-----------------------------------------------------------------------------
(* What the Desktop answers to a portable request is never refused: the two *)
(* programs describe one file by the same receipt.                          *)
ReceiptsAreTaken == verdict = "INVALID" => ~Safe(request.path, request.name = "list_directory")

(* A confirmation that was shown can be decided, and its write reported:    *)
(* what the Desktop's rule lets through and the API's does not is never     *)
(* shown.                                                                   *)
ShownCanBeWritten == shown => Normal(request) /\ verdict # "INVALID"

(* As documented, a run that the Desktop has answered is at its end.        *)
AnsweredRunsEnd == verdict # "none" => status \in {"SUCCEEDED", "FAILED"}
===============================================================================
