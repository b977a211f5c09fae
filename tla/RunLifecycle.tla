----------------------------- MODULE RunLifecycle -----------------------------
(***************************************************************************)
(* What the API promises about one AgentRun with its ToolCall, its Human   *)
(* Confirmation and its Artifact: the rows change together, each operation *)
(* at one instant.  ToolCall and confirmation have the index of their run. *)
(***************************************************************************)
CONSTANTS
  Runs, Tool,         \* the runs and the tool each of them calls
  Receipts, Outcome,  \* completion receipts and what they say
  Artifacts

VARIABLES run, call, receipt, conf, artifact

rows == <<run, call, receipt, conf, artifact>>

NoReceipt == [kind |-> "NONE"]
NoArtifact == [kind |-> "NONE"]

Init ==
  /\ run = [r \in Runs |-> "NONE"]
  /\ call = [r \in Runs |-> "NONE"]
  /\ receipt = [r \in Runs |-> NoReceipt]
  /\ conf = [r \in Runs |-> "NONE"]
  /\ artifact = [a \in Artifacts |-> NoArtifact]

(* A write waits for a human, everything else runs at once. *)
CreateRun(r) ==
  /\ run[r] = "NONE"
  /\ run' = [run EXCEPT ![r] = IF Tool[r] = "write_file" THEN "WAITING_HUMAN" ELSE "RUNNING"]
  /\ call' = [call EXCEPT ![r] = "PENDING"]
  /\ conf' = [conf EXCEPT ![r] = IF Tool[r] = "write_file" THEN "PENDING" ELSE "NONE"]
  /\ UNCHANGED <<receipt, artifact>>

Approve(r) ==
  /\ conf[r] = "PENDING"
  /\ conf' = [conf EXCEPT ![r] = "APPROVED"]
  /\ run' = [run EXCEPT ![r] = "RUNNING"]
  /\ UNCHANGED <<call, receipt, artifact>>

(* Nothing will run: all three rows are closed. *)
Reject(r) ==
  /\ conf[r] = "PENDING"
  /\ conf' = [conf EXCEPT ![r] = "REJECTED"]
  /\ call' = [call EXCEPT ![r] = "CANCELLED"]
  /\ run' = [run EXCEPT ![r] = "CANCELLED"]
  /\ UNCHANGED <<receipt, artifact>>

(* The tool reports once, a write only after its approval. *)
Complete(r, rec) ==
  /\ call[r] = "PENDING"
  /\ run[r] = "RUNNING"
  /\ Tool[r] = "write_file" => conf[r] = "APPROVED"
  /\ Outcome[rec] \in {"SUCCEEDED", "FAILED"}
  /\ call' = [call EXCEPT ![r] = Outcome[rec]]
  /\ run' = [run EXCEPT ![r] = Outcome[rec]]
  /\ receipt' = [receipt EXCEPT ![r] = [kind |-> "RECEIPT", of |-> rec]]
  /\ UNCHANGED <<conf, artifact>>

(* A successful read becomes at most one Artifact. *)
Register(a, r) ==
  /\ artifact[a] = NoArtifact
  /\ Tool[r] = "read_file"
  /\ run[r] = "SUCCEEDED"
  /\ \A other \in Artifacts: artifact[other] # NoArtifact => artifact[other].source # r
  /\ artifact' = [artifact EXCEPT ![a] =
                    [kind |-> "FILE", source |-> r, content |-> receipt[r]]]
  /\ UNCHANGED <<run, call, receipt, conf>>

Next ==
  \E r \in Runs:
    \/ CreateRun(r) \/ Approve(r) \/ Reject(r)
    \/ \E rec \in Receipts: Complete(r, rec)
    \/ \E a \in Artifacts: Register(a, r)

Spec == Init /\ [][Next]_rows

-----------------------------------------------------------------------------
(* Consequences of the promise.                                            *)

Stored == [kind: {"RECEIPT"}, of: Receipts]

TypeOK ==
  /\ run \in [Runs -> {"NONE", "WAITING_HUMAN", "RUNNING", "SUCCEEDED", "FAILED", "CANCELLED"}]
  /\ call \in [Runs -> {"NONE", "PENDING", "SUCCEEDED", "FAILED", "CANCELLED"}]
  /\ receipt \in [Runs -> Stored \cup {NoReceipt}]
  /\ conf \in [Runs -> {"NONE", "PENDING", "APPROVED", "REJECTED"}]
  /\ artifact \in [Artifacts ->
       [kind: {"FILE"}, source: Runs, content: Stored] \cup {NoArtifact}]

(* The combinations of statuses that a run, its ToolCall and its           *)
(* confirmation may have.                                                  *)
RowsAgree ==
  \A r \in Runs:
    \/ run[r] = "NONE" /\ call[r] = "NONE" /\ conf[r] = "NONE" /\ receipt[r] = NoReceipt
    \/ /\ Tool[r] = "write_file"
       /\ run[r] = "WAITING_HUMAN" /\ call[r] = "PENDING" /\ conf[r] = "PENDING"
       /\ receipt[r] = NoReceipt
    \/ /\ Tool[r] = "write_file"
       /\ run[r] = "CANCELLED" /\ call[r] = "CANCELLED" /\ conf[r] = "REJECTED"
       /\ receipt[r] = NoReceipt
    \/ /\ conf[r] = IF Tool[r] = "write_file" THEN "APPROVED" ELSE "NONE"
       /\ \/ run[r] = "RUNNING" /\ call[r] = "PENDING" /\ receipt[r] = NoReceipt
          \/ /\ receipt[r] \in Stored
             /\ Outcome[receipt[r].of] \in {"SUCCEEDED", "FAILED"}
             /\ run[r] = Outcome[receipt[r].of] /\ call[r] = Outcome[receipt[r].of]

(* An Artifact has the content its read reported, and no read has two. *)
ArtifactProvenance ==
  \A a \in Artifacts: artifact[a] # NoArtifact =>
    /\ artifact[a].source \in Runs
    /\ Tool[artifact[a].source] = "read_file"
    /\ run[artifact[a].source] = "SUCCEEDED"
    /\ artifact[a].content = receipt[artifact[a].source]
    /\ \A b \in Artifacts \ {a}:
         artifact[b] # NoArtifact => artifact[b].source # artifact[a].source
===============================================================================
