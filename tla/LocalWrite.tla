------------------------------ MODULE LocalWrite ------------------------------
(***************************************************************************)
(* LocalWriteService.execute: approved writes of one target file, run by   *)
(* the event loop of Electron Main while another program may change the    *)
(* file.  Every await is a boundary between steps.                         *)
(*                                                                         *)
(* withLock chains the writers of one target path by promises: locks maps  *)
(* the path to the promise of the last writer, each awaits the one before. *)
(* A promise is resolved when its writer has left.  Hashes stand for the   *)
(* content they are taken of; a content is named by its writer.  A CREATE  *)
(* opens the target itself and fills it, a REPLACE fills a temporary file  *)
(* and renames it.                                                         *)
(***************************************************************************)
EXTENDS FiniteSets

CONSTANTS
  Writers,
  Expected,   \* approved.expectedCurrentSha256, ABSENT for a CREATE
  Paths,      \* spellings of the target that resolveTarget lets through
  Path,       \* the one each writer uses
  Edits,      \* what another program may write to the target
  IoFails,    \* whether writing bytes may fail
  Crashes     \* whether the process may stop

ASSUME LocalWriteAssumption ==
  /\ Path \in [Writers -> Paths]
  /\ Expected \in [Writers -> {"ABSENT", "OTHER"} \cup Writers]
  /\ Edits \subseteq {"ABSENT", "OTHER"}
  /\ IoFails \in BOOLEAN /\ Crashes \in BOOLEAN
  /\ Writers \cap {"ABSENT", "OTHER", "NONE"} = {}

VARIABLES
  file,    \* content of the target
  whole,   \* FALSE while (or after) a CREATE has written only part of it
  temp,    \* the writers whose temporary file exists
  locks,   \* LocalWriteService.locks: the last writer of each path
  after,   \* the writer whose promise each one awaits
  pc

vars == <<file, whole, temp, locks, after, pc>>

Create(w) == Expected[w] = "ABSENT"
Gone == {"ok", "failed", "crashed"}
Inside == {"prepare", "open", "fill", "temp", "rehash", "rename", "clean", "written", "refused"}

TypeOK ==
  /\ file \in {"ABSENT", "OTHER"} \cup Writers
  /\ whole \in BOOLEAN
  /\ temp \subseteq Writers
  /\ locks \in [Paths -> Writers \cup {"NONE"}]
  /\ after \in [Writers -> Writers \cup {"NONE"}]
  /\ pc \in [Writers -> {"start", "wait"} \cup Inside \cup Gone]
  /\ \A p \in Paths: locks[p] # "NONE" => Path[locks[p]] = p /\ pc[locks[p]] \notin Gone

Init ==
  /\ file \in {"ABSENT", "OTHER"}
  /\ whole = TRUE
  /\ temp = {}
  /\ locks = [p \in Paths |-> "NONE"]
  /\ after = [w \in Writers |-> "NONE"]
  /\ pc = [w \in Writers |-> "start"]

Go(w, from, to) == pc[w] = from /\ pc' = [pc EXCEPT ![w] = to]

-----------------------------------------------------------------------------
(* withLock *)

(* Mutant: a writer waits only for the first one of its path. *)
EnqueueBehindFirst(w) ==
  /\ Go(w, "start", "wait")
  /\ after' = [after EXCEPT ![w] = locks[Path[w]]]
  /\ locks' = [locks EXCEPT ![Path[w]] = IF @ = "NONE" THEN w ELSE @]
  /\ UNCHANGED <<file, whole, temp>>

Enqueue(w) ==
  /\ Go(w, "start", "wait")
  /\ after' = [after EXCEPT ![w] = locks[Path[w]]]
  /\ locks' = [locks EXCEPT ![Path[w]] = w]
  /\ UNCHANGED <<file, whole, temp>>

Acquire(w) ==
  /\ after[w] # "NONE" => pc[after[w]] \in Gone
  /\ Go(w, "wait", "prepare")
  /\ UNCHANGED <<file, whole, temp, locks, after>>

(* Mutant: a failed operation does not release the lock. *)
ReleaseAfterSuccess(w) ==
  /\ Go(w, "written", "ok")
  /\ locks' = [locks EXCEPT ![Path[w]] = IF @ = w THEN "NONE" ELSE @]
  /\ UNCHANGED <<file, whole, temp, after>>

(* Mutant: a writer that leaves removes the entry of whoever came last. *)
ReleaseAll(w) ==
  /\ Go(w, "written", "ok") \/ Go(w, "refused", "failed")
  /\ locks' = [locks EXCEPT ![Path[w]] = "NONE"]
  /\ UNCHANGED <<file, whole, temp, after>>

(* Mutant: the entry of the last writer stays. *)
KeepEntry(w) ==
  /\ Go(w, "written", "ok") \/ Go(w, "refused", "failed")
  /\ UNCHANGED <<file, whole, temp, locks, after>>

(* finally: the promise resolves, the last writer removes the entry. *)
Release(w) ==
  /\ Go(w, "written", "ok") \/ Go(w, "refused", "failed")
  /\ locks' = [locks EXCEPT ![Path[w]] = IF @ = w THEN "NONE" ELSE @]
  /\ UNCHANGED <<file, whole, temp, after>>

-----------------------------------------------------------------------------
(* executeUnlocked *)

AsApproved(w) == file = Expected[w] /\ whole

(* prepare again, and compare with what was approved. *)
Compare(w) ==
  /\ IF AsApproved(w)
     THEN Go(w, "prepare", IF Create(w) THEN "open" ELSE "temp")
     ELSE Go(w, "prepare", "refused")
  /\ UNCHANGED <<file, whole, temp, locks, after>>

(* Mutant: open with "w" instead of "wx". *)
OpenAny(w) ==
  /\ Go(w, "open", "fill")
  /\ file' = w /\ whole' = FALSE
  /\ UNCHANGED <<temp, locks, after>>

(* open(target, "wx") *)
OpenNew(w) ==
  /\ \/ file = "ABSENT" /\ Go(w, "open", "fill") /\ file' = w /\ whole' = FALSE
     \/ file # "ABSENT" /\ Go(w, "open", "refused") /\ UNCHANGED <<file, whole>>
  /\ UNCHANGED <<temp, locks, after>>

(* A failed CREATE leaves the target as it is. *)
Fill(w) ==
  /\ \/ Go(w, "fill", "written") /\ whole' = TRUE
     \/ IoFails /\ Go(w, "fill", "refused") /\ UNCHANGED whole
  /\ UNCHANGED <<file, temp, locks, after>>

FillTemp(w) ==
  /\ temp' = temp \cup {w}
  /\ \/ Go(w, "temp", "rehash")
     \/ IoFails /\ Go(w, "temp", "clean")
  /\ UNCHANGED <<file, whole, locks, after>>

Rehash(w) ==
  /\ Go(w, "rehash", IF AsApproved(w) THEN "rename" ELSE "clean")
  /\ UNCHANGED <<file, whole, temp, locks, after>>

Rename(w) ==
  /\ Go(w, "rename", "written")
  /\ file' = w /\ whole' = TRUE
  /\ temp' = temp \ {w}
  /\ UNCHANGED <<locks, after>>

(* Mutant: a replacement that fails leaves its temporary file. *)
LeaveTemp(w) == Go(w, "clean", "refused") /\ UNCHANGED <<file, whole, temp, locks, after>>

RemoveTemp(w) ==
  /\ Go(w, "clean", "refused")
  /\ temp' = temp \ {w}
  /\ UNCHANGED <<file, whole, locks, after>>

-----------------------------------------------------------------------------
(* Another program, which leaves a file alone while it is being created *)
Edit ==
  /\ whole
  /\ file' \in Edits
  /\ UNCHANGED <<whole, temp, locks, after, pc>>

(* The process stops: its locks are gone, its files stay.  A write that was *)
(* over but for its answer counts as ended.                                 *)
Crash ==
  /\ Crashes
  /\ \E w \in Writers: pc[w] \in Inside
  /\ pc' = [w \in Writers |->
       CASE pc[w] = "written" -> "ok"
         [] pc[w] = "refused" -> "failed"
         [] pc[w] \in (Inside \cup {"wait"}) \ {"written", "refused"} -> "crashed"
         [] OTHER -> pc[w]]
  /\ locks' = [p \in Paths |-> "NONE"]
  /\ UNCHANGED <<file, whole, temp, after>>

Execute(w) ==
  \/ Acquire(w) \/ Compare(w) \/ OpenNew(w) \/ Fill(w) \/ FillTemp(w) \/ Rehash(w) \/ Rename(w)
  \/ RemoveTemp(w) \/ Release(w)

Done == (\A w \in Writers: pc[w] \in Gone) /\ UNCHANGED vars

Next == Edit \/ Crash \/ Done \/ \E w \in Writers: Enqueue(w) \/ Execute(w)

Spec == Init /\ [][Next]_vars

(* The event loop runs what is ready, and file operations end. *)
Fairness == \A w \in Writers: WF_vars(Execute(w))

-----------------------------------------------------------------------------
(* One writer at a time between the comparison and the end of a write. *)
Mutex ==
  \A v, w \in Writers:
    v # w /\ Path[v] = Path[w] => ~(pc[v] \in Inside /\ pc[w] \in Inside)

(* A writer that ended, well or not, left no temporary file beside the target. *)
NoLitter == \A w \in temp: pc[w] \notin {"ok", "failed"}

(* Approved writes behave like GuardedFile: a target that is being created *)
(* counts as absent until it is whole.                                     *)
Guarded == INSTANCE GuardedFile WITH
  file <- IF whole THEN file ELSE "ABSENT",
  result <- [w \in Writers |->
    CASE pc[w] \in {"written", "ok"} -> "ok"
      [] pc[w] \in {"refused", "failed"} -> "failed"
      [] OTHER -> "none"]

RefinesGuardedFile == Guarded!Spec

(* atomic local CREATE (ARCHITECTURE.md): a CREATE that failed left no part *)
(* of its content in the target.                                            *)
AtomicCreate == \A w \in Writers: pc[w] = "failed" => file # w

(* Liveness: whoever asks for the lock gets it and ends. *)
EveryWriteEnds == \A w \in Writers: (pc[w] = "wait") ~> (pc[w] \in Gone)
===============================================================================
