------------------------------ MODULE LocalRead -------------------------------
(***************************************************************************)
(* LocalReadService with its path policy: which path of a request is       *)
(* opened, and what readFile returns while another program appends to the  *)
(* file or cuts it.                                                        *)
(*                                                                         *)
(* A path is a sequence of names below the file system's root.  Links maps *)
(* a path to what a symbolic link there points to, and Root is the bound   *)
(* folder.  Sizes count blocks: Limit stands for MAX_FILE_BYTES and the    *)
(* read buffer has Limit + 1, so that a longer file is recognised.  Any    *)
(* target may be missing, of the wrong kind or not UTF-8 text.             *)
(***************************************************************************)
EXTENDS Integers, Sequences, SequencesExt

CONSTANTS
  Names,      \* names of files and directories
  Root,       \* the workspace folder, canonical
  Links,      \* the symbolic links
  Requests,   \* relative paths asked for: sequences over Names and ".."
  Limit,
  MaxSize     \* bound on the size another program gives the file

VARIABLES
  size,    \* current size of the file
  info,    \* the size that stat saw
  read,    \* blocks read so far
  ends,    \* sizes the file had when a read returned nothing
  pc,
  path,    \* the request
  opened   \* the canonical path opened

vars == <<size, info, read, ends, pc, path, opened>>

-----------------------------------------------------------------------------
(* The path policy *)

(* Follows the links on the way: the canonical path (realpath).  One link  *)
(* is followed per name, which is enough for links to real paths.          *)
RealPath(p) ==
  FoldLeft(LAMBDA q, name: LET r == Append(q, name) IN IF r \in DOMAIN Links THEN Links[r] ELSE r,
           <<>>, p)

(* path.relative: up to the common prefix, then down. *)
Common(p, q) ==
  CHOOSE n \in 0..Len(p):
    /\ n <= Len(q) /\ SubSeq(p, 1, n) = SubSeq(q, 1, n)
    /\ n = Len(p) \/ n = Len(q) \/ p[n + 1] # q[n + 1]
Relative(p, q) ==
  [i \in 1..(Len(p) - Common(p, q)) |-> ".."] \o SubSeq(q, Common(p, q) + 1, Len(q))

Within(p) == ~IsPrefix(<<"..">>, Relative(Root, p))

(* Mutant: the path is compared before its links are resolved. *)
ResolvedByName(r) == IF Within(Root \o r) THEN {RealPath(Root \o r)} ELSE {}

Valid(r) == ".." \notin Range(r)

(* The target of a request, or nothing. *)
ResolveWithinWorkspace(r) ==
  LET target == RealPath(Root \o r) IN
  IF Valid(r) /\ Within(target) THEN {target} ELSE {}

-----------------------------------------------------------------------------
Init ==
  /\ size \in 0..MaxSize
  /\ info = 0 /\ read = 0 /\ ends = {}
  /\ pc = "start"
  /\ path = <<>> /\ opened = {}

(* validateRelativePath and resolveWithinWorkspace; a directory is listed  *)
(* in one step.                                                            *)
Resolve(r) ==
  /\ pc = "start"
  /\ path' = r
  /\ opened' \in {{}, ResolveWithinWorkspace(r)}
  /\ pc' = IF opened' = {} THEN "refused" ELSE "stat"
  /\ UNCHANGED <<size, info, read, ends>>

ListDirectory ==
  /\ pc = "stat"
  /\ pc' \in {"listed", "refused"}
  /\ UNCHANGED <<size, info, read, ends, path, opened>>

Stat ==
  /\ pc = "stat"
  /\ path # <<>>
  /\ info' = size
  /\ pc' \in IF size > Limit THEN {"refused"} ELSE {"read", "refused"}
  /\ UNCHANGED <<size, read, ends, path, opened>>

(* Mutant: one read is taken for the whole file. *)
ReadOnce ==
  /\ pc = "read"
  /\ \E n \in 0..(size - read):
       /\ n > 0 \/ size <= read
       /\ read' = read + n
       /\ pc' = "check"
  /\ UNCHANGED <<size, info, ends, path, opened>>

(* handle.read fills any part of the buffer; 0 is the end of the file. *)
ReadBlock ==
  /\ pc = "read"
  /\ IF size <= read
     THEN pc' = "check" /\ ends' = ends \cup {size} /\ UNCHANGED read
     ELSE \E n \in 1..(size - read):
            /\ read + n <= Limit + 1
            /\ read' = read + n
            /\ pc' = IF read' = Limit + 1 THEN "check" ELSE "read"
            /\ UNCHANGED ends
  /\ UNCHANGED <<size, info, path, opened>>

Return ==
  /\ pc = "check"
  /\ pc' \in IF read >= Limit + 1 THEN {"refused"} ELSE {"returned", "refused"}
  /\ UNCHANGED <<size, info, read, ends, path, opened>>

(* Another program appends or cuts. *)
Resize == size' \in 0..MaxSize /\ UNCHANGED <<info, read, ends, pc, path, opened>>

Next ==
  \/ \E r \in Requests: Resolve(r)
  \/ ListDirectory \/ Stat \/ ReadBlock \/ Return \/ Resize

Spec == Init /\ [][Next]_vars

TypeOK ==
  /\ size \in 0..MaxSize /\ info \in 0..MaxSize
  /\ read \in 0..(Limit + 1)
  /\ pc \in {"start", "stat", "listed", "read", "check", "returned", "refused"}
  /\ opened \subseteq Seq(Names) /\ \A p, q \in opened: p = q

(* What is opened lies in the workspace folder, whatever links there are.  *)
InsideWorkspace == \A p \in opened: IsPrefix(Root, p)

(* A read is never silently cut short (the test): what is returned reaches *)
(* the end the file had at some moment of the read, within the limit,      *)
(* however the size changes between stat and the last read.                *)
NeverTruncated == pc = "returned" => read <= Limit /\ \E end \in ends: read >= end
===============================================================================
