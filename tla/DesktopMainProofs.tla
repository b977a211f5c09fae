--------------------------- MODULE DesktopMainProofs ---------------------------
(***************************************************************************)
(* Proofs about Electron Main's services, for any number of writers, paths, *)
(* calls, employees and folders.  The services share no variable, so each   *)
(* has an invariant of its own.                                             *)
(*                                                                         *)
(* LocalWriteService: the promises of one path form a queue.  Every writer  *)
(* but one waits for another one, nobody waits for the last, no two wait    *)
(* for the same, and no set of writers waits within itself.  So the writer  *)
(* whose predecessor has gone is alone, and when it is also the last, the   *)
(* queue is empty.                                                          *)
(***************************************************************************)
EXTENDS DesktopMain, SequenceTheorems, WellFoundedInduction, TLAPS

Active(w) == pc[w] \in {"wait"} \cup Inside

(* Nobody is before it. *)
AtHead(w) == Active(w) /\ (after[w] = "NONE" \/ pc[after[w]] \in Gone)

Types ==
  /\ file \in {"ABSENT", "OTHER"} \cup Writers
  /\ whole \in BOOLEAN
  /\ temp \subseteq Writers
  /\ locks \in [Paths -> Writers \cup {"NONE"}]
  /\ after \in [Writers -> Writers \cup {"NONE"}]
  /\ pc \in [Writers -> {"start", "wait"} \cup Inside \cup Gone]

(* locks names the last writer of a path, for whom nobody waits. *)
Tails ==
  /\ \A p \in Paths: locks[p] # "NONE" => Path[locks[p]] = p /\ Active(locks[p])
  /\ \A w \in Writers: Active(w) => locks[Path[w]] # "NONE" /\ after[w] # locks[Path[w]]

Chained ==
  /\ \A w \in Writers: after[w] # "NONE" => Path[after[w]] = Path[w] /\ pc[after[w]] # "start"
  /\ \A v, w \in Writers: Active(v) /\ Active(w) /\ after[v] = after[w] /\ after[v] # "NONE" => v = w

NoCircle == \A S \in SUBSET {w \in Writers: Active(w)}: S # {} => \E w \in S: after[w] \notin S

Heads ==
  /\ \A w \in Writers: pc[w] \in Inside => AtHead(w)
  /\ \A v, w \in Writers: AtHead(v) /\ AtHead(w) /\ Path[v] = Path[w] => v = w

Queues == Tails /\ Chained /\ NoCircle /\ Heads

Temporary == \A w \in temp: pc[w] \in {"rehash", "rename", "clean", "crashed"}

IInv == Types /\ Queues /\ Temporary

-----------------------------------------------------------------------------
LEMMA Begins == Init => IInv
<1> SUFFICES ASSUME Init PROVE IInv
  OBVIOUS
<1> USE LocalWriteAssumption DEF Init
<1>1. \A w \in Writers: ~Active(w)
  BY DEF Active, Inside
<1>2. Types /\ Temporary
  BY DEF Types, Temporary
<1>3. Tails /\ Chained /\ NoCircle
  BY <1>1 DEF Tails, Chained, NoCircle
<1>4. Heads
  BY <1>1 DEF Heads, AtHead, Inside
<1> QED
  BY <1>2, <1>3, <1>4 DEF IInv, Queues

(* A step of one writer that has the lock and keeps it moves no queue.      *)
LEMMA QueuesKept ==
  ASSUME IInv, NEW w \in Writers, pc[w] \in {"wait"} \cup Inside, AtHead(w),
         NEW to \in Inside, pc' = [pc EXCEPT ![w] = to], UNCHANGED <<locks, after>>
  PROVE  Queues'
<1>1. \A v \in Writers: /\ Active(v)' <=> Active(v)
                        /\ pc'[v] \in Gone <=> pc[v] \in Gone
                        /\ pc'[v] = "start" <=> pc[v] = "start"
  BY DEF IInv, Types, Active, Inside, Gone
<1>2. \A v \in Writers: AtHead(v)' <=> AtHead(v)
  BY <1>1 DEF IInv, Types, AtHead
<1>3. Tails'
  BY <1>1, LocalWriteAssumption DEF IInv, Queues, Tails, Types
<1>4. Chained'
  BY <1>1 DEF IInv, Queues, Chained, Types
<1>5. NoCircle'
  <2>1. {v \in Writers: Active(v)}' = {v \in Writers: Active(v)}
    BY <1>1
  <2> QED
    BY <2>1 DEF IInv, Queues, NoCircle
<1>6. Heads'
  <2>1. ASSUME NEW v \in Writers, pc'[v] \in Inside PROVE AtHead(v)'
    BY <2>1, <1>2 DEF IInv, Queues, Heads, Types
  <2> QED
    BY <2>1, <1>2 DEF IInv, Queues, Heads
<1> QED
  BY <1>3, <1>4, <1>5, <1>6 DEF Queues

(* A writer joins the queue of its path. *)
LEMMA Joined == ASSUME IInv, NEW w \in Writers, Enqueue(w) PROVE Queues'
<1> USE LocalWriteAssumption
<1> DEFINE last == locks[Path[w]]
<1>0. Path[w] \in Paths /\ last \in Writers \cup {"NONE"} /\ w # "NONE"
  BY DEF IInv, Types
<1>1. /\ pc[w] = "start" /\ pc' = [pc EXCEPT ![w] = "wait"]
      /\ after' = [after EXCEPT ![w] = last]
      /\ locks' = [locks EXCEPT ![Path[w]] = w]
  BY DEF Enqueue, Go
<1>2. /\ ~Active(w) /\ Active(w)'
      /\ \A v \in Writers \ {w}: /\ Active(v)' <=> Active(v)
                                 /\ after'[v] = after[v] /\ pc'[v] = pc[v]
  BY <1>1 DEF IInv, Types, Active, Inside
<1>3. after'[w] = last /\ last # w /\ (last # "NONE" => Active(last) /\ Path[last] = Path[w])
  BY <1>0, <1>1, <1>2 DEF IInv, Types, Queues, Tails
<1>4. \A v \in Writers: after[v] # w
  BY <1>1, <1>0 DEF IInv, Queues, Chained
<1>5. \A v \in Writers: Active(v) /\ Path[v] = Path[w] => last # "NONE" /\ after[v] # last
  BY DEF IInv, Queues, Tails
<1>6. Tails'
  <2>1. \A p \in Paths: locks'[p] = IF p = Path[w] THEN w ELSE locks[p]
    BY <1>1, <1>0 DEF IInv, Types
  <2>2. ASSUME NEW p \in Paths, locks'[p] # "NONE" PROVE Path[locks'[p]] = p /\ pc'[locks'[p]] \in {"wait"} \cup Inside
    <3>1. CASE p = Path[w]
      BY <2>1, <3>1, <1>2 DEF Active
    <3>2. CASE p # Path[w]
      <4>1. locks[p] \in Writers /\ Path[locks[p]] = p /\ Active(locks[p])
        BY <2>1, <2>2, <3>2 DEF IInv, Types, Queues, Tails
      <4> QED
        BY <4>1, <2>1, <3>2, <1>2 DEF Active
    <3> QED
      BY <3>1, <3>2
  <2>3. ASSUME NEW v \in Writers, Active(v)' PROVE locks'[Path[v]] # "NONE" /\ after'[v] # locks'[Path[v]]
    <3>1. CASE v = w
      BY <3>1, <2>1, <1>0, <1>3
    <3>2. CASE v # w
      <4>1. Active(v) /\ Path[v] \in Paths /\ after'[v] = after[v]
        BY <2>3, <3>2, <1>2
      <4>2. locks[Path[v]] # "NONE" /\ after[v] # locks[Path[v]]
        BY <4>1 DEF IInv, Queues, Tails
      <4> QED
        BY <4>1, <4>2, <2>1, <1>0, <1>4
    <3> QED
      BY <3>1, <3>2
  <2> QED
    BY <2>2, <2>3 DEF Tails, Active
<1>7. Chained'
  <2>1. ASSUME NEW v \in Writers, after'[v] # "NONE" PROVE Path[after'[v]] = Path[v] /\ pc'[after'[v]] # "start"
    <3>1. CASE v = w
      BY <2>1, <3>1, <1>0, <1>2, <1>3 DEF Active, Inside
    <3>2. CASE v # w
      <4>1. after'[v] = after[v] /\ after[v] \in Writers \ {w}
        BY <2>1, <3>2, <1>2, <1>4 DEF IInv, Types
      <4> QED
        BY <4>1, <2>1, <1>2 DEF IInv, Queues, Chained
    <3> QED
      BY <3>1, <3>2
  <2>2. ASSUME NEW v \in Writers, NEW x \in Writers, Active(v)', Active(x)', after'[v] = after'[x], after'[v] # "NONE"
        PROVE  v = x
    <3>1. CASE v # w /\ x # w
      BY <2>2, <3>1, <1>2 DEF IInv, Queues, Chained
    <3>2. ASSUME NEW y \in Writers \ {w}, Active(y), after[y] = last, last # "NONE" PROVE FALSE
      <4>1. Path[last] = Path[y]
        BY <3>2 DEF IInv, Queues, Chained
      <4> QED
        BY <4>1, <3>2, <1>3, <1>5
    <3> QED
      BY <2>2, <3>1, <3>2, <1>2, <1>3
  <2> QED
    BY <2>1, <2>2 DEF Chained, Active
<1>8. NoCircle'
  <2> SUFFICES ASSUME NEW S \in SUBSET {v \in Writers: Active(v)'}, S # {}
               PROVE  \E v \in S: after'[v] \notin S
    BY DEF NoCircle, Active
  <2> DEFINE R == S \ {w}
  <2>1. R \in SUBSET {v \in Writers: Active(v)}
    BY <1>2
  <2>2. CASE R = {}
    BY <2>2, <1>3
  <2>3. CASE R # {}
    <3>1. PICK v \in R: after[v] \notin R
      BY <2>1, <2>3 DEF IInv, Queues, NoCircle
    <3> QED
      BY <3>1, <2>1, <1>2, <1>4
  <2> QED
    BY <2>2, <2>3
<1>9. Heads'
  <2>1. \A v \in Writers \ {w}: AtHead(v)' <=> AtHead(v)
    <3> SUFFICES ASSUME NEW v \in Writers \ {w} PROVE AtHead(v)' <=> AtHead(v)
      OBVIOUS
    <3>1. after[v] # "NONE" => after[v] \in Writers \ {w}
      BY <1>4 DEF IInv, Types
    <3> QED
      BY <3>1, <1>2 DEF AtHead
  <2>2. AtHead(w)' => last = "NONE"
    BY <1>0, <1>2, <1>3 DEF AtHead, Active, Inside, Gone
  <2>3. \A v \in Writers: AtHead(v) /\ Path[v] = Path[w] => last # "NONE"
    BY <1>5 DEF AtHead
  <2>4. ASSUME NEW v \in Writers, pc'[v] \in Inside PROVE AtHead(v)'
    <3>1. v # w
      BY <2>4, <1>1 DEF IInv, Types, Inside
    <3> QED
      BY <3>1, <2>1, <2>4, <1>2 DEF IInv, Queues, Heads
  <2>5. ASSUME NEW v \in Writers, NEW x \in Writers, AtHead(v)', AtHead(x)', Path[v] = Path[x] PROVE v = x
    BY <2>5, <2>1, <2>2, <2>3 DEF IInv, Queues, Heads
  <2> QED
    BY <2>4, <2>5 DEF Heads, AtHead, Active
<1> QED
  BY <1>6, <1>7, <1>8, <1>9 DEF Queues

(* A writer leaves: the one that waits for it, if any, is the next head.    *)
LEMMA Left == ASSUME IInv, NEW w \in Writers, Release(w) PROVE Queues'
<1> USE LocalWriteAssumption
<1>0. Path[w] \in Paths /\ w # "NONE"
  OBVIOUS
<1>1. /\ pc[w] \in Inside /\ AtHead(w) /\ Active(w)
      /\ pc'[w] \in Gone /\ ~Active(w)'
      /\ \A v \in Writers \ {w}: pc'[v] = pc[v]
      /\ after' = after
      /\ locks' = [locks EXCEPT ![Path[w]] = IF @ = w THEN "NONE" ELSE @]
  BY DEF Release, Go, IInv, Types, Queues, Heads, AtHead, Active, Inside, Gone
<1>2. \A v \in Writers \ {w}: Active(v)' <=> Active(v)
  BY <1>1 DEF Active
<1>3. \A p \in Paths: locks'[p] = IF p = Path[w] /\ locks[p] = w THEN "NONE" ELSE locks[p]
  BY <1>0, <1>1 DEF IInv, Types
<1>4. ASSUME locks[Path[w]] = w, NEW x \in Writers \ {w}, Active(x), Path[x] = Path[w] PROVE FALSE
  <2> DEFINE S == {v \in Writers: Active(v) /\ v # w /\ Path[v] = Path[w]}
  <2>1. PICK v \in S: after[v] \notin S
    <3>1. S # {} /\ S \in SUBSET {v \in Writers: Active(v)}
      BY <1>4
    <3> QED
      BY <3>1 DEF IInv, Queues, NoCircle
  <2>2. ~AtHead(v)
    BY <2>1, <1>1 DEF IInv, Queues, Heads
  <2>3. after[v] \in Writers /\ pc[after[v]] \notin Gone
    BY <2>1, <2>2 DEF AtHead, IInv, Types
  <2>4. Path[after[v]] = Path[w] /\ pc[after[v]] # "start" /\ after[v] # w
    BY <2>1, <2>3, <1>4 DEF IInv, Queues, Chained, Tails
  <2>5. Active(after[v])
    BY <2>3, <2>4 DEF IInv, Types, Active
  <2> QED
    BY <2>1, <2>3, <2>4, <2>5
<1>5. Tails'
  <2>1. ASSUME NEW p \in Paths, locks'[p] # "NONE" PROVE Path[locks'[p]] = p /\ pc'[locks'[p]] \in {"wait"} \cup Inside
    <3>1. locks'[p] = locks[p] /\ locks[p] \in Writers /\ Path[locks[p]] = p /\ Active(locks[p])
      BY <2>1, <1>3 DEF IInv, Types, Queues, Tails
    <3>2. locks[p] # w
      BY <3>1, <1>3, <1>0, <2>1
    <3> QED
      BY <3>1, <3>2, <1>2 DEF Active
  <2>2. ASSUME NEW v \in Writers, Active(v)' PROVE locks'[Path[v]] # "NONE" /\ after'[v] # locks'[Path[v]]
    <3>1. v # w /\ Active(v) /\ Path[v] \in Paths
      BY <2>2, <1>1, <1>2
    <3>2. locks[Path[v]] # "NONE" /\ after[v] # locks[Path[v]]
      BY <3>1 DEF IInv, Queues, Tails
    <3> QED
      BY <3>1, <3>2, <1>1, <1>3, <1>4
  <2> QED
    BY <2>1, <2>2 DEF Tails, Active
<1>6. Chained'
  <2>1. ASSUME NEW v \in Writers, after'[v] # "NONE" PROVE Path[after'[v]] = Path[v] /\ pc'[after'[v]] # "start"
    <3>1. after'[v] = after[v] /\ after[v] \in Writers /\ Path[after[v]] = Path[v] /\ pc[after[v]] # "start"
      BY <2>1, <1>1 DEF IInv, Types, Queues, Chained
    <3> QED
      BY <3>1, <1>1 DEF Gone
  <2>2. ASSUME NEW v \in Writers, NEW x \in Writers, Active(v)', Active(x)', after'[v] = after'[x], after'[v] # "NONE"
        PROVE  v = x
    BY <2>2, <1>1, <1>2 DEF IInv, Queues, Chained
  <2> QED
    BY <2>1, <2>2 DEF Chained, Active
<1>7. NoCircle'
  <2>1. {v \in Writers: Active(v)}' \subseteq {v \in Writers: Active(v)}
    BY <1>1, <1>2
  <2> QED
    BY <2>1, <1>1 DEF IInv, Queues, NoCircle
<1>8. Heads'
  <2>1. ASSUME NEW v \in Writers, AtHead(v)' PROVE v # w /\ Active(v) /\ (AtHead(v) \/ after[v] = w)
    <3>1. v # w /\ Active(v)
      BY <2>1, <1>1, <1>2 DEF AtHead
    <3>2. after[v] = "NONE" \/ pc'[after[v]] \in Gone
      BY <2>1, <1>1 DEF AtHead
    <3>3. after[v] # "NONE" => after[v] \in Writers
      BY DEF IInv, Types
    <3> QED
      BY <3>1, <3>2, <3>3, <1>1 DEF AtHead
  <2>2. ASSUME NEW v \in Writers, pc'[v] \in Inside PROVE AtHead(v)'
    <3>1. v # w /\ pc[v] \in Inside /\ Active(v)' 
      BY <2>2, <1>1 DEF Inside, Gone, Active
    <3>2. AtHead(v) /\ (after[v] # "NONE" => after[v] \in Writers)
      BY <3>1 DEF IInv, Queues, Heads, Types
    <3>3. after[v] = "NONE" \/ pc'[after[v]] \in Gone
      BY <3>2, <1>1 DEF AtHead
    <3> QED
      BY <3>1, <3>3, <1>1 DEF AtHead
  <2>3. ASSUME NEW v \in Writers, NEW x \in Writers, AtHead(v)', AtHead(x)', Path[v] = Path[x] PROVE v = x
    <3>1. ASSUME NEW y \in Writers, AtHead(y)', Path[y] = Path[v] PROVE y # w /\ Active(y) /\ (Path[v] = Path[w] => after[y] = w) /\ (AtHead(y) \/ Path[v] = Path[w])
      BY <3>1, <2>1, <1>1 DEF IInv, Queues, Heads, Chained
    <3>2. CASE Path[v] = Path[w]
      BY <3>2, <3>1, <2>3, <1>0 DEF IInv, Queues, Chained
    <3>3. CASE Path[v] # Path[w]
      BY <3>3, <3>1, <2>3 DEF IInv, Queues, Heads
    <3> QED
      BY <3>2, <3>3
  <2> QED
    BY <2>2, <2>3 DEF Heads, AtHead, Active
<1> QED
  BY <1>5, <1>6, <1>7, <1>8 DEF Queues

(* The process stops: no queue is left. *)
LEMMA Stopped == ASSUME IInv, Crash PROVE Queues'
<1>1. \A w \in Writers: /\ ~Active(w)' /\ pc'[w] \notin Inside
                        /\ pc'[w] = "start" => pc[w] = "start"
  BY DEF Crash, IInv, Types, Active, Inside, Gone
<1>2. (\A p \in Paths: locks'[p] = "NONE") /\ after' = after
  BY DEF Crash
<1>3. Tails' /\ NoCircle' /\ Heads'
  BY <1>1, <1>2 DEF Tails, NoCircle, Heads, AtHead, Active
<1>4. Chained'
  <2>1. ASSUME NEW w \in Writers, after'[w] # "NONE" PROVE Path[after'[w]] = Path[w] /\ pc'[after'[w]] # "start"
    <3>1. after'[w] = after[w] /\ after[w] \in Writers /\ Path[after[w]] = Path[w] /\ pc[after[w]] # "start"
      BY <2>1, <1>2 DEF IInv, Types, Queues, Chained
    <3> QED
      BY <3>1, <1>1
  <2> QED
    BY <2>1, <1>1 DEF Chained, Active
<1> QED
  BY <1>3, <1>4 DEF Queues

(* The steps in which a writer that is at the head stays there. *)
Working(w) ==
  Acquire(w) \/ Compare(w) \/ OpenNew(w) \/ Fill(w) \/ FillTemp(w) \/ Rehash(w) \/ Rename(w) \/ RemoveTemp(w)

LEMMA Worked == ASSUME IInv, NEW w \in Writers, Working(w) PROVE Queues'
<1>1. AtHead(w)
  <2>1. CASE Acquire(w)
    BY <2>1 DEF Acquire, Go, AtHead, Active
  <2>2. CASE ~Acquire(w)
    <3>1. pc[w] \in Inside
      BY <2>2 DEF Working, Compare, OpenNew, Fill, FillTemp, Rehash, Rename, RemoveTemp, Go, Inside
    <3> QED
      BY <3>1 DEF IInv, Queues, Heads
  <2> QED
    BY <2>1, <2>2
<1>2. PICK to \in Inside: pc' = [pc EXCEPT ![w] = to]
  BY DEF Working, Acquire, Compare, OpenNew, Fill, FillTemp, Rehash, Rename, RemoveTemp, Go, Inside
<1>3. UNCHANGED <<locks, after>> /\ pc[w] \in {"wait"} \cup Inside
  BY DEF Working, Acquire, Compare, OpenNew, Fill, FillTemp, Rehash, Rename, RemoveTemp, Go, Inside
<1> QED
  BY <1>1, <1>2, <1>3, QueuesKept

LEMMA Preserved == IInv /\ [Next]_vars => IInv'
<1> SUFFICES ASSUME IInv, [Next]_vars PROVE IInv'
  OBVIOUS
<1> USE LocalWriteAssumption
<1>1. CASE UNCHANGED vars
  BY <1>1 DEF IInv, Types, Queues, Tails, Chained, NoCircle, Heads, AtHead, Active, Temporary, vars
<1>2. CASE Edit
  <2>1. UNCHANGED <<whole, temp, locks, after, pc>> /\ file' \in {"ABSENT", "OTHER"}
    BY <1>2 DEF Edit
  <2> QED
    BY <2>1 DEF IInv, Types, Queues, Tails, Chained, NoCircle, Heads, AtHead, Active, Temporary
<1>3. CASE Crash
  <2>1. Types'
    BY <1>3 DEF Crash, IInv, Types, Inside, Gone
  <2>2. Temporary'
    BY <1>3 DEF Crash, IInv, Types, Temporary, Inside, Gone
  <2> QED
    BY <1>3, <2>1, <2>2, Stopped DEF IInv
<1>4. ASSUME NEW w \in Writers, Enqueue(w) PROVE IInv'
  <2>1. Types' /\ Temporary'
    BY <1>4 DEF Enqueue, Go, IInv, Types, Temporary
  <2> QED
    BY <1>4, <2>1, Joined DEF IInv
<1>5. ASSUME NEW w \in Writers, Working(w) PROVE IInv'
  <2>1. Types'
    BY <1>5 DEF Working, Acquire, Compare, OpenNew, Fill, FillTemp, Rehash, Rename, RemoveTemp, Go, IInv, Types, Inside
  <2>2. Temporary'
    BY <1>5 DEF Working, Acquire, Compare, OpenNew, Fill, FillTemp, Rehash, Rename, RemoveTemp, Go, IInv, Types, Temporary
  <2> QED
    BY <1>5, <2>1, <2>2, Worked DEF IInv
<1>6. ASSUME NEW w \in Writers, Release(w) PROVE IInv'
  <2>1. Types' /\ Temporary'
    BY <1>6 DEF Release, Go, IInv, Types, Temporary, Gone
  <2> QED
    BY <1>6, <2>1, Left DEF IInv
<1> QED
  BY <1>1, <1>2, <1>3, <1>4, <1>5, <1>6 DEF Next, Execute, Working, Done

LEMMA Invariant == Spec => []IInv
<1> QED
  BY Begins, Preserved, PTL DEF Spec

-----------------------------------------------------------------------------
(* Types; the entry of a path names a writer of that path that has not left. *)
THEOREM TypeCorrect == Spec => []TypeOK
<1>1. IInv => TypeOK
  BY DEF IInv, Types, Queues, Tails, TypeOK, Active, Inside, Gone
<1> QED
  BY <1>1, Invariant, PTL

(* However many writes of one path are asked for, one at a time is between  *)
(* its comparison and its end (withLock).                                   *)
THEOREM OneAtATime == Spec => []Mutex
<1>1. IInv => Mutex
  BY DEF IInv, Queues, Heads, Mutex
<1> QED
  BY <1>1, Invariant, PTL

(* A replacement that ended has renamed or removed its temporary file.      *)
THEOREM TemporariesGo == Spec => []NoLitter
<1>1. IInv => NoLitter
  BY DEF IInv, Temporary, NoLitter
<1> QED
  BY <1>1, Invariant, PTL

-----------------------------------------------------------------------------
(* GuardedFile, if the target has one spelling and other programs do not    *)
(* change what a replacement was approved against.                          *)
OneSpelling == \A v, w \in Writers: Path[v] = Path[w]
Quiet == \A w \in Writers: ~Create(w) => Edits \subseteq {Expected[w]}

(* What a writer has established since its comparison. *)
Content ==
  \A w \in Writers:
    /\ pc[w] \in {"open", "fill"} => Create(w)
    /\ pc[w] \in {"temp", "rehash", "rename", "clean"} => ~Create(w)
    /\ pc[w] = "fill" => file = w /\ ~whole
    /\ pc[w] = "rename" => file = Expected[w] /\ whole

LEMMA ContentKept ==
  ASSUME OneSpelling, Quiet PROVE IInv /\ Content /\ [Next]_vars => Content'
<1> SUFFICES ASSUME IInv, Content, [Next]_vars, NEW w \in Writers
             PROVE  /\ pc'[w] \in {"open", "fill"} => Create(w)
                    /\ pc'[w] \in {"temp", "rehash", "rename", "clean"} => ~Create(w)
                    /\ pc'[w] = "fill" => file' = w /\ ~whole'
                    /\ pc'[w] = "rename" => file' = Expected[w] /\ whole'
  BY DEF Content
<1>0. pc \in [Writers -> {"start", "wait"} \cup Inside \cup Gone]
  BY DEF IInv, Types
<1>1. CASE UNCHANGED vars
  BY <1>1 DEF Content, vars
<1>2. CASE Edit
  BY <1>2 DEF Edit, Content, Quiet
<1>3. CASE Crash
  BY <1>0, <1>3 DEF Crash, Inside, Gone
<1>4. ASSUME NEW v \in Writers, Enqueue(v) \/ Release(v) PROVE UNCHANGED <<file, whole>> /\ (pc'[w] \in Inside => pc'[w] = pc[w])
  BY <1>0, <1>4 DEF Enqueue, Release, Go, Inside
<1>5. ASSUME NEW v \in Writers, v # w, Working(v)
      PROVE  pc'[w] = pc[w] /\ (pc[w] \in {"fill", "rename"} => UNCHANGED <<file, whole>>)
  <2>1. pc'[w] = pc[w]
    BY <1>0, <1>5 DEF Working, Acquire, Compare, OpenNew, Fill, FillTemp, Rehash, Rename, RemoveTemp, Go
  <2>2. pc[w] \in Inside => ~(pc[v] \in Inside)
    BY <1>5 DEF IInv, Queues, Heads, OneSpelling
  <2>3. ASSUME pc[w] \in {"fill", "rename"} PROVE Acquire(v)
    BY <1>5, <2>2, <2>3 DEF Working, Compare, OpenNew, Fill, FillTemp, Rehash, Rename, RemoveTemp, Go, Inside
  <2> QED
    BY <2>1, <2>3 DEF Acquire
<1>6. CASE Working(w)
  <2>1. CASE Acquire(w) \/ Fill(w) \/ FillTemp(w) \/ Rename(w) \/ RemoveTemp(w)
    BY <1>0, <2>1 DEF Acquire, Fill, FillTemp, Rename, RemoveTemp, Go, Content
  <2>2. CASE Compare(w) \/ OpenNew(w) \/ Rehash(w)
    BY <1>0, <2>2 DEF Compare, OpenNew, Rehash, AsApproved, Go, Content
  <2> QED
    BY <1>6, <2>1, <2>2 DEF Working
<1>7. ASSUME NEW v \in Writers, Enqueue(v) \/ Release(v) \/ (v # w /\ Working(v))
      PROVE  /\ pc'[w] \in {"open", "fill"} => Create(w)
             /\ pc'[w] \in {"temp", "rehash", "rename", "clean"} => ~Create(w)
             /\ pc'[w] = "fill" => file' = w /\ ~whole'
             /\ pc'[w] = "rename" => file' = Expected[w] /\ whole'
  BY <1>4, <1>5, <1>7 DEF Content, Inside
<1> QED
  BY <1>1, <1>2, <1>3, <1>6, <1>7 DEF Next, Execute, Working, Done

(* The steps that fill a new target or rename a temporary file are writes   *)
(* of GuardedFile, those that give up are refusals, and the others stutter. *)
LEMMA Simulates ==
  ASSUME OneSpelling, Quiet
  PROVE  IInv /\ Content /\ [Next]_vars =>
           [Guarded!Next]_<<IF whole THEN file ELSE "ABSENT", [w \in Writers |->
             CASE pc[w] \in {"written", "ok"} -> "ok"
               [] pc[w] \in {"refused", "failed"} -> "failed"
               [] OTHER -> "none"]>>
<1> DEFINE target == IF whole THEN file ELSE "ABSENT"
           of(x) == CASE x \in {"written", "ok"} -> "ok"
                      [] x \in {"refused", "failed"} -> "failed"
                      [] OTHER -> "none"
           results == [w \in Writers |-> of(pc[w])]
<1> SUFFICES ASSUME IInv, Content, [Next]_vars PROVE Guarded!Next \/ (target' = target /\ results' = results)
  OBVIOUS
<1> USE LocalWriteAssumption
<1>0. pc \in [Writers -> {"start", "wait"} \cup Inside \cup Gone]
  BY DEF IInv, Types
<1>1. ASSUME target' = target, \A v \in Writers: of(pc'[v]) = of(pc[v]) PROVE target' = target /\ results' = results
  BY <1>1
<1>2. ASSUME NEW w \in Writers, NEW to, pc' = [pc EXCEPT ![w] = to]
      PROVE  results' = [results EXCEPT ![w] = of(to)]
  BY <1>0, <1>2
<1>3. CASE UNCHANGED vars
  BY <1>3 DEF vars
<1>4. CASE Edit
  BY <1>4 DEF Edit, Guarded!Next, Guarded!Edit
<1>5. CASE Crash
  <2>1. \A v \in Writers: of(pc'[v]) = of(pc[v])
    BY <1>0, <1>5 DEF Crash, Inside, Gone
  <2> QED
    BY <2>1, <1>1, <1>5 DEF Crash
<1>6. ASSUME NEW w \in Writers, Enqueue(w) \/ Execute(w) PROVE Guarded!Next \/ (target' = target /\ results' = results)
  <2>1. CASE Enqueue(w) \/ Acquire(w) \/ Release(w)
    <3>1. \A v \in Writers: of(pc'[v]) = of(pc[v])
      BY <1>0, <2>1 DEF Enqueue, Acquire, Release, Go
    <3> QED
      BY <3>1, <1>1, <2>1 DEF Enqueue, Acquire, Release
  <2>2. CASE pc[w] \in Inside \ {"written", "refused"} /\ pc' = [pc EXCEPT ![w] = "refused"] /\ UNCHANGED <<file, whole>>
    <3>1. results[w] = "none" /\ results' = [results EXCEPT ![w] = "failed"] /\ target' = target
      BY <2>2, <1>2 DEF Inside
    <3>2. Guarded!Refuse(w)
      BY <3>1 DEF Guarded!Refuse
    <3> QED
      BY <3>2 DEF Guarded!Next
  <2>3. ASSUME NEW to \in Inside \ {"written", "refused"}, pc[w] \in Inside \ {"written", "refused"}, pc' = [pc EXCEPT ![w] = to], target' = target
        PROVE  target' = target /\ results' = results
    <3>1. \A v \in Writers: of(pc'[v]) = of(pc[v])
      BY <1>0, <2>3 DEF Inside
    <3> QED
      BY <3>1, <1>1, <2>3
  <2>4. CASE Compare(w) \/ FillTemp(w) \/ Rehash(w) \/ RemoveTemp(w)
    <3>1. UNCHANGED <<file, whole>> /\ pc[w] \in Inside \ {"written", "refused"}
      BY <2>4 DEF Compare, FillTemp, Rehash, RemoveTemp, Go, Inside
    <3>2. PICK to \in Inside \ {"written"}: pc' = [pc EXCEPT ![w] = to]
      BY <2>4 DEF Compare, FillTemp, Rehash, RemoveTemp, Go, Inside
    <3> QED
      BY <3>1, <3>2, <2>2, <2>3
  <2>5. CASE OpenNew(w)
    <3>1. CASE file = "ABSENT"
      <4>1. pc[w] = "open" /\ pc' = [pc EXCEPT ![w] = "fill"] /\ target = "ABSENT" /\ target' = "ABSENT"
        BY <2>5, <3>1 DEF OpenNew, Go
      <4> QED
        BY <4>1, <2>3 DEF Inside
    <3>2. CASE file # "ABSENT"
      BY <2>5, <3>2, <2>2 DEF OpenNew, Go, Inside
    <3> QED
      BY <3>1, <3>2
  <2>6. CASE Fill(w)
    <3>1. pc[w] = "fill" /\ file = w /\ ~whole /\ Create(w) /\ file' = file
      BY <2>6 DEF Fill, Go, Content
    <3>2. CASE pc' = [pc EXCEPT ![w] = "written"] /\ whole' = TRUE
      <4>1. results[w] = "none" /\ results' = [results EXCEPT ![w] = "ok"] /\ target = Expected[w] /\ target' = w
        BY <3>1, <3>2, <1>2 DEF Create
      <4> QED
        BY <4>1 DEF Guarded!Next, Guarded!Write
    <3>3. CASE pc' = [pc EXCEPT ![w] = "refused"] /\ whole' = whole
      BY <3>1, <3>3, <2>2 DEF Inside
    <3> QED
      BY <2>6, <3>2, <3>3 DEF Fill, Go
  <2>7. CASE Rename(w)
    <3>1. pc[w] = "rename" /\ pc' = [pc EXCEPT ![w] = "written"] /\ file = Expected[w] /\ whole /\ file' = w /\ whole'
      BY <2>7 DEF Rename, Go, Content
    <3>2. results[w] = "none" /\ results' = [results EXCEPT ![w] = "ok"] /\ target = Expected[w] /\ target' = w
      BY <3>1, <1>2
    <3> QED
      BY <3>2 DEF Guarded!Next, Guarded!Write
  <2> QED
    BY <1>6, <2>1, <2>4, <2>5, <2>6, <2>7 DEF Execute
<1> QED
  BY <1>3, <1>4, <1>5, <1>6 DEF Next, Done

(* With one spelling of the target, and unless another program changes it   *)
(* behind a replacement, every write replaces exactly the content it was    *)
(* approved against or changes nothing.                                     *)
THEOREM Replaces == ASSUME OneSpelling, Quiet PROVE Spec => RefinesGuardedFile
<1>1. Init => Guarded!Init /\ Content
  BY DEF Init, Guarded!Init, Content
<1> QED
  BY <1>1, Invariant, ContentKept, Simulates, PTL DEF Spec, RefinesGuardedFile, Guarded!Spec

-----------------------------------------------------------------------------
(* GatewaySession: a call knows by its generation whether the user has      *)
(* asked for anything since; and a session given up is never opened again,  *)
(* because a login opens one session and is not yet answered when it does.  *)

Answerable(c) == asked[c].at \in {"sent", "OK", "DENIED", "LOST"}

Asked ==
  asked \in [GatewayCalls -> [
    kind: {"none", "login", "logout", "request"}, generation: Nat,
    token: GatewayCalls \cup {"none"}, left: GatewayCalls \cup {"none"}, intent: GatewayCalls \cup {"none"},
    at: {"idle", "sent", "OK", "DENIED", "LOST", "ended"}]]

GatewayTypes ==
  /\ token \in GatewayCalls \cup {"none"}
  /\ generation \in Nat
  /\ Asked
  /\ sessions \subseteq GatewayCalls /\ \A c \in sessions: asked[c].kind = "login"
  /\ wanted \in GatewayCalls \cup {"none"}
  /\ restarts \in 0..MaxRestarts

(* A generation stands for what the user wanted in it. *)
Generations ==
  \A c \in GatewayCalls:
    /\ asked[c].at = "idle" => asked[c] = Gateway!NoCall
    /\ Answerable(c) =>
         /\ asked[c].generation <= generation
         /\ asked[c].generation = generation => asked[c].intent = wanted
         /\ asked[c].kind = "login" => asked[c].intent = c

(* A token is that of a login that has ended. *)
Installed(t) == t # "none" => asked[t].kind = "login" /\ asked[t].at = "ended"

Tokens ==
  /\ Installed(token)
  /\ wanted # "none" => asked[wanted].at # "idle"
  /\ \A c \in GatewayCalls:
       /\ Installed(asked[c].left)
       /\ asked[c].kind = "logout" =>
            /\ asked[c].token = asked[c].left
            /\ asked[c].at \in {"OK", "DENIED"} => asked[c].left \notin sessions

GatewayInv == GatewayTypes /\ Generations /\ Tokens /\ Gateway!LogoutIsFinal

(* A call goes on and keeps what it has captured. *)
LEMMA GoesOn ==
  ASSUME Asked, NEW c \in GatewayCalls, NEW to \in {"idle", "sent", "OK", "DENIED", "LOST", "ended"},
         asked' = [asked EXCEPT ![c].at = to]
  PROVE  /\ Asked'
         /\ \A d \in GatewayCalls: d # c => asked'[d] = asked[d]
         /\ asked'[c] = [asked[c] EXCEPT !.at = to]
         /\ \A d \in GatewayCalls:
              /\ asked'[d].kind = asked[d].kind /\ asked'[d].left = asked[d].left
              /\ asked'[d].token = asked[d].token
<1> DEFINE R == [
         kind: {"none", "login", "logout", "request"}, generation: Nat,
         token: GatewayCalls \cup {"none"}, left: GatewayCalls \cup {"none"}, intent: GatewayCalls \cup {"none"},
         at: {"idle", "sent", "OK", "DENIED", "LOST", "ended"}]
<1>1. asked \in [GatewayCalls -> R]
  BY DEF Asked
<1>2. asked[c] \in R
  BY <1>1
<1>3. [asked[c] EXCEPT !.at = to] \in R
  BY <1>2
<1>4. asked'[c] = [asked[c] EXCEPT !.at = to] /\ asked' \in [GatewayCalls -> R]
  <2> HIDE DEF R
  <2> QED
    BY <1>1, <1>3
<1>5. \A d \in GatewayCalls: d # c => asked'[d] = asked[d]
  <2> HIDE DEF R
  <2> QED
    BY <1>1
<1>6. Asked'
  BY <1>4 DEF Asked
<1> QED
  BY <1>2, <1>4, <1>5, <1>6

LEMMA GatewayBegins == Gateway!Init => GatewayInv
<1> SUFFICES ASSUME Gateway!Init PROVE GatewayInv
  OBVIOUS
<1> USE DesktopMainAssumption DEF Gateway!Init, Gateway!NoCall
<1>1. GatewayTypes
  BY DEF GatewayTypes, Asked
<1>2. Generations
  BY DEF Generations, Answerable
<1>3. Tokens /\ Gateway!LogoutIsFinal
  BY DEF Tokens, Installed, Gateway!LogoutIsFinal
<1> QED
  BY <1>1, <1>2, <1>3 DEF GatewayInv

(* A new call. *)
LEMMA Sends ==
  ASSUME GatewayInv, NEW c \in GatewayCalls, Gateway!Login(c) \/ Gateway!Logout(c) \/ Gateway!Ask(c)
  PROVE  GatewayInv'
<1> USE DesktopMainAssumption DEF Gateway!Login, Gateway!Logout, Gateway!Ask, Gateway!Send
<1>0. asked[c] = Gateway!NoCall
  BY DEF GatewayInv, Generations
<1>1. GatewayTypes'
  BY <1>0 DEF GatewayInv, GatewayTypes, Asked, Gateway!NoCall
<1>2. Generations'
  BY DEF GatewayInv, GatewayTypes, Asked, Generations, Answerable
<1>3. \A t \in GatewayCalls \cup {"none"}: Installed(t) => Installed(t)'
  BY <1>0 DEF GatewayInv, GatewayTypes, Asked, Installed, Gateway!NoCall
<1>4. Tokens'
  BY <1>0, <1>3 DEF GatewayInv, GatewayTypes, Asked, Tokens, Installed, Gateway!NoCall
<1>5. Gateway!LogoutIsFinal'
  BY <1>0 DEF GatewayInv, GatewayTypes, Asked, Tokens, Gateway!LogoutIsFinal, Gateway!NoCall
<1> QED
  BY <1>1, <1>2, <1>4, <1>5 DEF GatewayInv

(* The API answers, or nobody does. *)
LEMMA Serves ==
  ASSUME GatewayInv, NEW c \in GatewayCalls,
         Gateway!ServeLogin(c) \/ Gateway!ServeLogout(c) \/ Gateway!ServeRequest(c) \/ Gateway!Lose(c)
  PROVE  GatewayInv'
<1> USE DesktopMainAssumption
<1>1. PICK answer \in {"OK", "DENIED", "LOST"}: asked' = [asked EXCEPT ![c].at = answer]
  BY DEF Gateway!ServeLogin, Gateway!ServeLogout, Gateway!ServeRequest, Gateway!Lose, Gateway!Reply
<1>2. /\ UNCHANGED <<token, generation, wanted, restarts>>
      /\ asked[c].at \in {"sent", "OK", "DENIED"}
      /\ asked[c].at # "sent" => answer = "LOST"
  BY <1>1 DEF Gateway!ServeLogin, Gateway!ServeLogout, Gateway!ServeRequest, Gateway!Lose, Gateway!Reply, GatewayInv, GatewayTypes, Asked
<1>3. /\ sessions' \subseteq sessions \cup {c}
      /\ c \in sessions' \ sessions => asked[c].kind = "login" /\ asked[c].at = "sent"
      /\ asked[c].kind = "logout" /\ answer # "LOST" => asked[c].token \notin sessions'
  BY <1>1, <1>2 DEF Gateway!ServeLogin, Gateway!ServeLogout, Gateway!ServeRequest, Gateway!Lose, Gateway!Reply, GatewayInv, GatewayTypes, Asked
<1>4. GatewayTypes'
  <2>1. Asked' /\ \A d \in GatewayCalls: asked'[d].kind = asked[d].kind
    BY <1>1, GoesOn DEF GatewayInv, GatewayTypes
  <2>2. sessions' \subseteq GatewayCalls /\ \A d \in sessions': asked'[d].kind = "login"
    BY <1>3, <2>1 DEF GatewayInv, GatewayTypes
  <2> QED
    BY <1>2, <2>1, <2>2 DEF GatewayInv, GatewayTypes
<1>5. Generations'
  BY <1>1, <1>2 DEF GatewayInv, GatewayTypes, Asked, Generations, Answerable
<1>6. \A t \in GatewayCalls \cup {"none"}: Installed(t) => Installed(t)' /\ t # c
  BY <1>1, <1>2 DEF GatewayInv, GatewayTypes, Asked, Installed
<1>7. Tokens'
  <2>1. Installed(token)' /\ (wanted' # "none" => asked'[wanted'].at # "idle")
    BY <1>1, <1>2, <1>6 DEF GatewayInv, GatewayTypes, Asked, Tokens
  <2>2. ASSUME NEW d \in GatewayCalls
        PROVE  /\ Installed(asked[d].left)'
               /\ asked'[d].kind = "logout" =>
                    /\ asked'[d].token = asked'[d].left
                    /\ asked'[d].at \in {"OK", "DENIED"} => asked'[d].left \notin sessions'
    <3>1. asked'[d].left = asked[d].left /\ asked'[d].kind = asked[d].kind /\ asked'[d].token = asked[d].token
      BY <1>1 DEF GatewayInv, GatewayTypes
    <3>2. Installed(asked[d].left) /\ asked[d].left \in GatewayCalls \cup {"none"}
      BY DEF GatewayInv, GatewayTypes, Asked, Tokens
    <3>3. Installed(asked[d].left)' /\ asked[d].left # c
      BY <3>1, <3>2, <1>6 DEF Installed
    <3>4. asked[d].kind = "logout" /\ asked'[d].at \in {"OK", "DENIED"} => asked[d].left \notin sessions'
      BY <1>1, <1>2, <1>3, <3>3 DEF GatewayInv, GatewayTypes, Asked, Tokens
    <3> QED
      BY <3>1, <3>3, <3>4 DEF GatewayInv, Tokens
  <2> QED
    BY <2>1, <2>2 DEF Tokens
<1>8. Gateway!LogoutIsFinal'
  BY <1>1, <1>2 DEF GatewayInv, GatewayTypes, Asked, Gateway!LogoutIsFinal
<1> QED
  BY <1>4, <1>5, <1>7, <1>8 DEF GatewayInv

(* The gateway handles an answer. *)
LEMMA Handles ==
  ASSUME GatewayInv, NEW c \in GatewayCalls, Gateway!Install(c) \/ Gateway!Return(c) \/ Gateway!Refused(c)
  PROVE  /\ GatewayInv'
         /\ Answerable(c) /\ asked' = [asked EXCEPT ![c].at = "ended"]
         /\ UNCHANGED <<sessions, wanted, restarts>>
         /\ asked[c].intent # wanted => UNCHANGED <<token, generation>>
         /\ token' \in {token, "none", wanted}
<1> USE DesktopMainAssumption DEF Gateway!Install, Gateway!Return, Gateway!Refused, Gateway!End
<1>1. Answerable(c) /\ asked' = [asked EXCEPT ![c].at = "ended"] /\ UNCHANGED <<sessions, wanted, restarts>>
  BY DEF Answerable
<1>2. /\ generation' \in {generation, generation + 1}
      /\ token' \in {token, "none"} \/ (token' = c /\ asked[c].generation = generation /\ asked[c].kind = "login")
      /\ asked[c].generation # generation => UNCHANGED <<token, generation>>
      /\ generation' # generation => token' = "none"
  OBVIOUS
<1>3. asked[c].generation = generation => asked[c].intent = wanted
  BY <1>1 DEF GatewayInv, Generations
<1>4. token' \in {token, "none", wanted}
  BY <1>1, <1>2, <1>3 DEF GatewayInv, Generations
<1>5. GatewayTypes'
  <2>1. Asked' /\ \A d \in GatewayCalls: asked'[d].kind = asked[d].kind
    BY <1>1, GoesOn DEF GatewayInv, GatewayTypes
  <2> QED
    BY <1>1, <1>2, <1>4, <2>1 DEF GatewayInv, GatewayTypes
<1>6. Generations'
  BY <1>1, <1>2 DEF GatewayInv, GatewayTypes, Asked, Generations, Answerable
<1>7. \A t \in GatewayCalls \cup {"none"}: Installed(t) => Installed(t)'
  BY <1>1 DEF GatewayInv, GatewayTypes, Asked, Installed
<1>8. Installed(token)'
  <2>1. CASE token' \in {token, "none"}
    BY <2>1, <1>7 DEF GatewayInv, GatewayTypes, Asked, Tokens, Installed
  <2>2. CASE token' = c /\ asked[c].kind = "login"
    BY <2>2, <1>1 DEF GatewayInv, GatewayTypes, Asked, Installed
  <2> QED
    BY <1>2, <2>1, <2>2
<1>9. Tokens'
  <2>1. ASSUME NEW d \in GatewayCalls
        PROVE  /\ Installed(asked[d].left)'
               /\ asked'[d].kind = "logout" =>
                    /\ asked'[d].token = asked'[d].left
                    /\ asked'[d].at \in {"OK", "DENIED"} => asked'[d].left \notin sessions'
    <3>1. /\ asked'[d].left = asked[d].left /\ asked'[d].kind = asked[d].kind /\ asked'[d].token = asked[d].token
          /\ asked'[d].at \in {asked[d].at, "ended"}
      BY <1>1 DEF GatewayInv, GatewayTypes
    <3>2. Installed(asked[d].left) /\ asked[d].left \in GatewayCalls \cup {"none"}
      BY DEF GatewayInv, GatewayTypes, Asked, Tokens
    <3> QED
      BY <1>1, <1>7, <3>1, <3>2 DEF GatewayInv, Tokens, Installed
  <2> QED
    BY <1>1, <1>8, <2>1 DEF Tokens, GatewayInv, GatewayTypes
<1>10. Gateway!LogoutIsFinal'
  BY <1>1, <1>2, <1>3 DEF GatewayInv, GatewayTypes, Asked, Generations, Gateway!LogoutIsFinal
<1> QED
  BY <1>1, <1>2, <1>3, <1>4, <1>5, <1>6, <1>9, <1>10 DEF GatewayInv

LEMMA Restarts ==
  ASSUME GatewayInv, Gateway!Restart
  PROVE  GatewayInv' /\ restarts' # restarts /\ token' = "none"
         /\ \A c \in GatewayCalls:
              asked[c].kind = "logout" /\ asked[c].at \in {"OK", "DENIED"} => asked[c].left \notin sessions'
<1> USE DesktopMainAssumption DEF Gateway!Restart
<1>1. /\ restarts' = restarts + 1 /\ restarts < MaxRestarts /\ restarts' # restarts
      /\ token' = "none" /\ generation' = 0 /\ wanted' = "none"
      /\ asked' = [c \in GatewayCalls |-> IF asked[c].at = "idle" THEN Gateway!NoCall ELSE [asked[c] EXCEPT !.at = "ended"]]
  BY DEF GatewayInv, GatewayTypes
<1>2. \A t \in sessions': t \in sessions \/ (t \in GatewayCalls /\ asked[t].kind = "login" /\ asked[t].at = "sent")
  OBVIOUS
<1>3. /\ Asked'
      /\ \A c \in GatewayCalls:
           /\ asked'[c].kind = asked[c].kind /\ asked'[c].left = asked[c].left /\ asked'[c].token = asked[c].token
           /\ asked[c].at = "idle" => asked'[c] = Gateway!NoCall
           /\ asked[c].at # "idle" => asked'[c].at = "ended"
  <2>1. ASSUME NEW c \in GatewayCalls
        PROVE  /\ asked'[c].kind = asked[c].kind /\ asked'[c].left = asked[c].left /\ asked'[c].token = asked[c].token
               /\ asked[c].at = "idle" => asked'[c] = Gateway!NoCall
               /\ asked[c].at # "idle" => asked'[c].at = "ended"
               /\ asked'[c] \in [kind: {"none", "login", "logout", "request"}, generation: Nat,
                    token: GatewayCalls \cup {"none"}, left: GatewayCalls \cup {"none"}, intent: GatewayCalls \cup {"none"},
                    at: {"idle", "sent", "OK", "DENIED", "LOST", "ended"}]
    <3>1. CASE asked[c].at = "idle"
      BY <1>1, <3>1 DEF GatewayInv, Generations, Gateway!NoCall
    <3>2. CASE asked[c].at # "idle"
      <4>1. asked'[c] = [asked[c] EXCEPT !.at = "ended"]
        BY <1>1, <3>2
      <4>2. asked[c] \in [kind: {"none", "login", "logout", "request"}, generation: Nat,
              token: GatewayCalls \cup {"none"}, left: GatewayCalls \cup {"none"}, intent: GatewayCalls \cup {"none"},
              at: {"idle", "sent", "OK", "DENIED", "LOST", "ended"}]
        BY DEF GatewayInv, GatewayTypes, Asked
      <4> QED
        BY <4>1, <4>2, <3>2
    <3> QED
      BY <3>1, <3>2
  <2>2. Asked'
    BY <1>1, <2>1 DEF Asked
  <2> QED
    BY <2>1, <2>2
<1>4. GatewayTypes'
  <2>1. Asked' /\ \A d \in GatewayCalls: asked'[d].kind = asked[d].kind
    BY <1>3
  <2>2. sessions' \subseteq GatewayCalls /\ \A d \in sessions': asked'[d].kind = "login"
    BY <1>3, <2>1 DEF GatewayInv, GatewayTypes
  <2> QED
    BY <1>2, <2>1, <2>2 DEF GatewayInv, GatewayTypes
<1>5. Generations'
  BY <1>3 DEF Generations, Answerable, Gateway!NoCall
<1>6. \A t \in GatewayCalls \cup {"none"}: Installed(t) => Installed(t)'
  BY <1>3 DEF Installed
<1>7. \A c \in GatewayCalls:
        asked[c].kind = "logout" /\ asked[c].at \in {"OK", "DENIED"} => asked[c].left \notin sessions'
  BY <1>2 DEF GatewayInv, GatewayTypes, Asked, Tokens, Installed
<1>8. Tokens'
  <2>1. ASSUME NEW d \in GatewayCalls
        PROVE  /\ Installed(asked[d].left)'
               /\ asked'[d].kind = "logout" =>
                    /\ asked'[d].token = asked'[d].left
                    /\ asked'[d].at \in {"OK", "DENIED"} => asked'[d].left \notin sessions'
    <3>1. asked'[d].at \notin {"OK", "DENIED"}
      BY <1>3 DEF Gateway!NoCall
    <3>2. Installed(asked[d].left) /\ asked[d].left \in GatewayCalls \cup {"none"}
      BY DEF GatewayInv, GatewayTypes, Asked, Tokens
    <3>3. asked'[d].left = asked[d].left /\ asked'[d].kind = asked[d].kind /\ asked'[d].token = asked[d].token
      BY <1>3
    <3>4. asked[d].kind = "logout" => asked[d].token = asked[d].left
      BY DEF GatewayInv, Tokens
    <3>5. Installed(asked[d].left)'
      BY <1>6, <3>2, <3>3 DEF Installed
    <3> QED
      BY <3>1, <3>3, <3>4, <3>5
  <2>2. Installed(token)' /\ wanted' = "none"
    BY <1>1 DEF Installed
  <2> QED
    BY <2>1, <2>2 DEF Tokens
<1>9. Gateway!LogoutIsFinal'
  BY <1>1 DEF Gateway!LogoutIsFinal
<1> QED
  BY <1>1, <1>4, <1>5, <1>7, <1>8, <1>9 DEF GatewayInv

LEMMA Revokes ==
  ASSUME GatewayInv, NEW s, Gateway!Revoke(s)
  PROVE  GatewayInv'
<1> USE DEF Gateway!Revoke
<1>1. GatewayTypes' /\ Generations'
  BY DEF GatewayInv, GatewayTypes, Asked, Generations, Answerable
<1>2. Tokens'
  BY DEF GatewayInv, Tokens, Installed
<1>3. Gateway!LogoutIsFinal'
  BY DEF GatewayInv, Gateway!LogoutIsFinal
<1> QED
  BY <1>1, <1>2, <1>3 DEF GatewayInv

LEMMA GatewayStays == ASSUME GatewayInv, UNCHANGED gateway PROVE GatewayInv'
<1> USE DEF gateway
<1>1. GatewayTypes' /\ Generations'
  BY DEF GatewayInv, GatewayTypes, Asked, Generations, Answerable
<1>2. Tokens' /\ Gateway!LogoutIsFinal'
  BY DEF GatewayInv, Tokens, Installed, Gateway!LogoutIsFinal
<1> QED
  BY <1>1, <1>2 DEF GatewayInv

LEMMA GatewayKept == GatewayInv /\ [Gateway!Next]_gateway => GatewayInv'
<1> QED
  BY Sends, Serves, Handles, Restarts, Revokes, GatewayStays DEF Gateway!Next

(* What a step may not do. *)
LEMMA GatewayActs ==
  ASSUME GatewayInv, [Gateway!Next]_gateway
  PROVE  /\ token' \in {token, "none"} \/ token' = wanted
         /\ \A c \in GatewayCalls:
              /\ asked[c].intent # wanted /\ asked'[c].at = "ended" /\ asked[c].at # "ended" /\ restarts' = restarts
                   => UNCHANGED <<token, generation>>
              /\ asked[c].kind = "logout" /\ asked[c].at \in {"OK", "DENIED"} /\ asked'[c].at = "ended"
                   => asked[c].left \notin sessions'
<1>0. Asked
  BY DEF GatewayInv, GatewayTypes
<1>1. CASE UNCHANGED gateway
  BY <1>1 DEF gateway
<1>2. ASSUME NEW c \in GatewayCalls, Gateway!Login(c) \/ Gateway!Logout(c) \/ Gateway!Ask(c)
      PROVE  /\ token' \in {token, "none"}
             /\ \A d \in GatewayCalls: asked'[d].at = "ended" => asked[d].at = "ended"
  BY <1>0, <1>2 DEF Asked, Gateway!Login, Gateway!Logout, Gateway!Ask, Gateway!Send
<1>3. ASSUME NEW c \in GatewayCalls,
             Gateway!ServeLogin(c) \/ Gateway!ServeLogout(c) \/ Gateway!ServeRequest(c) \/ Gateway!Lose(c)
      PROVE  /\ token' \in {token, "none"}
             /\ \A d \in GatewayCalls: asked'[d].at = "ended" => asked[d].at = "ended"
  BY <1>0, <1>3 DEF Asked, Gateway!ServeLogin, Gateway!ServeLogout, Gateway!ServeRequest, Gateway!Lose, Gateway!Reply
<1>4. ASSUME NEW c \in GatewayCalls, Gateway!Install(c) \/ Gateway!Return(c) \/ Gateway!Refused(c)
      PROVE  /\ token' \in {token, "none"} \/ token' = wanted
             /\ \A d \in GatewayCalls:
                  /\ asked[d].intent # wanted /\ asked'[d].at = "ended" /\ asked[d].at # "ended"
                       => UNCHANGED <<token, generation>>
                  /\ asked[d].kind = "logout" /\ asked[d].at \in {"OK", "DENIED"} /\ asked'[d].at = "ended"
                       => asked[d].left \notin sessions'
  <2>1. /\ asked' = [asked EXCEPT ![c].at = "ended"]
        /\ UNCHANGED <<sessions, wanted, restarts>>
        /\ asked[c].intent # wanted => UNCHANGED <<token, generation>>
        /\ token' \in {token, "none", wanted}
    BY <1>4, Handles
  <2>2. \A d \in GatewayCalls: d # c => asked'[d] = asked[d]
    BY <1>0, <2>1
  <2> QED
    BY <2>1, <2>2 DEF GatewayInv, Tokens
<1>5. ASSUME Gateway!Restart
      PROVE  /\ token' = "none" /\ restarts' # restarts
             /\ \A d \in GatewayCalls:
                  asked[d].kind = "logout" /\ asked[d].at \in {"OK", "DENIED"} => asked[d].left \notin sessions'
  BY <1>5, Restarts
<1>6. ASSUME NEW s, Gateway!Revoke(s)
      PROVE  token' = token /\ asked' = asked
  BY <1>6 DEF Gateway!Revoke
<1>7. CASE Gateway!Next
  <2>1. CASE \E c \in GatewayCalls: Gateway!Login(c) \/ Gateway!Logout(c) \/ Gateway!Ask(c)
                \/ Gateway!ServeLogin(c) \/ Gateway!ServeLogout(c) \/ Gateway!ServeRequest(c) \/ Gateway!Lose(c)
    BY <2>1, <1>2, <1>3
  <2>2. CASE \E c \in GatewayCalls: Gateway!Install(c) \/ Gateway!Return(c) \/ Gateway!Refused(c)
    BY <2>2, <1>4
  <2>3. CASE Gateway!Restart
    BY <2>3, <1>5
  <2>4. CASE \E s \in sessions: Gateway!Revoke(s)
    BY <2>4, <1>6, <1>0
  <2> QED
    BY <1>7, <2>1, <2>2, <2>3, <2>4 DEF Gateway!Next
<1> QED
  BY <1>1, <1>7

(* The gateway's steps in a behaviour of the main process. *)
LEMMA GatewayRuns == MainSpec => Gateway!Init /\ [][Gateway!Next]_gateway
<1>1. [MainNext]_desktop => [Gateway!Next]_gateway
  BY DEF MainNext, WriteStep, GatewayStep, BindingStep, ReadStep, ReceiptStep, desktop
<1> QED
  BY <1>1, PTL DEF MainSpec, MainInit

(* However late an answer is, only the login that the user asked for last  *)
(* is installed, a logout ends the session for good, and what it left is   *)
(* revoked (DesktopApiGateway login, logout, request).                     *)
THEOREM SessionIsLatest == MainSpec => LatestIntentWins
<1>1. GatewayInv => Gateway!TypeOK /\ Gateway!LogoutIsFinal
  BY DEF GatewayInv, GatewayTypes, Asked, Gateway!TypeOK
<1>2. GatewayInv /\ [Gateway!Next]_gateway => [token' \in {token, "none"} \/ token' = wanted]_(Gateway!vars)
  BY GatewayActs
<1>3. GatewayInv /\ [Gateway!Next]_gateway =>
        [\A c \in GatewayCalls:
           asked[c].intent # wanted /\ asked'[c].at = "ended" /\ asked[c].at # "ended" /\ restarts' = restarts
             => UNCHANGED <<token, generation>>]_(Gateway!vars)
  BY GatewayActs
<1>4. GatewayInv /\ [Gateway!Next]_gateway =>
        [\A c \in GatewayCalls:
           asked[c].kind = "logout" /\ asked[c].at \in {"OK", "DENIED"} /\ asked'[c].at = "ended"
             => asked[c].left \notin sessions']_(Gateway!vars)
  BY GatewayActs
<1>5. MainSpec => []GatewayInv
  BY GatewayBegins, GatewayKept, GatewayRuns, PTL
<1>6. MainSpec => Gateway!NoOlderLogin
  BY <1>2, <1>5, GatewayRuns, PTL DEF Gateway!NoOlderLogin
<1>7. MainSpec => Gateway!LateAnswersHarmless
  BY <1>3, <1>5, GatewayRuns, PTL DEF Gateway!LateAnswersHarmless
<1>8. MainSpec => Gateway!LoggedOutIsRevoked
  BY <1>4, <1>5, GatewayRuns, PTL DEF Gateway!LoggedOutIsRevoked
<1> QED
  BY <1>1, <1>5, <1>6, <1>7, <1>8, PTL DEF LatestIntentWins

-----------------------------------------------------------------------------
(* LocalReadService: a target that path.relative reaches without climbing   *)
(* lies below the folder, and a read that has not filled the buffer has     *)
(* met the end of the file.                                                 *)

(* Every set of natural numbers has a least one.                            *)
LEMMA Least ==
  ASSUME NEW T \in SUBSET Nat, T # {}
  PROVE  \E m \in T: \A n \in T: m <= n
<1> DEFINE R == OpToRel(<, Nat)
<1>1. IsWellFoundedOn(R, Nat)
  BY NatLessThanWellFounded
<1>2. PICK m \in T: \A n \in T: <<n, m>> \notin R
  <2> HIDE DEF R
  <2> QED
    BY <1>1, WFMin
<1>3. \A n \in T: ~(n < m)
  BY <1>2 DEF OpToRel
<1> QED
  BY <1>3

(* There is a longest common prefix.                                        *)
LEMMA CommonPrefix ==
  ASSUME NEW p \in Seq(Names), NEW q \in Seq(Names)
  PROVE  LET n == Reading!Common(p, q)
         IN /\ n \in 0..Len(p) /\ n <= Len(q) /\ SubSeq(p, 1, n) = SubSeq(q, 1, n)
            /\ n = Len(p) \/ n = Len(q) \/ p[n + 1] # q[n + 1]
<1> DEFINE Shared(n) == n <= Len(q) /\ SubSeq(p, 1, n) = SubSeq(q, 1, n)
           Ends(n) == n = Len(p) \/ n = Len(q) \/ p[n + 1] # q[n + 1]
           Gaps == {k \in Nat: k <= Len(p) /\ Shared(Len(p) - k)}
<1>1. Len(p) \in Nat /\ Len(q) \in Nat
  OBVIOUS
<1>2. Len(p) \in Gaps
  <2>1. Len(p) - Len(p) = 0
    BY <1>1
  <2>2. SubSeq(p, 1, 0) = <<>> /\ SubSeq(q, 1, 0) = <<>>
    OBVIOUS
  <2> QED
    BY <1>1, <2>1, <2>2
<1>3. PICK k \in Gaps: \A m \in Gaps: k <= m
  BY <1>2, Least
<1> DEFINE n == Len(p) - k
<1>4. n \in 0..Len(p) /\ Shared(n)
  BY <1>1, <1>3
<1>5. Ends(n)
  <2> SUFFICES ASSUME n # Len(p), n # Len(q), p[n + 1] = q[n + 1] PROVE FALSE
    OBVIOUS
  <2>1. n + 1 \in 0..Len(p) /\ n + 1 <= Len(q) /\ n + 1 \in Nat /\ n \in Nat
    BY <1>1, <1>4
  <2>2. \A i \in 1..n: p[i] = q[i]
    <3>1. ASSUME NEW i \in 1..n PROVE p[i] = q[i]
      <4>1. SubSeq(p, 1, n)[i] = p[i] /\ SubSeq(q, 1, n)[i] = q[i]
        BY <1>1, <1>4, <2>1, <3>1
      <4> QED
        BY <4>1, <1>4
    <3> QED
      BY <3>1
  <2>3. \A i \in 1..(n + 1): p[i] = q[i]
    BY <2>1, <2>2
  <2>4. SubSeq(p, 1, n + 1) = SubSeq(q, 1, n + 1)
    BY <1>1, <2>1, <2>3
  <2>5. k - 1 \in Gaps
    BY <1>1, <1>3, <1>4, <2>1, <2>4
  <2>6. k \in Nat
    BY <1>3
  <2> HIDE DEF Gaps
  <2>7. k <= k - 1
    BY <1>3, <2>5
  <2> QED
    BY <2>6, <2>7
<1>6. \E m \in 0..Len(p): Shared(m) /\ Ends(m)
  BY <1>4, <1>5
<1> QED
  BY <1>6 DEF Reading!Common

LEMMA FirstOf ==
  ASSUME NEW S, NEW s \in Seq(S), Len(s) >= 1
  PROVE  SubSeq(s, 1, 1) = <<s[1]>>
<1>1. SubSeq(s, 1, 1) \in Seq(S) /\ Len(SubSeq(s, 1, 1)) = 1 /\ SubSeq(s, 1, 1)[1] = s[1] /\ s[1] \in S
  OBVIOUS
<1>2. <<s[1]>> \in Seq(S) /\ Len(<<s[1]>>) = 1
  BY <1>1
<1>3. <<s[1]>>[1] = s[1]
  OBVIOUS
<1> DEFINE t == SubSeq(s, 1, 1)
           u == <<s[1]>>
<1>4. t \in Seq(S) /\ u \in Seq(S) /\ Len(t) = Len(u) /\ \A i \in 1..Len(t): t[i] = u[i]
  BY <1>1, <1>2, <1>3
<1>5. t = u
  <2> HIDE DEF t, u
  <2> QED
    BY <1>4, SeqEqual
<1> QED
  BY <1>5

LEMMA WithinIsBelow ==
  ASSUME NEW p \in Seq(Names), Reading!Within(p)
  PROVE  Reading!IsPrefix(Root, p)
<1> DEFINE n == Reading!Common(Root, p)
           up == [i \in 1..(Len(Root) - n) |-> ".."]
           down == SubSeq(p, n + 1, Len(p))
<1>1. n \in 0..Len(Root) /\ n <= Len(p) /\ SubSeq(Root, 1, n) = SubSeq(p, 1, n)
  BY CommonPrefix, DesktopMainAssumption
<1>2. n = Len(Root)
  <2> SUFFICES ASSUME n # Len(Root) PROVE FALSE
    OBVIOUS
  <2>1. Len(Root) \in Nat /\ Len(p) \in Nat /\ Len(Root) - n \in Nat \ {0} /\ n \in Nat
    BY <1>1, DesktopMainAssumption
  <2> HIDE DEF n
  <2>2. up \in Seq({".."}) /\ Len(up) = Len(Root) - n /\ up[1] = ".." /\ down \in Seq(Names)
    BY <2>1
  <2>3. up \o down \in Seq(Names \cup {".."}) /\ Len(up \o down) >= 1 /\ (up \o down)[1] = ".."
    <3> HIDE DEF up, down
    <3>1. up \in Seq(Names \cup {".."}) /\ down \in Seq(Names \cup {".."}) /\ Len(up) >= 1 /\ Len(up) \in Nat /\ Len(down) \in Nat
      BY <2>1, <2>2
    <3> QED
      BY <2>2, <3>1, ConcatProperties
  <2>4. Reading!IsPrefix(<<"..">>, up \o down)
    <3> DEFINE way == up \o down
    <3>1. SubSeq(<<"..">>, 1, 1) = <<"..">> /\ SubSeq(way, 1, 1) = <<"..">>
      <4> HIDE DEF way
      <4>1. way \in Seq(Names \cup {".."}) /\ Len(way) >= 1 /\ way[1] = ".." /\ Len(way) \in Nat
        BY <2>3, LenProperties DEF way
      <4>2. SubSeq(way, 1, 1) = <<way[1]>>
        BY <4>1, FirstOf
      <4>3. SubSeq(<<"..">>, 1, 1) = <<"..">>
        <5>1. <<"..">> \in Seq({".."}) /\ Len(<<"..">>) = 1
          OBVIOUS
        <5> QED
          BY <5>1, SubSeqFull
      <4> QED
        BY <4>1, <4>2, <4>3
    <3> QED
      BY <2>3, <3>1 DEF Reading!IsPrefix
  <2> QED
    BY <2>4 DEF Reading!Within, Reading!Relative, n
<1> QED
  BY <1>1, <1>2, DesktopMainAssumption DEF Reading!IsPrefix

ReadingInv ==
  /\ Reading!TypeOK /\ Reading!InsideWorkspace /\ Reading!NeverTruncated
  /\ at = "check" => read = MaxRead + 1 \/ \E end \in ends: read >= end

LEMMA ReadingBegins == Reading!Init => ReadingInv
<1> SUFFICES ASSUME Reading!Init PROVE ReadingInv
  OBVIOUS
<1> QED
  BY DesktopMainAssumption
  DEF Reading!Init, ReadingInv, Reading!TypeOK, Reading!InsideWorkspace, Reading!NeverTruncated

LEMMA ReadingKept == ReadingInv /\ [Reading!Next]_reading => ReadingInv'
<1> SUFFICES ASSUME ReadingInv, [Reading!Next]_reading PROVE ReadingInv'
  OBVIOUS
<1> USE DesktopMainAssumption
<1>1. CASE UNCHANGED reading
  BY <1>1 DEF reading, ReadingInv, Reading!TypeOK, Reading!InsideWorkspace, Reading!NeverTruncated
<1>2. ASSUME NEW r \in Requests, Reading!Resolve(r) PROVE ReadingInv'
  <2>1. opened' = {} \/ \E p \in Seq(Names): opened' = {p} /\ Reading!IsPrefix(Root, p)
    <3>1. opened' = {} \/ opened' = Reading!ResolveWithinWorkspace(r)
      BY <1>2 DEF Reading!Resolve
    <3>2. ASSUME Reading!Valid(r), Reading!Within(Reading!RealPath(Root \o r))
          PROVE  Reading!RealPath(Root \o r) \in Seq(Names) /\ Reading!IsPrefix(Root, Reading!RealPath(Root \o r))
      <4>1. Reading!RealPath(Root \o r) \in Seq(Names)
        BY <3>2
      <4> QED
        BY <3>2, <4>1, WithinIsBelow
    <3> QED
      BY <3>1, <3>2 DEF Reading!ResolveWithinWorkspace
  <2>2. opened' \subseteq Seq(Names) /\ (\A p, q \in opened': p = q) /\ \A p \in opened': Reading!IsPrefix(Root, p)
    BY <2>1
  <2>3. at' \in {"refused", "stat"} /\ UNCHANGED <<size, info, read, ends>>
    BY <1>2 DEF Reading!Resolve
  <2> QED
    BY <2>2, <2>3 DEF ReadingInv, Reading!TypeOK, Reading!InsideWorkspace, Reading!NeverTruncated
<1>3. CASE Reading!ListDirectory \/ Reading!Stat \/ Reading!Resize
  BY <1>3 DEF Reading!ListDirectory, Reading!Stat, Reading!Resize, ReadingInv, Reading!TypeOK,
              Reading!InsideWorkspace, Reading!NeverTruncated
<1>4. CASE Reading!ReadBlock
  <2>1. UNCHANGED <<size, info, path, opened>> /\ at' \in {"check", "read"}
    BY <1>4 DEF Reading!ReadBlock
  <2>2. read' \in 0..(MaxRead + 1)
    BY <1>4 DEF Reading!ReadBlock, ReadingInv, Reading!TypeOK
  <2>3. at' = "check" => read' = MaxRead + 1 \/ \E end \in ends': read' >= end
    BY <1>4 DEF Reading!ReadBlock, ReadingInv, Reading!TypeOK
  <2> QED
    BY <2>1, <2>2, <2>3 DEF ReadingInv, Reading!TypeOK, Reading!InsideWorkspace, Reading!NeverTruncated
<1>5. CASE Reading!Return
  BY <1>5 DEF Reading!Return, ReadingInv, Reading!TypeOK, Reading!InsideWorkspace, Reading!NeverTruncated
<1> QED
  BY <1>1, <1>2, <1>3, <1>4, <1>5 DEF Reading!Next

LEMMA ReadingRuns == MainSpec => Reading!Init /\ [][Reading!Next]_reading
<1>1. [MainNext]_desktop => [Reading!Next]_reading
  BY DEF MainNext, WriteStep, GatewayStep, BindingStep, ReadStep, ReceiptStep, desktop
<1> QED
  BY <1>1, PTL DEF MainSpec, MainInit

(* The writers' steps in a behaviour of the main process. *)
LEMMA WriterRuns == MainSpec => Spec
<1>1. [MainNext]_desktop => [Next]_vars
  BY DEF MainNext, WriteStep, GatewayStep, BindingStep, ReadStep, ReceiptStep, desktop
<1> QED
  BY <1>1, PTL DEF MainSpec, MainInit, Spec

(* Whatever the links in the folder and however the file's size changes, a  *)
(* read opens nothing outside and returns all of the file it found, and no  *)
(* ended write has left its temporary file (LocalReadService, execute).     *)
THEOREM FilesStayWhole == MainSpec => []FilesAreWhole
<1>1. TypeOK /\ NoLitter /\ ReadingInv => FilesAreWhole
  BY DEF ReadingInv, FilesAreWhole
<1> QED
  BY <1>1, WriterRuns, TypeCorrect, TemporariesGo, ReadingBegins, ReadingKept, ReadingRuns, PTL

-----------------------------------------------------------------------------
(* WorkspaceStore: the first mutation of the queue is the only one that has *)
(* read the file, and nobody writes before it does.  An id is that of one   *)
(* selection, whose employee does not change.                               *)

Mutations == Selects \cup Unbinds

CallRecord == [
  pc: {"start", "dialog", "check", "authorize", "get", "mutate", "read", "report", "done", "failed"},
  as: Users \cup {"NONE"}, owner: Users \cup {"NONE"},
  want: [id: Selects \cup {"NONE"}, folder: Folders \cup {"NONE"}],
  wait: SUBSET Mutations, image: [Users -> Binding!Bindings], read: BOOLEAN, got: Folders \cup {"NONE"}]

BindingTypes ==
  /\ session \in Users \cup {"NONE"}
  /\ disk \in [Users -> Binding!Bindings]
  /\ chain \in Seq(Mutations)
  /\ call \in [Binding!Calls -> CallRecord]

Queue ==
  /\ \A i, j \in 1..Len(chain): chain[i] = chain[j] => i = j
  /\ \A c \in Mutations: call[c].pc = "mutate" <=> \E i \in 1..Len(chain): chain[i] = c

(* Who has read has its turn, and has read what is in the file. *)
Fresh ==
  \A c \in Mutations: call[c].read =>
    \/ call[c].pc \in {"done", "failed"}
    \/ call[c].pc = "mutate" /\ chain[1] = c /\ call[c].image = disk

(* i is the id of a binding of u. *)
IdOf(i, u) == i \in Selects /\ call[i].as = u /\ call[i].pc # "start"

Ids ==
  /\ \A u \in Users: disk[u] # Binding!NoBinding => IdOf(disk[u].id, u)
  /\ \A c \in Selects:
       /\ call[c].pc \in {"dialog", "get", "mutate"} => call[c].as \in Users
       /\ call[c].pc \in {"get", "mutate"} => call[c].want.folder \in Folders
       /\ call[c].pc = "mutate" => IdOf(call[c].want.id, call[c].as)
  /\ \A c \in Unbinds: call[c].pc = "mutate" => call[c].as \in Users
  /\ \A c \in FolderReads \cup Runs: call[c].pc = "get" => call[c].as \in Users

BindingInv == BindingTypes /\ Queue /\ Fresh /\ Ids

LEMMA BindingBegins == Binding!Init => BindingInv
<1> SUFFICES ASSUME Binding!Init PROVE BindingInv
  OBVIOUS
<1> USE DesktopMainAssumption DEF Binding!Init
<1>1. Binding!NoBinding \in Binding!Bindings /\ Binding!NoBinding \in [id: Selects \cup {"NONE"}, folder: Folders \cup {"NONE"}]
  BY DEF Binding!NoBinding, Binding!Bindings
<1>2. Binding!Fresh \in CallRecord
  BY <1>1 DEF Binding!Fresh, CallRecord
<1>3. BindingTypes
  BY <1>1, <1>2 DEF BindingTypes
<1>4. chain = <<>> /\ \A c \in Binding!Calls: call[c].pc = "start" /\ ~call[c].read
  BY DEF Binding!Fresh
<1>5. Queue /\ Fresh /\ Ids
  BY <1>4 DEF Queue, Fresh, Ids, Mutations, Binding!Calls
<1> QED
  BY <1>3, <1>5 DEF BindingInv

(* The employee of an id stays. *)
LEMMA IdsStay ==
  ASSUME NEW c \in Binding!Calls, \A d \in Binding!Calls: d # c => call'[d] = call[d],
         c \in Selects /\ call[c].pc # "start" => call'[c].as = call[c].as /\ call'[c].pc # "start"
  PROVE  \A i, u: IdOf(i, u) => i \in Selects /\ call'[i].as = u /\ call'[i].pc # "start"
<1> QED
  BY DEF IdOf, Binding!Calls

(* A call that neither was nor is among the mutations. *)
LEMMA Aside ==
  ASSUME BindingInv, NEW c \in Binding!Calls, UNCHANGED <<disk, chain>>, session' \in Users \cup {"NONE"},
         call'[c] \in CallRecord, call' = [call EXCEPT ![c] = call'[c]],
         c \in Mutations => call[c].pc # "mutate" /\ call'[c].pc # "mutate" /\ call'[c].read = call[c].read,
         c \in Mutations => call[c].pc \notin {"done", "failed"},
         c \in Selects => /\ call[c].pc # "start" => call'[c].as = call[c].as /\ call'[c].pc # "start"
                          /\ call'[c].pc \in {"dialog", "get"} => call'[c].as \in Users
                          /\ call'[c].pc = "get" => call'[c].want.folder \in Folders,
         c \in FolderReads \cup Runs => (call'[c].pc = "get" => call'[c].as \in Users)
  PROVE  BindingInv'
<1> USE DesktopMainAssumption
<1>1. \A d \in Binding!Calls: d # c => call'[d] = call[d]
  BY DEF BindingInv, BindingTypes
<1>2. BindingTypes'
  BY DEF BindingInv, BindingTypes
<1>3. Queue'
  BY <1>1 DEF BindingInv, Queue, Mutations, Binding!Calls
<1>4. Fresh'
  BY <1>1 DEF BindingInv, Fresh, Mutations, Binding!Calls
<1>5. \A i, u: IdOf(i, u) => i \in Selects /\ call'[i].as = u /\ call'[i].pc # "start"
  BY <1>1, IdsStay
<1>6. Ids'
  <2>1. \A u \in Users: disk[u] # Binding!NoBinding => IdOf(disk[u].id, u)'
    BY <1>5 DEF BindingInv, Ids, IdOf
  <2>2. ASSUME NEW d \in Selects
        PROVE  /\ call'[d].pc \in {"dialog", "get", "mutate"} => call'[d].as \in Users
               /\ call'[d].pc \in {"get", "mutate"} => call'[d].want.folder \in Folders
               /\ call'[d].pc = "mutate" => IdOf(call[d].want.id, call[d].as)'
    <3>1. CASE d = c
      BY <3>1 DEF Mutations
    <3>2. CASE d # c
      BY <3>2, <1>1, <1>5 DEF BindingInv, Ids, IdOf, Binding!Calls
    <3> QED
      BY <3>1, <3>2
  <2>3. \A d \in Unbinds: call'[d].pc = "mutate" => call'[d].as \in Users
    BY <1>1 DEF BindingInv, Ids, Mutations, Binding!Calls
  <2>4. \A d \in FolderReads \cup Runs: call'[d].pc = "get" => call'[d].as \in Users
    BY <1>1 DEF BindingInv, Ids, Binding!Calls
  <2> QED
    BY <2>1, <2>2, <2>3, <2>4 DEF Ids
<1> QED
  BY <1>2, <1>3, <1>4, <1>6 DEF BindingInv

(* A mutation is called: it goes to the end of the queue. *)
LEMMA Called ==
  ASSUME BindingInv, NEW c \in Mutations, UNCHANGED <<session, disk>>, chain' = Append(chain, c),
         call'[c] \in CallRecord, call' = [call EXCEPT ![c] = call'[c]],
         call[c].pc \in {"start", "get"}, call'[c].pc = "mutate", call'[c].read = call[c].read,
         call'[c].as \in Users,
         c \in Selects => /\ call[c].pc # "start" /\ call'[c].as = call[c].as
                          /\ call'[c].want.folder \in Folders /\ IdOf(call[c].want.id, call[c].as)'
  PROVE  BindingInv'
<1> USE DesktopMainAssumption
<1>1. c \in Binding!Calls /\ \A d \in Binding!Calls: d # c => call'[d] = call[d]
  BY DEF BindingInv, BindingTypes, Mutations, Binding!Calls
<1>2. BindingTypes'
  BY <1>1 DEF BindingInv, BindingTypes
<1>3. /\ Len(chain) \in Nat /\ Len(chain') = Len(chain) + 1 /\ chain'[Len(chain) + 1] = c
      /\ \A i \in 1..Len(chain): chain'[i] = chain[i]
  BY DEF BindingInv, BindingTypes
<1>4. ~\E i \in 1..Len(chain): chain[i] = c
  BY DEF BindingInv, Queue
<1>5. Queue'
  <2>1. \A i, j \in 1..Len(chain'): chain'[i] = chain'[j] => i = j
    BY <1>3, <1>4 DEF BindingInv, Queue
  <2>2. ASSUME NEW d \in Mutations
        PROVE  call'[d].pc = "mutate" <=> \E i \in 1..Len(chain'): chain'[i] = d
    <3>1. CASE d = c
      BY <3>1, <1>3
    <3>2. CASE d # c
      <4>1. call'[d] = call[d]
        BY <3>2, <1>1 DEF Mutations, Binding!Calls
      <4>2. (\E i \in 1..Len(chain'): chain'[i] = d) <=> \E i \in 1..Len(chain): chain[i] = d
        BY <3>2, <1>3
      <4> QED
        BY <4>1, <4>2 DEF BindingInv, Queue
    <3> QED
      BY <3>1, <3>2
  <2> QED
    BY <2>1, <2>2 DEF Queue
<1>6. Fresh'
  <2>1. ~call'[c].read
    BY DEF BindingInv, Fresh
  <2>2. ASSUME NEW d \in Mutations, d # c, call'[d].read
        PROVE  \/ call'[d].pc \in {"done", "failed"}
               \/ call'[d].pc = "mutate" /\ chain'[1] = d /\ call'[d].image = disk'
    <3>1. call'[d] = call[d]
      BY <2>2, <1>1 DEF Mutations, Binding!Calls
    <3>2. call[d].pc = "mutate" => 1 \in 1..Len(chain)
      BY <1>3 DEF BindingInv, Queue
    <3> QED
      BY <2>2, <3>1, <3>2, <1>3 DEF BindingInv, Fresh
  <2> QED
    BY <2>1, <2>2 DEF Fresh
<1>7. \A i, u: IdOf(i, u) => i \in Selects /\ call'[i].as = u /\ call'[i].pc # "start"
  BY <1>1, IdsStay DEF Mutations
<1>8. Ids'
  <2>1. \A u \in Users: disk[u] # Binding!NoBinding => IdOf(disk[u].id, u)'
    BY <1>7 DEF BindingInv, Ids, IdOf
  <2>2. ASSUME NEW d \in Selects
        PROVE  /\ call'[d].pc \in {"dialog", "get", "mutate"} => call'[d].as \in Users
               /\ call'[d].pc \in {"get", "mutate"} => call'[d].want.folder \in Folders
               /\ call'[d].pc = "mutate" => IdOf(call[d].want.id, call[d].as)'
    <3>1. CASE d = c
      BY <3>1
    <3>2. CASE d # c
      BY <3>2, <1>1, <1>7 DEF BindingInv, Ids, IdOf, Binding!Calls
    <3> QED
      BY <3>1, <3>2
  <2>3. \A d \in Unbinds: call'[d].pc = "mutate" => call'[d].as \in Users
    BY <1>1 DEF BindingInv, Ids, Binding!Calls
  <2>4. \A d \in FolderReads \cup Runs: call'[d].pc = "get" => call'[d].as \in Users
    BY <1>1 DEF BindingInv, Ids, Binding!Calls, Mutations
  <2> QED
    BY <2>1, <2>2, <2>3, <2>4 DEF Ids
<1> QED
  BY <1>2, <1>5, <1>6, <1>8 DEF BindingInv

(* The head of the queue reads the file. *)
LEMMA Image ==
  ASSUME BindingInv, NEW c \in Mutations, Binding!ReadRaw(c)
  PROVE  BindingInv'
<1> USE DesktopMainAssumption
<1> DEFINE next == [call[c] EXCEPT !.image = disk, !.read = TRUE]
<1>1. /\ c \in Binding!Calls /\ call' = [call EXCEPT ![c] = next] /\ UNCHANGED <<session, disk, chain>>
      /\ call[c].pc = "mutate" /\ chain[1] = c
  <2>1. call[c].pc = "mutate" /\ Head(chain) = c /\ UNCHANGED <<session, disk, chain>>
        /\ call' = [call EXCEPT ![c].image = disk, ![c].read = TRUE]
    BY DEF Binding!ReadRaw, Binding!Turn
  <2>2. Len(chain) \in Nat /\ Len(chain) > 0 /\ chain \in Seq(Mutations)
    BY <2>1 DEF BindingInv, BindingTypes, Queue
  <2>3. Head(chain) = chain[1]
    BY <2>2
  <2>4. call' = [call EXCEPT ![c] = next]
    BY <2>1
  <2> QED
    BY <2>1, <2>3, <2>4 DEF Mutations, Binding!Calls
<1>2. next \in CallRecord /\ next.image = disk /\ next.pc = "mutate" /\ next.as = call[c].as /\ next.want = call[c].want
  <2>1. call[c] \in CallRecord /\ disk \in [Users -> Binding!Bindings]
    BY <1>1 DEF BindingInv, BindingTypes
  <2>2. next.image = disk /\ next.read = TRUE /\ next.pc = call[c].pc /\ next.as = call[c].as
        /\ next.want = call[c].want
    BY <2>1 DEF CallRecord
  <2>3. next \in CallRecord
    BY <2>1 DEF CallRecord
  <2> QED
    BY <1>1, <2>2, <2>3
<1> HIDE DEF next
<1>3. call'[c] = next /\ \A d \in Binding!Calls: d # c => call'[d] = call[d]
  BY <1>1 DEF BindingInv, BindingTypes
<1>4. BindingTypes'
  BY <1>1, <1>2 DEF BindingInv, BindingTypes
<1>5. Queue'
  BY <1>1, <1>2, <1>3 DEF BindingInv, Queue, Mutations, Binding!Calls
<1>6. Fresh'
  BY <1>1, <1>2, <1>3 DEF BindingInv, Fresh, Mutations, Binding!Calls
<1>7. \A i, u: IdOf(i, u) => i \in Selects /\ call'[i].as = u /\ call'[i].pc # "start"
  BY <1>1, <1>2, <1>3, IdsStay
<1>8. Ids'
  <2>1. \A u \in Users: disk[u] # Binding!NoBinding => IdOf(disk[u].id, u)'
    BY <1>1, <1>7 DEF BindingInv, Ids, IdOf
  <2>2. ASSUME NEW d \in Binding!Calls
        PROVE  call'[d].pc = call[d].pc /\ call'[d].as = call[d].as /\ call'[d].want = call[d].want
    BY <1>1, <1>2, <1>3
  <2>4. ASSUME NEW d \in Selects
        PROVE  /\ call'[d].pc \in {"dialog", "get", "mutate"} => call'[d].as \in Users
               /\ call'[d].pc \in {"get", "mutate"} => call'[d].want.folder \in Folders
               /\ call'[d].pc = "mutate" => IdOf(call[d].want.id, call[d].as)'
    BY <1>7, <2>2 DEF BindingInv, Ids, IdOf, Binding!Calls
  <2>5. \A d \in Unbinds: call'[d].pc = "mutate" => call'[d].as \in Users
    BY <2>2 DEF BindingInv, Ids, Binding!Calls
  <2>6. \A d \in FolderReads \cup Runs: call'[d].pc = "get" => call'[d].as \in Users
    BY <2>2 DEF BindingInv, Ids, Binding!Calls
  <2> QED
    BY <1>1, <2>1, <2>4, <2>5, <2>6 DEF Ids, IdOf
<1> QED
  BY <1>4, <1>5, <1>6, <1>8 DEF BindingInv

(* The head of the queue has ended; what it wrote is what it read, with its *)
(* own employee's binding changed.                                          *)
LEMMA Popped ==
  ASSUME BindingInv, NEW c \in Mutations, NEW end \in {"done", "failed"},
         call[c].pc = "mutate", Head(chain) = c, chain' = Tail(chain), UNCHANGED session,
         call' = [call EXCEPT ![c].pc = end],
         disk' = disk \/ (call[c].read /\ disk' = Binding!Mutation(c))
  PROVE  BindingInv' /\ (\A u \in Users: u # call[c].as => disk'[u] = disk[u])
<1> USE DesktopMainAssumption
<1>1. c \in Binding!Calls /\ call[c] \in CallRecord
  BY DEF BindingInv, BindingTypes, Mutations, Binding!Calls
<1>2. Len(chain) \in Nat /\ Len(chain) > 0 /\ chain[1] = c
  BY <1>1 DEF BindingInv, BindingTypes, Queue
<1>3. /\ Len(chain') = Len(chain) - 1 /\ chain' \in Seq(Mutations)
      /\ \A i \in 1..Len(chain'): chain'[i] = chain[i + 1] /\ i + 1 \in 1..Len(chain) /\ i + 1 # 1
  BY <1>2 DEF BindingInv, BindingTypes
<1>4. /\ call'[c].pc = end /\ call'[c] \in CallRecord /\ call'[c].as = call[c].as
      /\ \A d \in Binding!Calls: d # c => call'[d] = call[d]
      /\ call' \in [Binding!Calls -> CallRecord]
  <2>1. [call[c] EXCEPT !.pc = end] \in CallRecord /\ [call[c] EXCEPT !.pc = end].pc = end /\ [call[c] EXCEPT !.pc = end].as = call[c].as
    BY <1>1 DEF CallRecord
  <2>2. call' = [call EXCEPT ![c] = [call[c] EXCEPT !.pc = end]]
    OBVIOUS
  <2> QED
    BY <1>1, <2>1, <2>2 DEF BindingInv, BindingTypes
<1>5. c \in Selects => call[c].want \in Binding!Bindings
  BY <1>1 DEF BindingInv, Ids, IdOf, Binding!Bindings, CallRecord
<1>6. /\ disk' \in [Users -> Binding!Bindings]
      /\ \A u \in Users: disk'[u] = disk[u] \/ disk'[u] = Binding!NoBinding
                         \/ (u = call[c].as /\ c \in Selects /\ disk'[u] = call[c].want)
      /\ \A u \in Users: u # call[c].as => disk'[u] = disk[u]
  <2>1. CASE disk' = disk
    BY <2>1 DEF BindingInv, BindingTypes
  <2>2. CASE call[c].read /\ disk' = Binding!Mutation(c)
    <3>1. call[c].image = disk
      BY <2>2 DEF BindingInv, Fresh
    <3>2. Binding!NoBinding \in Binding!Bindings
      BY DEF Binding!Bindings
    <3> DEFINE new == IF c \in Unbinds THEN Binding!NoBinding ELSE call[c].want
    <3>3. disk' = [disk EXCEPT ![call[c].as] = new]
      BY <2>2, <3>1 DEF Binding!Mutation
    <3>4. new \in Binding!Bindings /\ (new = Binding!NoBinding \/ (c \in Selects /\ new = call[c].want))
      BY <1>5, <3>2 DEF Mutations
    <3> HIDE DEF new
    <3> QED
      BY <3>3, <3>4 DEF BindingInv, BindingTypes
  <2> QED
    BY <2>1, <2>2
<1>7. BindingTypes'
  BY <1>3, <1>4, <1>6 DEF BindingInv, BindingTypes
<1>8. Queue'
  <2>1. \A i, j \in 1..Len(chain'): chain'[i] = chain'[j] => i = j
    BY <1>2, <1>3 DEF BindingInv, Queue
  <2>2. ASSUME NEW d \in Mutations
        PROVE  call'[d].pc = "mutate" <=> \E i \in 1..Len(chain'): chain'[i] = d
    <3>1. CASE d = c
      <4>1. ~\E i \in 1..Len(chain'): chain'[i] = c
        BY <1>2, <1>3 DEF BindingInv, Queue
      <4> QED
        BY <3>1, <4>1, <1>4
    <3>2. CASE d # c
      <4>1. call'[d] = call[d]
        BY <3>2, <1>4 DEF Mutations, Binding!Calls
      <4>2. ASSUME NEW i \in 1..Len(chain), chain[i] = d
            PROVE  \E j \in 1..Len(chain'): chain'[j] = d
        <5>1. i - 1 \in 1..Len(chain') /\ (i - 1) + 1 = i
          BY <1>2, <1>3, <3>2, <4>2
        <5> QED
          BY <5>1, <4>2, <1>3
      <4>3. (\E i \in 1..Len(chain'): chain'[i] = d) => \E i \in 1..Len(chain): chain[i] = d
        BY <1>3
      <4> QED
        BY <4>1, <4>2, <4>3 DEF BindingInv, Queue
    <3> QED
      BY <3>1, <3>2
  <2> QED
    BY <2>1, <2>2 DEF Queue
<1>9. Fresh'
  <2> SUFFICES ASSUME NEW d \in Mutations, call'[d].read PROVE call'[d].pc \in {"done", "failed"}
    BY DEF Fresh
  <2>1. CASE d = c
    BY <2>1, <1>4
  <2>2. CASE d # c
    BY <2>2, <1>2, <1>4 DEF BindingInv, Fresh, Mutations, Binding!Calls
  <2> QED
    BY <2>1, <2>2
<1>10. \A i, u: IdOf(i, u) => i \in Selects /\ call'[i].as = u /\ call'[i].pc # "start"
  BY <1>1, <1>4, IdsStay
<1>11. Ids'
  <2>1. \A u \in Users: disk'[u] # Binding!NoBinding
          => disk'[u].id \in Selects /\ call'[disk'[u].id].as = u /\ call'[disk'[u].id].pc # "start"
    <3>1. \A u \in Users: disk[u] # Binding!NoBinding => IdOf(disk[u].id, u)
      BY DEF BindingInv, Ids
    <3>2. c \in Selects => IdOf(call[c].want.id, call[c].as)
      BY DEF BindingInv, Ids
    <3> QED
      BY <3>1, <3>2, <1>6, <1>10
  <2>2. ASSUME NEW d \in Selects
        PROVE  /\ call'[d].pc \in {"dialog", "get", "mutate"} => call'[d].as \in Users
               /\ call'[d].pc \in {"get", "mutate"} => call'[d].want.folder \in Folders
               /\ call'[d].pc = "mutate" => IdOf(call[d].want.id, call[d].as)'
    <3>1. CASE d = c
      BY <3>1, <1>4
    <3>2. CASE d # c
      BY <3>2, <1>4, <1>10 DEF BindingInv, Ids, IdOf, Binding!Calls
    <3> QED
      BY <3>1, <3>2
  <2>3. \A d \in Unbinds: call'[d].pc = "mutate" => call'[d].as \in Users
    BY <1>4 DEF BindingInv, Ids, Mutations, Binding!Calls
  <2>4. \A d \in FolderReads \cup Runs: call'[d].pc = "get" => call'[d].as \in Users
    BY <1>4 DEF BindingInv, Ids, Binding!Calls
  <2> QED
    BY <2>1, <2>2, <2>3, <2>4 DEF Ids, IdOf
<1> QED
  BY <1>6, <1>7, <1>8, <1>9, <1>11 DEF BindingInv

(* Go. *)
LEMMA Going ==
  ASSUME BindingInv, NEW c \in Binding!Calls, NEW from, NEW to, Binding!Go(c, from, to),
         to \in {"start", "dialog", "check", "authorize", "get", "mutate", "read", "report", "done", "failed"}
  PROVE  /\ call[c].pc = from /\ call'[c].pc = to /\ call'[c].as = call[c].as /\ call'[c].read = call[c].read
         /\ call'[c] \in CallRecord /\ call' = [call EXCEPT ![c] = call'[c]]
<1>1. call \in [Binding!Calls -> CallRecord] /\ call[c] \in CallRecord
  BY DEF BindingInv, BindingTypes
<1> DEFINE next == [call[c] EXCEPT !.pc = to]
<1>2. next \in CallRecord /\ next.pc = to /\ next.as = call[c].as /\ next.read = call[c].read
  BY <1>1 DEF CallRecord
<1>3. call' = [call EXCEPT ![c] = next] /\ call[c].pc = from
  BY DEF Binding!Go
<1> HIDE DEF next
<1> QED
  BY <1>1, <1>2, <1>3

(* Lookup: get waits for the mutations of the queue. *)
LEMMA LookingUp ==
  ASSUME BindingInv, NEW c \in Binding!Calls, NEW from, NEW u, NEW want, Binding!Lookup(c, from, u, want),
         u \in Users \cup {"NONE"}, want \in [id: Selects \cup {"NONE"}, folder: Folders \cup {"NONE"}]
  PROVE  /\ call[c].pc = from /\ call'[c].pc = "get" /\ call'[c].as = u /\ call'[c].want = want
         /\ call'[c].read = call[c].read /\ call'[c] \in CallRecord /\ call' = [call EXCEPT ![c] = call'[c]]
<1>1. call \in [Binding!Calls -> CallRecord] /\ call[c] \in CallRecord
  BY DEF BindingInv, BindingTypes
<1> DEFINE next == [call[c] EXCEPT !.pc = "get", !.as = u, !.want = want, !.wait = Binding!Range(chain)]
<1>2. Binding!Range(chain) \in SUBSET Mutations
  BY DEF BindingInv, BindingTypes, Binding!Range
<1>3. next \in CallRecord /\ next.pc = "get" /\ next.as = u /\ next.want = want /\ next.read = call[c].read
  BY <1>1, <1>2 DEF CallRecord
<1>4. call' = [call EXCEPT ![c] = next] /\ call[c].pc = from
  BY DEF Binding!Lookup
<1> HIDE DEF next
<1> QED
  BY <1>1, <1>3, <1>4

(* A call of a reader only needs to know for whom it looks up. *)
LEMMA Reader ==
  ASSUME BindingInv, NEW c \in FolderReads \cup Runs, UNCHANGED <<session, disk, chain>>,
         call'[c] \in CallRecord, call' = [call EXCEPT ![c] = call'[c]],
         call'[c].pc = "get" => call'[c].as \in Users
  PROVE  BindingInv'
<1>1. c \in Binding!Calls /\ c \notin Mutations /\ c \notin Selects
  BY DesktopMainAssumption DEF Binding!Calls, Mutations
<1>2. session' \in Users \cup {"NONE"}
  BY DEF BindingInv, BindingTypes
<1> QED
  BY <1>1, <1>2, Aside

LEMMA Selecting ==
  ASSUME BindingInv, NEW c \in Selects, Binding!OpenDialog(c) \/ Binding!Choose(c) \/ Binding!Upsert(c)
  PROVE  BindingInv'
<1>1. c \in Binding!Calls /\ c \in Mutations /\ c \notin FolderReads \cup Runs
  BY DesktopMainAssumption DEF Binding!Calls, Mutations
<1>2. /\ call \in [Binding!Calls -> CallRecord] /\ call[c] \in CallRecord /\ session \in Users \cup {"NONE"}
      /\ disk \in [Users -> Binding!Bindings]
  BY <1>1 DEF BindingInv, BindingTypes
<1>3. CASE Binding!OpenDialog(c)
  <2> DEFINE next == [call[c] EXCEPT !.pc = "dialog", !.as = session]
  <2>1. next \in CallRecord /\ next.pc = "dialog" /\ next.as = session /\ next.read = call[c].read
    BY <1>2 DEF CallRecord
  <2>2. call' = [call EXCEPT ![c] = next] /\ call[c].pc = "start" /\ session \in Users
        /\ UNCHANGED <<session, disk, chain>>
    BY <1>2, <1>3 DEF Binding!OpenDialog
  <2> HIDE DEF next
  <2>3. call'[c] = next
    BY <1>1, <1>2, <2>2
  <2> QED
    BY <1>1, <1>2, <2>1, <2>2, <2>3, Aside
<1>4. CASE Binding!Choose(c)
  <2>1. UNCHANGED <<session, disk, chain>> /\ session' \in Users \cup {"NONE"}
    BY <1>2, <1>4 DEF Binding!Choose
  <2>2. CASE Binding!Go(c, "dialog", "done")
    <3>1. call[c].pc = "dialog" /\ call'[c].pc = "done" /\ call'[c].as = call[c].as /\ call'[c].read = call[c].read
          /\ call'[c] \in CallRecord /\ call' = [call EXCEPT ![c] = call'[c]]
      BY <1>1, <2>2, Going
    <3> QED
      BY <1>1, <2>1, <3>1, Aside
  <2>3. ASSUME NEW f \in Folders, Binding!Lookup(c, "dialog", call[c].as, [id |-> "NONE", folder |-> f])
        PROVE  BindingInv'
    <3>1. call[c].as \in Users \cup {"NONE"}
          /\ [id |-> "NONE", folder |-> f] \in [id: Selects \cup {"NONE"}, folder: Folders \cup {"NONE"}]
      BY <1>2 DEF CallRecord
    <3>2. call[c].pc = "dialog" /\ call'[c].pc = "get" /\ call'[c].as = call[c].as
          /\ call'[c].want = [id |-> "NONE", folder |-> f] /\ call'[c].read = call[c].read
          /\ call'[c] \in CallRecord /\ call' = [call EXCEPT ![c] = call'[c]]
      BY <1>1, <2>3, <3>1, LookingUp
    <3>3. call'[c].as \in Users /\ call'[c].want.folder \in Folders
      BY <3>2 DEF BindingInv, Ids
    <3> QED
      BY <1>1, <2>1, <3>2, <3>3, Aside
  <2> QED
    BY <1>4, <2>2, <2>3 DEF Binding!Choose
<1>5. CASE Binding!Upsert(c)
  <2> DEFINE id == IF disk[call[c].as].id = "NONE" THEN c ELSE disk[call[c].as].id
             next == [call[c] EXCEPT !.pc = "mutate", !.want.id = id]
  <2>1. call[c].pc = "get" /\ UNCHANGED <<session, disk>> /\ chain' = Append(chain, c)
        /\ call' = [call EXCEPT ![c] = next]
    BY <1>5 DEF Binding!Upsert
  <2>2. call[c].as \in Users /\ call[c].want.folder \in Folders
    BY <2>1 DEF BindingInv, Ids
  <2>3. disk[call[c].as] \in Binding!Bindings
    BY <1>2, <2>2
  <2>4. id \in Selects /\ (id # c => IdOf(id, call[c].as))
    <3>1. CASE disk[call[c].as] = Binding!NoBinding
      BY <3>1 DEF Binding!NoBinding
    <3>2. CASE disk[call[c].as] # Binding!NoBinding
      <4>1. disk[call[c].as].id \in Selects
        BY <2>3, <3>2 DEF Binding!Bindings
      <4> QED
        BY <2>2, <3>2, <4>1, DesktopMainAssumption DEF BindingInv, Ids
    <3> QED
      BY <3>1, <3>2
  <2> HIDE DEF id
  <2>5. next \in CallRecord /\ next.pc = "mutate" /\ next.as = call[c].as /\ next.read = call[c].read
        /\ next.want.folder = call[c].want.folder /\ next.want.id = id
    BY <1>2, <2>4 DEF CallRecord
  <2> HIDE DEF next
  <2>6. call'[c] = next
    BY <1>1, <1>2, <2>1
  <2>7. IdOf(call[c].want.id, call[c].as)'
    <3>1. CASE id = c
      BY <2>5, <2>6, <3>1 DEF IdOf
    <3>2. CASE id # c
      <4>1. call'[id] = call[id]
        BY <1>2, <2>1, <2>4, <3>2 DEF Binding!Calls
      <4> QED
        BY <2>4, <2>5, <2>6, <3>2, <4>1 DEF IdOf
    <3> QED
      BY <3>1, <3>2
  <2>8. call[c].pc \in {"start", "get"} /\ call'[c].pc = "mutate" /\ call'[c].read = call[c].read
        /\ call'[c].as \in Users /\ call'[c] \in CallRecord /\ call' = [call EXCEPT ![c] = call'[c]]
        /\ call[c].pc # "start" /\ call'[c].as = call[c].as /\ call'[c].want.folder \in Folders
    BY <2>1, <2>2, <2>5, <2>6
  <2> QED
    BY <1>1, <2>1, <2>7, <2>8, Called
<1> QED
  BY <1>3, <1>4, <1>5

LEMMA Unbinding ==
  ASSUME BindingInv, NEW c \in Unbinds, Binding!Unbind(c)
  PROVE  BindingInv'
<1>1. c \in Binding!Calls /\ c \in Mutations /\ c \notin Selects
  BY DesktopMainAssumption DEF Binding!Calls, Mutations
<1>2. call \in [Binding!Calls -> CallRecord] /\ call[c] \in CallRecord /\ session \in Users \cup {"NONE"}
  BY <1>1 DEF BindingInv, BindingTypes
<1> DEFINE next == [call[c] EXCEPT !.pc = "mutate", !.as = session]
<1>3. next \in CallRecord /\ next.pc = "mutate" /\ next.as = session /\ next.read = call[c].read
  BY <1>2 DEF CallRecord
<1>4. call' = [call EXCEPT ![c] = next] /\ call[c].pc = "start" /\ session \in Users
      /\ UNCHANGED <<session, disk>> /\ chain' = Append(chain, c)
  BY <1>2 DEF Binding!Unbind
<1> HIDE DEF next
<1>5. call'[c] = next
  BY <1>1, <1>2, <1>4
<1>6. call[c].pc \in {"start", "get"} /\ call'[c].pc = "mutate" /\ call'[c].read = call[c].read
      /\ call'[c].as \in Users /\ call'[c] \in CallRecord /\ call' = [call EXCEPT ![c] = call'[c]]
  BY <1>3, <1>4, <1>5
<1> QED
  BY <1>1, <1>4, <1>6, Called

LEMMA ReadingFolders ==
  ASSUME BindingInv, NEW c \in FolderReads \cup Runs,
         Binding!Authorize(c) \/ Binding!AuthorizeFails(c) \/ Binding!AuthorizedBinding(c) \/ Binding!ReadFolder(c)
  PROVE  BindingInv'
<1>1. c \in Binding!Calls
  BY DEF Binding!Calls
<1>2. /\ call \in [Binding!Calls -> CallRecord] /\ call[c] \in CallRecord /\ session \in Users \cup {"NONE"}
      /\ disk \in [Users -> Binding!Bindings]
  BY <1>1 DEF BindingInv, BindingTypes
<1>3. UNCHANGED <<session, disk, chain>>
  BY DEF Binding!Authorize, Binding!AuthorizeFails, Binding!AuthorizedBinding, Binding!ReadFolder
<1>4. CASE Binding!Authorize(c)
  <2> DEFINE from == IF c \in Runs THEN "authorize" ELSE "start"
  <2>1. session \in Users /\ Binding!Lookup(c, from, session, Binding!NoBinding)
    BY <1>2, <1>4 DEF Binding!Authorize
  <2> HIDE DEF from
  <2>2. Binding!NoBinding \in [id: Selects \cup {"NONE"}, folder: Folders \cup {"NONE"}]
    BY DEF Binding!NoBinding
  <2>3. call'[c].as = session /\ call'[c] \in CallRecord /\ call' = [call EXCEPT ![c] = call'[c]]
    BY <1>1, <2>1, <2>2, LookingUp
  <2> QED
    BY <1>3, <2>1, <2>3, Reader
<1>5. ASSUME NEW from, NEW to, Binding!Go(c, from, to), to \in {"report", "failed", "done"}
      PROVE  BindingInv'
  <2>1. call'[c].pc = to /\ call'[c] \in CallRecord /\ call' = [call EXCEPT ![c] = call'[c]]
    BY <1>1, <1>5, Going
  <2> QED
    BY <1>3, <1>5, <2>1, Reader
<1>6. CASE Binding!AuthorizeFails(c)
  BY <1>5, <1>6 DEF Binding!AuthorizeFails
<1>7. CASE Binding!AuthorizedBinding(c)
  <2> DEFINE b == disk[call[c].as]
             to == IF b # Binding!NoBinding THEN "read" ELSE IF c \in Runs THEN "report" ELSE "failed"
             next == [call[c] EXCEPT !.pc = to, !.got = b.folder]
  <2>1. call[c].pc = "get" /\ call' = [call EXCEPT ![c] = next]
    BY <1>7 DEF Binding!AuthorizedBinding
  <2>2. b \in Binding!Bindings
    BY <1>2, <2>1 DEF BindingInv, Ids
  <2>3. b.folder \in Folders \cup {"NONE"}
    BY <2>2 DEF Binding!Bindings, Binding!NoBinding
  <2>4. to \in {"read", "report", "failed"}
    OBVIOUS
  <2> HIDE DEF b, to
  <2>5. next \in CallRecord /\ next.pc = to
    BY <1>2, <2>3, <2>4 DEF CallRecord
  <2> HIDE DEF next
  <2>6. call'[c] = next
    BY <1>1, <1>2, <2>1
  <2> QED
    BY <1>3, <2>1, <2>4, <2>5, <2>6, Reader
<1>8. CASE Binding!ReadFolder(c)
  <2>1. CASE Binding!Go(c, "read", IF c \in Runs THEN "report" ELSE "done")
    BY <1>5, <2>1
  <2>2. CASE call' = [call EXCEPT ![c].pc = IF c \in Runs THEN "report" ELSE "failed", ![c].got = "NONE"]
    <3> DEFINE to == IF c \in Runs THEN "report" ELSE "failed"
               next == [call[c] EXCEPT !.pc = to, !.got = "NONE"]
    <3>1. call' = [call EXCEPT ![c] = next]
      BY <2>2
    <3>2. to \in {"report", "failed"}
      OBVIOUS
    <3> HIDE DEF to
    <3>3. next \in CallRecord /\ next.pc = to
      BY <1>2, <3>2 DEF CallRecord
    <3> HIDE DEF next
    <3>4. call'[c] = next
      BY <1>1, <1>2, <3>1
    <3> QED
      BY <1>3, <3>1, <3>2, <3>3, <3>4, Reader
  <2> QED
    BY <1>8, <2>1, <2>2 DEF Binding!ReadFolder
<1> QED
  BY <1>4, <1>6, <1>7, <1>8

LEMMA RunningAgents ==
  ASSUME BindingInv, NEW c \in Runs, Binding!CreateAgentRun(c) \/ Binding!CheckUser(c) \/ Binding!Complete(c)
  PROVE  BindingInv'
<1>1. c \in Binding!Calls /\ c \in FolderReads \cup Runs
  BY DEF Binding!Calls
<1>2. call \in [Binding!Calls -> CallRecord] /\ call[c] \in CallRecord /\ session \in Users \cup {"NONE"}
  BY <1>1 DEF BindingInv, BindingTypes
<1>3. UNCHANGED <<session, disk, chain>>
  BY DEF Binding!CreateAgentRun, Binding!CheckUser, Binding!Complete
<1>4. CASE Binding!CreateAgentRun(c)
  <2> DEFINE next == [call[c] EXCEPT !.pc = "check", !.owner = session]
  <2>1. next \in CallRecord /\ next.pc = "check"
    BY <1>2 DEF CallRecord
  <2>2. call' = [call EXCEPT ![c] = next]
    BY <1>4 DEF Binding!CreateAgentRun
  <2> HIDE DEF next
  <2>3. call'[c] = next
    BY <1>1, <1>2, <2>2
  <2> QED
    BY <1>1, <1>3, <2>1, <2>2, <2>3, Reader
<1>5. ASSUME NEW from, NEW to, Binding!Go(c, from, to), to \in {"authorize", "report", "failed", "done"}
      PROVE  BindingInv'
  <2>1. call'[c].pc = to /\ call'[c] \in CallRecord /\ call' = [call EXCEPT ![c] = call'[c]]
    BY <1>1, <1>5, Going
  <2> QED
    BY <1>1, <1>3, <1>5, <2>1, Reader
<1>6. CASE Binding!CheckUser(c)
  BY <1>5, <1>6 DEF Binding!CheckUser
<1>7. CASE Binding!Complete(c)
  BY <1>5, <1>7 DEF Binding!Complete
<1> QED
  BY <1>4, <1>6, <1>7

LEMMA Mutating ==
  ASSUME BindingInv, NEW c \in Mutations, Binding!Mutate(c)
  PROVE  /\ BindingInv'
         /\ disk' # disk => \E d \in Binding!Range(chain): \A u \in Users \ {call[d].as}: disk'[u] = disk[u]
<1>1. CASE Binding!ReadRaw(c)
  BY <1>1, Image DEF Binding!ReadRaw
<1>2. CASE Binding!WriteJsonAtomically(c) \/ Binding!Fail(c)
  <2>1. /\ call[c].pc = "mutate" /\ Head(chain) = c /\ chain' = Tail(chain) /\ UNCHANGED session
        /\ disk' = disk \/ (call[c].read /\ disk' = Binding!Mutation(c))
    BY <1>2 DEF Binding!WriteJsonAtomically, Binding!Fail, Binding!Turn
  <2>2. PICK end \in {"done", "failed"}: call' = [call EXCEPT ![c].pc = end]
    BY <1>2 DEF Binding!WriteJsonAtomically, Binding!Fail
  <2>3. BindingInv' /\ \A u \in Users: u # call[c].as => disk'[u] = disk[u]
    BY <2>1, <2>2, Popped
  <2>4. c \in Binding!Range(chain)
    BY <2>1 DEF BindingInv, BindingTypes, Queue, Binding!Range
  <2> QED
    BY <2>3, <2>4
<1> QED
  BY <1>1, <1>2 DEF Binding!Mutate

LEMMA Switching ==
  ASSUME BindingInv, NEW u \in Users \cup {"NONE"}, Binding!SwitchUser(u)
  PROVE  BindingInv'
BY DEF Binding!SwitchUser, BindingInv, BindingTypes, Queue, Fresh, Ids, IdOf

LEMMA BindingStays ==
  ASSUME BindingInv, UNCHANGED binding
  PROVE  BindingInv'
BY DEF binding, BindingInv, BindingTypes, Queue, Fresh, Ids, IdOf

(* A lookup goes on only by AuthorizedBinding or Upsert. *)
LEMMA Answered ==
  ASSUME BindingInv, Binding!Next, NEW c \in Binding!Calls, call[c].pc = "get", call'[c].pc # "get"
  PROVE  Binding!Settled(c)
<1>1. call \in [Binding!Calls -> CallRecord]
  BY DEF BindingInv, BindingTypes
<1> QED
  BY <1>1 DEF Binding!Next, Binding!OpenDialog, Binding!Choose, Binding!Upsert, Binding!Unbind,
     Binding!Authorize, Binding!AuthorizeFails, Binding!AuthorizedBinding, Binding!ReadFolder,
     Binding!CreateAgentRun, Binding!CheckUser, Binding!Complete, Binding!Mutate, Binding!ReadRaw,
     Binding!WriteJsonAtomically, Binding!Fail, Binding!SwitchUser, Binding!Go, Binding!Lookup

LEMMA BindingKept ==
  ASSUME BindingInv, [Binding!Next]_binding
  PROVE  /\ BindingInv'
         /\ disk' # disk => \E c \in Binding!Range(chain): \A u \in Users \ {call[c].as}: disk'[u] = disk[u]
         /\ \A c \in Binding!Calls:
              call[c].pc = "get" /\ call'[c].pc # "get" => Binding!Range(chain) \cap call[c].wait = {}
<1>1. CASE UNCHANGED binding
  BY <1>1, BindingStays DEF binding
<1>2. CASE Binding!Next
  <2>1. BindingInv' /\ (disk' # disk => \E c \in Binding!Range(chain): \A u \in Users \ {call[c].as}: disk'[u] = disk[u])
    <3>1. ASSUME NEW c \in Selects, Binding!OpenDialog(c) \/ Binding!Choose(c) \/ Binding!Upsert(c)
          PROVE  BindingInv' /\ disk' = disk
      BY <3>1, Selecting DEF Binding!OpenDialog, Binding!Choose, Binding!Upsert
    <3>2. ASSUME NEW c \in Unbinds, Binding!Unbind(c)
          PROVE  BindingInv' /\ disk' = disk
      BY <3>2, Unbinding DEF Binding!Unbind
    <3>3. ASSUME NEW c \in FolderReads \cup Runs,
                 Binding!Authorize(c) \/ Binding!AuthorizeFails(c) \/ Binding!AuthorizedBinding(c) \/ Binding!ReadFolder(c)
          PROVE  BindingInv' /\ disk' = disk
      BY <3>3, ReadingFolders
         DEF Binding!Authorize, Binding!AuthorizeFails, Binding!AuthorizedBinding, Binding!ReadFolder
    <3>4. ASSUME NEW c \in Runs, Binding!CreateAgentRun(c) \/ Binding!CheckUser(c) \/ Binding!Complete(c)
          PROVE  BindingInv' /\ disk' = disk
      BY <3>4, RunningAgents DEF Binding!CreateAgentRun, Binding!CheckUser, Binding!Complete
    <3>5. ASSUME NEW u \in Users \cup {"NONE"}, Binding!SwitchUser(u)
          PROVE  BindingInv' /\ disk' = disk
      BY <3>5, Switching DEF Binding!SwitchUser
    <3>6. ASSUME NEW c \in Selects \cup Unbinds, Binding!Mutate(c)
          PROVE  BindingInv' /\ (disk' # disk => \E d \in Binding!Range(chain): \A u \in Users \ {call[d].as}: disk'[u] = disk[u])
      BY <3>6, Mutating DEF Mutations
    <3> QED
      BY <1>2, <3>1, <3>2, <3>3, <3>4, <3>5, <3>6 DEF Binding!Next
  <2>2. ASSUME NEW c \in Binding!Calls, call[c].pc = "get", call'[c].pc # "get",
               NEW m \in Binding!Range(chain), m \in call[c].wait
        PROVE  FALSE
    <3>1. call[m].pc \in {"done", "failed"}
      BY <1>2, <2>2, Answered DEF Binding!Settled, Binding!Ended
    <3>2. m \in Mutations /\ call[m].pc = "mutate"
      BY DEF BindingInv, BindingTypes, Queue, Binding!Range
    <3> QED
      BY <3>1, <3>2
  <2> QED
    BY <2>1, <2>2
<1> QED
  BY <1>1, <1>2

LEMMA BindingRuns == MainSpec => Binding!Init /\ [][Binding!Next]_binding
<1>1. [MainNext]_desktop => [Binding!Next]_binding
  BY DEF MainNext, WriteStep, GatewayStep, BindingStep, ReadStep, ReceiptStep, desktop
<1> QED
  BY <1>1, PTL DEF MainSpec, MainInit

(* No mutation loses the binding of another employee or answers with what   *)
(* an earlier one is still to change, whoever is signed in meanwhile        *)
(* (WorkspaceStore mutate, get; WorkspaceService select, unbind).           *)
THEOREM BindingsSurvive == MainSpec => BindingsKept
<1>1. BindingInv => Binding!TypeOK /\ Binding!OwnId
  <2> SUFFICES ASSUME BindingInv PROVE Binding!TypeOK /\ Binding!OwnId
    OBVIOUS
  <2>1. Binding!IsInjective(chain) /\ Binding!Range(chain) \subseteq Selects \cup Unbinds
    BY DEF BindingInv, BindingTypes, Queue, Mutations, Binding!IsInjective, Binding!Range
  <2>2. ASSUME NEW c \in Binding!Calls
        PROVE  /\ call[c].pc \in {"start", "dialog", "check", "authorize", "get", "mutate", "read", "report"} \cup Binding!Ended
               /\ {call[c].as, call[c].owner} \subseteq Users \cup {"NONE"}
               /\ call[c].want \in [id: Selects \cup {"NONE"}, folder: Folders \cup {"NONE"}]
               /\ call[c].wait \subseteq Selects \cup Unbinds
               /\ call[c].image \in [Users -> Binding!Bindings]
               /\ call[c].got \in Folders \cup {"NONE"}
    <3>1. call[c] \in CallRecord
      BY DEF BindingInv, BindingTypes
    <3> QED
      BY <3>1 DEF CallRecord, Mutations, Binding!Ended
  <2>3. \A c \in Selects \cup Unbinds: call[c].pc = "mutate" <=> c \in Binding!Range(chain)
    BY DEF BindingInv, BindingTypes, Queue, Mutations, Binding!Range
  <2>4. Binding!TypeOK
    BY <2>1, <2>2, <2>3 DEF BindingInv, BindingTypes, Binding!TypeOK
  <2>5. ASSUME NEW u \in Users, NEW v \in Users, u # v, disk[u] # Binding!NoBinding, disk[u].id = disk[v].id
        PROVE  FALSE
    <3>1. IdOf(disk[u].id, u)
      BY <2>5 DEF BindingInv, Ids
    <3>2. disk[v] # Binding!NoBinding
      BY <2>5, <3>1, DesktopMainAssumption DEF IdOf, Binding!NoBinding
    <3> QED
      BY <2>5, <3>1, <3>2 DEF BindingInv, Ids, IdOf
  <2> QED
    BY <2>4, <2>5 DEF Binding!OwnId
<1>2. BindingInv /\ [Binding!Next]_binding => BindingInv'
  BY BindingKept
<1>3. BindingInv /\ [Binding!Next]_binding =>
        [disk' # disk => \E c \in Binding!Range(chain): \A u \in Users \ {call[c].as}: disk'[u] = disk[u]]_(Binding!vars)
  BY BindingKept
<1>4. BindingInv /\ [Binding!Next]_binding =>
        [\A c \in Binding!Calls:
           call[c].pc = "get" /\ call'[c].pc # "get" => Binding!Range(chain) \cap call[c].wait = {}]_(Binding!vars)
  BY BindingKept
<1>5. MainSpec => []BindingInv
  BY <1>2, BindingBegins, BindingRuns, PTL
<1>6. MainSpec => Binding!NothingLost
  BY <1>3, <1>5, BindingRuns, PTL DEF Binding!NothingLost
<1>7. MainSpec => Binding!ObservesStarted
  BY <1>4, <1>5, BindingRuns, PTL DEF Binding!ObservesStarted
<1> QED
  BY <1>1, <1>5, <1>6, <1>7, PTL DEF BindingsKept

-----------------------------------------------------------------------------
(* ToolReceipt: the request does not change, and what is sent repeats it.   *)

ReceiptInv ==
  /\ Receipt!TypeOK
  /\ status # "none" => request = intent
  /\ status # "none" /\ request.name = "write_file" =>
       request.size <= MaxWrite /\ (request.effect = "CREATE" <=> request.expected = "none")
  /\ shown => status # "none" /\ Receipt!Normal(request)
  /\ sent # Receipt!None => status # "none" /\ (sent = Receipt!Failed \/ Receipt!Matches(request, sent))
  /\ verdict = "INVALID" => sent # Receipt!None /\ ~Receipt!Normal(request)

LEMMA ReceiptBegins == Receipt!Init => ReceiptInv
<1> QED
  BY DEF Receipt!Init, ReceiptInv, Receipt!TypeOK

LEMMA ReceiptKept == ReceiptInv /\ [Receipt!Next]_receipt => ReceiptInv'
<1> SUFFICES ASSUME ReceiptInv, [Receipt!Next]_receipt PROVE ReceiptInv'
  OBVIOUS
<1>1. CASE UNCHANGED receipt
  BY <1>1 DEF receipt, ReceiptInv, Receipt!TypeOK, Receipt!Normal, Receipt!Safe, Receipt!Matches
<1>2. CASE Receipt!CreateRead \/ Receipt!CreateWrite
  <2>1. /\ request = Receipt!None /\ request' = intent /\ status' \in {"RUNNING", "WAITING_HUMAN"}
        /\ UNCHANGED <<platform, intent, shown, sent, verdict>>
        /\ Receipt!Admitted(intent)
    BY <1>2 DEF Receipt!CreateRead, Receipt!CreateWrite, Receipt!Store
  <2>2. intent # Receipt!None /\ status = "none"
    BY <2>1 DEF ReceiptInv, Receipt!TypeOK, Receipt!Reads, Receipt!Writes, Receipt!None
  <2> QED
    BY <2>1, <2>2 DEF ReceiptInv, Receipt!TypeOK, Receipt!Admitted
<1>3. CASE Receipt!Show \/ Receipt!Approve
  BY <1>3 DEF Receipt!Show, Receipt!Approve, ReceiptInv, Receipt!TypeOK
<1>4. CASE Receipt!Listed \/ Receipt!Read \/ Receipt!Written \/ Receipt!FailedLocally
  <2>1. /\ status = "RUNNING" /\ sent = Receipt!None
        /\ UNCHANGED <<platform, intent, request, status, shown, verdict>>
    BY <1>4 DEF Receipt!Listed, Receipt!Read, Receipt!Written, Receipt!FailedLocally, Receipt!Send
  <2>2. sent' = Receipt!Failed \/ (Receipt!Matches(request, sent') /\ sent'.name = intent.name)
    <3>1. request = intent
      BY <2>1 DEF ReceiptInv
    <3>2. CASE Receipt!Listed \/ Receipt!FailedLocally
      BY <3>1, <3>2 DEF Receipt!Listed, Receipt!FailedLocally, Receipt!Send, Receipt!Matches
    <3>3. CASE Receipt!Read
      BY <3>1, <3>3 DEF Receipt!Read, Receipt!Send, Receipt!Matches
    <3>4. CASE Receipt!Written
      BY <3>1, <3>4 DEF Receipt!Written, Receipt!Send, Receipt!Matches
    <3> QED
      BY <1>4, <3>2, <3>3, <3>4
  <2>3. verdict' # "INVALID"
    BY <2>1 DEF ReceiptInv
  <2> QED
    BY <2>1, <2>2, <2>3 DEF ReceiptInv, Receipt!TypeOK, Receipt!Matches
<1>5. CASE Receipt!Complete
  <2>1. UNCHANGED <<platform, intent, request, shown, sent>> /\ sent # Receipt!None
    BY <1>5 DEF Receipt!Complete
  <2>2. verdict' \in {"taken", "INVALID"} /\ (verdict' = "INVALID" => ~Receipt!Normal(request))
    BY <1>5 DEF Receipt!Complete, ReceiptInv
  <2>3. status' \in {status, "SUCCEEDED", "FAILED"} /\ status # "none"
    BY <1>5 DEF Receipt!Complete, ReceiptInv
  <2> QED
    BY <2>1, <2>2, <2>3 DEF ReceiptInv, Receipt!TypeOK
<1> QED
  BY <1>1, <1>2, <1>3, <1>4, <1>5 DEF Receipt!Next

LEMMA ReceiptRuns == MainSpec => Receipt!Init /\ [][Receipt!Next]_receipt
<1>1. [MainNext]_desktop => [Receipt!Next]_receipt
  BY DEF MainNext, WriteStep, GatewayStep, BindingStep, ReadStep, ReceiptStep, desktop
<1> QED
  BY <1>1, PTL DEF MainSpec, MainInit

(* Whatever the platform, the API refuses only what its own rule of paths   *)
(* refuses (normalizeToolRequest, receiptMatchesRequest), and nothing the   *)
(* user was asked to confirm.                                               *)
THEOREM ReceiptsMatch == MainSpec => []ReceiptsAreTaken
<1>1. ReceiptInv => ReceiptsAreTaken
  <2> SUFFICES ASSUME ReceiptInv PROVE ReceiptsAreTaken
    OBVIOUS
  <2>1. Receipt!ReceiptsAreTaken
    BY DEF ReceiptInv, Receipt!TypeOK, Receipt!ReceiptsAreTaken, Receipt!Normal
  <2>2. Receipt!ShownCanBeWritten
    BY DEF ReceiptInv, Receipt!ShownCanBeWritten
  <2> QED
    BY <2>1, <2>2 DEF ReceiptInv, ReceiptsAreTaken
<1> QED
  BY <1>1, ReceiptBegins, ReceiptKept, ReceiptRuns, PTL
================================================================================
