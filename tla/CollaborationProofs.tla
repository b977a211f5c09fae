-------------------------- MODULE CollaborationProofs --------------------------
(***************************************************************************)
(* Proofs about Collaboration, for every set of users, conversations, keys *)
(* and transactions: a reader misses nothing, a conversation is dated by   *)
(* its last message, and senders are answered what is stored.              *)
(***************************************************************************)
EXTENDS Collaboration, FiniteSetTheorems, TLAPS

OpenTx == [step: {"begun", "inserted", "dated"}, request: Requests, seen: SUBSET Messages, at: 0..MaxTime]

Typed ==
  /\ TypeOK
  /\ tx \in [Slots -> OpenTx \cup {NoTx}]
  /\ answers \subseteq [request: Requests, message: Messages]
  /\ DOMAIN conversation = Conversations
  /\ IsFiniteSet(message)

Written(s) == tx[s].step \in {"inserted", "dated"}

(* Everything stored or seen is older than the clock; what a transaction    *)
(* has seen is older than its own message.                                  *)
Times ==
  /\ \A m \in message: m.at <= clock
  /\ \A s \in Slots: tx[s] # NoTx => tx[s].seen \subseteq message
  /\ \A s \in Slots: Written(s) => tx[s].at \in 1..clock /\ \A m \in tx[s].seen: m.at < tx[s].at

(* While a transaction holds its conversation, it has seen all of it.       *)
Locks ==
  \A s \in Slots: tx[s].step = "dated" =>
    /\ \A m \in message: m.request.on = tx[s].request.on => m \in tx[s].seen
    /\ \A t \in Slots \ {s}: tx[t].step = "dated" => tx[t].request.on # tx[s].request.on

KeysOnce ==
  /\ \A m, n \in message: SameKey(m.request, n.request) => m = n
  /\ \A s \in Slots: Written(s) =>
       /\ \A m \in message: ~SameKey(m.request, tx[s].request)
       /\ \A t \in Slots \ {s}: Written(t) => ~SameKey(tx[t].request, tx[s].request)

Pages ==
  /\ PagesMissNothing
  /\ \A c \in Conversations:
       reader[c].cursor = 0 \/ \E m \in message: m.request.on = c /\ m.at = reader[c].cursor

IInv == Typed /\ Times /\ Locks /\ KeysOnce /\ Pages /\ UpdatedIsLatest /\ RepliesTrue

LEMMA InitIInv == Init => IInv
<1> SUFFICES ASSUME Init PROVE IInv
  OBVIOUS
<1> USE CollaborationAssumption DEF Init
<1>1. Typed
  BY FS_EmptySet DEF Typed, TypeOK, NoTx
<1>2. Times /\ Locks /\ KeysOnce
  BY DEF Times, Locks, KeysOnce, Written, NoTx
<1>3. Pages /\ UpdatedIsLatest /\ RepliesTrue
  BY DEF Pages, PagesMissNothing, UpdatedIsLatest, RepliesTrue
<1> QED BY <1>1, <1>2, <1>3 DEF IInv

(* Begin takes its snapshot and writes nothing.                             *)
LEMMA BeginIInv ==
  ASSUME IInv, NEW s \in Slots, NEW request \in Requests, Begin(s, request)
  PROVE  IInv'
<1> USE CollaborationAssumption DEF IInv, Begin
<1> DEFINE new == [step |-> "begun", request |-> request, seen |-> message, at |-> 0]
<1>0. tx' = [tx EXCEPT ![s] = new] /\ new \in OpenTx
  BY DEF Typed, TypeOK, OpenTx
<1>1. Typed'
  BY <1>0 DEF Typed, TypeOK, OpenTx
<1>2. \A t \in Slots: IF t = s THEN tx'[t] = new ELSE tx'[t] = tx[t]
  BY <1>0 DEF Typed
<1>3. \A t \in Slots: Written(t)' => Written(t) /\ t # s
  BY <1>2 DEF Written
<1>4. Times' /\ Locks' /\ KeysOnce'
  BY <1>2, <1>3 DEF Times, Locks, KeysOnce, Written, SameKey
<1>5. Pages' /\ UpdatedIsLatest' /\ RepliesTrue'
  BY DEF Pages, PagesMissNothing, UpdatedIsLatest, RepliesTrue, SameKey
<1> QED BY <1>1, <1>4, <1>5

(* Ending a transaction leaves fewer of them.                               *)
LEMMA EndKeeps ==
  ASSUME Typed, Times, Locks, KeysOnce, NEW s \in Slots, End(s),
         UNCHANGED <<message, clock>>
  PROVE  Times' /\ Locks' /\ KeysOnce' /\ tx' \in [Slots -> OpenTx \cup {NoTx}]
<1>1. tx' \in [Slots -> OpenTx \cup {NoTx}]
  BY DEF Typed, End
<1>2. \A t \in Slots: IF t = s THEN tx'[t] = NoTx ELSE tx'[t] = tx[t]
  BY DEF Typed, End
<1>3. tx'[s].step = "none"
  BY <1>2 DEF NoTx
<1>4. \A t \in Slots: (Written(t)' => Written(t) /\ t # s) /\ (tx'[t].step = "dated" => t # s)
  BY <1>2, <1>3 DEF Written
<1>5. Times' /\ Locks' /\ KeysOnce'
  BY <1>2, <1>4 DEF Times, Locks, KeysOnce, Written, SameKey
<1> QED BY <1>1, <1>5

LEMMA AbortIInv ==
  ASSUME IInv, NEW s \in Slots, Abort(s)
  PROVE  IInv'
<1> USE DEF IInv, Abort
<1>1. Times' /\ Locks' /\ KeysOnce' /\ tx' \in [Slots -> OpenTx \cup {NoTx}]
  BY EndKeeps
<1>2. \A t \in Slots: tx'[t].step \in {"none", "begun", "inserted", "dated"}
  BY <1>1 DEF OpenTx, NoTx
<1>3. Typed'
  BY <1>1, <1>2 DEF Typed, TypeOK
<1>4. Pages' /\ UpdatedIsLatest' /\ RepliesTrue'
  BY DEF Pages, PagesMissNothing, UpdatedIsLatest, RepliesTrue, SameKey
<1> QED BY <1>1, <1>3, <1>4

(* A repeated key is answered with the one message that has it.             *)
LEMMA RepeatIInv ==
  ASSUME IInv, NEW s \in Slots, Repeat(s)
  PROVE  IInv'
<1> USE DEF IInv, Repeat
<1>1. Times' /\ Locks' /\ KeysOnce' /\ tx' \in [Slots -> OpenTx \cup {NoTx}]
  BY EndKeeps
<1>2. \A t \in Slots: tx'[t].step \in {"none", "begun", "inserted", "dated"}
  BY <1>1 DEF OpenTx, NoTx
<1>3. tx[s] \in OpenTx /\ tx[s].seen \subseteq message
  BY DEF Typed, Times, OpenTx, NoTx
<1>4. Typed'
  BY <1>1, <1>2, <1>3 DEF Typed, TypeOK, Existing, OpenTx
<1>5. Pages' /\ UpdatedIsLatest'
  BY DEF Pages, PagesMissNothing, UpdatedIsLatest
<1>6. ASSUME NEW m \in Existing(s), m.request.content = tx[s].request.content
      PROVE  m \in message /\ m.request = tx[s].request
  <2>1. m \in message /\ m \in Messages /\ SameKey(m.request, tx[s].request)
    BY <1>3 DEF Existing, Typed, TypeOK
  <2>2. m.request \in Requests /\ tx[s].request \in Requests
    BY <1>3, <2>1 DEF Messages, OpenTx
  <2> QED BY <1>6, <2>1, <2>2 DEF SameKey, Requests
<1>7. \A a \in answers': a.message \in message /\ a.message.request = a.request
  BY <1>6 DEF RepliesTrue
<1>8. RepliesTrue'
  BY <1>7 DEF RepliesTrue, KeysOnce, SameKey
<1> QED BY <1>1, <1>4, <1>5, <1>8

(* The new message is later than all that was seen, and its key is new.     *)
LEMMA InsertIInv ==
  ASSUME IInv, NEW s \in Slots, Insert(s)
  PROVE  IInv'
<1> USE CollaborationAssumption DEF IInv, Insert
<1>0. tx[s] \in OpenTx /\ tx[s].step = "begun" /\ clock \in 0..MaxTime /\ clock' = clock + 1 /\ clock' \in 1..MaxTime
  BY DEF Typed, TypeOK, OpenTx, NoTx, Now
<1> DEFINE new == [tx[s] EXCEPT !.step = "inserted", !.at = clock']
<1>1. new \in OpenTx /\ new.request = tx[s].request /\ new.seen = tx[s].seen /\ new.at = clock' /\ new.step = "inserted"
  <2>1. \A time \in 0..MaxTime:
          LET n == [tx[s] EXCEPT !.step = "inserted", !.at = time]
          IN n \in OpenTx /\ n.request = tx[s].request /\ n.seen = tx[s].seen /\ n.at = time /\ n.step = "inserted"
    BY <1>0 DEF OpenTx
  <2>2. clock' \in 0..MaxTime
    BY <1>0
  <2> QED BY <2>1, <2>2
<1>2. tx' = [tx EXCEPT ![s] = new]
  BY <1>0 DEF Typed
<1>3. \A t \in Slots: IF t = s THEN tx'[t] = new ELSE tx'[t] = tx[t]
  BY <1>2 DEF Typed
<1> HIDE DEF new
<1>4. Typed'
  BY <1>0, <1>1, <1>2, <1>3 DEF Typed, TypeOK, OpenTx
<1>5. \A m \in message: m.at \in Nat /\ m.at <= clock
  BY DEF Typed, TypeOK, Messages, Times
<1>6. Times'
  BY <1>0, <1>1, <1>3, <1>5 DEF Times, Written, Typed, OpenTx, NoTx
<1>7. Locks'
  BY <1>1, <1>3 DEF Locks
<1>8. KeysOnce'
  <2>1. \A t \in Slots \ {s}: Written(t) =>
          ~SameKey(tx[t].request, tx[s].request) /\ ~SameKey(tx[s].request, tx[t].request)
    BY DEF Same, Written, SameKey
  <2>2. \A t \in Slots \ {s}: Written(t)' <=> Written(t)
    BY <1>3 DEF Written
  <2> QED BY <1>1, <1>3, <2>1, <2>2 DEF KeysOnce, SameKey
<1>9. Pages' /\ UpdatedIsLatest' /\ RepliesTrue'
  BY DEF Pages, PagesMissNothing, UpdatedIsLatest, RepliesTrue, SameKey
<1> QED BY <1>4, <1>6, <1>7, <1>8, <1>9

(* Taking the lock of a conversation shows that all of it was seen.         *)
LEMMA DateIInv ==
  ASSUME IInv, NEW s \in Slots, Date(s)
  PROVE  IInv'
<1> USE DEF IInv, Date
<1>0. tx[s] \in OpenTx /\ tx[s].step = "inserted"
  BY DEF Typed, OpenTx, NoTx
<1> DEFINE new == [tx[s] EXCEPT !.step = "dated"]
<1>1. new \in OpenTx /\ new.request = tx[s].request /\ new.seen = tx[s].seen /\ new.at = tx[s].at /\ new.step = "dated"
  BY <1>0 DEF OpenTx
<1>2. tx' = [tx EXCEPT ![s] = new]
  BY <1>0 DEF Typed
<1>3. \A t \in Slots: IF t = s THEN tx'[t] = new ELSE tx'[t] = tx[t]
  BY <1>2 DEF Typed
<1> HIDE DEF new
<1>4. Typed'
  BY <1>0, <1>1, <1>2, <1>3 DEF Typed, TypeOK, OpenTx
<1>5. \A t \in Slots: Written(t)' <=> Written(t)
  BY <1>0, <1>1, <1>3 DEF Written
<1>6. \A t \in Slots: tx'[t].request = tx[t].request /\ tx'[t].seen = tx[t].seen /\ tx'[t].at = tx[t].at
  BY <1>1, <1>3
<1>7. Times'
  <2>1. \A t \in Slots: tx'[t] # NoTx => tx[t] # NoTx
    BY <1>0, <1>3 DEF NoTx
  <2> QED BY <1>5, <1>6, <2>1 DEF Times
<1>8. Locks'
  BY <1>1, <1>3 DEF Locks, UpdatedSince
<1>9. KeysOnce'
  BY <1>5, <1>6 DEF KeysOnce, SameKey
<1>10. Pages' /\ UpdatedIsLatest' /\ RepliesTrue'
  BY DEF Pages, PagesMissNothing, UpdatedIsLatest, RepliesTrue, SameKey
<1> QED BY <1>4, <1>7, <1>8, <1>9, <1>10

(* The committed message is the latest of its conversation.                 *)
LEMMA CommitIInv ==
  ASSUME IInv, NEW s \in Slots, Commit(s)
  PROVE  IInv'
<1> USE CollaborationAssumption DEF IInv, Commit
<1> DEFINE m == [request |-> tx[s].request, at |-> tx[s].at]
<1>0. tx[s] \in OpenTx /\ tx[s].step = "dated" /\ Written(s) /\ tx[s] # NoTx
  BY DEF Typed, OpenTx, NoTx, Written
<1>1. m \in Messages /\ m.at \in 1..clock /\ m.request \in Requests /\ m.request.on \in Conversations
      /\ m.request = tx[s].request /\ m.at = tx[s].at
  BY <1>0 DEF Times, Typed, TypeOK, OpenTx, Messages, Requests
<1>2. message' = message \cup {m} /\ updatedAt' = [updatedAt EXCEPT ![m.request.on] = m.at]
      /\ (answers' = answers \/ answers' = answers \cup {[request |-> m.request, message |-> m]})
  OBVIOUS
<1>3. \A n \in message: n \in Messages /\ n.at \in Nat /\ ~SameKey(n.request, m.request)
                          /\ (n.request.on = m.request.on => n.at < m.at)
  <2>1. \A n \in message: n \in Messages /\ n.at \in Nat
    BY DEF Typed, TypeOK, Messages
  <2> QED BY <1>0, <1>1, <2>1 DEF Locks, Times, KeysOnce
<1> HIDE DEF m
<1>4. \A t \in Slots: IF t = s THEN tx'[t] = NoTx ELSE tx'[t] = tx[t]
  BY DEF Typed, End
<1>5. \A t \in Slots: (Written(t)' => Written(t) /\ t # s) /\ (tx'[t].step = "dated" => t # s)
  BY <1>4 DEF Written, NoTx
<1>6. Typed'
  <2>1. tx' \in [Slots -> OpenTx \cup {NoTx}]
    BY DEF Typed, End
  <2>2. \A t \in Slots: tx'[t].step \in {"none", "begun", "inserted", "dated"}
    BY <2>1 DEF OpenTx, NoTx
  <2>3. IsFiniteSet(message')
    BY <1>2, FS_AddElement DEF Typed
  <2>4. updatedAt' \in [Conversations -> 0..MaxTime]
    BY <1>1, <1>2 DEF Typed, TypeOK
  <2>5. [request |-> m.request, message |-> m] \in [request: Requests, message: Messages]
    BY <1>1
  <2> QED BY <1>1, <1>2, <2>1, <2>2, <2>3, <2>4, <2>5 DEF Typed, TypeOK
<1>7. Times'
  BY <1>1, <1>2, <1>4, <1>5 DEF Times, Written
<1>8. Locks'
  BY <1>0, <1>1, <1>2, <1>4, <1>5 DEF Locks
<1>9. KeysOnce'
  <2>1. \A t \in Slots \ {s}: Written(t) => ~SameKey(m.request, tx[t].request)
    BY <1>0, <1>1 DEF KeysOnce, SameKey
  <2>2. \A n \in message: ~SameKey(m.request, n.request)
    BY <1>3 DEF SameKey
  <2> QED BY <1>2, <1>3, <1>4, <1>5, <2>1, <2>2 DEF KeysOnce, Written, SameKey
<1>10. Pages'
  <2>1. m.at > reader[m.request.on].cursor
    BY <1>1, <1>3 DEF Pages, Typed, TypeOK
  <2>2. reader[m.request.on].cursor \in Nat
    BY <1>1 DEF Typed, TypeOK
  <2> QED BY <1>1, <1>2, <2>1, <2>2 DEF Pages, PagesMissNothing
<1>11. UpdatedIsLatest'
  BY <1>1, <1>2, <1>3 DEF UpdatedIsLatest, Typed, TypeOK
<1>12. RepliesTrue'
  <2>1. \A a \in answers: ~SameKey(a.request, m.request) /\ ~SameKey(m.request, a.request)
    BY <1>3 DEF RepliesTrue, SameKey
  <2> QED BY <1>1, <1>2, <2>1 DEF RepliesTrue, SameKey
<1> QED BY <1>6, <1>7, <1>8, <1>9, <1>10, <1>11, <1>12

(* A page has every message after the cursor up to its own last one.        *)
LEMMA ReadPageIInv ==
  ASSUME IInv, NEW c \in Conversations, ReadPage(c)
  PROVE  IInv'
<1> USE CollaborationAssumption DEF IInv
<1> DEFINE after == {m \in message: m.request.on = c /\ m.at > reader[c].cursor}
           earlier(m) == {n \in after: n.at < m.at}
           page == {m \in after: Cardinality(earlier(m)) < PageSize}
<1>1. PICK last \in page: /\ \A m \in page: m.at <= last.at
                          /\ reader' = [reader EXCEPT ![c] = [cursor |-> last.at, got |-> @.got \cup page]]
  BY DEF ReadPage
<1>2. UNCHANGED <<conversation, message, updatedAt, tx, clock, answers>>
  BY DEF ReadPage
<1>3. \A m \in message: m \in Messages /\ m.at \in 1..MaxTime
  BY DEF Typed, TypeOK, Messages
<1>4. reader[c].cursor \in Nat /\ last \in message /\ last.request.on = c
  BY <1>1 DEF Typed, TypeOK
<1>5. ASSUME NEW n \in after, n.at <= last.at
      PROVE  n \in page
  <2>1. earlier(n) \subseteq earlier(last)
    BY <1>3, <1>4, <1>5
  <2>2. IsFiniteSet(earlier(last))
    BY FS_Subset DEF Typed
  <2>3. Cardinality(earlier(n)) <= Cardinality(earlier(last)) /\ IsFiniteSet(earlier(n))
    BY <2>1, <2>2, FS_Subset
  <2>4. Cardinality(earlier(n)) \in Nat /\ Cardinality(earlier(last)) \in Nat
    BY <2>2, <2>3, FS_CardinalityType
  <2>5. Cardinality(earlier(last)) < PageSize
    BY <1>1
  <2> QED BY <2>3, <2>4, <2>5
<1>6. reader'[c].cursor = last.at /\ reader'[c].got = reader[c].got \cup page
      /\ \A d \in Conversations \ {c}: reader'[d] = reader[d]
  BY <1>1 DEF Typed, TypeOK
<1>7. Typed'
  <2>1. page \subseteq Messages /\ last.at \in 0..MaxTime
    BY <1>3, <1>4
  <2>2. reader[c].got \cup page \subseteq Messages
    BY <2>1 DEF Typed, TypeOK
  <2>3. reader' \in [Conversations -> [cursor: 0..MaxTime, got: SUBSET Messages]]
    BY <1>1, <2>1, <2>2 DEF Typed, TypeOK
  <2> QED BY <1>2, <2>3 DEF Typed, TypeOK
<1>8. Pages'
  <2>1. ASSUME NEW m \in message, m.at <= reader'[m.request.on].cursor
        PROVE  m \in reader'[m.request.on].got
    <3>1. m.request.on \in Conversations
      BY <1>3 DEF Messages, Requests
    <3>2. CASE m.request.on # c
      BY <1>6, <2>1, <3>1, <3>2 DEF Pages, PagesMissNothing
    <3>3. CASE m.request.on = c /\ m.at <= reader[c].cursor
      BY <1>6, <3>3 DEF Pages, PagesMissNothing
    <3>4. CASE m.request.on = c /\ m.at > reader[c].cursor
      <4>1. m \in page
        BY <1>5, <1>6, <2>1, <3>4
      <4> QED BY <1>6, <3>4, <4>1
    <3> QED BY <1>3, <1>4, <3>2, <3>3, <3>4
  <2>2. \A d \in Conversations:
          reader'[d].cursor = 0 \/ \E m \in message: m.request.on = d /\ m.at = reader'[d].cursor
    BY <1>4, <1>6 DEF Pages
  <2> QED BY <1>2, <2>1, <2>2 DEF Pages, PagesMissNothing
<1>9. Times' /\ Locks' /\ KeysOnce' /\ UpdatedIsLatest' /\ RepliesTrue'
  BY <1>2 DEF Times, Locks, KeysOnce, UpdatedIsLatest, RepliesTrue, Written, SameKey
<1> QED BY <1>7, <1>8, <1>9

(* Nothing above speaks of the conversations' rows.                         *)
LEMMA CreateConversationIInv ==
  ASSUME IInv, NEW c \in Conversations, NEW row \in Rows, CreateConversation(c, row)
  PROVE  IInv'
<1> USE DEF IInv, CreateConversation
<1>1. Typed'
  BY DEF Typed, TypeOK
<1>2. Times' /\ Locks' /\ KeysOnce' /\ Pages' /\ UpdatedIsLatest' /\ RepliesTrue'
  BY DEF Times, Locks, KeysOnce, Pages, PagesMissNothing, UpdatedIsLatest, RepliesTrue, Written, SameKey
<1> QED BY <1>1, <1>2

LEMMA NextIInv == IInv /\ [Next]_vars => IInv'
<1> SUFFICES ASSUME IInv, [Next]_vars PROVE IInv'
  OBVIOUS
<1>1. CASE UNCHANGED vars
  BY <1>1 DEF vars, IInv, Typed, TypeOK, Times, Locks, KeysOnce, Pages, PagesMissNothing, UpdatedIsLatest,
              RepliesTrue, Written, SameKey
<1>2. CASE \E c \in Conversations: ReadPage(c) \/ \E row \in Rows: CreateConversation(c, row)
  BY <1>2, ReadPageIInv, CreateConversationIInv
<1>3. CASE \E s \in Slots: \E request \in Requests: Begin(s, request)
  BY <1>3, BeginIInv
<1>4. CASE \E s \in Slots: Repeat(s) \/ Insert(s) \/ Date(s) \/ Commit(s) \/ Abort(s)
  BY <1>4, RepeatIInv, InsertIInv, DateIInv, CommitIInv, AbortIInv
<1> QED BY <1>1, <1>2, <1>3, <1>4 DEF Next

LEMMA AlwaysIInv == Spec => []IInv
<1> QED BY InitIInv, NextIInv, PTL DEF Spec

(* The state keeps its types. *)
THEOREM CollaborationTypeCorrect == Spec => []TypeOK
<1>1. IInv => TypeOK
  BY DEF IInv, Typed
<1> QED BY <1>1, AlwaysIInv, PTL

(* A reader that pages through listMessages by time misses no message of    *)
(* createMessage, whatever is sent meanwhile.                               *)
THEOREM ReadersMissNothing == Spec => []PagesMissNothing
<1>1. IInv => PagesMissNothing
  BY DEF IInv, Pages
<1> QED BY <1>1, AlwaysIInv, PTL

(* listConversations is ordered by the last message of each conversation.   *)
THEOREM DatedByLast == Spec => []UpdatedIsLatest
<1>1. IInv => UpdatedIsLatest
  BY DEF IInv
<1> QED BY <1>1, AlwaysIInv, PTL

(* What createMessage answers is stored, and is the same for each repeat.   *)
THEOREM AnswersAreStored == Spec => []RepliesTrue
<1>1. IInv => RepliesTrue
  BY DEF IInv
<1> QED BY <1>1, AlwaysIInv, PTL

(* A conversation never changes, and the rules of creating one are within   *)
(* those of seeing it: one of the project has the scope of its type, which  *)
(* createConversation looks up, and who creates is a participant.           *)
LEMMA NextCreatorSees == IInv /\ CreatorSees /\ [Next]_vars => CreatorSees'
<1> SUFFICES ASSUME IInv, CreatorSees, [Next]_vars PROVE CreatorSees'
  OBVIOUS
<1>1. CASE UNCHANGED conversation
  BY <1>1 DEF CreatorSees, Visible
<1>2. ASSUME NEW c \in Conversations, NEW row \in Rows, CreateConversation(c, row)
      PROVE  CreatorSees'
  <2>1. \A d \in Conversations: conversation'[d] = IF d = c THEN row ELSE conversation[d]
    BY <1>2 DEF CreateConversation, IInv, Typed
  <2>2. Visible(row.by, c)'
    <3>0. row.type \in {"AI_THREAD", "PROJECT", "TASK", "HUMAN_GROUP", "HUMAN_DM"}
      BY CollaborationAssumption DEF Rows
    <3>1. row # None /\ row.type \in {"AI_THREAD", "PROJECT", "TASK", "HUMAN_GROUP", "HUMAN_DM"}
      BY <3>0 DEF None
    <3>2. row.type \in {"PROJECT", "TASK"} => row.by \in ProjectMembers
      BY <1>2 DEF CreateConversation, Creatable, ScopeVisible
    <3>3. row.by \in row.participants /\ conversation'[c] = row
      BY <1>2, <2>1 DEF CreateConversation
    <3>4. CASE row.type = "AI_THREAD"
      BY <3>1, <3>3, <3>4 DEF Visible
    <3>5. CASE row.type \in {"HUMAN_GROUP", "HUMAN_DM"}
      BY <3>1, <3>3, <3>5 DEF Visible
    <3>6. CASE row.type \in {"PROJECT", "TASK"}
      BY <3>1, <3>2, <3>3, <3>6 DEF Visible
    <3> QED BY <3>1, <3>4, <3>5, <3>6
  <2>3. ASSUME NEW d \in Conversations, conversation'[d] # None PROVE Visible(conversation[d].by, d)'
    <3>1. CASE d = c
      BY <2>1, <2>2, <3>1
    <3>2. CASE d # c
      BY <2>1, <2>3, <3>2 DEF CreatorSees, Visible
    <3> QED BY <3>1, <3>2
  <2> QED BY <2>3 DEF CreatorSees
<1>3. ASSUME NEW s \in Slots,
             \/ \E request \in Requests: Begin(s, request)
             \/ Repeat(s) \/ Insert(s) \/ Date(s) \/ Commit(s) \/ Abort(s)
      PROVE  UNCHANGED conversation
  BY <1>3 DEF Begin, Repeat, Insert, Date, Commit, Abort
<1> QED BY <1>1, <1>2, <1>3 DEF Next, ReadPage, vars

(* Beside what senders are answered and how conversations are dated: who    *)
(* creates a conversation finds it, though creating and looking up decide   *)
(* by different rules.                                                      *)
THEOREM ConversationsAreConsistent == Spec => []ConversationsHold
<1>1. Init => CreatorSees
  BY DEF Init, CreatorSees
<1>2. Spec => []CreatorSees
  BY <1>1, NextCreatorSees, AlwaysIInv, PTL DEF Spec
<1>3. IInv /\ CreatorSees => ConversationsHold
  BY DEF IInv, Typed, ConversationsHold
<1> QED BY <1>2, <1>3, AlwaysIInv, PTL
===============================================================================
