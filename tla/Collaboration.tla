----------------------------- MODULE Collaboration -----------------------------
(***************************************************************************)
(* Conversations and their messages.  createMessage is a transaction at    *)
(* RepeatableRead: it looks for its idempotency key in its snapshot, reads *)
(* the clock, inserts the message, and dates the conversation.  Readers    *)
(* page through the messages by their time.  A message is identified by    *)
(* its time: a transaction reads the clock several queries after its       *)
(* snapshot, so two that commit in one conversation have different times.  *)
(***************************************************************************)
EXTENDS Naturals, FiniteSets

CONSTANTS
  Users,
  ProjectMembers,   \* the users of the one project
  Conversations,
  Types,            \* bound: the types of conversations created
  Keys, Contents,
  Slots,            \* bound: transactions that are open at a time
  PageSize,         \* limit
  MaxTime           \* bound: clock readings

ASSUME CollaborationAssumption ==
  /\ ProjectMembers \subseteq Users /\ "none" \notin Contents
  /\ Types \subseteq {"AI_THREAD", "PROJECT", "TASK", "HUMAN_GROUP", "HUMAN_DM"}
  /\ PageSize \in Nat \ {0} /\ MaxTime \in Nat

VARIABLES
  conversation,   \* conversations, or None
  message,        \* committed messages
  updatedAt,      \* Conversation.updatedAt
  tx,             \* open transactions of createMessage
  clock,
  answers,        \* what was answered, with the request
  reader          \* a client that pages through each conversation

vars == <<conversation, message, updatedAt, tx, clock, answers, reader>>

ScopeTypes == {"USER", "PROJECT", "TASK"}
None == [type |-> "none"]
Rows == [type: Types, scope: ScopeTypes, by: Users, participants: SUBSET Users]
Requests == [by: Users, on: Conversations, key: Keys, content: Contents]
Messages == [request: Requests, at: 1..MaxTime]
NoTx == [step |-> "none"]

TypeOK ==
  /\ \A c \in Conversations: conversation[c] \in Rows \cup {None}
  /\ message \subseteq Messages
  /\ updatedAt \in [Conversations -> 0..MaxTime] /\ clock \in 0..MaxTime
  /\ \A s \in Slots: tx[s].step \in {"none", "begun", "inserted", "dated"}
  /\ \A a \in answers: a.request \in Requests /\ a.message \in Messages
  /\ reader \in [Conversations -> [cursor: 0..MaxTime, got: SUBSET Messages]]

Init ==
  /\ conversation = [c \in Conversations |-> None]
  /\ message = {} /\ updatedAt = [c \in Conversations |-> 0]
  /\ tx = [s \in Slots |-> NoTx] /\ clock = 0 /\ answers = {}
  /\ reader = [c \in Conversations |-> [cursor |-> 0, got |-> {}]]

-----------------------------------------------------------------------------
(* createConversation.  A TASK scope is a task of the project.              *)

ScopeVisible(u, row) == row.scope \in {"PROJECT", "TASK"} => u \in ProjectMembers

(* Mutant: the scope is not looked up. *)
CreatableAnywhere(u, row) ==
  /\ row.type = "HUMAN_DM" => Cardinality(row.participants) = 2
  /\ row.type \in {"PROJECT", "TASK"} => row.scope = row.type
  /\ row.type = "AI_THREAD" => row.scope = "USER"

Creatable(u, row) ==
  /\ row.type = "HUMAN_DM" => Cardinality(row.participants) = 2
  /\ row.type \in {"PROJECT", "TASK"} => row.scope = row.type
  /\ ScopeVisible(u, row)
  /\ row.type = "AI_THREAD" => row.scope = "USER"

CreateConversation(c, row) ==
  /\ conversation[c] = None
  /\ row.by \in row.participants /\ Creatable(row.by, row)
  /\ conversation' = [conversation EXCEPT ![c] = row]
  /\ UNCHANGED <<message, updatedAt, tx, clock, answers, reader>>

Visible(u, c) ==
  LET row == conversation[c] IN
  CASE row = None -> FALSE
    [] row.type = "AI_THREAD" -> row.by = u
    [] row.type \in {"HUMAN_GROUP", "HUMAN_DM"} -> u \in row.participants
    [] OTHER -> u \in ProjectMembers

-----------------------------------------------------------------------------
(* createMessage *)

Begin(s, request) ==
  /\ tx[s] = NoTx /\ Visible(request.by, request.on)
  /\ tx' = [tx EXCEPT ![s] = [step |-> "begun", request |-> request, seen |-> message, at |-> 0]]
  /\ UNCHANGED <<conversation, message, updatedAt, clock, answers, reader>>

End(s) == tx' = [tx EXCEPT ![s] = NoTx]

(* Mutant: the key is looked up in the conversation, whoever wrote it. *)
SameKeyAnyAuthor(r, q) == r.on = q.on /\ r.key = q.key

SameKey(r, q) == r.on = q.on /\ r.by = q.by /\ r.key = q.key

Existing(s) == {m \in tx[s].seen: SameKey(m.request, tx[s].request)}

(* The stored message, or CONFLICT when it has other content. *)
Repeat(s) ==
  /\ tx[s].step = "begun" /\ Existing(s) # {}
  /\ answers' = answers \cup
       {[request |-> tx[s].request, message |-> m]: m \in {n \in Existing(s): n.request.content = tx[s].request.content}}
  /\ End(s)
  /\ UNCHANGED <<conversation, message, updatedAt, clock, reader>>

Now == clock < MaxTime /\ clock' = clock + 1

Same(s, r) == tx[s].step \in {"inserted", "dated"} /\ SameKey(tx[s].request, r)

(* messages_conversation_author_idempotency_key: the insert waits for an    *)
(* open transaction with its key, and fails when that has committed.        *)
Insert(s) ==
  /\ tx[s].step = "begun" /\ Existing(s) = {}
  /\ \A other \in Slots: ~Same(other, tx[s].request)
  /\ \A m \in message: ~SameKey(m.request, tx[s].request)
  /\ Now
  /\ tx' = [tx EXCEPT ![s] = [@ EXCEPT !.step = "inserted", !.at = clock']]
  /\ UNCHANGED <<conversation, message, updatedAt, answers, reader>>

(* Mutant: the last update wins. *)
UpdatedSinceNever(s) == FALSE

(* The conversation's row was written by a transaction out of the snapshot. *)
UpdatedSince(s) == \E m \in message \ tx[s].seen: m.request.on = tx[s].request.on

(* The update waits for the row's lock. *)
Date(s) ==
  /\ tx[s].step = "inserted" /\ ~UpdatedSince(s)
  /\ \A other \in Slots: tx[other].step = "dated" => tx[other].request.on # tx[s].request.on
  /\ tx' = [tx EXCEPT ![s].step = "dated"]
  /\ UNCHANGED <<conversation, message, updatedAt, clock, answers, reader>>

Commit(s) ==
  /\ tx[s].step = "dated"
  /\ LET m == [request |-> tx[s].request, at |-> tx[s].at]
     IN /\ message' = message \cup {m}
        /\ \/ answers' = answers \cup {[request |-> m.request, message |-> m]}
           \/ UNCHANGED answers   \* the answer is lost
        /\ updatedAt' = [updatedAt EXCEPT ![m.request.on] = m.at]
  /\ End(s)
  /\ UNCHANGED <<conversation, clock, reader>>

(* A unique violation, a serialization failure, or a lost connection.       *)
Abort(s) ==
  /\ tx[s] # NoTx
  /\ End(s)
  /\ UNCHANGED <<conversation, message, updatedAt, clock, answers, reader>>

(* listMessages after the reader's cursor. *)
ReadPage(c) ==
  LET after == {m \in message: m.request.on = c /\ m.at > reader[c].cursor}
      page == {m \in after: Cardinality({n \in after: n.at < m.at}) < PageSize}
  IN /\ \E last \in page:
          /\ \A m \in page: m.at <= last.at
          /\ reader' = [reader EXCEPT ![c] = [cursor |-> last.at, got |-> @.got \cup page]]
     /\ UNCHANGED <<conversation, message, updatedAt, tx, clock, answers>>

Next ==
  \/ \E c \in Conversations: ReadPage(c) \/ \E row \in Rows: CreateConversation(c, row)
  \/ \E s \in Slots:
       \/ \E request \in Requests: Begin(s, request)
       \/ Repeat(s) \/ Insert(s) \/ Date(s) \/ Commit(s) \/ Abort(s)

Spec == Init /\ [][Next]_vars

-----------------------------------------------------------------------------
(* A reader that pages by time misses no message, though a message's time   *)
(* is read before it commits: of two transactions that date a conversation  *)
(* at once only one commits.                                                *)
PagesMissNothing ==
  \A m \in message: m.at <= reader[m.request.on].cursor => m \in reader[m.request.on].got

(* The list of conversations is in the order of their last messages. *)
UpdatedIsLatest ==
  \A c \in Conversations:
    /\ \A m \in message: m.request.on = c => m.at <= updatedAt[c]
    /\ updatedAt[c] = 0 \/ \E m \in message: m.request.on = c /\ m.at = updatedAt[c]

(* What a sender is answered is stored, is what it asked to store, and is   *)
(* the same message each time it repeats its key.                           *)
RepliesTrue ==
  \A a \in answers:
    /\ a.message \in message /\ a.message.request = a.request
    /\ \A b \in answers: SameKey(a.request, b.request) => a.message = b.message

(* Who creates a conversation finds it: creating and looking up decide by   *)
(* different rules.                                                         *)
CreatorSees == \A c \in Conversations: conversation[c] # None => Visible(conversation[c].by, c)

(* Answers are true and stay so, a conversation was last updated when its   *)
(* latest message says, and its author is among those who see it.           *)
ConversationsHold == TypeOK /\ RepliesTrue /\ UpdatedIsLatest /\ CreatorSees
===============================================================================
