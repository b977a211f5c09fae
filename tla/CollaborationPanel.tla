-------------------------- MODULE CollaborationPanel --------------------------
(***************************************************************************)
(* The panel of a project's conversations, of notifications and of the     *)
(* library.  Loading the list and opening a conversation take a new        *)
(* request identity; sending and marking read keep the one they began      *)
(* under; an answer is dropped when the identity has changed.  The list of *)
(* conversations mounts two panes (Activity, WorkQueue) that load          *)
(* themselves.  Messages are numbered in the order the API stores them.    *)
(***************************************************************************)
EXTENDS Naturals, Sequences, FiniteSets

CONSTANTS
  Projects,
  Conversations,   \* the conversations of each project
  Calls,           \* bound: calls that are open at a time
  PageSize,        \* messages in the first page
  MaxMessages,     \* bound: messages of a conversation
  MaxClicks        \* bound: everything the user does

Threads == UNION {Conversations[p]: p \in Projects}

VARIABLES
  context,   \* mode, with the projectId of "dynamic"
  view,      \* loading, error, items (the context they are of), open (conversationId), messages
  draft,     \* whether a message is typed
  panes,     \* Activity and WorkQueue
  call,      \* open calls, and whether the request identity is still theirs
  posted,    \* stored messages of each conversation
  clicks

vars == <<context, view, draft, panes, call, posted, clicks>>

Contexts == {"notifications", "library"} \cup Projects
Failures == {"ERROR", "DENIED"}
Messages == Threads \X (1..MaxMessages)
Panes == {"activity", "queue"}
NoCall == [op |-> "none", on |-> "none", current |-> FALSE, answer |-> "none", page |-> <<>>]

TypeOK ==
  /\ context \in Contexts /\ draft \in BOOLEAN /\ clicks \in 0..MaxClicks
  /\ DOMAIN view = {"loading", "error", "items", "open", "messages"}
  /\ view.loading \in BOOLEAN /\ view.error \in {"none"} \cup Failures
  /\ view.items \in {"none"} \cup Contexts /\ view.open \in {"none"} \cup Threads
  /\ view.messages \in Seq(Messages)
  /\ panes \in [Panes -> {"unmounted", "loading", "error", "denied", "shown"}]
  /\ \A c \in Calls: call[c].on \in {"none"} \cup Contexts \cup Threads /\ call[c].page \in Seq(Messages)
  /\ posted \in [Threads -> 0..MaxMessages]

Idle == {c \in Calls: call[c] = NoCall}
Asked(op, on) == [NoCall EXCEPT !.op = op, !.on = on, !.current = TRUE]

Init ==
  /\ context \in Contexts
  /\ view = [loading |-> TRUE, error |-> "none", items |-> "none", open |-> "none", messages |-> <<>>]
  /\ draft = FALSE /\ panes = [p \in Panes |-> "unmounted"]
  /\ \E c \in Calls: call = [d \in Calls |-> IF d = c THEN Asked("load", context) ELSE NoCall]
  /\ posted = [t \in Threads |-> 0] /\ clicks = 0

-----------------------------------------------------------------------------
(* The panes are mounted with the list of conversations, and again each     *)
(* time it comes back.                                                      *)
Listing(ctx, v) == ctx \in Projects /\ ~v.loading /\ v.error = "none" /\ v.open = "none"

Render ==
  panes' = IF ~Listing(context', view') THEN [p \in Panes |-> "unmounted"]
           ELSE IF Listing(context, view) THEN panes ELSE [p \in Panes |-> "loading"]

Click == clicks < MaxClicks /\ clicks' = clicks + 1

Keep(c, record) == call' = [call EXCEPT ![c] = record]

(* ++request.current: no other call has the identity now. *)
Request(c, record) == call' = [d \in Calls |-> IF d = c THEN record ELSE [call[d] EXCEPT !.current = FALSE]]

Load(c) ==
  /\ Request(c, Asked("load", context'))
  /\ view' = [view EXCEPT !.loading = TRUE, !.error = "none", !.open = "none", !.messages = <<>>]
  /\ Render
  /\ UNCHANGED <<draft, posted>>

(* The effect on mode and projectId. *)
SwitchContext(c, ctx) ==
  /\ ctx # context /\ c \in Idle
  /\ context' = ctx /\ Click /\ Load(c)

Back(c) ==
  /\ view.open # "none" /\ ~view.loading /\ view.error = "none" /\ c \in Idle
  /\ Click /\ UNCHANGED context /\ Load(c)

Retry(c) ==
  /\ view.error = "ERROR" /\ ~view.loading /\ c \in Idle
  /\ Click /\ UNCHANGED context /\ Load(c)

OpenConversation(c, thread) ==
  /\ Listing(context, view) /\ thread \in Conversations[context] /\ c \in Idle
  /\ Click
  /\ Request(c, Asked("open", thread))
  /\ view' = [view EXCEPT !.loading = TRUE, !.error = "none", !.open = thread, !.messages = <<>>]
  /\ UNCHANGED <<context, draft, posted>> /\ Render

Composing == view.open # "none" /\ ~view.loading /\ view.error = "none"

Type ==
  /\ Composing /\ ~draft /\ Click
  /\ draft' = TRUE
  /\ UNCHANGED <<context, view, panes, call, posted>>

Send(c) ==
  /\ Composing /\ draft /\ c \in Idle /\ Click
  /\ Keep(c, Asked("send", view.open))
  /\ UNCHANGED <<context, view, draft, panes, posted>>

MarkRead(c) ==
  /\ context = "notifications" /\ ~view.loading /\ view.error = "none" /\ c \in Idle /\ Click
  /\ Keep(c, Asked("mark", context))
  /\ UNCHANGED <<context, view, draft, panes, posted>>

-----------------------------------------------------------------------------
(* The API; a message may be stored though the answer is lost. *)

Page(thread) == [n \in 1..(IF posted[thread] < PageSize THEN posted[thread] ELSE PageSize) |-> <<thread, n>>]

Serve(c) ==
  /\ call[c].op # "none" /\ call[c].answer = "none"
  /\ \/ \E failure \in Failures: Keep(c, [call[c] EXCEPT !.answer = failure]) /\ UNCHANGED posted
     \/ /\ call[c].op # "send" /\ UNCHANGED posted
        /\ Keep(c, [call[c] EXCEPT !.answer = "OK", !.page = IF call[c].op = "open" THEN Page(call[c].on) ELSE <<>>])
     \/ /\ call[c].op = "send" /\ posted[call[c].on] < MaxMessages
        /\ posted' = [posted EXCEPT ![call[c].on] = @ + 1]
        /\ \/ Keep(c, [call[c] EXCEPT !.answer = "OK", !.page = <<<<call[c].on, posted'[call[c].on]>>>>])
           \/ Keep(c, [call[c] EXCEPT !.answer = "ERROR"])
  /\ UNCHANGED <<context, view, draft, panes, clicks>>

(* Mutant: setLoading(false) is forgotten. *)
PaneAnsweredSilently(p) == panes[p] = "loading" /\ UNCHANGED vars

(* Activity.load, WorkQueue.load *)
PaneAnswered(p) ==
  /\ panes[p] = "loading"
  /\ panes' \in {[panes EXCEPT ![p] = outcome]: outcome \in {"error", "denied", "shown"}}
  /\ UNCHANGED <<context, view, draft, call, posted, clicks>>

RetryPane(p) ==
  /\ panes[p] = "error" /\ Click
  /\ panes' = [panes EXCEPT ![p] = "loading"]
  /\ UNCHANGED <<context, view, draft, call, posted>>

-----------------------------------------------------------------------------
(* Answers. *)

Answered(c, op) == call[c].op = op /\ call[c].answer # "none" /\ UNCHANGED <<context, posted, clicks>>

Failed(v, c) == [v EXCEPT !.error = call[c].answer]

(* Mutant: an answer of an earlier identity is taken. *)
LoadedAnyway(c) ==
  /\ Answered(c, "load") /\ Keep(c, NoCall)
  /\ view' = LET v == [view EXCEPT !.loading = FALSE]
             IN IF call[c].answer = "OK" THEN [v EXCEPT !.items = call[c].on] ELSE Failed(v, c)
  /\ Render /\ UNCHANGED draft

Loaded(c) ==
  /\ Answered(c, "load") /\ Keep(c, NoCall)
  /\ view' = LET v == [view EXCEPT !.loading = FALSE]
             IN IF ~call[c].current THEN view
                ELSE IF call[c].answer = "OK" THEN [v EXCEPT !.items = call[c].on] ELSE Failed(v, c)
  /\ Render /\ UNCHANGED draft

(* Mutant: an answer of an earlier identity is taken. *)
OpenedAnyway(c) ==
  /\ Answered(c, "open") /\ Keep(c, NoCall)
  /\ view' = LET v == [view EXCEPT !.loading = FALSE]
             IN IF call[c].answer = "OK" THEN [v EXCEPT !.messages = call[c].page] ELSE Failed(v, c)
  /\ Render /\ UNCHANGED draft

(* Mutant: a failure returns before setLoading(false). *)
OpenedSilently(c) ==
  /\ Answered(c, "open") /\ Keep(c, NoCall)
  /\ view' = IF ~call[c].current \/ call[c].answer # "OK" THEN view
             ELSE [view EXCEPT !.loading = FALSE, !.messages = call[c].page]
  /\ Render /\ UNCHANGED draft

Opened(c) ==
  /\ Answered(c, "open") /\ Keep(c, NoCall)
  /\ view' = LET v == [view EXCEPT !.loading = FALSE]
             IN IF ~call[c].current THEN view
                ELSE IF call[c].answer = "OK" THEN [v EXCEPT !.messages = call[c].page] ELSE Failed(v, c)
  /\ Render /\ UNCHANGED draft

(* Mutant: the conversation is compared, not the identity. *)
SentIfOpen(c) ==
  /\ Answered(c, "send") /\ Keep(c, NoCall)
  /\ IF view.open # call[c].on THEN UNCHANGED <<view, draft>>
     ELSE IF call[c].answer = "OK"
       THEN view' = [view EXCEPT !.messages = @ \o call[c].page] /\ draft' = FALSE
       ELSE view' = Failed(view, c) /\ UNCHANGED draft
  /\ Render

Sent(c) ==
  /\ Answered(c, "send") /\ Keep(c, NoCall)
  /\ IF ~call[c].current THEN UNCHANGED <<view, draft>>
     ELSE IF call[c].answer = "OK"
       THEN view' = [view EXCEPT !.messages = @ \o call[c].page] /\ draft' = FALSE
       ELSE view' = Failed(view, c) /\ UNCHANGED draft
  /\ Render

(* A success loads the list again. *)
Marked(c) ==
  /\ Answered(c, "mark")
  /\ IF call[c].current /\ call[c].answer = "OK" THEN Load(c)
     ELSE /\ Keep(c, NoCall)
          /\ view' = IF call[c].current THEN Failed(view, c) ELSE view
          /\ Render /\ UNCHANGED draft

Answer(c) == Loaded(c) \/ Opened(c) \/ Sent(c) \/ Marked(c)

Next ==
  \/ \E c \in Calls:
       \/ \E ctx \in Contexts: SwitchContext(c, ctx)
       \/ \E thread \in Threads: OpenConversation(c, thread)
       \/ Back(c) \/ Retry(c) \/ Send(c) \/ MarkRead(c) \/ Serve(c) \/ Answer(c)
  \/ Type
  \/ \E p \in Panes: PaneAnswered(p) \/ RetryPane(p)

(* Every call is answered: the gateway gives it up after a while. *)
Fairness ==
  /\ \A c \in Calls: WF_vars(Serve(c)) /\ WF_vars(Answer(c))
  /\ \A p \in Panes: WF_vars(PaneAnswered(p))

Spec == Init /\ [][Next]_vars /\ Fairness

-----------------------------------------------------------------------------
(* "Ignores a stale context response": a list on the screen is the list of  *)
(* the mode and the project that are selected.                              *)
ItemsAreOfContext == ~view.loading /\ view.error = "none" /\ view.open = "none" => view.items = context

(* The messages on the screen are those of the open conversation, however   *)
(* answers of conversations opened before are delayed.                      *)
MessagesAreOfConversation ==
  \A i \in DOMAIN view.messages: view.messages[i][1] = view.open /\ view.open \in Conversations[context]

(* A message whose answer is still under way when its conversation is read  *)
(* again is not added to the page that has it.                              *)
MessageShownOnce ==
  \A i, j \in DOMAIN view.messages: i # j => view.messages[i] # view.messages[j]

(* The panel and its panes do not stay loading. *)
LoadingEnds == view.loading ~> ~view.loading
PanesLoad == \A p \in Panes: panes[p] = "loading" ~> panes[p] # "loading"

(* "Surfaces a failed notification mark-read instead of discarding it": a   *)
(* failure leaves the notifications with an error.                          *)
FailedMarkIsShown ==
  [][\A c \in Calls: /\ call[c].op = "mark" /\ call[c].answer \in Failures
                     /\ call'[c] = NoCall /\ context' = "notifications"
                     => view'.error # "none"]_vars
===============================================================================
