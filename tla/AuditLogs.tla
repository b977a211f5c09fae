------------------------------ MODULE AuditLogs ------------------------------
(***************************************************************************)
(* The audit log: administrators read it newest first, page by page, while *)
(* it grows.  An event has the time its transaction appended it and becomes*)
(* visible when the transaction commits, so that older events can appear   *)
(* after newer ones.  AuditLogs.load is called by a change of the filter,  *)
(* by Refresh, Retry and Load more; only the answer of the last call       *)
(* counts.                                                                 *)
(***************************************************************************)
EXTENDS Naturals, Sequences, FiniteSets

CONSTANTS
  Actions,     \* what events tell, and what the list can be filtered by
  Calls,       \* bound: calls that are open at a time
  Limit,       \* events in a page
  MaxEvents,   \* bound: events appended
  MaxTime,     \* bound: the clock
  MaxClicks    \* bound: what the user does

VARIABLES
  clock,     \* the time of the API
  appended,  \* events of open and of committed transactions
  log,       \* events of committed transactions
  view,      \* filter, items: the pages of the list, cursor, loading, error
  call,      \* open calls of load
  basis,     \* the filter of the list, and the log its first page was read from
  clicks

vars == <<clock, appended, log, view, call, basis, clicks>>

Filters == Actions \cup {""}
Events == [time: 0..MaxTime, id: 1..MaxEvents, action: Actions]
NoEvent == [time |-> 0, id |-> 0, action |-> ""]
NoCall == [filter |-> "none", cursor |-> NoEvent, more |-> FALSE, current |-> FALSE,
           answer |-> "none", page |-> {}, next |-> NoEvent, from |-> {}]

TypeOK ==
  /\ clock \in 0..MaxTime /\ appended \subseteq Events /\ log \subseteq appended
  /\ DOMAIN view = {"filter", "items", "cursor", "loading", "error"}
  /\ view.filter \in Filters /\ view.items \in Seq(SUBSET Events) /\ view.cursor \in Events \cup {NoEvent}
  /\ {view.loading, view.error} \subseteq BOOLEAN
  /\ \A c \in Calls: call[c].filter \in Filters \cup {"none"} /\ call[c].from \subseteq log
  /\ basis.filter \in Filters \cup {"mixed"} /\ basis.events \subseteq log
  /\ clicks \in 0..MaxClicks

-----------------------------------------------------------------------------
(* The log. *)

(* Mutant: events of one time are not told apart. *)
OlderByTime(e, f) == e.time < f.time

(* The order of the pages, and the condition of the cursor. *)
Older(e, f) == e.time < f.time \/ (e.time = f.time /\ e.id < f.id)

Matches(e, filter) == filter \in {"", e.action}

(* AuditRepository.append; the id is a random UUID. *)
AppendEvent(e) ==
  /\ e.time = clock /\ \A f \in appended: f.id # e.id
  /\ appended' = appended \cup {e}
  /\ UNCHANGED <<clock, log, view, call, basis, clicks>>

Commit(e) ==
  /\ log' = log \cup {e}
  /\ UNCHANGED <<clock, appended, view, call, basis, clicks>>

Tick ==
  /\ clock < MaxTime /\ clock' = clock + 1
  /\ UNCHANGED <<appended, log, view, call, basis, clicks>>

(* listForOrganization: the newest rows, in their order; one row more than  *)
(* a page tells whether there is a next one.                                *)
Found(filter, cursor) == {e \in log: Matches(e, filter) /\ (cursor = NoEvent \/ Older(e, cursor))}

IsPage(page, next, found) ==
  IF Cardinality(found) <= Limit THEN page = found /\ next = NoEvent
  ELSE /\ Cardinality(page) = Limit /\ next \in page
       /\ \A e \in page: ~Older(e, next) /\ \A f \in found \ page: ~Older(e, f)

Waiting(c) == call[c].filter # "none" /\ call[c].answer = "none"

Serve(c) ==
  /\ Waiting(c)
  /\ LET found == Found(call[c].filter, call[c].cursor) IN
       \E page \in SUBSET found: \E next \in page \cup {NoEvent}:
         /\ IsPage(page, next, found)
         /\ call' = [call EXCEPT ![c] = [@ EXCEPT !.answer = "OK", !.page = page, !.next = next, !.from = log]]
  /\ UNCHANGED <<clock, appended, log, view, basis, clicks>>

(* The request is refused, or it or its answer is lost. *)
Refuse(c) ==
  /\ Waiting(c)
  /\ call' = [call EXCEPT ![c].answer = "ERROR"]
  /\ UNCHANGED <<clock, appended, log, view, basis, clicks>>

-----------------------------------------------------------------------------
(* The panel. *)

(* ++epoch.current: no other call is current now. *)
Load(c, filter, more) ==
  /\ call' = [d \in Calls |->
       IF d = c THEN [NoCall EXCEPT !.filter = filter, !.more = more, !.current = TRUE,
                                    !.cursor = IF more THEN view.cursor ELSE NoEvent]
       ELSE [call[d] EXCEPT !.current = FALSE]]
  /\ view' = [view EXCEPT !.filter = filter, !.loading = TRUE, !.error = FALSE]
  /\ UNCHANGED <<clock, appended, log, basis>>

Click(c) == call[c] = NoCall /\ clicks < MaxClicks /\ clicks' = clicks + 1

(* The effect on the filter: list and cursor stay until the answer. *)
SetFilter(c, filter) == filter # view.filter /\ Click(c) /\ Load(c, filter, FALSE)

(* Refresh and Retry. *)
Refresh(c) == ~view.loading /\ Click(c) /\ Load(c, view.filter, FALSE)

LoadMore(c) == ~view.loading /\ view.cursor # NoEvent /\ Click(c) /\ Load(c, view.filter, TRUE)

(* What the list is a list of, after the page of c. *)
Basis(c) ==
  IF ~call[c].more THEN [filter |-> call[c].filter, events |-> call[c].from]
  ELSE IF call[c].filter = basis.filter THEN basis
  ELSE [basis EXCEPT !.filter = "mixed"]

Shown == UNION {view.items[i]: i \in DOMAIN view.items}

(* The list with the page of c: after what is shown, or in its place. *)
Items(c) == IF call[c].more THEN Append(view.items, call[c].page \ Shown) ELSE <<call[c].page>>

(* Mutant: the epoch is not compared. *)
LoadedAnyway(c) ==
  /\ call[c].answer = "OK"
  /\ call' = [call EXCEPT ![c] = NoCall]
  /\ view' = [view EXCEPT !.items = Items(c),
                          !.cursor = call[c].next, !.loading = FALSE]
  /\ basis' = Basis(c)
  /\ UNCHANGED <<clock, appended, log, clicks>>

Loaded(c) ==
  /\ call[c].answer = "OK"
  /\ call' = [call EXCEPT ![c] = NoCall]
  /\ IF ~call[c].current THEN UNCHANGED <<view, basis>>
     ELSE /\ view' = [view EXCEPT !.items = Items(c),
                                  !.cursor = call[c].next, !.loading = FALSE]
          /\ basis' = Basis(c)
  /\ UNCHANGED <<clock, appended, log, clicks>>

(* Mutant: only a success ends the loading. *)
FailedLoading(c) ==
  /\ call[c].answer = "ERROR"
  /\ call' = [call EXCEPT ![c] = NoCall]
  /\ view' = IF call[c].current THEN [view EXCEPT !.error = TRUE] ELSE view
  /\ UNCHANGED <<clock, appended, log, basis, clicks>>

Failed(c) ==
  /\ call[c].answer = "ERROR"
  /\ call' = [call EXCEPT ![c] = NoCall]
  /\ view' = IF call[c].current THEN [view EXCEPT !.error = TRUE, !.loading = FALSE] ELSE view
  /\ UNCHANGED <<clock, appended, log, basis, clicks>>

-----------------------------------------------------------------------------
(* The page is opened: its first effect loads the whole log. *)
Init ==
  /\ clock = 0 /\ appended = {} /\ log = {}
  /\ view = [filter |-> "", items |-> <<>>, cursor |-> NoEvent, loading |-> TRUE, error |-> FALSE]
  /\ \E c \in Calls:
       call = [d \in Calls |-> IF d = c THEN [NoCall EXCEPT !.filter = "", !.current = TRUE] ELSE NoCall]
  /\ basis = [filter |-> "", events |-> {}] /\ clicks = 0

Next ==
  \/ \E e \in Events: AppendEvent(e)
  \/ \E e \in appended \ log: Commit(e)
  \/ Tick
  \/ \E c \in Calls:
       \/ Serve(c) \/ Refuse(c) \/ Loaded(c) \/ Failed(c)
       \/ \E filter \in Filters: SetFilter(c, filter)
       \/ Refresh(c) \/ LoadMore(c)

Spec == Init /\ [][Next]_vars

-----------------------------------------------------------------------------
Settled == ~view.loading /\ ~view.error

(* "Newest-first, cursor-paginated": down to the cursor the list shows      *)
(* every event of its filter that was committed when its first page was     *)
(* read, whatever was appended, committed or filtered by since.             *)
ListIsWhole ==
  Settled /\ basis.filter = view.filter =>
    /\ \A e \in Shown: Matches(e, view.filter)
    /\ \A e \in basis.events:
         Matches(e, view.filter) /\ (view.cursor = NoEvent \/ ~Older(e, view.cursor)) => e \in Shown

(* Pages read at different times follow on each other: the list has every   *)
(* event once, in the order of the log.                                     *)
NewestFirst ==
  \A i, j \in DOMAIN view.items: i < j =>
    \A e \in view.items[i], f \in view.items[j]: Older(f, e)
===============================================================================
