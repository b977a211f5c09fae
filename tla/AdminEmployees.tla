---------------------------- MODULE AdminEmployees ----------------------------
(***************************************************************************)
(* The Employees page of the Admin Console: the list of employees and the  *)
(* overrides of the selected one, each read by useLoad, and the change of  *)
(* an account's status, which is confirmed by a second click and followed  *)
(* by a new list.  The panels of an employee are not made anew when        *)
(* another one is selected.  Another administrator changes accounts, too.  *)
(***************************************************************************)
EXTENDS Naturals, FiniteSets

CONSTANTS
  Employees,
  Calls,       \* bound: calls that are open at a time
  MaxClicks,   \* bound: what the user does
  MaxChanges   \* bound: changes of accounts

VARIABLES
  accounts,   \* status of each account, and the number of changes so far
  people,     \* useLoad of the list: value, loading, error
  overrides,  \* useLoad of the overrides: the employee they are of, loading, error
  selected,   \* the selected employee, with the status that is shown
  panel,      \* AccountStatusPanel: confirm, reason, busy
  own,        \* changes made when the last change of this page was answered
  call, clicks

vars == <<accounts, people, overrides, selected, panel, own, call, clicks>>

Status == {"ACTIVE", "DISABLED"}
Other(status) == CHOOSE s \in Status: s # status
Nobody == [id |-> "none", status |-> "ACTIVE"]
NoCall == [op |-> "none", on |-> "none", status |-> "ACTIVE", current |-> FALSE, answer |-> "none",
           read |-> [status |-> <<>>, changes |-> 0]]
Snapshots == [status: [Employees -> Status] \cup {<<>>}, changes: 0..MaxChanges]

TypeOK ==
  /\ accounts \in [status: [Employees -> Status], changes: 0..MaxChanges]
  /\ people \in [value: Snapshots, loading: BOOLEAN, error: BOOLEAN]
  /\ overrides \in [of: Employees \cup {"none"}, loading: BOOLEAN, error: BOOLEAN]
  /\ selected \in [id: Employees, status: Status] \cup {Nobody}
  /\ panel \in [confirm: BOOLEAN, reason: BOOLEAN, busy: BOOLEAN]
  /\ panel.busy <=> \E c \in Calls: call[c].op = "change"
  /\ own \in 0..accounts.changes /\ clicks \in 0..MaxClicks
  /\ \A c \in Calls: call[c].on \in Employees \cup {"none"} /\ call[c].read \in Snapshots

-----------------------------------------------------------------------------
(* The API. *)

Waiting(c) == call[c].op # "none" /\ call[c].answer = "none" /\ UNCHANGED <<people, overrides, selected, panel, own, clicks>>

Changed(e, status) ==
  /\ accounts.changes < MaxChanges
  /\ accounts' = [status |-> [accounts.status EXCEPT ![e] = status], changes |-> accounts.changes + 1]

ServeRead(c) ==
  /\ Waiting(c) /\ call[c].op \in {"people", "overrides"}
  /\ call' = [call EXCEPT ![c] = [@ EXCEPT !.answer = "OK", !.read = accounts]]
  /\ UNCHANGED accounts

ServeChange(c) ==
  /\ Waiting(c) /\ call[c].op = "change"
  /\ Changed(call[c].on, call[c].status)
  /\ \E answer \in {"OK", "ERROR"}:
       call' = [call EXCEPT ![c] = [@ EXCEPT !.answer = answer, !.read.changes = accounts'.changes]]

(* Refused, or lost. *)
Refuse(c) ==
  /\ Waiting(c)
  /\ call' = [call EXCEPT ![c].answer = "ERROR"] /\ UNCHANGED accounts

OtherChange(e) ==
  /\ Changed(e, Other(accounts.status[e]))
  /\ UNCHANGED <<people, overrides, selected, panel, own, call, clicks>>

-----------------------------------------------------------------------------
(* useLoad. *)

Asked(op, on) == [NoCall EXCEPT !.op = op, !.on = on, !.current = TRUE]

(* ++epoch.current: an earlier call of the hook is not current any more. *)
Reload(calls, c, op, on) ==
  [d \in Calls |-> IF d = c THEN Asked(op, on)
                   ELSE IF calls[d].op = op THEN [calls[d] EXCEPT !.current = FALSE] ELSE calls[d]]

Started(data) == [data EXCEPT !.loading = TRUE, !.error = FALSE]

(* Mutant: an error does not end the loading. *)
FailedLoading(data) == [data EXCEPT !.error = TRUE]

Failed(data) == [data EXCEPT !.error = TRUE, !.loading = FALSE]

Answered(c, op) == call[c].op = op /\ call[c].answer # "none" /\ UNCHANGED <<accounts, clicks>>

(* The effect on the list: the selected employee is taken from it. *)
Listed(employee, snapshot) ==
  IF employee = Nobody THEN Nobody ELSE [employee EXCEPT !.status = snapshot.status[employee.id]]

(* Mutant: the epoch is not compared. *)
PeopleLoadedAnyway(c) ==
  /\ Answered(c, "people")
  /\ call' = [call EXCEPT ![c] = NoCall]
  /\ IF call[c].answer # "OK" THEN people' = Failed(people) /\ UNCHANGED selected
     ELSE /\ people' = [value |-> call[c].read, loading |-> FALSE, error |-> FALSE]
          /\ selected' = Listed(selected, call[c].read)
  /\ UNCHANGED <<overrides, panel, own>>

(* Mutant: the selected employee stays as it was. *)
PeopleLoadedOnly(c) ==
  /\ Answered(c, "people")
  /\ call' = [call EXCEPT ![c] = NoCall]
  /\ people' = IF ~call[c].current THEN people
               ELSE IF call[c].answer # "OK" THEN Failed(people)
               ELSE [value |-> call[c].read, loading |-> FALSE, error |-> FALSE]
  /\ UNCHANGED <<overrides, selected, panel, own>>

PeopleLoaded(c) ==
  /\ Answered(c, "people")
  /\ call' = [call EXCEPT ![c] = NoCall]
  /\ IF ~call[c].current THEN UNCHANGED <<people, selected>>
     ELSE IF call[c].answer # "OK" THEN people' = Failed(people) /\ UNCHANGED selected
     ELSE /\ people' = [value |-> call[c].read, loading |-> FALSE, error |-> FALSE]
          /\ selected' = Listed(selected, call[c].read)
  /\ UNCHANGED <<overrides, panel, own>>

(* Mutant: the epoch is not compared. *)
OverridesLoadedAnyway(c) ==
  /\ Answered(c, "overrides")
  /\ call' = [call EXCEPT ![c] = NoCall]
  /\ overrides' = IF call[c].answer # "OK" THEN Failed(overrides)
                  ELSE [of |-> call[c].on, loading |-> FALSE, error |-> FALSE]
  /\ UNCHANGED <<people, selected, panel, own>>

OverridesLoaded(c) ==
  /\ Answered(c, "overrides")
  /\ call' = [call EXCEPT ![c] = NoCall]
  /\ overrides' = IF ~call[c].current THEN overrides
                  ELSE IF call[c].answer # "OK" THEN Failed(overrides)
                  ELSE [of |-> call[c].on, loading |-> FALSE, error |-> FALSE]
  /\ UNCHANGED <<people, selected, panel, own>>

-----------------------------------------------------------------------------
(* The user. *)

Click == clicks < MaxClicks /\ clicks' = clicks + 1 /\ UNCHANGED accounts

Retry(c) ==
  /\ people.error /\ ~people.loading /\ call[c] = NoCall /\ Click
  /\ people' = Started(people) /\ call' = Reload(call, c, "people", "none")
  /\ UNCHANGED <<overrides, selected, panel, own>>

(* The panels stay; the overrides are loaded for the new employee. *)
Select(c, e) ==
  /\ people.value.status # <<>> /\ e # selected.id /\ call[c] = NoCall /\ Click
  /\ selected' = [id |-> e, status |-> people.value.status[e]]
  /\ overrides' = Started(overrides) /\ call' = Reload(call, c, "overrides", e)
  /\ UNCHANGED <<people, panel, own>>

(* An override was put or removed. *)
OverridesWritten(c) ==
  /\ selected # Nobody /\ ~overrides.loading /\ call[c] = NoCall /\ Click
  /\ overrides' = Started(overrides) /\ call' = Reload(call, c, "overrides", selected.id)
  /\ UNCHANGED <<people, selected, panel, own>>

TypeReason ==
  /\ selected # Nobody /\ ~panel.reason /\ Click
  /\ panel' = [panel EXCEPT !.reason = TRUE]
  /\ UNCHANGED <<people, overrides, selected, own, call>>

ClickChange ==
  /\ selected # Nobody /\ panel.reason /\ ~panel.busy /\ ~panel.confirm /\ Click
  /\ panel' = [panel EXCEPT !.confirm = TRUE]
  /\ UNCHANGED <<people, overrides, selected, own, call>>

Cancel ==
  /\ selected # Nobody /\ panel.confirm /\ ~panel.busy /\ Click
  /\ panel' = [panel EXCEPT !.confirm = FALSE]
  /\ UNCHANGED <<people, overrides, selected, own, call>>

ConfirmChange(c) ==
  /\ selected # Nobody /\ panel.reason /\ panel.confirm /\ ~panel.busy /\ call[c] = NoCall /\ Click
  /\ panel' = [panel EXCEPT !.busy = TRUE]
  /\ call' = [call EXCEPT ![c] = [Asked("change", selected.id) EXCEPT !.status = Other(selected.status)]]
  /\ UNCHANGED <<people, overrides, selected, own>>

(* The answer: refreshed() reads the list again. *)
ChangeAnswered(c) ==
  /\ Answered(c, "change")
  /\ IF call[c].answer # "OK"
     THEN /\ panel' = [panel EXCEPT !.busy = FALSE]
          /\ call' = [call EXCEPT ![c] = NoCall] /\ UNCHANGED <<people, own>>
     ELSE /\ panel' = [confirm |-> FALSE, reason |-> FALSE, busy |-> FALSE]
          /\ people' = Started(people) /\ call' = Reload(call, c, "people", "none")
          /\ own' = call[c].read.changes
  /\ UNCHANGED <<overrides, selected>>

-----------------------------------------------------------------------------
(* The page is mounted. *)
Init ==
  /\ accounts = [status |-> [e \in Employees |-> "ACTIVE"], changes |-> 0]
  /\ people = [value |-> NoCall.read, loading |-> TRUE, error |-> FALSE]
  /\ overrides = [of |-> "none", loading |-> TRUE, error |-> FALSE]
  /\ selected = Nobody /\ own = 0 /\ clicks = 0
  /\ panel = [confirm |-> FALSE, reason |-> FALSE, busy |-> FALSE]
  /\ \E c \in Calls: call = Reload([d \in Calls |-> NoCall], c, "people", "none")

Serve(c) == ServeRead(c) \/ ServeChange(c) \/ Refuse(c)
Answer(c) == PeopleLoaded(c) \/ OverridesLoaded(c) \/ ChangeAnswered(c)

Next ==
  \/ \E e \in Employees: OtherChange(e)
  \/ \E c \in Calls:
       \/ Serve(c) \/ Answer(c)
       \/ Retry(c) \/ OverridesWritten(c) \/ ConfirmChange(c)
       \/ \E e \in Employees: Select(c, e)
  \/ TypeReason \/ ClickChange \/ Cancel

(* Every call is answered or given up, and its answer handled. *)
Fairness == \A c \in Calls: WF_vars(Serve(c)) /\ WF_vars(Answer(c))

Spec == Init /\ [][Next]_vars /\ Fairness

-----------------------------------------------------------------------------
(* After a change was answered, the list is not one that was read before    *)
(* it, though one may still have been on its way.                           *)
OwnChangeIsShown == ~people.loading /\ ~people.error => people.value.changes >= own

(* The status on the panel, which decides what its button does, is the one  *)
(* of the list.                                                             *)
PanelAgreesWithList ==
  selected # Nobody => selected.status = people.value.status[selected.id]

(* Overrides on the screen, once loaded, are those of the selected employee.*)
OverridesAreOfSelected ==
  selected # Nobody /\ ~overrides.loading /\ ~overrides.error => overrides.of = selected.id

(* Neither list stays loading. *)
LoadingEnds ==
  /\ people.loading ~> ~people.loading
  /\ overrides.loading /\ selected # Nobody ~> ~overrides.loading
===============================================================================
