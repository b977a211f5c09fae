------------------------------- MODULE MCScreens -------------------------------
(* The Desktop's screens on small instances.  They share no state, so a     *)
(* behaviour exercises one of them, its part, while the others rest in an   *)
(* initial state.                                                           *)
EXTENDS Screens, TLC

CONSTANTS Parts, a, b, p, q, t, u, x, y, z, c1, c2, c3

VARIABLE part

OneTaskEach == t :> p @@ u :> q
TwoAndOne == p :> {x, y} @@ q :> {z}

ShellParts == {"lists", "late", "work", "ending"}
ViewParts == {"detail", "repeated", "replaced"}

MCInit ==
  /\ part \in Parts
  /\ ScreensInit
  /\ asking[c1] # Shell!NoCall /\ main \in (IF part = "lists" THEN {a, b, "none"} ELSE {a, "none"})
  /\ part \notin ShellParts => main = a
  /\ task = t
  /\ ofTask = t /\ query[c1] # Panel!NoCall
  /\ fetch[c1] # Talk!NoCall /\ context \in (IF part = "threads" THEN {p, "library", "notifications"} ELSE Talk!Contexts)
  /\ part \notin {"threads", "contexts"} => context = "library"

-----------------------------------------------------------------------------
(* Bounds.  The shell: two accounts sign in and out; one account's calls    *)
(* are late; one works with all a task offers; one session ends while       *)
(* things load, and then projects are what is refused.                      *)
Loads == {"none", "me", "projects", "agents", "tasks", "artifacts"}
Offered ==
  [lists  |-> Loads \cup {"login"},
   late   |-> Loads \cup {"login"},
   work   |-> (Shell!Ops \ {"login", "startTask"}) \cup {"none"},
   ending |-> Loads \cup {"login", "startTask", "decide", "result", "task"}]

Unused == IF part = "lists" THEN {q, u} ELSE IF part = "work" THEN {b} ELSE {b, q, u}
SignsOut == acts' # acts /\ shell.user # "none" /\ shell'.user = "none"
Refreshes == acts' # acts /\ loadingRef' /\ ~loadingRef
FewLosses ==
  \A c \in ShellCalls:
    /\ asking[c].answer # "LOST"
    /\ asking[c].answer = "DENIED" => asking[c].op = "projects"

ShellBound ==
  /\ part \in ShellParts
  /\ \A c \in ShellCalls: asking'[c].op \in Offered[part] /\ {asking'[c].on, asking'[c].next.id} \cap Unused = {}
  /\ shell'.project.id \notin Unused
  /\ SignsOut => part = "ending"
  /\ Refreshes => part \in {"lists", "late"}
  /\ IF part = "late" THEN FewLosses' ELSE asking'[c3] = Shell!NoCall

(* The view of a task: one result and tasks that are switched; two results  *)
(* of which the creation is repeated; and where App replaces the view.      *)
Clicks(ops) == \A c \in ViewCalls: pending'[c].op \in {"none"} \cup ops
ViewBound ==
  \/ part = "detail" /\ keys' <= 1 /\ remounts' = 0
  \/ part = "repeated" /\ Clicks({"create", "open"}) /\ switches' <= 1 /\ remounts' = 0
  \/ part = "replaced" /\ Clicks({"create"}) /\ switches' = 0

(* One project with two conversations, or two with one each.                *)
TalkBound ==
  \/ part = "threads" /\ context' # q
  \/ part = "contexts" /\ thread'.open # y /\ (\A s \in Talk!Threads: posted'[s] <= 1) /\ taps' <= 4

MCNext ==
  /\ UNCHANGED part
  /\ \/ ShellStep /\ ShellBound
     \/ ViewStep /\ ViewBound
     \/ PanelStep /\ part = "panel"
     \/ TalkStep /\ TalkBound

-----------------------------------------------------------------------------
vars == <<part, screens>>

(* Every call is answered or fails, its answer is handled, and React        *)
(* renders.                                                                 *)
Showing(A) == part = "ending" /\ A /\ Remember /\ ShellBound /\ UNCHANGED <<part, viewVars, panelVars, talkVars>>
Viewing(A) == part = "repeated" /\ A /\ ViewBound /\ UNCHANGED <<part, shellVars, panelVars, talkVars>>
Suggesting(A) == part = "panel" /\ A /\ UNCHANGED <<part, shellVars, viewVars, talkVars>>
Talking(A) == part = "contexts" /\ A /\ TalkBound /\ UNCHANGED <<part, shellVars, viewVars, panelVars>>

Fairness ==
  /\ WF_vars(Showing(Shell!Message)) /\ WF_vars(Showing(Shell!Render))
  /\ \A c \in {c1, c2}:
       /\ WF_vars(Showing(Shell!Served(c)))
       /\ WF_vars(Viewing(View!Served(c)) \/ Suggesting(Panel!Served(c)) \/ Talking(Talk!Serve(c)))
       /\ WF_vars(Viewing(View!Answer(c)) \/ Suggesting(Panel!Answer(c)) \/ Talking(Talk!Answer(c)))
  /\ \A pane \in Talk!Panes: WF_vars(Talking(Talk!PaneAnswered(pane)))

MCSpec == MCInit /\ [][MCNext]_vars /\ Fairness

(* Liveness: the shell does not stay on "loading" nor its refresh button    *)
(* disabled, the buttons of a task and of its suggestions come back, and    *)
(* conversations and their panes do not stay loading; a shell whose session *)
(* Main has lost is cleared, whichever of its calls was refused ("globally  *)
(* clears the shell").                                                      *)
ScreensProgress ==
  /\ part = "ending" => Shell!LoadingEnds /\ Shell!AgentsLoadingEnds /\ Shell!LossIsShown
  /\ part = "repeated" => View!SubmittingEnds
  /\ part = "panel" => Panel!BusyEnds
  /\ part = "contexts" => Talk!LoadingEnds /\ Talk!PanesLoad
===============================================================================
