------------------------------- MODULE Renderer -------------------------------
(***************************************************************************)
(* The shell of the desktop (App.tsx) and the calls it makes through the   *)
(* bridge: what the screen shows, of which account, project and task,      *)
(* while sessions end and answers arrive late.                             *)
(*                                                                         *)
(* A call is sent by the renderer, served by the API through Electron      *)
(* Main, and its answer applied by the renderer: three steps.  Main's      *)
(* messages (answers, and auth:lost) arrive in the order they were sent,   *)
(* but the API may serve calls in any order.  React renders after a click  *)
(* at once, and after a message only later: more messages may be applied   *)
(* before, against the refs of the last rendering.                         *)
(***************************************************************************)
EXTENDS Sequences, FiniteSets, Naturals

CONSTANTS
  Accounts, Projects, Tasks,
  ProjectOf,     \* the project of each task
  Calls,         \* bound: calls of the renderer that are open at a time
  MaxActs        \* bound: clicks

(* The methods of the bridge that the shell calls, by the requests of the  *)
(* gateway behind them.                                                    *)
ProjectOps == {"projects", "createProject", "tasks", "createTask", "startTask", "task"}
AgentOps   == {"agents", "readFile", "prompt", "responses"}
WriteOps   == {"prepare", "approve", "reject"}
ResultOps  == {"register", "artifacts", "submit", "decide", "result"}
Ops == {"me", "login"} \cup ProjectOps \cup AgentOps \cup WriteOps \cup ResultOps

VARIABLES
  app,         \* the state of App; what was loaded is tagged with the account it is of
  generation,  \* authGenerationRef
  loadingRef,  \* agentsLoadingRef
  shown,       \* the last rendering: user, selectedProjectIdRef and selectedTaskIdRef
  due,         \* the effects on project and task that the next rendering runs
  call,        \* the calls that are open
  inbox,       \* messages of Main that the renderer has not handled
  main,        \* the account of Main's session, or "none"
  acts         \* clicks so far

vars == <<app, generation, loadingRef, shown, due, call, inbox, main, acts>>

Nobody == [id |-> "none", by |-> "none"]
NoCall == [op |-> "none", generation |-> 0, on |-> "none", next |-> Nobody, by |-> "none",
           current |-> FALSE, answer |-> "none"]

Blank == [user |-> "none", projects |-> "none", project |-> Nobody, tasks |-> Nobody, task |-> Nobody,
          artifacts |-> Nobody, agents |-> "none", agentsLoading |-> FALSE, loading |-> FALSE, error |-> FALSE]

TypeOK ==
  LET Owner == Accounts \cup {"none"}
      Of(S) == [id: S \cup {"none"}, by: Owner]
  IN
  /\ app \in [user: Owner, projects: Owner, project: Of(Projects), tasks: Of(Projects), task: Of(Tasks),
              artifacts: Of(Tasks), agents: Owner, agentsLoading: BOOLEAN, loading: BOOLEAN, error: BOOLEAN]
  /\ generation \in Nat /\ loadingRef \in BOOLEAN
  /\ shown \in [user: Owner, project: Projects \cup {"none"}, task: Tasks \cup {"none"}]
  /\ due \subseteq {"project", "task"}
  /\ \A c \in Calls: \/ call[c] = NoCall
                     \/ /\ call[c].op \in Ops /\ call[c].by \in Owner
                        /\ call[c].answer \in {"none", "OK", "DENIED", "LOST"}
  /\ inbox \in Seq(Calls \cup {"lost"})
  /\ main \in Owner
  /\ acts \in 0..MaxActs

-----------------------------------------------------------------------------
(* Calls. *)

Idle == {c \in Calls: call[c] = NoCall}

(* Main forwards a call with the session it has then: "current" as long as *)
(* Main has neither a newer session nor a newer login or logout.           *)
Sent(op, g, on, next, by) ==
  [op |-> op, generation |-> g, on |-> on, next |-> next, by |-> by, current |-> TRUE, answer |-> "none"]

Outdated(calls) == [c \in Calls |-> [calls[c] EXCEPT !.current = FALSE]]

Put(c, record) == call' = [call EXCEPT ![c] = record]
Free(c) == Put(c, NoCall)

Rendering(a) == [user |-> a.user, project |-> a.project.id, task |-> a.task.id]

Init ==
  \E a \in Accounts \cup {"none"}, c \in Calls:
    /\ app = [Blank EXCEPT !.loading = TRUE]
    /\ generation = 0 /\ loadingRef = FALSE
    /\ shown = Rendering(Blank) /\ due = {}
    /\ call = [d \in Calls |-> IF d = c THEN Sent("me", 0, "none", Nobody, a) ELSE NoCall]
    /\ inbox = <<>> /\ main = a /\ acts = 0

(* Mutant: Main does not announce that the session ended. *)
ServeQuietly(c, answer) ==
  LET k == call[c]
      ends == answer = "DENIED" /\ k.current
      opens == answer = "OK" /\ k.op = "login"
      reply == IF opens /\ ~k.current THEN "DENIED" ELSE answer
      calls == IF ends \/ (opens /\ k.current) THEN Outdated(call) ELSE call
  IN
  /\ k.op # "none" /\ k.answer = "none"
  /\ answer = "OK" => k.by # "none" \/ k.op = "login"
  /\ main' = IF ends THEN "none" ELSE IF opens /\ k.current THEN k.on ELSE main
  /\ call' = [calls EXCEPT ![c].answer = reply]
  /\ inbox' = Append(inbox, c)
  /\ UNCHANGED <<app, generation, loadingRef, shown, due, acts>>

(* The API, and what the gateway of Main makes of its answer.  An answer   *)
(* that was decided before the session ended may still arrive after.       *)
Serve(c, answer) ==
  LET k == call[c]
      ends == answer = "DENIED" /\ k.current
      opens == answer = "OK" /\ k.op = "login"
      reply == IF opens /\ ~k.current THEN "DENIED" ELSE answer
      calls == IF ends \/ (opens /\ k.current) THEN Outdated(call) ELSE call
  IN
  /\ k.op # "none" /\ k.answer = "none"
  /\ answer = "OK" => k.by # "none" \/ k.op = "login"
  /\ main' = IF ends THEN "none" ELSE IF opens /\ k.current THEN k.on ELSE main
  /\ call' = [calls EXCEPT ![c].answer = reply]
  /\ inbox' = (IF ends THEN Append(inbox, "lost") ELSE inbox) \o <<c>>
  /\ UNCHANGED <<app, generation, loadingRef, shown, due, acts>>

-----------------------------------------------------------------------------
(* Messages of Main. *)

(* Mutant: the ref of the running load is kept. *)
ClearKeepingRef(agentsLoading) ==
  /\ app' = [Blank EXCEPT !.agentsLoading = agentsLoading]
  /\ generation' = generation + 1
  /\ UNCHANGED loadingRef

(* "Refresh" is left as it is: enabled or waiting. *)
ClearAuthenticatedState(agentsLoading) ==
  /\ app' = [Blank EXCEPT !.agentsLoading = agentsLoading]
  /\ generation' = generation + 1
  /\ loadingRef' = FALSE

AuthenticationLost ==
  /\ inbox # <<>> /\ Head(inbox) = "lost"
  /\ inbox' = Tail(inbox)
  /\ ClearAuthenticatedState(app.agentsLoading)
  /\ UNCHANGED <<shown, due, call, main, acts>>

Stale(c) == call[c].generation # generation

(* Call c of one of ops is answered; what the answers leave alone. *)
Answered(c, ops, answer) ==
  /\ inbox # <<>> /\ Head(inbox) = c
  /\ inbox' = Tail(inbox)
  /\ call[c].op \in ops /\ call[c].answer = answer
  /\ UNCHANGED <<shown, main, acts>>

Same == UNCHANGED <<generation, loadingRef>>

(* Made before the last login, logout or loss of the session. *)
Discard(c) ==
  \E answer \in {"OK", "DENIED", "LOST"}:
    /\ Answered(c, Ops \ {"agents", "task"}, answer)
    /\ Stale(c)
    /\ Free(c)
    /\ UNCHANGED <<app, generation, loadingRef, due>>

(* Model responses are also stale once another task is selected. *)
Refused(c) ==
  /\ Answered(c, Ops \ {"me", "login", "result", "task"}, "DENIED")
  /\ ~Stale(c)
  /\ IF call[c].op \in {"prompt", "responses"} /\ shown.task # call[c].on
     THEN Same /\ UNCHANGED app
     ELSE ClearAuthenticatedState(app.agentsLoading /\ call[c].op # "agents")
  /\ Free(c)
  /\ UNCHANGED due

(* The answer is an error that the shell shows, or leaves to its caller. *)
Failed(c) ==
  /\ Answered(c, Ops \ {"projects", "tasks", "agents", "me", "task"}, "LOST")
  /\ ~Stale(c)
  /\ app' = IF call[c].op \in {"createProject", "createTask", "readFile", "register"} \cup WriteOps
            THEN [app EXCEPT !.error = TRUE]
            ELSE app
  /\ Free(c)
  /\ Same /\ UNCHANGED due

(* What a creation selects once the list has been loaded. *)
Chosen(c, old) == IF call[c].next # Nobody THEN call[c].next ELSE old

(* loadProjects; createProject then selects what it has created. *)
ProjectsLoaded(c) ==
  /\ \E answer \in {"OK", "LOST"}:
       /\ Answered(c, {"projects"}, answer)
       /\ app' = [app EXCEPT
            !.projects = IF answer = "OK" THEN call[c].by ELSE @,
            !.project = Chosen(c, @),
            !.error = (answer = "LOST"), !.loading = FALSE]
  /\ ~Stale(c)
  /\ due' = IF call[c].next # Nobody THEN due \cup {"project"} ELSE due
  /\ Free(c)
  /\ Same

(* Mutant: loadTasks does not compare the generations. *)
TasksLoadedAnyway(c) ==
  /\ \E answer \in {"OK", "LOST"}:
       /\ Answered(c, {"tasks"}, answer)
       /\ app' = [app EXCEPT !.tasks = IF answer = "OK" THEN [id |-> call[c].on, by |-> call[c].by] ELSE @,
                             !.error = (answer = "LOST"), !.loading = FALSE]
  /\ UNCHANGED due
  /\ Free(c)
  /\ Same

(* Mutant: an error leaves the shell loading. *)
TasksLoadedSilently(c) ==
  /\ \E answer \in {"OK", "LOST"}:
       /\ Answered(c, {"tasks"}, answer)
       /\ app' = IF answer = "LOST" THEN app
                 ELSE [app EXCEPT !.tasks = [id |-> call[c].on, by |-> call[c].by],
                                  !.task = Chosen(c, @), !.error = FALSE, !.loading = FALSE]
  /\ ~Stale(c)
  /\ due' = IF call[c].next # Nobody THEN due \cup {"task"} ELSE due
  /\ Free(c)
  /\ Same

(* loadTasks; createTask then selects what it has created. *)
TasksLoaded(c) ==
  /\ \E answer \in {"OK", "LOST"}:
       /\ Answered(c, {"tasks"}, answer)
       /\ app' = [app EXCEPT
            !.tasks = IF answer = "OK" THEN [id |-> call[c].on, by |-> call[c].by] ELSE @,
            !.task = Chosen(c, @),
            !.error = (answer = "LOST"), !.loading = FALSE]
  /\ ~Stale(c)
  /\ due' = IF call[c].next # Nobody THEN due \cup {"task"} ELSE due
  /\ Free(c)
  /\ Same

AgentsLoaded(c) ==
  /\ \E answer \in {"OK", "LOST"}:
       /\ Answered(c, {"agents"}, answer)
       /\ app' = IF Stale(c) THEN app
                 ELSE [app EXCEPT !.agentsLoading = FALSE, !.agents = IF answer = "OK" THEN call[c].by ELSE @]
  /\ loadingRef' = FALSE
  /\ Free(c)
  /\ UNCHANGED <<generation, due>>

(* A stale refusal only resets the ref; one that counts clears the shell. *)
AgentsRefusedLate(c) ==
  /\ Answered(c, {"agents"}, "DENIED")
  /\ Stale(c)
  /\ loadingRef' = FALSE
  /\ Free(c)
  /\ UNCHANGED <<app, generation, due>>

ArtifactsLoaded(c) ==
  /\ Answered(c, {"artifacts"}, "OK")
  /\ ~Stale(c)
  /\ app' = [app EXCEPT !.artifacts = [id |-> call[c].on, by |-> call[c].by]]
  /\ Free(c)
  /\ Same /\ UNCHANGED due

(* The user is known: load the projects, and the agents unless that runs. *)
SignedIn(c, a) ==
  LET projects == Sent("projects", generation, "none", Nobody, main)
      agents == Sent("agents", generation, "none", Nobody, main)
  IN
  /\ app' = [app EXCEPT !.user = a, !.loading = TRUE, !.agentsLoading = @ \/ ~loadingRef,
                        !.error = (call[c].op = "me" /\ @)]
  /\ IF loadingRef THEN Put(c, projects)
     ELSE \E d \in Idle: call' = [call EXCEPT ![c] = projects, ![d] = agents]
  /\ loadingRef' = TRUE
  /\ UNCHANGED <<generation, due>>

CurrentUser(c) ==
  /\ Answered(c, {"me"}, "OK")
  /\ ~Stale(c)
  /\ SignedIn(c, call[c].by)

NoCurrentUser(c) ==
  /\ \E answer \in {"DENIED", "LOST"}: Answered(c, {"me"}, answer)
  /\ ~Stale(c)
  /\ app' = [app EXCEPT !.loading = FALSE]
  /\ Free(c)
  /\ Same /\ UNCHANGED due

LoggedIn(c) ==
  /\ Answered(c, {"login"}, "OK")
  /\ ~Stale(c)
  /\ SignedIn(c, call[c].on)

LoginRefused(c) ==
  /\ Answered(c, {"login"}, "DENIED")
  /\ ~Stale(c)
  /\ Free(c)
  /\ UNCHANGED <<app, generation, loadingRef, due>>

(* Created: the list is loaded, in the generation of the click. *)
ProjectCreated(c) ==
  /\ Answered(c, {"createProject"}, "OK")
  /\ ~Stale(c)
  /\ app' = [app EXCEPT !.error = FALSE, !.loading = TRUE]
  /\ \E p \in Projects: Put(c, Sent("projects", generation, "none", [id |-> p, by |-> call[c].by], main))
  /\ Same /\ UNCHANGED due

TaskCreated(c) ==
  /\ Answered(c, {"createTask"}, "OK")
  /\ ~Stale(c)
  /\ app' = [app EXCEPT !.error = FALSE, !.loading = TRUE]
  /\ \E t \in {u \in Tasks: ProjectOf[u] = call[c].on}:
       Put(c, Sent("tasks", generation, call[c].on, [id |-> t, by |-> call[c].by], main))
  /\ Same /\ UNCHANGED due

(* setTask, and the tasks of its project are loaded. *)
ShowTask(c, t, ok) ==
  /\ app' = [app EXCEPT !.task = [id |-> t, by |-> call[c].by], !.loading = TRUE, !.error = @ /\ ~ok]
  /\ due' = due \cup {"task"}
  /\ Put(c, Sent("tasks", generation, ProjectOf[t], Nobody, main))
  /\ Same

TaskStarted(c) ==
  /\ Answered(c, {"startTask"}, "OK")
  /\ ~Stale(c)
  /\ ShowTask(c, call[c].on, TRUE)

(* readFile, prepareWrite, approveWrite, rejectWrite clear the error; the  *)
(* model responses leave the shell alone.                                  *)
Worked(c) ==
  /\ Answered(c, {"readFile", "prompt", "responses"} \cup WriteOps, "OK")
  /\ ~Stale(c)
  /\ app' = [app EXCEPT !.error = @ /\ call[c].op \in {"prompt", "responses"}]
  /\ Free(c)
  /\ Same /\ UNCHANGED due

(* The list is loaded of the task that was selected at the click. *)
Registered(c) ==
  /\ Answered(c, {"register"}, "OK")
  /\ ~Stale(c)
  /\ app' = [app EXCEPT !.error = FALSE]
  /\ Put(c, Sent("artifacts", generation, call[c].on, Nobody, main))
  /\ Same /\ UNCHANGED due

(* submitResult: the task is read again if it is still the selected one. *)
Submitted(c) ==
  /\ Answered(c, {"submit"}, "OK")
  /\ ~Stale(c)
  /\ IF shown.task = call[c].on
     THEN Put(c, Sent("task", call[c].generation, call[c].on, [id |-> "none", by |-> "submit"], main))
     ELSE Free(c)
  /\ Same /\ UNCHANGED <<app, due>>

(* decideResult: the result tells which task it is of, here call[c].on. *)
Decided(c) ==
  /\ Answered(c, {"decide"}, "OK")
  /\ ~Stale(c)
  /\ Put(c, Sent("result", call[c].generation, call[c].on, Nobody, main))
  /\ Same /\ UNCHANGED <<app, due>>

ResultRead(c) ==
  /\ Answered(c, {"result"}, "OK")
  /\ ~Stale(c)
  /\ IF shown.task = call[c].on
     THEN Put(c, Sent("task", call[c].generation, call[c].on, [id |-> "none", by |-> "decide"], main))
     ELSE Free(c)
  /\ Same /\ UNCHANGED <<app, due>>

ResultRefused(c) ==
  /\ Answered(c, {"result"}, "DENIED")
  /\ ~Stale(c)
  /\ Free(c)
  /\ Same /\ UNCHANGED <<app, due>>

(* After a submission the generation is compared, after a decision only    *)
(* the task; the list is then loaded in the generation of this moment.     *)
TaskRead(c) ==
  /\ \E answer \in {"OK", "DENIED", "LOST"}: Answered(c, {"task"}, answer)
  /\ LET read == call[c].on
         kept == shown.task = read /\ (call[c].next.by = "submit" => ~Stale(c))
     IN
     IF call[c].answer = "OK" /\ kept
     THEN IF call[c].next.by = "submit" \/ shown.project = ProjectOf[read]
          THEN ShowTask(c, read, FALSE)
          ELSE /\ app' = [app EXCEPT !.task = [id |-> read, by |-> call[c].by]]
               /\ due' = due \cup {"task"}
               /\ Free(c) /\ Same
     ELSE Free(c) /\ Same /\ UNCHANGED <<app, due>>

-----------------------------------------------------------------------------
(* Rendering, and the effects on project and task. *)

Render ==
  /\ shown # Rendering(app) \/ due # {}
  /\ shown' = Rendering(app) /\ due' = {}
  /\ LET list == "project" \in due /\ app.project # Nobody
         files == "task" \in due /\ app.task # Nobody
         tasks == Sent("tasks", generation, app.project.id, Nobody, main)
         artifacts == Sent("artifacts", generation, app.task.id, Nobody, main)
     IN
     /\ app' = [app EXCEPT !.loading = @ \/ list, !.artifacts = IF app.task = Nobody THEN Nobody ELSE @]
     /\ IF list
        THEN IF files
             THEN \E c \in Idle: \E d \in Idle \ {c}: call' = [call EXCEPT ![c] = tasks, ![d] = artifacts]
             ELSE \E c \in Idle: Put(c, tasks)
        ELSE IF files THEN \E c \in Idle: Put(c, artifacts) ELSE UNCHANGED call
  /\ UNCHANGED <<generation, loadingRef, inbox, main, acts>>

-----------------------------------------------------------------------------
(* Clicks.  The user acts on what has been rendered, and sees the effect *)
(* of the click at once.                                                  *)

Screen ==
  IF app.user = "none" THEN "login"
  ELSE IF app.error THEN "error"
  ELSE IF app.loading THEN "loading"
  ELSE IF app.project = Nobody THEN "home" ELSE "project"

Click ==
  /\ acts < MaxActs /\ acts' = acts + 1
  /\ shown = Rendering(app) /\ due = {}
  /\ UNCHANGED inbox

(* A handler that only sends a call. *)
Request(c, op, on) ==
  /\ c \in Idle
  /\ Put(c, Sent(op, generation, on, Nobody, main))
  /\ UNCHANGED <<app, generation, loadingRef, due, main>>

(* Main counts a new login: what it forwarded before no longer matters. *)
Login(c, a) ==
  /\ Click /\ Screen = "login"
  /\ ~\E d \in Calls: call[d].op = "login"
  /\ c \in Idle
  /\ generation' = generation + 1
  /\ call' = [Outdated(call) EXCEPT ![c] = Sent("login", generation + 1, a, Nobody, main)]
  /\ UNCHANGED <<app, loadingRef, due, main>>

(* The shell is cleared before Main answers; nothing depends on the answer. *)
Logout ==
  /\ Click /\ app.user # "none"
  /\ ClearAuthenticatedState(app.agentsLoading)
  /\ call' = Outdated(call) /\ main' = "none"
  /\ UNCHANGED due

SelectProject(p) ==
  /\ Click /\ app.projects # "none" /\ p # app.project.id
  /\ app' = [app EXCEPT !.project = [id |-> p, by |-> app.projects], !.task = Nobody, !.error = FALSE]
  /\ due' = {"project", "task"}
  /\ UNCHANGED <<generation, loadingRef, call, main>>

SelectTask(t) ==
  /\ Click /\ Screen = "project"
  /\ app.tasks.id = ProjectOf[t] /\ t # app.task.id
  /\ app' = [app EXCEPT !.task = [id |-> t, by |-> app.tasks.by]]
  /\ due' = {"task"}
  /\ UNCHANGED <<generation, loadingRef, call, main>>

CreateProject(c) == Click /\ Screen = "home" /\ Request(c, "createProject", "none")

CreateTask(c) == Click /\ Screen = "project" /\ Request(c, "createTask", app.project.id)

OnTask(c, op) == Click /\ Screen = "project" /\ app.task # Nobody /\ Request(c, op, app.task.id)

StartTask(c) == OnTask(c, "startTask")
ReadFile(c) == OnTask(c, "readFile")
CreateModelResponse(c) == OnTask(c, "prompt")
ListModelResponses(c) == OnTask(c, "responses")
RegisterArtifact(c) == OnTask(c, "register")
PrepareWrite(c) == OnTask(c, "prepare")
ApproveWrite(c) == OnTask(c, "approve")
RejectWrite(c) == OnTask(c, "reject")
SubmitResult(c) == OnTask(c, "submit")

(* The result that is decided may have been opened by its id: of any task. *)
DecideResult(c, t) ==
  /\ Click /\ Screen = "project" /\ app.task # Nobody
  /\ Request(c, "decide", t)

(* Mutant: the button is not disabled while the agents are loaded. *)
RefreshAgentsAnyway(c) ==
  /\ Click /\ Screen = "project" /\ ~loadingRef
  /\ c \in Idle /\ Put(c, Sent("agents", generation, "none", Nobody, main))
  /\ app' = [app EXCEPT !.agentsLoading = TRUE] /\ loadingRef' = TRUE
  /\ UNCHANGED <<generation, due, main>>

RefreshAgents(c) ==
  /\ Click /\ Screen = "project" /\ app.task # Nobody /\ ~app.agentsLoading /\ ~loadingRef
  /\ c \in Idle /\ Put(c, Sent("agents", generation, "none", Nobody, main))
  /\ app' = [app EXCEPT !.agentsLoading = TRUE] /\ loadingRef' = TRUE
  /\ UNCHANGED <<generation, due, main>>

(* The button of the error screen. *)
Retry(c) ==
  /\ Screen = "error" /\ acts < MaxActs /\ acts' = acts + 1
  /\ shown = Rendering(app) /\ due = {}
  /\ c \in Idle
  /\ Put(c, IF app.project # Nobody THEN Sent("tasks", generation, app.project.id, Nobody, main)
            ELSE Sent("projects", generation, "none", Nobody, main))
  /\ app' = [app EXCEPT !.loading = TRUE]
  /\ UNCHANGED <<generation, loadingRef, due, inbox, main>>

-----------------------------------------------------------------------------
Message ==
  \/ AuthenticationLost
  \/ \E c \in Calls:
       \/ Discard(c) \/ Refused(c) \/ Failed(c) \/ ProjectsLoaded(c) \/ TasksLoaded(c) \/ AgentsLoaded(c)
       \/ AgentsRefusedLate(c) \/ ArtifactsLoaded(c) \/ CurrentUser(c) \/ NoCurrentUser(c) \/ LoggedIn(c)
       \/ LoginRefused(c) \/ ProjectCreated(c) \/ TaskCreated(c) \/ TaskStarted(c) \/ Worked(c)
       \/ Registered(c) \/ Submitted(c) \/ Decided(c) \/ ResultRead(c) \/ ResultRefused(c) \/ TaskRead(c)

User ==
  /\ \/ \E c \in Calls:
          \/ \E a \in Accounts: Login(c, a)
          \/ CreateProject(c) \/ CreateTask(c) \/ StartTask(c) \/ ReadFile(c) \/ CreateModelResponse(c)
          \/ ListModelResponses(c) \/ RegisterArtifact(c) \/ PrepareWrite(c) \/ ApproveWrite(c)
          \/ RejectWrite(c) \/ SubmitResult(c) \/ RefreshAgents(c) \/ Retry(c)
          \/ \E t \in Tasks: DecideResult(c, t)
     \/ Logout
     \/ \E p \in Projects: SelectProject(p)
     \/ \E t \in Tasks: SelectTask(t)
  /\ shown' = Rendering(app')

Served(c) == \E answer \in {"OK", "DENIED", "LOST"}: Serve(c, answer)

Next == Message \/ User \/ Render \/ \E c \in Calls: Served(c)

(* A call is answered or fails; messages are handled; React renders. *)
Fairness == WF_vars(Message) /\ WF_vars(Render) /\ \A c \in Calls: WF_vars(Served(c))

Spec == Init /\ [][Next]_vars /\ Fairness

-----------------------------------------------------------------------------
(* Lists on the screen, and the selected project, were read for the account *)
(* that is signed in, and without one there are none: an answer to a call   *)
(* of an earlier login never fills them (generation checks of App).         *)
ListsAreOfUser ==
  {app.projects, app.project.by, app.tasks.by, app.artifacts.by, app.agents} \subseteq {app.user, "none"}

(* The agents are loaded once at a time within a login, although the late   *)
(* answer of an earlier login resets the ref that guards it (lines 112-121).*)
OneAgentsLoad ==
  \A c, d \in Calls: {call[c].op, call[d].op} = {"agents"} /\ ~Stale(c) /\ ~Stale(d) => c = d

(* The shell does not stay on "loading", nor the refresh button disabled.  *)
LoadingEnds == (app.user # "none" /\ app.loading) ~> (~app.loading \/ app.user = "none")

AgentsLoadingEnds ==
  (app.user # "none" /\ app.agentsLoading) ~> (~app.agentsLoading \/ app.user = "none")

(* A shell that shows an account whose session Main has lost is cleared,    *)
(* whichever of its calls was refused ("globally clears the shell").        *)
LossIsShown == (app.user # "none" /\ main # app.user) ~> (app.user = "none" \/ main = app.user)

(* The task on the screen too was read for the account that is signed in.   *)
TaskIsOfUser == app.user # "none" /\ app.project # Nobody => app.task.by \in {app.user, "none"}
=============================================================================
