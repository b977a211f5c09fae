-------------------------------- MODULE Screens --------------------------------
(***************************************************************************)
(* The Desktop's screens: the shell, the view of a task, the panel of      *)
(* model responses and the collaboration panel side by side.  Each keeps   *)
(* the state and the calls of its own component; what the API and Main     *)
(* answer is modelled with it.                                             *)
(***************************************************************************)
EXTENDS Naturals, Sequences

CONSTANTS
  Members, Projects, Tasks, ProjectOf, ShellCalls, MaxActs,              \* Renderer
  Artifacts, ViewCalls, MaxKeys, MaxSwitches, MaxRemounts,               \* TaskDetail
  PanelCalls, MaxTries, MaxSelections, MaxRetries,                       \* ModelResponsePanel
  Conversations, TalkCalls, PageSize, MaxMessages, MaxTaps               \* CollaborationPanel

VARIABLES
  shell, generation, loadingRef, shown, due, asking, inbox, main, acts,   \* Renderer
  foreign,                                                                \* see Remember
  task, detail, results, pending, keys, last, asked, switches, remounts,  \* TaskDetail
  ofTask, attempt, list, invocations, query, tries, selections, retries,  \* ModelResponsePanel
  context, thread, draft, panes, fetch, posted, taps                      \* CollaborationPanel

Shell == INSTANCE Renderer WITH Accounts <- Members, Calls <- ShellCalls, app <- shell, call <- asking
View == INSTANCE TaskDetail WITH Calls <- ViewCalls, view <- detail, call <- pending
Panel == INSTANCE ModelResponsePanel WITH
  Calls <- PanelCalls, MaxKeys <- MaxTries, MaxSwitches <- MaxSelections, MaxClicks <- MaxRetries,
  task <- ofTask, view <- list, call <- query, keys <- tries, switches <- selections, clicks <- retries
Talk == INSTANCE CollaborationPanel WITH
  Calls <- TalkCalls, MaxClicks <- MaxTaps, view <- thread, call <- fetch, clicks <- taps

shellVars == <<shell, generation, loadingRef, shown, due, asking, inbox, main, acts, foreign>>
viewVars == <<task, detail, results, pending, keys, last, asked, switches, remounts>>
panelVars == <<ofTask, attempt, list, invocations, query, tries, selections, retries>>
talkVars == <<context, thread, draft, panes, fetch, posted, taps>>
screens == <<shellVars, viewVars, panelVars, talkVars>>

(* "none" is no account, project or task, and no conversation; a project is *)
(* not named like a mode of the panel.                                      *)
ASSUME ScreensAssumption ==
  /\ "none" \notin Members \cup Projects \cup Tasks \cup Talk!Threads
  /\ ProjectOf \in [Tasks -> Projects]
  /\ Projects \cap {"notifications", "library"} = {}
  /\ {MaxActs, MaxKeys, MaxSwitches, MaxRemounts, MaxTries, MaxSelections, MaxRetries, PageSize, MaxMessages, MaxTaps}
       \subseteq Nat

ScreensInit == Shell!Init /\ foreign = FALSE /\ View!Init /\ Panel!Init /\ Talk!Init

(* History: whether a task of another account has been on the screen, which *)
(* the answer to a decision of an earlier login can bring about.            *)
Remember == foreign' = (foreign \/ shell'.task.by \notin {shell'.user, "none"})

ShellStep == Shell!Next /\ Remember /\ UNCHANGED <<viewVars, panelVars, talkVars>>
ViewStep == View!Next /\ UNCHANGED <<shellVars, panelVars, talkVars>>
PanelStep == Panel!Next /\ UNCHANGED <<shellVars, viewVars, talkVars>>
TalkStep == Talk!Next /\ UNCHANGED <<shellVars, viewVars, panelVars>>

ScreensNext == ShellStep \/ ViewStep \/ PanelStep \/ TalkStep

ScreensSpec ==
  /\ ScreensInit /\ [][ScreensNext]_screens
  /\ Shell!Fairness /\ View!Fairness /\ Panel!Fairness /\ Talk!Fairness

-----------------------------------------------------------------------------
(* What a screen shows belongs to the account, task, project or             *)
(* conversation that is selected, however late the answers to what was      *)
(* selected before arrive, as long as no task of another account has been   *)
(* shown; and nothing is loaded, decided or shown twice, unless App has     *)
(* replaced the view meanwhile.                                             *)
ScreensBelong ==
  /\ Shell!TypeOK /\ (foreign \/ Shell!ListsAreOfUser) /\ Shell!OneAgentsLoad
  /\ View!TypeOK /\ View!CandidateWasAsked /\ (remounts = 0 => View!OneDecision)
  /\ Panel!TypeOK /\ Panel!ItemsAreOfTask
  /\ Talk!TypeOK /\ Talk!ItemsAreOfContext /\ Talk!MessagesAreOfConversation /\ Talk!MessageShownOnce

(* Until its success is shown, a confirmation of the same artifacts for the *)
(* same task repeats the key of the one before, so that a retry after a     *)
(* lost answer creates no second result ("Retrying that explicit            *)
(* confirmation reuses its key"), unless App has replaced the view.         *)
RetryKeepsKey ==
  [][remounts = 0 => last.artifacts # last'.artifacts \/ last.shown \/ last'.key = last.key]_screens
===============================================================================
