---------------------------- MODULE ApprovalMode ----------------------------
(***************************************************************************)
(* How the approval mode chosen in the UI reaches the two places that use  *)
(* it: the worker's session (`approval_mode_lock' and the inner Agent's    *)
(* copy) and the policy engine behind the MessageBus, which is the one     *)
(* that decides whether a tool call is allowed.                            *)
(*                                                                         *)
(* The UI changes its own copy at once and sends SetApprovalMode.  The     *)
(* worker installs the mode when it is idle, or remembers the last one it  *)
(* was sent during a turn and installs that one when the turn ends.  The   *)
(* engine is written by a task spawned for each change; the runtime is     *)
(* multi-threaded and the tasks are not ordered.                           *)
(***************************************************************************)
EXTENDS Naturals, Sequences

CONSTANTS
  InitialMode,     \* the mode the configuration starts the session in
  MaxRequests,     \* bound: mode changes the user makes in one behaviour
  MaxPlanTools     \* bound: EnterPlanMode/ExitPlanMode calls the model makes

Mode == {"auto", "default", "acceptEdits", "plan", "yolo"}
NoMode == "none"
PlanTool == {"EnterPlanMode", "ExitPlanMode"}

ASSUME InitialModeAssumption == InitialMode \in Mode
ASSUME BoundAssumption == MaxRequests \in Nat /\ MaxPlanTools \in Nat

VARIABLES
  yoloDisabled, \* Config::is_yolo_mode_disabled(), read once at the start
  ui,         \* ChatState::approval_mode, what the status line shows
  requests,   \* SetApprovalMode messages the worker has not taken yet
  replies,    \* ApprovalModeChanged messages the UI has not taken yet
  streaming,  \* the worker is inside a turn
  deferred,   \* DeferredRuntimeActions::pending_set_approval_mode
  lock,       \* StarAgent::approval_mode_lock
  agentMode,  \* the inner Agent's copy (plan-mode reminder)
  tasks,      \* spawned engine writes that have not run, counted per mode
  engine,     \* PolicyEngine::approval_mode
  serial,     \* history: the newest engine write was spawned with none in flight
  made,       \* counter for MaxRequests
  planned     \* counter for MaxPlanTools

vars == <<yoloDisabled, ui, requests, replies, streaming, deferred, lock, agentMode, tasks,
          engine, serial, made, planned>>

TypeOK ==
  /\ yoloDisabled \in BOOLEAN
  /\ ui \in Mode
  /\ requests \in Seq(Mode)
  /\ replies \in Seq(Mode)
  /\ streaming \in BOOLEAN
  /\ deferred \in Mode \cup {NoMode}
  /\ lock \in Mode
  /\ agentMode \in Mode
  /\ tasks \in [Mode -> Nat]
  /\ engine \in Mode
  /\ serial \in BOOLEAN
  /\ made \in 0..MaxRequests
  /\ planned \in 0..MaxPlanTools

NoTasks == \A m \in Mode : tasks[m] = 0

(* The UI always starts as Default; the worker's first message tells it    *)
(* the mode the session really runs in.                                    *)
Init ==
  /\ yoloDisabled \in {b \in BOOLEAN : b => InitialMode # "yolo"}
  /\ ui = "default"
  /\ requests = <<>>
  /\ replies = <<InitialMode>>
  /\ streaming = FALSE
  /\ deferred = NoMode
  /\ lock = InitialMode
  /\ agentMode = InitialMode
  /\ tasks = [m \in Mode |-> 0]
  /\ engine = InitialMode
  /\ serial = TRUE
  /\ made = 0
  /\ planned = 0
-----------------------------------------------------------------------------
(* The UI.                                                                 *)

NextMode(m) ==
  CASE m = "auto"        -> "default"
    [] m = "default"     -> "acceptEdits"
    [] m = "acceptEdits" -> "plan"
    [] m = "plan"        -> "yolo"
    [] m = "yolo"        -> "auto"

Request(m) ==
  /\ made < MaxRequests
  /\ made' = made + 1
  /\ ui' = m
  /\ requests' = Append(requests, m)
  /\ UNCHANGED <<replies, streaming, deferred, lock, agentMode, tasks, engine,
                 serial, planned>>

CycleApprovalMode == Request(NextMode(ui))          \* Shift+Tab
ChooseMode == \E m \in Mode : Request(m)            \* /permissions <mode>, /plan, palette

ReceiveReply ==
  /\ replies # <<>>
  /\ ui' = Head(replies)
  /\ replies' = Tail(replies)
  /\ UNCHANGED <<requests, streaming, deferred, lock, agentMode, tasks, engine,
                 serial, made, planned>>
-----------------------------------------------------------------------------
(* The worker.                                                             *)

(* StarAgent::set_approval_mode refuses yolo where it is disabled.         *)
SafeMode(m) == IF yoloDisabled /\ m = "yolo" THEN "default" ELSE m

SpawnEngineWrite(m) ==
  /\ tasks' = [tasks EXCEPT ![m] = @ + 1]
  /\ serial' = NoTasks

(* Mutant of Install: the lock is written before it is compared.           *)
InstallLockFirst(m) ==
  /\ agentMode' = m
  /\ lock' = m
  /\ UNCHANGED <<tasks, serial>>

(* The session's own copies are written at once; the engine's by a spawned *)
(* task, and only if the lock really changes.                              *)
Install(m) ==
  /\ agentMode' = m
  /\ \/ /\ lock = m
        /\ UNCHANGED <<lock, tasks, serial>>
     \/ /\ lock # m
        /\ lock' = m
        /\ SpawnEngineWrite(m)

(* The reply carries the mode that was asked for.                          *)
SetApprovalMode(m) ==
  /\ Install(SafeMode(m))
  /\ replies' = Append(replies, m)

HandleSetApprovalMode ==
  /\ ~streaming
  /\ requests # <<>>
  /\ SetApprovalMode(Head(requests))
  /\ requests' = Tail(requests)
  /\ UNCHANGED <<ui, streaming, deferred, engine, made, planned>>

DeferSetApprovalMode ==
  /\ streaming
  /\ requests # <<>>
  /\ deferred' = Head(requests)
  /\ requests' = Tail(requests)
  /\ UNCHANGED <<ui, replies, streaming, lock, agentMode, tasks, engine,
                 serial, made, planned>>

StartTurn ==
  /\ ~streaming
  /\ streaming' = TRUE
  /\ UNCHANGED <<ui, requests, replies, deferred, lock, agentMode, tasks, engine,
                 serial, made, planned>>

(* Mutants of FinishTurn: the deferred mode is taken but not installed; it *)
(* is installed but the UI is not told.                                    *)
FinishTurnForgetful ==
  /\ streaming
  /\ streaming' = FALSE
  /\ deferred' = NoMode
  /\ UNCHANGED <<ui, requests, replies, lock, agentMode, tasks, engine,
                 serial, made, planned>>

FinishTurnSilent ==
  /\ streaming
  /\ streaming' = FALSE
  /\ deferred' = NoMode
  /\ \/ /\ deferred = NoMode
        /\ UNCHANGED <<lock, agentMode, tasks, serial>>
     \/ /\ deferred # NoMode
        /\ Install(SafeMode(deferred))
  /\ UNCHANGED <<ui, requests, replies, engine, made, planned>>

FinishTurn ==
  /\ streaming
  /\ streaming' = FALSE
  /\ deferred' = NoMode
  /\ \/ /\ deferred = NoMode
        /\ UNCHANGED <<replies, lock, agentMode, tasks, serial>>
     \/ /\ deferred # NoMode
        /\ SetApprovalMode(deferred)
  /\ UNCHANGED <<ui, requests, engine, made, planned>>
-----------------------------------------------------------------------------
(* The plan-mode tools, called by the model during a turn.                 *)

(* What the gate makes of such a call in each engine mode, without rules   *)
(* or grants: plan mode lets ExitPlanMode through and nothing else, yolo   *)
(* lets everything through, auto asks its classifier, and a call nobody    *)
(* decided goes to the user.  A call the policy allows is not asked about  *)
(* although both tools have a card of their own.                           *)
Gate(tool) ==
  CASE engine = "plan" -> IF tool = "ExitPlanMode" THEN {"open"} ELSE {"closed"}
    [] engine = "yolo" -> {"open"}
    [] engine = "auto" -> {"open", "ask", "closed"}
    [] OTHER           -> {"ask"}

Target(tool) == IF tool = "EnterPlanMode" THEN "plan" ELSE "default"

(* The user says yes: the card's on_confirm spawns a write of the engine   *)
(* and touches nothing else.  A no changes nothing.                        *)
ConfirmPlanTool(tool) ==
  /\ "ask" \in Gate(tool)
  /\ tasks' = [tasks EXCEPT ![Target(tool)] = @ + 1]
  /\ serial' = FALSE

(* No card, so on_confirm is never called; the tool still reports success. *)
RunPlanToolUnasked(tool) ==
  /\ "open" \in Gate(tool)
  /\ UNCHANGED <<tasks, serial>>

CallPlanTool(tool) ==
  /\ streaming
  /\ planned < MaxPlanTools
  /\ planned' = planned + 1
  /\ ConfirmPlanTool(tool) \/ RunPlanToolUnasked(tool)
  /\ UNCHANGED <<ui, requests, replies, streaming, deferred, lock, agentMode,
                 engine, made>>

(* A spawned write takes the engine's lock; any of them may be the next.   *)
EngineWrite(m) ==
  /\ tasks[m] > 0
  /\ tasks' = [tasks EXCEPT ![m] = @ - 1]
  /\ engine' = m
  /\ UNCHANGED <<ui, requests, replies, streaming, deferred, lock, agentMode,
                 serial, made, planned>>
-----------------------------------------------------------------------------
User == CycleApprovalMode \/ ChooseMode

Worker == HandleSetApprovalMode \/ DeferSetApprovalMode

Next ==
  /\ \/ User
     \/ Worker
     \/ ReceiveReply
     \/ StartTurn
     \/ FinishTurn
     \/ \E tool \in PlanTool : CallPlanTool(tool)
     \/ \E m \in Mode : EngineWrite(m)
  /\ UNCHANGED yoloDisabled

(* The worker, the UI's receive loop and the spawned tasks keep running,   *)
(* and a turn ends (its length is bounded elsewhere); the user owes        *)
(* nothing.                                                                *)
Fairness ==
  /\ WF_vars(Worker /\ UNCHANGED yoloDisabled)
  /\ WF_vars(ReceiveReply /\ UNCHANGED yoloDisabled)
  /\ WF_vars(FinishTurn /\ UNCHANGED yoloDisabled)
  /\ \A m \in Mode : WF_vars(EngineWrite(m) /\ UNCHANGED yoloDisabled)

Spec == Init /\ [][Next]_vars /\ Fairness
-----------------------------------------------------------------------------
(* Where yolo is disabled no path puts the session, the engine or a write  *)
(* on its way to the engine into yolo (star_agent.rs set_approval_mode).   *)
NeverYoloWhenDisabled ==
  yoloDisabled => lock # "yolo" /\ engine # "yolo" /\ tasks["yolo"] = 0

(* A mode change that does not overlap another one is never lost: once its *)
(* engine write has run, the engine enforces what the session believes,    *)
(* whatever the engine's mode was before (approval.rs set_approval_mode).  *)
SerialChangeReachesEngine ==
  serial /\ NoTasks => engine = lock

(* When nothing is on its way in either direction the UI shows the mode    *)
(* the session is in, however many changes were merged while a turn ran    *)
(* and however late the replies came.                                      *)
UiShowsSessionMode ==
  /\ ~yoloDisabled
  /\ requests = <<>> /\ deferred = NoMode /\ replies = <<>>
  => ui = lock

(* The user's last choice is installed and shown for good, also when it    *)
(* was made during a turn.                                                 *)
UiSettles == ~yoloDisabled => <>[](ui = lock /\ requests = <<>> /\ deferred = NoMode)
=============================================================================
