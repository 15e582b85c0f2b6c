# StarCode CLI, a verification project

StarCode CLI is a terminal coding agent in Rust. A UI task and an agent worker task talk over
channels; the worker runs turns against a language model; the turns call tools behind a
permission gate, some of which start agents of their own; write tools keep a history of the files
they change; settings change while turns run, the panel and the agents edit one list of tasks, and other programs
send requests through a file.
This directory models that control core in TLA+, model-checks it with TLC and proves its main safety properties with TLAPS.

Paths below are relative to `src/src/`, the Rust crate.

    ApprovalMode      how a chosen approval mode reaches session, policy engine and status line
    RuntimeWorker     the agent worker, its turns, steering, cancelling, exit
    TurnService       what the worker promises about messages (abstract)
    ConfirmationGate  from a tool call to its card, the answer and back
    Permissions       what the gate promises of tool calls (abstract)
    FileHistory       backups of edited files, /undo and /rewind
    SubAgents         agents waited for and in the background, their rows and reports
    AgentReports      what the queue of reports promises (abstract)
    RuntimeSettings   model, window and effort from the key press to worker, turn, UI and disk
    RemoteInbox       requests of other programs through inbox.jsonl, answers in outbox.jsonl
    TaskList          tasks.json between the panel and the tools of the agents

    MC<Module>        the instance for TLC;   <Module>_proofs   the theorems

## Inventory

### The tasks and what joins them

| task | state | joined to the others by |
|---|---|---|
| UI loop (`ui/app/`, `ui/events/`, `ui/services/stream/`) | cards, message queue, shown mode, cancelling grace period | `AgentRequest` channel to the worker, stream channel back, both mpsc of 100 (`ui/app/runtime/mod.rs:1004`) |
| agent worker (`ui/services/worker.rs`, `runtime/session.rs`) | session context, steering queue, deferred actions, abort flag | the two channels; a subscription to the message bus |
| loop task of a turn (`agent/agent_loop.rs`, `agent_run.rs`) | the messages of the turn, abort token | steering queue, abort flag, its stream of chunks |
| abort watcher of a turn (`agent_run.rs`) | none | polls the flag, cancels the token |
| message bus and policy engine (`core/confirmation_bus/`, `core/policy/`) | broadcast channel of 100; mode and rules behind a lock | questions and responses by correlation id; the mode is written by spawned tasks |
| background agents (`agent/subagent/`) | a conversation of their own | progress into the channel of the turn, files on disk, file history |
| background pollers (`runtime/background.rs`) | none in memory | loops.json, remote inbox, tasks.json, injected as UI input |
| files | index and backups of the history, settings, sessions, grants, loops, tasks, inbox | read and written by several of the tasks above, unlocked |

### Components

**Session worker** (`RuntimeWorker`, `TurnService`). State: request channel, steering queue, running
turn, abort flag and token, deferred actions with one slot each for compression and for a note,
session history, local context. Operations: send, start a turn, preflight hooks, steer, defer,
abort, apply what was deferred, save, reset, restore, shut down. Hard: the same request is handled
by different functions in and out of a turn; an Abort races the end of the turn; the flag outlives
the turn that it was for; there are four ways out of the worker. Correct when messages and context
requests take effect once and in order, nothing said is lost, every turn reports its end, an Abort
ends its turn and no other, and exit saves and stops.

**Approval mode** (`ApprovalMode`). State: the UI's copy, the session's lock, the inner agent's
copy, the deferred change, the engine's mode, spawned writes. Operations: choose, install, defer,
reply, the plan-mode tools. Hard: three copies and unordered writers. Correct when the copies
agree once everything has arrived, and a disabled yolo mode is never entered.

**Confirmation gate** (`ConfirmationGate`). State: where each call is in `pass_gate`, grants of the
session, bus, stream, steering queue, cards (one active, the others queued), cancelling. Operations:
ask the policy, publish, wait, answer, abort, record a grant, send and steer a message, draw, press,
decide remotely, cancel. Hard: calls run side by side; an answer races an abort; a card takes the keys
from another; late results and Done messages clear cards; a message joins the running turn or starts
the next one, also while the UI still waits for a cancelled turn to end. Correct when nothing runs that nobody allowed, the first decision
counts, grants are no wider than what was given, and no wait is left without its card.

**File history** (`FileHistory`). State: index of at most 20 snapshots, backup files by version,
the files. Operations: `track_edit`, the write, `rewind`. Hard: the index is loaded, changed and
saved as a whole with awaits between; the index belongs to the project, so restarts reuse message
ids; the oldest snapshots go. Correct when each record has its backup, backups are
not overwritten while needed, and going back restores what was there.

**Background agents** (`SubAgents`, `AgentReports`). State: the sink of the turn and the permanent
one, the row of each agent, its output file, the queue of notifications with its two sets of ids.
Operations: route an Agent call, run, report progress, finish, write the output, show the end, post
the notification, drain the queue, merge the two channels of a turn, the watchdog of a tool call.
Hard: an agent outlives the turn that started it, its updates go one of two ways, every loop of the
session drains the one queue, and an end on one channel passes chunks on the other. Correct when
each report is read once, what waits at the start of a turn is read by it, a row says "finished"
only after the output file, late ends are shown for good, and the turn ends whatever an agent does.

**Runtime settings** (`RuntimeSettings`). State: what the UI shows as requested, as active and of
the file; the worker's settings; deferred changes; the slot for a running turn; the file. Operations:
ask, install, refuse, defer, supersede, answer, adopt, write, take answers and write results. Hard:
an answer may be older than what the user asks for by then; a deferred change is dropped where later
ones cover it; writers overlap. Correct when no wish is lost or put back, the last one wins, the UI
agrees with the worker once all is quiet, and what it calls saved is on disk.

**Remote inbox** (`RemoteInbox`). State: inbox and outbox, the batch a drainer has read, the events
on their way to the UI, the marker of a once-only task, the directory of the session. Operations:
append a request, read, truncate, show, hand over, answer, mark, clear, change the directory, end of
the process. Hard: no lock, read and truncate are two steps, a line and its newline are two writes;
each directory has an inbox, the poller keeps to one and the commands follow `/cd`. Correct when each
request is handed over once and in order, answers are true, and no request is lost but for a cause
one can name.

**Task list** (`TaskList`). State: tasks.json, torn while it is saved, and its modification time; the
panel's memory and the time it last saw; the list each call of a tool holds. Operations: load with
repair, replace (TodoWrite), link and complete (TaskUpdate), seed from a plan (ExitPlanMode), move,
delete, add and toggle in the panel, save, reload. Hard: no lock, a save is two steps, each writer
writes all of its memory, a file that cannot be parsed is an empty list to the tools, and parents,
children, roots and the two kinds of links are mended separately. Correct when every list is a forest
with paired links, the panel shows the file it has seen, and no task is lost but by a save over a
list that was not read.

**Agent loop, UI of a conversation.** Modelled as far as the other modules see them: where the loop
checks the flag, takes steered messages and notifications, calls the model, runs segments of tool
calls, returns; what the UI sends, shows and clears.

**Not modelled yet, planned**: scheduled loops. **Not modelled**: grants and rules on
disk, model clients, model fallback, compaction and
memory, the tools themselves, hooks and sandbox, MCP and plugins, session files, configuration,
auto-mode classifier, commands and rendering, teams/daemon/bridge (no callers). The reason for each
is in `PROJECT.json` under `components`, and what is hard to test in the modelled and planned parts
is under `hazards`, each with its line and the properties that would catch it.

## The modules and the code

### ApprovalMode

| here | code |
|---|---|
| `ui`, `CycleApprovalMode`, `ChooseMode`, `ReceiveReply` | `ChatState::approval_mode`, Shift+Tab and `/permissions`, `ApprovalModeChanged` |
| `requests`, `streaming`, `deferred` | the channel, an open turn, `pending_set_approval_mode` (the last one wins) |
| `Install`, `SafeMode` | `StarAgent::set_approval_mode` and `agent/approval.rs`: agent's copy, lock, and a spawned write of the engine only when the lock changes |
| `tasks`, `EngineWrite` | those spawned tasks; any of them may run next |
| `Gate`, `CallPlanTool` | what `PolicyEngine::check` and `pass_gate` make of EnterPlanMode and ExitPlanMode in each engine mode; a confirmed card writes the engine alone |

A set of spawned tasks is a counter per mode: two writes of one mode are alike. History variable:
`serial`.

### RuntimeWorker and TurnService

Requests are numbered as they are sent, a number standing for its content; `log` keeps the kinds.

| here | code |
|---|---|
| `pc` | `agent_worker`: idle loop, preflight hooks, `run_streaming_session`, `apply_deferred_runtime_actions`, `run_session_end` |
| `TakeMessage`, `Idle...` | `agent_worker` and `handle_request`: steering queue first, then the channel |
| `TurnMessage`, `TurnContext`, `TurnOperation`, `TurnAbort`, `TurnShutdown`, `TurnClosed` | `handle_streaming_request` and the closed channel |
| `Prepare`, `LoopTop`, `CallReturns` | `run_stream`, the head of `run_agentic_loop` (round limit, abort check, `drain_steering_messages`), `execute_turn` |
| `Watcher` | the task of `arm_abort_token` |
| `StreamEnds`, `ApplyDeferred`, `Settled`, `DeferredShutdown`, `SessionEnd` | end of stream, deferred actions in their order, compression and note, the kept Shutdown response |
| `UiExits`, `UiPanic` | the epilogue of `run_app` (SaveSession and Shutdown, or Shutdown alone), an unwinding UI |

A round is one model call with its tool calls. The loop goes on or returns by choice, up to
`MaxTurns` rounds: nudges, stop hooks and budgets only decide which.

`TurnService` is what a user who types while the agent works may rely on: one queue, a turn begins
with the oldest message, later ones may join, each message reaches the model once, in order, or is
refused before its turn, or goes with the service. `RuntimeWorker` implements it by the mapping
`waiting` = the message whose turn is starting, then the steering queue, then the messages in the
channel; `seen` = `taken`; `state` from `pc` and `loop`. The channel, the steering queue and the
session's two request handlers are hidden by it.

### ConfirmationGate and Permissions

| here | code |
|---|---|
| `PassGate`, `Verdict`, `Approved` | `pass_gate` in `agent/tool_executor.rs`: policy, grants, sensitive-file guard, `should_confirm_execute` |
| `Publish` | `MessageBus::publish`: the policy is asked once more |
| `TakeAnswer`, `AbortWait` | `await_tool_decision`: the response is preferred; only barrier calls have the token |
| `GrantsAfter` | `record_approval` |
| `SegmentEnds`, `NotTakenIn`, `ModelCallCancelled`, `LoopReturns` | segments of a response in `agent/agent_tool_process.rs`; `drain_steering_messages` after the last |
| `StartTurn` | `agent_worker`: the steering queue, then the channel; the Start message; the loop takes in what else is queued |
| `Relay`, `Forward`, `Steer`, `ConfirmTool`, `Abort` | the select of `run_streaming_session`, `handle_streaming_request`, `handle_request` |
| `SendMessage`, `SteerMessage` | `enqueue_user_message`; `steer_user_message`, the remote inbox and loops |
| `StartArrives`, `CardArrives`, `ResultArrives`, `DoneArrives`, `Clear` | `ui/services/stream/mod.rs`, `ui/state/store/confirmation.rs` |
| `Press`, `RemoteDecision`, `Cancel`, `GraceExpires` | `ui/events/input/`, `runtime/background.rs`, the 1.5 s in which a cancelled turn is awaited |

A call stands for its tool call id, its correlation id and its card. The policy's verdict and the
tool's own check are choices each time they are asked, so the model covers any rules, also ones
changed in between. `screen` is what the last frame showed: it is what a key is pressed for. Grants
by signature, by tool and on disk are one set of tools: the widest of the three. History variables:
`decided`, and `dropped`, the calls that nobody cancels and whose card the end of a grace period took.

`Permissions` is what is left when tasks, channels and cards are taken away: a call is new, then asked
or settled, and `fate` says by what; `said` is the first word about a call, `decided` here; `cancelled`
is the abort flag. A word counts from the moment the key is pressed, though the gate hears of it three
hops later: that nothing in between makes a difference is what the refinement says. `Withdraw` is the one
exception, and the code's: an abort beats an answer that has not reached the bus.

### FileHistory

| here | code |
|---|---|
| `Load`, `Copy`, `Save`, `TrackFails` | the three phases of `track_edit` and its error paths |
| `Write`, `GivesUp` | what the write tool does after tracking, or finds it must not do |
| `RewindFind`, `RewindLoad`, `Restore`, `RewindFails` | `rewind` and `apply_snapshot`, one file at a time |
| `Outside` | a shell command or the user's editor |
| `Crash`, `NextMessage` | the process ends, message ids start again; the next user message |

Contents are numbers, new for each change. A backup record carries in `was` what the file held when
it was made: history, never read by an action. Versions that start again after an eviction are
modelled (`Versions`, `IsNext`), as is the fallback to the first version 1.

### SubAgents and AgentReports

| here | code |
|---|---|
| `StartTurn`, `LoopTop`, `Answer`, `Call`, `Returned` | `run_agentic_loop`: drain, model call, the Agent calls of a round and their results |
| `Mode`, `StartSync`, `Subtask` | `route_agent_call`, `AgentTool`, `/subtask` |
| `EmitToUi`, `ForwardBg`, `Send` | the sink registered last while its receiver lives, else the permanent one; the row of an agent |
| `TakeDirect`, `TakeEvent`, `TakeDone` | the merge of `process_user_message_stream`; what is left in `direct` at Done is dropped |
| `Progress`, `LoopDone`, `ReturnSync`, `Watchdog` | `run_with_progress`, the tool timeout that drops the agent it waits for |
| `WriteOutput`, `ShowEnd`, `Enqueue` | the tail of `spawn_background` |
| `DrainForNextTurn`, `SubagentDrains` | `NotificationQueue`, drained by the loops of agents too |

`AgentReports` is the mailbox that the queue is to be: `posted` is the pending list as a set,
`readers` who was given each report.

### RuntimeSettings

| here | code |
|---|---|
| `Ask`, `SaveProviderForm` | the revisions and the optimistic picture of `ui/services/stream/mod.rs`; the unnumbered SetModel of `provider_form.rs` |
| `ReceiveIdle`, `ReceiveInTurn`, `Settle`, `Covered` | `control_requests.rs` and `session.rs`: install, defer, `is_fully_superseded` |
| `Install`, `Refuse`, `Supersede`, `Spawn` | `StarAgent::apply_runtime_settings`, the acknowledgement, the write task |
| `Publish`, `AdoptSwitch`, `SubAgentAdopts`, `SkillSwitches` | the slot of `agent/model_switch.rs` and those who fill and empty it |
| `TakeAck`, `TakeWriteResult`, `MarkerAfter` | what the UI makes of answers |
| `WriterLoads`, `WriterSaves`, `WriterStores`, `WriterFails` | the load-modify-save of the settings file, then the provider store |

A request's number is its revision and the value it asks for (0: the values at the start), so two
requests never ask for one value. The worker's requested and active settings differ only in detail
that no property needs and are one variable. Applied and Degraded are one outcome, Rejected and
Failed another. The acknowledgement at the start has been taken.

### RemoteInbox

| here | code |
|---|---|
| `Put`, `NewlineLands`, `PostLine` | `append_request`, `queue_message`: the newline is a write of its own that lands later or never |
| `OtherPosts`, `TaskPosts`, `CommandPosts` | another program, which writes its line in one piece; BackgroundTask; `/remote send` and `/job add` |
| `CallOnce`, `PostOnce`, `Mark`, `Clear` | BackgroundTask with `once`: look for the marker, post, mark; `/job clear` |
| `ChangeDirectory`, `Source` | `/cd`; the poller drains the inbox of the start, `/remote drain` that of the current directory |
| `PollerReads`, `PollerTruncates`, `CommandReads`, `CommandTruncates`, `Accepted` | `drain_requests` by the poller and by `/remote drain` |
| `Displayed` | of what `/remote drain` read, the first `DisplayLimit` (10 in the code) are shown, the rest counted |
| `Reject`, `HandOver`, `Answer`, `AppendResponse` | `apply_remote_requests` in the UI loop |
| `Crash` | the process ends at any point and starts again in the same directory: files and marker stay |

Requests are numbered as they reach a file, and a line is the set of the requests written into
it: one is readable, more are broken JSON. Broken lines are filtered where the UI takes the batch
instead of where it is read. `/cd` may come whenever the UI is at the keys, which is more often than
in the code: that refuses it during a turn. `raced` names the requests that landed between a read and
its truncation, shared a line or were on their way at a crash, `strayed` those posted into another
inbox than the polled one, `due` counts the occasions on which the once-only task may be posted:
history, never read by an action. `counted` are the requests a `/remote drain` read beyond its limit.

### TaskList

| here | code |
|---|---|
| `Flat`, `WithPlan`, `MoveTask`, `DeleteTask`, `Below`, `MayMove`, `AddTask` | `next_todo_graph`, `seed_tasks_from_plan`, `TaskManager` and `TaskGraph` |
| `Repair` | `repair_task_graph`, at every load and save |
| `Blocks`, `BlockedBy`, `Complete` | `TaskUpdate`: links and their reverse links, the release of those that wait |
| `Load`, `TodoWrite`, `TaskUpdate`, `SeedPlan`, `NoChange`, `Save` | a call of a tool: load, change in memory and truncate, write |
| `Reload`, `Tick`, `Open`, `TakeResult`, `NoteTime` | `TaskPanel::reload` on a frame, when shown, and on the two messages of a TodoWrite |
| `MoveSelected`, `DeleteSelected`, `AddNewTask`, `Toggle`, `EnterEdit`, `SubmitEdit`, `CancelEdit`, `SavePanel` | the keys of the panel; each change saves all of its memory |

A list is its tasks, roots, parents, children and the two kinds of links, as sets and functions: order,
titles and states are left out. The file is whole, torn (truncated, not yet written) or broken (the
end of another's list may stay behind a shorter one); `text` is the last list written. Its time is a
counter of changes. `saved`, `read`, `missed`, `own`, `overtaken` and `surprised` are history: which
text each writer started from, whether the file changed while the panel noted its time, what each
asked for, and what became of it.

## Runs

| run | shows |
|---|---|
| `approval_mode` | in every interleaving of three changes, a plan-mode call, turns and spawned writes: a change that overlaps no other reaches the engine, the status line is right when all is quiet, and settles |
| `worker_safety` | all kinds of requests, any exit: order, history, reports, aborts, shutdown, and the refinement of `TurnService` |
| `worker_liveness` | messages and aborts, any exit: an Abort ends the turn, the worker stops, every message is taken |
| `worker_stale_abort` | finds an Abort that ends the turn after its own (`AbortStaysInItsTurn`) |
| `gate_questions` | a sensitive command alone, then two calls of one tool side by side, messages and one cancel or remote decision at any point: what runs was allowed, first decisions count, no card is lost but to a grace period that outlives its turn, answered turns end, and the refinement of `Permissions` |
| `gate_abort` | finds a cancelled turn whose calls wait for ever (`AbortEndsTheWait`) |
| `file_history` | two agents, a crash, an error or a change from outside at any point, a rewind at any point: records have their backups, none is shared, calm histories keep contents, the first snapshot undoes all |
| `sub_agents` | two agents, waited for or not, around a turn of two rounds: reports are read once (`AgentReports`) and in time, rows tell the truth, the turn ends even when an agent never returns |
| `runtime_settings` | three changes of any kind around a turn, any failure of a write: wishes are neither lost nor put back, the last one wins, UI, marker and disk settle on the truth |
| `runtime_settings_stale_switch` | finds a turn that runs on a model chosen for an earlier one (`TurnRunsOnTheSetting`) |
| `remote_inbox` | three requests by any writer, two calls of a once-only task, two drainers, `/cd` to one other directory, an end of the process anywhere: order, true answers, nothing forgotten but by a race or the limit of a `/remote drain`, once means once, every request in the polled inbox is answered |
| `task_list` | two tasks from before, two calls of any tool and a change in the panel, each save in two steps: lists stay forests with paired links, the panel shows the file it has seen, tasks are lost only by a save over an unread list |

The runs that end in a counterexample each check one sentence of the repository's own comments;
`PROJECT.json` quotes it under `findings`. In short:

1. An Abort read between two turns cancels the next one (`runtime/control_requests.rs:20`).
2. Calls that run side by side have no abort token: cancelled while one waits, the turn hangs
   (`agent/agent_tool_process.rs:485`).
3. A model switch that a turn does not take stays in its slot for a later turn
   (`agent/agent_loop.rs:161`).

The properties of the passing runs that live next to these say what does hold: for 1, no Abort ends
more than one turn (`AbortsAreNotMultiplied`); for 3, the worker's own setting is the last one
asked for (`LastRequestWins`).

### What the passing runs step around

Further places where code and comments part are in the models, and the passing properties say what
is left to rely on:

- ExitPlanMode, allowed by the policy in plan mode, never asks the user and leaves the engine in
  plan mode (`agent/tool_executor.rs:638`, against `core/tools/exit_plan_mode.rs:48`).
- Two quick mode changes can leave the policy engine in the older mode (`agent/approval.rs:45`);
  `SerialChangeReachesEngine` speaks of changes that do not overlap.
- A message that still waits at exit makes the worker leave before it reads SaveSession
  (`ui/services/worker.rs:149`); Shutdown is answered last *when it is read* (`ShutdownComesLast`).
- A new card takes the keys before it is drawn (`ui/services/stream/mod.rs:1474`, against the comment
  at `:1413`); `FirstDecisionCounts` holds for the card the key reached.
- When the 1.5 s after Esc or Ctrl+C end, all cards go (`ui/app/runtime/mod.rs:476`; the comment at
  `:474` takes their questions for void). The questions of a turn that has begun in the meantime are
  not: its calls wait for ever. `EveryWaitHasItsCard` and `AnsweredTurnsEnd` name them (`dropped`).
- A rewind sends files that are not in the target back to version 1
  (`utils/checkpoint_manager.rs:604`, against `:585` and `:658`); going back to the first snapshot
  of all is exact (`TheFirstSnapshotUndoesAll`).
- A background agent of any type but explorer never reports: the agent it reads from keeps a sender
  of the stream whose end it waits for (`agent/workflows/star_agent.rs:629`,
  `agent/subagent/runner.rs:144`), although `agent_tool.rs:300` tells the model to wait for the
  notification. A turn that waits for one is freed by the watchdog (`TurnsEnd`).
- After a refused model change the UI shows as requested the model before it, not the user's wish
  (`ui/services/stream/tests.rs:187` and `runtime/messages.rs:80` say otherwise). The marker of the
  settings file stays "pending" for ever when a session-only change follows one to be kept before
  its answer (`ui/services/stream/mod.rs:335`), the one case `MarkerSettles` names. After a provider
  form is saved the UI can show another model than the worker's (`provider_form.rs:369`), the case
  `UIShowsTheWorker` names. Two writers at once lose a setting that is shown as saved
  (`control_requests.rs:484`), the case `SavedIsOnDisk` names. A covering change that is refused
  takes the covered one with it.
- A request appended between the read and the truncation of the inbox is lost, as is one that shares
  a line with another or is on its way when the process ends (`core/remote/mod.rs:308`, `:229`,
  against the comment at `:236`); these are the requests `NoRequestIsForgotten` excepts. A crash
  between post and marker runs a once-only task twice.
- `/remote drain` empties the inbox and then shows ten requests of those it read; the others are gone
  and only their number is shown (`commands/remote.rs:99`; the test at `:270` wants it so). They are
  `counted`; `NoRequestIsForgotten` and `EveryRequestIsAnswered` name them.
- The poller keeps a clone of the directory of the start (`ui/app/runtime/mod.rs:275`), and the
  BackgroundTask tool that of the configuration, while `/remote` and `/job` follow `/cd`. A request
  they post after a `/cd` lies in an inbox nobody polls, until a `/remote drain` there; `/job clear`
  removes markers the tool does not look at. `commands/remote.rs:25` says of the command's directory
  and the UI's `ui_cwd` that they necessarily agree after `/cd` ("`/cd` 之后两者必然一致");
  `runtime/background.rs:102` and `:264` say that the poller's `ui_cwd` changes with `/cd` ("随 `/cd` 变"). The
  requests concerned are `strayed`: the properties say that they are never handed over, and ask
  nothing more for them. Answers are not concerned: they go to the directory that was polled.
- Whoever saves tasks.json replaces what others saved since he read it (`overtaken`); a tool that
  reads it while it is being written starts from an empty list. A TodoWrite reloads the panel also
  while a title is edited (`runtime/stream_chunks.rs:103`, against `ui/components/task_panel.rs:109`).
  A change between a reload and its look at the time is not shown until the next (`missed`). A task
  completed in the panel releases nobody, and one that is opened again is not waited for again by
  `add_blocks`, as the link is there (`core/tools/task_management.rs:443`). The roots come back in
  random order from every load and save (`core/tasks/manager.rs:698` goes through a HashMap), against
  the comment at `core/tasks/models.rs:149`: order is not in the model.

### Bounds, and why they are enough

- `approval_mode`: three changes are the fewest with one in flight, one deferred and one that
  replaces it. The session starts in auto; one plan-mode call.
- `worker_safety`: four requests of any kind and the two of the exit; a turn of two rounds, so that
  steering can arrive before, between and after the model calls. Four requests hold a message, one
  that is steered, one that is deferred and an Abort. `worker_liveness` leaves context requests and operations
  out: they neither start nor end a turn.
- `gate_questions`: one barrier call and two that share a tool and a segment: the fewest calls with
  a token, with a queue of cards, with a grant that reaches another call, and with a card left from
  the turn before. One cancel or remote decision; with it all races of an answer, an abort and the
  grace period occur. The second message starts after the first turn or joins it; a message that
  joins is answered there without further tools. Lasting remote decisions do not exist in the code.
- `file_history`: cap 3 instead of 20 and four edits reach eviction and a version reused after it.
  The background agent has no message id, so its edits and the main agent's alternate between two
  ids, which makes several snapshots with one message of the user. One trouble of any kind, one
  rewind. The two files are alike (symmetry; the run checks no liveness).

- `sub_agents`: two agents and one turn of two rounds, with the time before and after it: an agent
  that ends in the turn, one that ends later, a `/subtask` outside of a turn, and two readers of one
  queue.
- `runtime_settings`: three requests, since superseding is chained: a covering request may be covered
  itself. One turn gives requests before, in and after it. The changes are those the UI's callers
  ask for: `/model`, `/fast`, the context palette and `/config`. The run with the counterexample has
  two turns, as the slot outlives the first.
- `remote_inbox`: three requests are one read, one behind it in the batch and one that lands between
  read and truncation; two calls of the once-only task overlap; one end of the process. A limit of
  one request shown stands for the ten of the code, so that two in a batch pass it; one directory
  besides the first is enough, as nothing relates two of them.

- `task_list`: two tasks are the fewest that can be above, beside or linked to each other, and three
  ids leave one to draw. Two calls and a change in the panel give three writers, whose loads,
  truncations and writes meet in every order. The two tasks are alike (symmetry; no liveness).

`CHECK_DEADLOCK FALSE` stands where the modelled program ends: a worker that has stopped, a plan of
turns that is done, edits used up, a user who asks for nothing more.

### Fairness, and why the code justifies it

- Tasks of the tokio runtime run when they can: worker, watcher, gates, the UI loop, the bus relay.
  `worker_liveness` gives the worker's actions one fairness together, as one task has.
- The select of the session is not biased: in `ConfirmationGate` requests, relay and stream are fair
  each.
- Hooks, saves and the preparation of a turn have timeouts or do no unbounded work.
- A model call need not return. Only a cancelled one must, through its select on the token
  (`token /\ CallEnds`). A batch gate's wait, which has no such select, is finding 2 and apart from
  `AbortEndsTheTurn` and `ExitStopsTheWorker`. `EveryMessageIsTaken` says so itself: it assumes calls that return.
- In `gate_questions` the user answers the card he sees. In `approval_mode` turns end and spawned
  writes run.
- In `sub_agents` model calls end and so does the time of the watchdog; an agent that waits for
  other calls owes nothing, and `TurnsEnd` does without it.
- In `remote_inbox` the poller, the UI loop and the writes handed to the runtime run. Those who post,
  call, clear, drain or change the directory owe nothing, but a `/remote drain` that has begun ends.
  `EveryRequestIsAnswered` is one `[]<>` for all requests instead of a leads-to for each: what is
  settled or strayed stays so, and posting ends at the bound, so the two say the same.
- `runtime_settings` and `task_list` check safety only and assume no fairness. The user owes nothing else: no mode change, message, cancel or exit is fair.

Every property of a passing run has a mutant of the code in `PROJECT.json` under which TLC finds the
property violated; the mutated operators stand next to the ones they change.

## Proofs

The type invariant of each module is a theorem here (`TypeCorrect`) and in no run. `YoloStaysOff`, too,
is only proved. The theorems hold for every value of the constants that satisfies the named assumptions
(`InitialModeAssumption`, `BoundAssumption`, `KindAssumption`, `TurnAssumption`, `PanicAssumption`,
`CallAssumption`, `PlanAssumption`, `NoTaskAssumption`, `StartAssumption`, `NoFileAssumption`, `MainAssumption`,
`ChangesAssumption`, `ElsewhereAssumption`, `LimitAssumption` and the
`BoundsAssumption` of the later modules): types and non-emptiness, and facts of the code such as
that a barrier tool is alone in its segment.

| module | theorem | by |
|---|---|---|
| `ApprovalMode_proofs` | `TypeCorrect`, `YoloStaysOff` | themselves inductive |
| | `SerialChangeIsNotLost` | `SerialInv`: while `serial` holds either no write is in flight and engine and lock agree, or one is, for the mode in the lock |
| | `UiIsInSync` | `LastWordInv`: the last reply on its way, or else the UI, carries the lock's mode |
| `RuntimeWorker_proofs` | `TypeCorrect` | `TypeInv`: a turn that starts or runs has its id, and there is room in the log for the requests of the exit |
| | `RequestsStayInOrder` | `OrderInv` for messages: the channel holds exactly the last ids sent; what the model got, the starting turn, the steering queue and the channel form one growing sequence; `ContextInv` for context requests: the same for what was applied, the deferred actions and the channel |
| | `SessionKnowsWhatWasSaid` | `KnowInv`: while a loop runs its messages contain the history, as nothing is applied to the session then; between turns they are empty |
| | `EveryEndIsReported` | `ReportInv`: until the worker is over, what was started and has not ended is the turn in preflight or running |
| | `EachAbortEndsOneTurn` | `AbortInv`: the turns it ended, and one more while the flag is set and still to be seen, are at most the aborts and shutdowns handled |
| | `ShutdownIsLast` | `ShutdownInv`: a context request read is applied or deferred, and Shutdown is deferred behind it |
| | `WorkerIsAService` | the refinement of `TurnService`, one lemma per action, with `OrderInv`: the messages still in the channel are those numbered above whatever was read, so what is unread is their growing list; that every finite set of numbers has such a list, and only one, is proved from the least-number principle |
| | `WorkerNeverSticks` | `AliveInv`: while the UI is gone and the worker is not over, an exit is ahead of it, in the channel, deferred or under way; the deferred actions of an exit end in the shutdown; a turn that is drained has its flag; the channel closes last |
| | `CancelledTurnsRunDown` | `Rank`, from the place of the loop and the token: each step during a cancelled turn lowers it, at most nine times, but for the UI's, which leave it |
| | `ExitsRunDown` | `Left`, from `pc`, the place and round of the loop, the token, and the lengths of channel and deferred actions: each step lowers it once the UI is gone |
| `ConfirmationGate_proofs` | `TypeCorrect`, `GrantsHaveTheirCard` | with `TypeOK` inductive |
| | `TheFirstDecisionCounts` | `DecidedInv`: a call that has not asked has no card, answer or decision; while it waits, the first of its answers in the channel is the first decided |
| | `NothingElseRuns` | `AllowedInv` for policy and grants, and the theorem before for cards |
| | `TheGateKeepsItsPromise` | the refinement of `Permissions`, one lemma per kind of step, with `DecidedInv`, `CardlessInv` (what the policy settled has no card, so nobody speaks about it) and `TokenInv` (the token is cancelled only under the flag) |
| | `NoCardIsLost` | `LoopInv`: a Done is the last chunk of a stream, results are of calls that are over, turns start in the order of their messages, through channel and steering queue; `DoneMeansFlag`: a Done of a turn still running comes from an Abort; `LateInv`: the card of a waiting call comes after the Done of any earlier turn |
| | `OnlyACancelTakesCards` | with it, `CancelInv`: nobody cancels and no card is dropped before an Abort was sent |
| | `TurnsNeverStick` | with it, `StopInv`: a session that no longer listens is being cancelled; `QueueInv`: a queued card has one in front of it; `EndInv`: a loop that has returned has its Done on the stream |
| | `TurnsRunDown` | `Rank`, the sum of what calls, loop, channels and screen have before them, each item weighing more than what becomes of it; `RoomInv`: the loop has at most its segments and its return |
| `FileHistory_proofs` | `TypeCorrect` | every operator on snapshots keeps them snapshots |
| | `RecordsKeepTheirOwnBackups` | `BackedInv`: every copy of the index in the hands of an agent is backed as well, and so is the record on its way into it; `GrowInv`, for no two sharing one: versions grow in every loaded copy, and the new record is above them |
| | `BackupsStayTrue` | `CalmInv`: one edit at a time is under way, with the index as it is; what it has recorded is what the file held, version 1 if the file is not tracked, and that what the agents found |
| | `TheFirstSnapshotUndoes` | `StartInv`: nothing moves while the rewind lasts, and the files it has looked at are as found; the record it goes by is the first, as versions grow (`BackupsStayApart`), and its backup is there (`RecordsKeepTheirBackups`) |
| `SubAgents_proofs` | `TypeCorrect` | itself inductive |
| | `ReportsAreReadOnce` | the refinement of `AgentReports`, with `ReportsInv`: an agent posts as its last step, so nothing that waits in the queue was read before |
| | `TurnsHearTheBacklog` | `TurnInv`: the backlog of a turn can be in the queue only before its first round |
| | `EndsAreShownAfterTheOutput` | `OutputInv`: the same claim for every update in the three channels |
| | `LateEndsStayShown` | `LateInv`: the row or the permanent channel ends with the end of a late agent, and nothing else about it is in the channels of a turn |
| `RuntimeSettings_proofs` | `TypeCorrect`, `NoIntentLost`, `TheLastRequestWins`, `ShownIntentIsKept`, `TheUIAgrees`, `TheMarkerSettles`, `SavedOnDisk` | one invariant, `Settlement`: requests are answered in the order of their numbers (`Order`), the messages on their way to the UI carry snapshots that end in the worker's settings (`Answered`), write results and the marker belong together (`Results`, `MarkerIsLast`), and a single writer finds on disk what was there (`Disk`) |
| `RemoteInbox_proofs` | `TypeCorrect` | `TypeInv`: an open file has a line; the UI answers only what it has handed over |
| | `RequestsStayInOrder` | `OrderInv`: what was handed over, then the events, then what is in the file, and likewise what the poller holds, are one growing sequence |
| | `TheOutboxIsTrue` | `OutInv`: the answers written are those to all but the last request handed over |
| | `RequestsAreAccountedFor` | for any limit and any directories. `StrayInv`: what strayed is not in the polled inbox, with the poller, on its way or handed over; `AccountInv`: a drainer that has read holds all of its inbox but what raced (`Covers`), what did not race stands alone in its line, and what was neither raced, shown nor counted is still held (`Held`) |
| | `NoRequestRests` | with it, `ReplyInv`: a request handed over is answered, raced, or the one the UI is at |
| | `OnceTasksRunOnce` | `OnceInv`: each call on its way to its post has its occasion, and so has the next while nobody has posted |
| `TaskList_proofs` | `TypeCorrect`, `ListsAreForests`, `LinksAreTied` | `Sound`: every list held is `Good`, a forest whose dependencies are paired and lead to tasks that are there, and its ids are drawn; one lemma per operation, with `Shaped` and `Tied` for what a tool has in hand before the repair |
| | `PanelIsCurrent` | `Shown`: between its read or write and the noting of the time the panel still agrees with the file, unless it is told that it missed a change |
| | `NoTaskIsLost` | `Kept`: whoever started from the text in the file holds its tasks up to his own change |

The strengthenings are needed for one reason in several forms: what a property says of the state
in one place (the model's messages, the index on disk) rests on what is on the way to it (the
channel, an agent's copy of the index), and a step moves it from there.

Only model-checked: liveness under fairness (`UiSettles`, `AbortEndsTheTurn`, `ExitStopsTheWorker`,
`EveryMessageIsTaken`, `AnsweredTurnsEnd`, `TurnsEnd`, `EveryRequestIsAnswered`) and ENABLED, which are
out of the prover's reach. Much of its safety half is proved, what fairness needs to finish the argument:
that something enabled is always left (`WorkerNeverSticks` for `ExitStopsTheWorker` and
`EveryMessageIsTaken`, `TurnsNeverStick` for `AnsweredTurnsEnd`), and that only finitely many steps are
(`CancelledTurnsRunDown` for `AbortEndsTheTurn`, `ExitsRunDown` for `ExitStopsTheWorker`, `TurnsRunDown`
for `AnsweredTurnsEnd`). For `EveryRequestIsAnswered` it is proved that a request which is neither settled
nor strayed lies where poller or UI will take it up (`NoRequestRests`). Induction takes a detour: the library's
principle has an operator parameter, which the provers cannot instantiate, but well-foundedness of `<` on
the naturals speaks of sets, and `LeastNat` in `RuntimeWorker_proofs` derives from it that every
inhabited set of naturals has a least member. For the same reason the mapping of `Service` names the
growing list of the unread messages (`OldestFirst`) and does not filter the channel with `SelectSeq`,
whose recursion the prover has no facts about.

## What the modules leave out

- **All**: channels are unbounded. The two channels of 100 can block both ends
  (hazard at `ui/app/runtime/mod.rs:1004`).
- **ApprovalMode**: rules and grants that would change the verdict on the plan-mode tools; the mode
  forced in an untrusted folder (`core/config`), which only limits the initial mode.
- **RuntimeWorker**: subtasks and settings (modules of their own), marking notifications as read,
  and the requests that nothing sends (`Checkpoint`, `ToggleYoloMode`, `ToolConfirmationResponse`);
  auto-continue after a Done and retries from the error overlay.
- **ConfirmationGate**: loss on a lagging broadcast channel; sub-agents that share the bus; cards
  for policy refusals; a turn that ends with Error; headless sessions; AskUserQuestion; grants by
  signature and on disk; a card relayed after its result; the worker's exit. A read-only call whose
  result is in the cache is answered before it reaches the gate (`agent/tool_executor.rs:888`), so
  `OnlyAllowedCallsRun` speaks of calls that run.
- **FileHistory**: `make_snapshot` (no callers); MultiEdit, which tracks all its files before it
  writes them, is one edit per file; mtimes and lengths, whose shortcuts answer as the content does
  while changes move mtimes forward; the copy when a rename fails. The index is shared by all
  sessions of a directory, as no caller sets a session id.
- **SubAgents**: agents that start agents, the coordinator, forked contexts, the registry of names,
  worktrees, the Killed status; the text of an answer, of which the merge can drop chunks too.
- **RuntimeSettings**: a request discarded because the channel is closed, the `fast_mode` flag, a
  crash inside a write.
- **RemoteInbox**: the headless drain of `main.rs`; failures of file operations; a line read while
  half of it is written; the remote decision on a tool call (`ConfirmationGate`); the events of
  empty polls and the capacity of the event channel; a start in another directory, and a second
  session there, which would poll what this one left.
- **TaskList**: order, titles and states; a save that fails; two changes within one tick of the file
  system's clock; the archive; the operations of `TaskManager` that nothing calls; a file edited by hand.
  There is one directory: after a `/cd` the panel would use the tasks.json of the new one and the tools
  that of the start, and the panel may save the list of the old directory into the new. A plan is one
  heading with its tasks, where `seed_tasks_from_plan` nests headings and indents
  (`core/tools/exit_plan_mode.rs:288`). A title edited to nothing, which is not saved, is an edit that
  was cancelled.

## Plan

Done, in this order: ApprovalMode, RuntimeWorker with TurnService, ConfirmationGate with Permissions, FileHistory,
SubAgents with AgentReports, RuntimeSettings, RemoteInbox, TaskList, each with its type invariant and main
safety invariants proved.

Next, the most important behaviour first:

1. `LoopSchedule`: loops.json between poller, tool and command; crash between mark and run.
2. `UiWorkerChannels`: the two bounded channels, deadlock as a question of its own.
3. Extensions: auto-continue in `RuntimeWorker`; a bounded bus and late cards in `ConfirmationGate`;
   the headless drain in `RemoteInbox`; the order of the list in `TaskList`.
4. `Mailbox`, should teams be wired.

Theorems, in order: the main invariants of the modules above; a rank for the turns of `SubAgents`, as
gate and worker have; abstract specifications of RemoteInbox, RuntimeSettings and FileHistory with their
refinements.
