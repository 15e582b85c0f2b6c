----------------------------- MODULE SubAgents -----------------------------
(***************************************************************************)
(* Sub-agents: the Agent tool and /subtask start agents, some waited for   *)
(* by the tool call, some in the background (AgentTool, spawn_background). *)
(* Their updates reach the UI through the channel of the running turn or,  *)
(* between turns, through a permanent one (emit_to_ui); the results of     *)
(* background agents wait in one NotificationQueue until a loop drains it. *)
(*                                                                         *)
(* A turn's stream merges two channels: direct chunks and the events of    *)
(* the loop.  The merge takes from either, so the end of the turn can pass *)
(* direct chunks, which are then dropped with the receiver.  Completed and *)
(* Failed are one status, "Finished"; texts and statistics are left out.   *)
(***************************************************************************)
EXTENDS Naturals, Sequences, SequencesExt, FiniteSets

CONSTANTS
  Agent,      \* bound: the agents that may be started in a run
  Main,       \* the conversation of the user
  MaxTurns,   \* bound: turns in a run
  MaxRounds   \* config.max_session_turns(): model calls in one turn

ASSUME MainAssumption == Main \notin Agent
ASSUME BoundsAssumption == MaxTurns \in Nat /\ MaxRounds \in Nat \ {0}

Conversation == Agent \cup {Main}
Mode == {"none", "sync", "background"}
Status == {"Running", "Background", "Finished"}
Chunk == [agent : Agent, status : Status]
Update(a, s) == [agent |-> a, status |-> s]

VARIABLES
  turn,      \* turns started
  open,      \* the session reads the stream of the turn
  loop,      \* where the loop of the turn is
  rounds,    \* its rounds so far
  batch,     \* Agent calls of this round whose results are not consumed
  direct,    \* stream_tx, the sink of the turn: updates not yet merged
  events,    \* event_tx: results of Agent calls not yet merged
  bg,        \* the permanent sink
  row,       \* active_agent_tasks: the status last sent to the UI, or "none"
  mode,      \* how an agent was started
  pc,        \* where the agent is
  tried,     \* agents whose output file is written, or failed to be
  pending,   \* NotificationQueue::pending
  notified,  \* NotificationQueue::notified_ids
  heard,     \* history variable: what each conversation drained
  backlog,   \* history variable: what the turn found in the queue and must drain
  late       \* history variable: agents that ended while no turn listened

session == <<turn, open, loop, rounds, batch, backlog>>
agents  == <<mode, pc, tried, late>>
queue   == <<pending, notified, heard>>
vars == <<session, direct, events, bg, row, agents, queue>>

TypeOK ==
  /\ turn \in 0..MaxTurns /\ rounds \in 0..MaxRounds
  /\ open \in BOOLEAN
  /\ loop \in {"off", "top", "call", "tools", "returned"}
  /\ batch \in SUBSET Agent
  /\ direct \in Seq(Chunk) /\ events \in Seq(Chunk) /\ bg \in Seq(Chunk)
  /\ row \in [Agent -> Status \cup {"none"}]
  /\ mode \in [Agent -> Mode]
  /\ pc \in [Agent -> {"off", "called", "started", "working", "waiting",
                       "finished", "written", "shown", "posted", "returned"}]
  /\ tried \in SUBSET Agent
  /\ pending \in Seq(Agent) /\ notified \in SUBSET Agent
  /\ heard \in [Conversation -> SUBSET Agent]
  /\ backlog \in SUBSET Agent /\ late \in SUBSET Agent

Init ==
  /\ turn = 0 /\ open = FALSE /\ loop = "off" /\ rounds = 0
  /\ batch = {} /\ backlog = {}
  /\ direct = <<>> /\ events = <<>> /\ bg = <<>>
  /\ row = [a \in Agent |-> "none"]
  /\ mode = [a \in Agent |-> "none"] /\ pc = [a \in Agent |-> "off"]
  /\ tried = {} /\ late = {}
  /\ pending = <<>> /\ notified = {} /\ heard = [c \in Conversation |-> {}]
-----------------------------------------------------------------------------
(* The sinks.  The sink registered last is that of the latest turn; it     *)
(* takes a chunk as long as the session keeps the receiver.                 *)

(* Mutant: the sink of the turn is the only one, as it once was.            *)
EmitToTurnOnly(chunk) ==
  /\ direct' = IF open THEN Append(direct, chunk) ELSE direct
  /\ UNCHANGED bg

EmitToUi(chunk) ==
  IF open
  THEN direct' = Append(direct, chunk) /\ UNCHANGED bg
  ELSE bg' = Append(bg, chunk) /\ UNCHANGED direct

(* StreamMessages reach the UI in the order they are sent, and each         *)
(* overwrites the status of its row (handle_agent_task_update).            *)
Send(chunk) == row' = [row EXCEPT ![chunk.agent] = chunk.status]

(* The forwarder of the permanent sink (agent_worker).                     *)
ForwardBg ==
  /\ bg # <<>>
  /\ Send(Head(bg))
  /\ bg' = Tail(bg)
  /\ UNCHANGED <<session, direct, events, agents, queue>>
-----------------------------------------------------------------------------
(* The turn: the worker starts its stream, the loop drains the queue at the *)
(* top of each round and runs the Agent calls the model asks for, and the   *)
(* session forwards the merged stream until its end.                        *)

StartTurn ==
  /\ ~open /\ turn < MaxTurns
  /\ turn' = turn + 1 /\ open' = TRUE
  /\ loop' = "top"
  /\ backlog' = ToSet(pending)
  /\ UNCHANGED <<rounds, batch, direct, events, bg, row, agents, queue>>

(* Mutant: the reports are read and stay in the queue.                      *)
DrainKeeps(c) ==
  /\ notified' = notified \cup ToSet(pending)
  /\ heard' = [heard EXCEPT ![c] = @ \cup ToSet(pending)]
  /\ UNCHANGED pending

(* Mutant: the queue is left alone while somebody holds its lock.            *)
DrainIfFree(c) ==
  \/ /\ pending' = <<>>
     /\ notified' = notified \cup ToSet(pending)
     /\ heard' = [heard EXCEPT ![c] = @ \cup ToSet(pending)]
  \/ UNCHANGED queue

DrainForNextTurn(c) ==
  /\ pending' = <<>>
  /\ notified' = notified \cup ToSet(pending)
  /\ heard' = [heard EXCEPT ![c] = @ \cup ToSet(pending)]

RoundsUsedUp == rounds = MaxRounds

(* Esc may have set the abort flag since the last round.                    *)
LoopTop(aborted) ==
  /\ loop = "top"
  /\ IF aborted \/ RoundsUsedUp
     THEN /\ loop' = "returned"
          /\ backlog' = IF aborted THEN {} ELSE backlog
          /\ UNCHANGED <<rounds, direct, queue>>
     ELSE /\ loop' = "call" /\ rounds' = rounds + 1
          /\ DrainForNextTurn(Main)
          /\ direct' = direct \o
               [i \in DOMAIN pending |-> Update(pending[i], "Finished")]
          /\ UNCHANGED backlog
  /\ UNCHANGED <<turn, open, batch, events, bg, row, agents>>

(* The model answers without a tool call, or with the Agent calls of a      *)
(* batch: Agent is a read-only tool, so they run at once.                   *)
Answer ==
  /\ loop = "call"
  /\ loop' = "returned"
  /\ UNCHANGED <<turn, open, rounds, batch, backlog, direct, events, bg,
                 row, agents, queue>>

Call(waited, spawned) ==
  /\ loop = "call"
  /\ waited \cup spawned # {} /\ waited \cap spawned = {}
  /\ \A a \in waited \cup spawned : mode[a] = "none"
  /\ loop' = "tools" /\ batch' = waited \cup spawned
  /\ mode' = [a \in Agent |-> IF a \in waited THEN "sync"
                              ELSE IF a \in spawned THEN "background" ELSE mode[a]]
  /\ pc' = [a \in Agent |-> IF a \in waited THEN "called"
                            ELSE IF a \in spawned THEN "started" ELSE pc[a]]
  /\ UNCHANGED <<turn, open, rounds, backlog, direct, events, bg, row,
                 tried, late, queue>>

(* A call that waits for its agent has returned when the agent has, or the  *)
(* watchdog dropped it; the results are consumed after the whole batch.     *)
Returned(a) == mode[a] = "sync" => pc[a] = "returned"

ConsumeResult(a) ==
  /\ loop = "tools" /\ a \in batch /\ \A b \in batch : Returned(b)
  /\ batch' = batch \ {a}
  /\ loop' = IF batch = {a} THEN "top" ELSE "tools"
  /\ IF mode[a] = "background"
     THEN /\ direct' = Append(direct, Update(a, "Background"))
          /\ events' = Append(events, Update(a, "Background"))
     ELSE UNCHANGED <<direct, events>>
  /\ UNCHANGED <<turn, open, rounds, backlog, bg, row, agents, queue>>

TakeDirect ==
  /\ open /\ direct # <<>>
  /\ Send(Head(direct))
  /\ direct' = Tail(direct)
  /\ UNCHANGED <<session, events, bg, agents, queue>>

TakeEvent ==
  /\ open /\ events # <<>>
  /\ Send(Head(events))
  /\ events' = Tail(events)
  /\ UNCHANGED <<session, direct, bg, agents, queue>>

(* Done comes after the events of the loop and drops the stream.            *)
TakeDone ==
  /\ open /\ loop = "returned" /\ events = <<>>
  /\ open' = FALSE /\ loop' = "off" /\ direct' = <<>>
  /\ rounds' = 0 /\ backlog' = {}
  /\ UNCHANGED <<turn, batch, events, bg, row, agents, queue>>
-----------------------------------------------------------------------------
(* The agents.                                                             *)

To(a, place) == pc' = [pc EXCEPT ![a] = place]

(* RunSubtask: at once when the worker is idle, else after the turn.        *)
Subtask(a) ==
  /\ ~open /\ mode[a] = "none"
  /\ mode' = [mode EXCEPT ![a] = "background"] /\ To(a, "started")
  /\ UNCHANGED <<session, direct, events, bg, row, tried, late, queue>>

(* A waited-for agent has its row from the start.                           *)
StartSync(a) ==
  /\ pc[a] = "called"
  /\ To(a, "started")
  /\ EmitToUi(Update(a, "Running"))
  /\ UNCHANGED <<session, events, row, mode, tried, late, queue>>

(* The progress sink: an explorer reports once, as it starts.  Bound: the  *)
(* other agents, too, report progress once.                                 *)
Progress(a) ==
  /\ pc[a] = "started"
  /\ To(a, "working")
  /\ EmitToUi(Update(a, "Running"))
  /\ UNCHANGED <<session, events, row, mode, tried, late, queue>>

(* The agent's own loop has the queue of its configuration, which is the   *)
(* queue of the parent, and drains it; what it emits stays in its stream.   *)
SubagentDrains(a) ==
  /\ pc[a] = "working" /\ pending # <<>>
  /\ DrainForNextTurn(a)
  /\ UNCHANGED <<session, direct, events, bg, row, agents>>

(* The agent's loop has returned.  One of type explorer then has its result *)
(* (run_explore); the others read a merged stream to its end, and the agent *)
(* they run keeps a sender of one of its halves: there is no end.  The type *)
(* makes no difference before.                                             *)
LoopDone(a) ==
  /\ pc[a] = "working"
  /\ \E explorer \in BOOLEAN : To(a, IF explorer THEN "finished" ELSE "waiting")
  /\ UNCHANGED <<session, direct, events, bg, row, mode, tried, late, queue>>

ReturnSync(a) ==
  /\ pc[a] = "finished" /\ mode[a] = "sync"
  /\ To(a, "returned")
  /\ EmitToUi(Update(a, "Finished"))
  /\ UNCHANGED <<session, events, row, mode, tried, late, queue>>

(* Mutant: an agent that shows progress is not watched.                     *)
WatchdogUntilProgress(a) ==
  /\ mode[a] = "sync" /\ pc[a] \in {"called", "started"}
  /\ To(a, "returned")
  /\ UNCHANGED <<session, direct, events, bg, row, mode, tried, late, queue>>

(* The watchdog of tool calls drops the call, and with it the agent.        *)
Watchdog(a) ==
  /\ mode[a] = "sync" /\ pc[a] # "returned"
  /\ To(a, "returned")
  /\ UNCHANGED <<session, direct, events, bg, row, mode, tried, late, queue>>

WriteOutput(a) ==
  /\ pc[a] = "finished" /\ mode[a] # "sync"
  /\ tried' = tried \cup {a}
  /\ To(a, "written")
  /\ UNCHANGED <<session, direct, events, bg, row, mode, late, queue>>

(* Mutant: the end is shown before the output is written.                   *)
ShowEndFirst(a) ==
  /\ pc[a] \in {"written", "finished"} /\ mode[a] # "sync"
  /\ To(a, "shown")
  /\ EmitToUi(Update(a, "Finished"))
  /\ late' = IF open THEN late ELSE late \cup {a}
  /\ UNCHANGED <<session, events, row, mode, tried, queue>>

ShowEnd(a) ==
  /\ pc[a] = "written"
  /\ To(a, "shown")
  /\ EmitToUi(Update(a, "Finished"))
  /\ late' = IF open THEN late ELSE late \cup {a}
  /\ UNCHANGED <<session, events, row, mode, tried, queue>>

Enqueue(a) ==
  /\ pc[a] = "shown"
  /\ To(a, "posted")
  /\ pending' = IF a \in notified THEN pending ELSE Append(pending, a)
  /\ UNCHANGED <<session, direct, events, bg, row, mode, tried, late, notified,
                 heard>>
-----------------------------------------------------------------------------
LoopNext ==
  \/ \E aborted \in BOOLEAN : LoopTop(aborted)
  \/ Answer
  \/ \E waited, spawned \in SUBSET Agent : Call(waited, spawned)
  \/ \E a \in Agent : ConsumeResult(a)

SessionNext == TakeDirect \/ TakeEvent \/ TakeDone

(* Whatever the agent does, the watchdog of its call is running.           *)
AgentNext(a) ==
  \/ StartSync(a) \/ Progress(a) \/ LoopDone(a) \/ ReturnSync(a) \/ Watchdog(a)
  \/ WriteOutput(a) \/ ShowEnd(a) \/ Enqueue(a)

Next ==
  \/ StartTurn \/ LoopNext \/ SessionNext \/ ForwardBg
  \/ \E a \in Agent : Subtask(a) \/ AgentNext(a) \/ SubagentDrains(a)

Spec == Init /\ [][Next]_vars

(* Tasks of a fair scheduler; a model call and a sub-agent's loop end (the *)
(* provider answers, rounds are bounded) and so does the watchdog's time.   *)
FairSpec ==
  /\ Spec
  /\ WF_vars(LoopNext) /\ WF_vars(SessionNext) /\ WF_vars(ForwardBg)
  /\ \A a \in Agent : WF_vars(AgentNext(a))
-----------------------------------------------------------------------------
(* The queue implements AgentReports: the report of an agent is read by one *)
(* conversation, whichever loop drains first, and a drain leaves nothing    *)
(* behind (NotificationQueue::enqueue, drain_for_next_turn).                *)
Reports == INSTANCE AgentReports WITH
  posted <- ToSet(pending),
  readers <- [a \in Agent |-> {c \in Conversation : a \in heard[c]}]

ImplementsAgentReports == Reports!Spec

(* What was in the queue when a turn began has left it when the loop of     *)
(* that turn returns, unless the turn was aborted (run_agentic_loop).       *)
BacklogIsHeard ==
  loop = "returned" => backlog \cap ToSet(pending) = {}

(* A row says that a background agent has ended only when its output file,  *)
(* whose path the model was given, can be read or has failed to be written, *)
(* by whichever of the three ways the update came (spawn_background).       *)
OutputBeforeTheRow ==
  \A a \in Agent :
    row[a] = "Finished" /\ mode[a] # "sync" => a \in tried

(* An agent that ends while no turn listens is shown as finished, and for   *)
(* good: the end is the last update about it on its way to the row, and no  *)
(* update of a later turn says otherwise (emit_to_ui, the forwarder).       *)
Coming(a) == <<Update(a, row[a])>> \o bg

EndsFinished(a, chunks) ==
  \E i \in DOMAIN chunks :
    /\ chunks[i] = Update(a, "Finished")
    /\ \A j \in DOMAIN chunks :
         j > i /\ chunks[j].agent = a => chunks[j].status = "Finished"

LateEndsAreShown ==
  \A a \in late :
    /\ EndsFinished(a, Coming(a))
    /\ \A i \in DOMAIN direct :
         direct[i].agent = a => direct[i].status = "Finished"
    /\ \A i \in DOMAIN events : events[i].agent # a

(* A turn ends, also when an agent it waits for never returns.              *)
TurnsEnd == open ~> ~open
=============================================================================
