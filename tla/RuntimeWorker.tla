--------------------------- MODULE RuntimeWorker ---------------------------
(***************************************************************************)
(* The agent worker: one task that takes AgentRequests from a FIFO channel *)
(* (agent_worker), runs a turn for each user message (process_message and  *)
(* run_streaming_session), and while a turn runs hands messages to it      *)
(* through the steering queue, cancels it, or defers what needs the agent. *)
(* The turn itself is run_agentic_loop, in a task of its own, with a       *)
(* watcher that turns the abort flag into a cancelled token.               *)
(*                                                                         *)
(* Requests are numbered in the order they are sent and log keeps their    *)
(* kinds; a number also stands for the content of its request.  Settings,  *)
(* models, MCP and approval requests have no effect on this control flow.  *)
(***************************************************************************)
EXTENDS Naturals, Sequences, SequencesExt, FiniteSets

CONSTANTS
  SentKinds,     \* bound: the kinds of requests the UI sends in a run
  MaxRequests,   \* bound: requests sent before the UI exits
  MaxTurns,      \* config.max_session_turns(): model calls in one turn
  UiPanics       \* the UI task may unwind instead of exiting

Context == {"append", "reset", "save", "restore"}
Operation == {"compress", "note"}
Kind == Context \cup Operation \cup {"message", "abort", "shutdown"}

ASSUME KindAssumption == SentKinds \subseteq Kind \ {"shutdown"}
ASSUME BoundAssumption == MaxRequests \in Nat
ASSUME TurnAssumption == MaxTurns \in Nat \ {0}
ASSUME PanicAssumption == UiPanics \in BOOLEAN

(* The exit protocol sends at most two requests of its own. *)
Id == 1..(MaxRequests + 2)
None == 0

VARIABLES
  requests,   \* mpsc channel from the UI to the worker
  log,        \* the kinds of all requests sent so far
  uiGone,     \* the UI loop has returned: its receiver is dropped
  closed,     \* every sender is dropped: rx.recv() yields None at the end
  pc,         \* where agent_worker is
  steering,   \* AsyncMessageQueue: messages for the running turn
  turn,       \* message_id of the running turn
  draining,   \* abort_requested / shutdown_requested of the session
  loop,       \* where run_agentic_loop is
  rounds,     \* its current_turn
  token,      \* abort_token is cancelled
  abortFlag,  \* StarAgent::abort_flag
  dialog,     \* what the running loop's messages contain
  history,    \* what Agent::session_messages contain
  local,      \* Agent::pending_local_context
  deferred,   \* DeferredRuntimeActions::pending_context_actions
  slot,       \* pending_compress_request, pending_generate_note
  responder,  \* the Shutdown response kept for after SessionEnd
  started,    \* ids the UI got a Start for, or that it waits for
  ended,      \* ids the UI got a Done, an Error or the note for
  taken,      \* history variable: messages in the order the model got them
  applied,    \* history variable: context requests in the order applied
  live,       \* history variable: what was said since the last reset
  killed      \* history variable: turns the abort check ended

link == <<requests, log, uiGone, closed>>
run  == <<draining, loop, rounds, token, dialog>>
know == <<history, local, live, applied>>
told == <<started, ended>>
past == <<taken, killed>>
vars == <<link, pc, steering, turn, run, abortFlag, know, deferred, slot,
          responder, told, past>>

TypeOK ==
  /\ requests \in Seq(Id)
  /\ log \in Seq(Kind) /\ Len(log) <= MaxRequests + 2
  /\ uiGone \in BOOLEAN /\ closed \in BOOLEAN
  /\ pc \in {"idle", "preflight", "turn", "settle", "shutdown", "ending", "stopped"}
  /\ steering \in Seq(Id)
  /\ turn \in Id \cup {None}
  /\ draining \in {"no", "abort", "shutdown"}
  /\ loop \in {"off", "prepare", "top", "call", "returned"}
  /\ rounds \in 0..MaxTurns
  /\ token \in BOOLEAN /\ abortFlag \in BOOLEAN
  /\ dialog \in SUBSET Id /\ history \in SUBSET Id /\ local \in SUBSET Id
  /\ deferred \in Seq(Id)
  /\ slot \in [Operation -> Id \cup {None}]
  /\ responder \in Id \cup {None}
  /\ started \in SUBSET Id /\ ended \in SUBSET Id
  /\ taken \in Seq(Id) /\ applied \in Seq(Id)
  /\ live \in SUBSET Id /\ killed \in SUBSET Id

Init ==
  /\ requests = <<>> /\ log = <<>> /\ uiGone = FALSE /\ closed = FALSE
  /\ pc = "idle" /\ steering = <<>>
  /\ turn = None /\ draining = "no" /\ loop = "off" /\ rounds = 0
  /\ token = FALSE /\ abortFlag = FALSE
  /\ dialog = {} /\ history = {} /\ local = {}
  /\ deferred = <<>> /\ slot = [o \in Operation |-> None] /\ responder = None
  /\ started = {} /\ ended = {}
  /\ taken = <<>> /\ applied = <<>> /\ live = {} /\ killed = {}
-----------------------------------------------------------------------------
(* The UI.  Its loop is the only sender until it returns; the epilogue then *)
(* sends SaveSession and Shutdown, or Shutdown alone when there is nothing  *)
(* to save, waits for the replies and only then drops the last sender.      *)

Enqueue(kinds) ==
  /\ log' = log \o kinds
  /\ requests' = requests \o [j \in 1..Len(kinds) |-> Len(log) + j]

(* Esc and Ctrl+C send Abort while the UI believes that a turn is running, *)
(* which it does from its own SendMessage on.                              *)
Send(kind) ==
  /\ ~uiGone
  /\ Len(log) < MaxRequests
  /\ kind = "abort" => \E i \in DOMAIN log : log[i] = "message"
  /\ Enqueue(<<kind>>)
  /\ UNCHANGED <<uiGone, closed, pc, steering, turn, run, abortFlag, know,
                 deferred, slot, responder, told, past>>

UiExits(last) ==
  /\ ~uiGone
  /\ uiGone' = TRUE
  /\ Enqueue(last)
  /\ UNCHANGED <<closed, pc, steering, turn, run, abortFlag, know, deferred,
                 slot, responder, told, past>>

UiPanic ==
  /\ UiPanics /\ ~uiGone
  /\ uiGone' = TRUE /\ closed' = TRUE
  /\ UNCHANGED <<requests, log, pc, steering, turn, run, abortFlag, know,
                 deferred, slot, responder, told, past>>
-----------------------------------------------------------------------------
(* The worker between turns.                                               *)

Next1 == Head(requests)
HasRequest(kinds) == requests # <<>> /\ log[Next1] \in kinds

(* What a request about the session's context does to it; the same calls   *)
(* serve an idle worker and, after a turn, the deferred requests.          *)
ApplyContext(i) ==
  /\ applied' = Append(applied, i)
  /\ \/ /\ log[i] = "append"
        /\ local' = local \cup {i}
        /\ live' = live \cup {i}
        /\ UNCHANGED <<history, abortFlag>>
     \/ /\ log[i] = "reset"
        /\ history' = {} /\ local' = {} /\ live' = {}
        /\ abortFlag' = FALSE
     \/ /\ log[i] = "restore"
        /\ history' = {i} /\ local' = {} /\ live' = {i}
        /\ abortFlag' = FALSE
     \/ /\ log[i] = "save"
        /\ UNCHANGED <<history, local, live, abortFlag>>

(* Mutant: the channel is read before the steering queue.                  *)
TakeMessageChannelFirst ==
  /\ pc = "idle"
  /\ \/ /\ HasRequest({"message"})
        /\ turn' = Next1
        /\ requests' = Tail(requests)
        /\ UNCHANGED steering
     \/ /\ ~HasRequest({"message"})
        /\ steering # <<>>
        /\ turn' = Head(steering)
        /\ steering' = Tail(steering)
        /\ UNCHANGED requests
  /\ pc' = IF uiGone THEN "ending" ELSE "preflight"
  /\ started' = IF uiGone THEN started ELSE started \cup {turn'}
  /\ UNCHANGED <<log, uiGone, closed, run, abortFlag, know, deferred, slot,
                 responder, ended, past>>

(* The steering queue goes first.  With the UI's receiver gone the worker  *)
(* ends instead of starting a turn.                                        *)
TakeMessage ==
  /\ pc = "idle"
  /\ \/ /\ steering # <<>>
        /\ turn' = Head(steering)
        /\ steering' = Tail(steering)
        /\ UNCHANGED requests
     \/ /\ steering = <<>>
        /\ HasRequest({"message"})
        /\ turn' = Next1
        /\ requests' = Tail(requests)
        /\ UNCHANGED steering
  /\ pc' = IF uiGone THEN "ending" ELSE "preflight"
  /\ started' = IF uiGone THEN started ELSE started \cup {turn'}
  /\ UNCHANGED <<log, uiGone, closed, run, abortFlag, know, deferred, slot,
                 responder, ended, past>>

IdleRequest(kinds) ==
  /\ pc = "idle" /\ steering = <<>>
  /\ HasRequest(kinds)
  /\ requests' = Tail(requests)
  /\ UNCHANGED <<log, uiGone, closed, steering, turn, run, deferred, slot, past>>

IdleAbort ==
  /\ IdleRequest({"abort"})
  /\ abortFlag' = TRUE
  /\ UNCHANGED <<pc, know, responder, told>>

IdleContext ==
  /\ IdleRequest(Context)
  /\ ApplyContext(Next1)
  /\ UNCHANGED <<pc, responder, told>>

IdleOperation ==
  /\ IdleRequest(Operation)
  /\ started' = started \cup {Next1}
  /\ ended' = ended \cup {Next1}
  /\ UNCHANGED <<pc, abortFlag, know, responder>>

IdleShutdown ==
  /\ IdleRequest({"shutdown"})
  /\ pc' = "ending" /\ responder' = Next1
  /\ UNCHANGED <<abortFlag, know, told>>

IdleClosed ==
  /\ pc = "idle" /\ steering = <<>> /\ requests = <<>> /\ closed
  /\ pc' = "ending"
  /\ UNCHANGED <<link, steering, turn, run, abortFlag, know, deferred, slot,
                 responder, told, past>>

(* Mutant: a blocked message ends without a word to the UI.                *)
PreflightSilent(blocked) ==
  /\ pc = "preflight"
  /\ pc' = IF blocked THEN "idle" ELSE "turn"
  /\ turn' = IF blocked THEN None ELSE turn
  /\ loop' = IF blocked THEN loop ELSE "prepare"
  /\ UNCHANGED <<link, steering, draining, rounds, token, dialog, abortFlag,
                 know, deferred, slot, responder, told, past>>

(* The preflight hooks either block the message or let the turn start.     *)
Preflight(blocked) ==
  /\ pc = "preflight"
  /\ pc' = IF blocked THEN "idle" ELSE "turn"
  /\ turn' = IF blocked THEN None ELSE turn
  /\ ended' = IF blocked THEN ended \cup {turn} ELSE ended
  /\ loop' = IF blocked THEN loop ELSE "prepare"
  /\ UNCHANGED <<link, steering, draining, rounds, token, dialog, abortFlag,
                 know, deferred, slot, responder, started, past>>
-----------------------------------------------------------------------------
(* The agentic loop of the running turn, and the abort watcher.            *)

InTurn == pc = "turn"

(* run_stream: a fresh token, then the conversation with the local command *)
(* output and the user's message at its end.                               *)
Prepare ==
  /\ InTurn /\ loop = "prepare"
  /\ loop' = "top" /\ rounds' = 0 /\ token' = FALSE
  /\ dialog' = history \cup local \cup {turn}
  /\ local' = {}
  /\ taken' = Append(taken, turn)
  /\ live' = live \cup {turn}
  /\ UNCHANGED <<link, pc, steering, turn, draining, abortFlag, history,
                 applied, deferred, slot, responder, told, killed>>

HasRounds == rounds < MaxTurns

(* The head of the while loop: max turns, the abort check, the steering    *)
(* messages, then the model and its tools.                                 *)
LoopTop ==
  /\ InTurn /\ loop = "top"
  /\ IF HasRounds /\ ~abortFlag
       THEN /\ loop' = "call" /\ rounds' = rounds + 1
            /\ steering' = <<>>
            /\ taken' = taken \o steering
            /\ dialog' = dialog \cup ToSet(steering)
            /\ live' = live \cup ToSet(steering)
            /\ UNCHANGED killed
       ELSE /\ loop' = "returned"
            /\ killed' = IF HasRounds THEN killed \cup {turn} ELSE killed
            /\ UNCHANGED <<rounds, steering, taken, dialog, live>>
  /\ UNCHANGED <<link, pc, turn, draining, token, abortFlag, history, local,
                 applied, deferred, slot, responder, told>>

(* execute_turn returns Continue, or Done or Error. *)
CallReturns(continue) ==
  /\ InTurn /\ loop = "call"
  /\ loop' = IF continue THEN "top" ELSE "returned"
  /\ UNCHANGED <<link, pc, steering, turn, draining, rounds, token, dialog,
                 abortFlag, know, deferred, slot, responder, told, past>>

Watcher ==
  /\ loop \in {"top", "call"}
  /\ abortFlag /\ ~token
  /\ token' = TRUE
  /\ UNCHANGED <<link, pc, steering, turn, draining, loop, rounds, dialog,
                 abortFlag, know, deferred, slot, responder, told, past>>
-----------------------------------------------------------------------------
(* The worker during a turn (handle_streaming_request).  Once an abort or  *)
(* a shutdown is requested it reads no more requests and drains the stream.*)

Receive(kinds) ==
  /\ InTurn /\ draining = "no"
  /\ HasRequest(kinds)
  /\ requests' = Tail(requests)
  /\ UNCHANGED <<log, uiGone, closed, pc, turn, loop, rounds, token, dialog,
                 know, responder, started, past>>

(* Mutant: a message that finds the loop finished is dropped.              *)
TurnMessageDropped ==
  /\ Receive({"message"})
  /\ steering' = IF loop = "returned" THEN steering ELSE Append(steering, Next1)
  /\ UNCHANGED <<draining, abortFlag, deferred, slot, ended>>

TurnMessage ==
  /\ Receive({"message"})
  /\ steering' = Append(steering, Next1)
  /\ UNCHANGED <<draining, abortFlag, deferred, slot, ended>>

(* Mutant: deferred actions are pushed to the front.                       *)
TurnContextPushedFront ==
  /\ Receive(Context)
  /\ deferred' = <<Next1>> \o deferred
  /\ UNCHANGED <<draining, steering, abortFlag, slot, ended>>

TurnContext ==
  /\ Receive(Context)
  /\ deferred' = Append(deferred, Next1)
  /\ UNCHANGED <<draining, steering, abortFlag, slot, ended>>

TurnOperation ==
  /\ Receive(Operation)
  /\ slot' = [slot EXCEPT ![log[Next1]] = Next1]
  /\ UNCHANGED <<draining, steering, abortFlag, deferred, ended>>

(* Mutant: the session drains, but the loop is not told.                   *)
TurnAbortUntold ==
  /\ Receive({"abort"})
  /\ draining' = "abort"
  /\ ended' = ended \cup {turn}
  /\ UNCHANGED <<abortFlag, steering, deferred, slot>>

TurnAbort ==
  /\ Receive({"abort"})
  /\ abortFlag' = TRUE /\ draining' = "abort"
  /\ ended' = ended \cup {turn}
  /\ UNCHANGED <<steering, deferred, slot>>

(* Mutant: the same for a shutdown.                                        *)
TurnShutdownUntold ==
  /\ Receive({"shutdown"})
  /\ draining' = "shutdown"
  /\ deferred' = Append(deferred, Next1)
  /\ UNCHANGED <<abortFlag, steering, slot, ended>>

TurnShutdown ==
  /\ Receive({"shutdown"})
  /\ abortFlag' = TRUE /\ draining' = "shutdown"
  /\ deferred' = Append(deferred, Next1)
  /\ UNCHANGED <<steering, slot, ended>>

(* All senders gone: the session is left at once, its deferred actions and *)
(* the running loop's messages with it.                                    *)
TurnClosed ==
  /\ InTurn /\ draining = "no"
  /\ requests = <<>> /\ closed
  /\ abortFlag' = TRUE
  /\ pc' = "ending" /\ loop' = "off" /\ dialog' = {}
  /\ UNCHANGED <<link, steering, turn, draining, rounds, token, know, deferred,
                 slot, responder, told, past>>

(* Mutant: an aborted turn's messages are thrown away.                     *)
KeptUnlessAborted == IF draining = "no" THEN dialog ELSE history

(* What the session's messages are after the turn: the loop's result.      *)
Kept == dialog

(* Mutant: the flag stays set.                                             *)
FlagNotReset == abortFlag

(* reset_abort, which is skipped on the way to a shutdown.                 *)
FlagAfterTurn == draining = "shutdown" /\ abortFlag

(* The loop's result comes through the stream and Done or Error is sent.   *)
StreamEnds ==
  /\ InTurn /\ loop = "returned"
  /\ history' = Kept
  /\ dialog' = {}
  /\ loop' = "off" /\ draining' = "no" /\ rounds' = 0 /\ token' = FALSE
  /\ ended' = ended \cup {turn}
  /\ turn' = None
  /\ pc' = IF draining = "shutdown" THEN "shutdown" ELSE "settle"
  /\ abortFlag' = FlagAfterTurn
  /\ UNCHANGED <<link, steering, local, live, applied, deferred, slot,
                 responder, started, past>>

(* The context actions deferred during the turn, in order of arrival.      *)
ApplyDeferred ==
  /\ pc \in {"settle", "shutdown"}
  /\ deferred # <<>> /\ log[Head(deferred)] \in Context
  /\ ApplyContext(Head(deferred))
  /\ deferred' = Tail(deferred)
  /\ UNCHANGED <<link, pc, steering, turn, run, slot, responder, told, past>>

(* Mutant: the shutdown overtakes the deferred context actions.            *)
DeferredShutdownFirst ==
  /\ pc = "shutdown"
  /\ deferred # <<>> /\ log[Last(deferred)] = "shutdown"
  /\ responder' = Last(deferred)
  /\ deferred' = <<>>
  /\ pc' = "ending"
  /\ UNCHANGED <<link, steering, turn, run, abortFlag, know, slot, told, past>>

DeferredShutdown ==
  /\ pc = "shutdown"
  /\ deferred # <<>> /\ log[Head(deferred)] = "shutdown"
  /\ responder' = Head(deferred)
  /\ deferred' = <<>>
  /\ pc' = "ending"
  /\ UNCHANGED <<link, steering, turn, run, abortFlag, know, slot, told, past>>

(* After the context actions the compression and the note run, if asked.   *)
Settled ==
  /\ pc = "settle" /\ deferred = <<>>
  /\ LET asked == {slot[o] : o \in Operation} \ {None}
     IN  started' = started \cup asked /\ ended' = ended \cup asked
  /\ slot' = [o \in Operation |-> None]
  /\ pc' = "idle"
  /\ UNCHANGED <<link, steering, turn, run, abortFlag, know, deferred,
                 responder, past>>

(* run_session_end, then the reply to Shutdown; the channel is dropped.    *)
SessionEnd ==
  /\ pc = "ending"
  /\ pc' = "stopped"
  /\ UNCHANGED <<link, steering, turn, run, abortFlag, know, deferred, slot,
                 responder, told, past>>
-----------------------------------------------------------------------------
LastRequests == {<<"save", "shutdown">>, <<"shutdown">>}

UiNext ==
  \/ \E kind \in SentKinds : Send(kind)
  \/ \E last \in LastRequests : UiExits(last)
  \/ UiPanic

TurnRequest ==
  \/ TurnMessage \/ TurnContext \/ TurnOperation
  \/ TurnAbort \/ TurnShutdown \/ TurnClosed

WorkerNext ==
  \/ TakeMessage
  \/ IdleAbort \/ IdleContext \/ IdleOperation \/ IdleShutdown \/ IdleClosed
  \/ \E blocked \in BOOLEAN : Preflight(blocked)
  \/ Prepare
  \/ TurnRequest
  \/ StreamEnds
  \/ ApplyDeferred \/ DeferredShutdown \/ Settled \/ SessionEnd

LoopNext ==
  \/ LoopTop
  \/ \E continue \in BOOLEAN : CallReturns(continue)
  \/ Watcher

Next == UiNext \/ WorkerNext \/ LoopNext

Spec == Init /\ [][Next]_vars
-----------------------------------------------------------------------------
(* Fairness.  The worker and the watcher are tasks of a fair scheduler, and *)
(* hooks, saves and the preparation of a turn come to an end.  A model call *)
(* may hang; only a cancelled one is sure to return, through its select on  *)
(* the abort token.  Tool calls are part of the round; those that wait for  *)
(* a confirmation without that token are the subject of ConfirmationGate.   *)
CallEnds == \E continue \in BOOLEAN : CallReturns(continue)

FairSpec ==
  /\ Spec
  /\ WF_vars(WorkerNext)
  /\ WF_vars(LoopTop)
  /\ WF_vars(Watcher)
  /\ WF_vars(token /\ CallEnds)
-----------------------------------------------------------------------------
Increasing(s) == \A j, k \in DOMAIN s : j < k => s[j] < s[k]

(* The ids of the requests of some kinds.                                  *)
Sent(kinds) == {i \in DOMAIN log : log[i] \in kinds}

(* Messages reach the model in the order the user sent them and none       *)
(* reaches it twice, whether it starts a turn, is steered into a running   *)
(* one, or is left in the steering queue when that turn ends (agent_worker, *)
(* handle_streaming_request, drain_steering_messages).  Requests about the *)
(* session's context take effect in the order they were sent, also when    *)
(* some arrive during a turn and some after it                             *)
(* (apply_deferred_context_actions).                                       *)
MessagesInOrder == Increasing(taken)
ContextInOrder == Increasing(applied)
RequestsInOrder == MessagesInOrder /\ ContextInOrder

(* The session knows exactly what was said since the last reset: the loop's *)
(* result replaces the session's messages without losing what was appended, *)
(* and a reset is not undone by the turn that was running (run_stream,      *)
(* apply_deferred_context_actions).                                        *)
KnowsWhatWasSaid == ~closed => live = history \cup local \cup dialog

(* When the worker waits for the next request, every turn and operation it *)
(* started has reported its end: the UI does not spin for ever.             *)
TurnsReportTheirEnd == pc = "idle" => started \subseteq ended

(* The abort flag outlives a turn only once per Abort: no more turns die    *)
(* of it than Abort and Shutdown requests were handled.                     *)
AbortsAreNotMultiplied ==
  Cardinality(killed) <= Cardinality(Sent({"abort", "shutdown"}) \ ToSet(requests))

(* Shutdown is acknowledged only after all that was asked of the session   *)
(* before it, the final save included (run_session_end, DeferredContextAction).*)
ShutdownComesLast ==
  responder # None =>
    \A i \in Sent(Context) : i < responder => i \in ToSet(applied)

(* A running turn whose Abort is in the channel comes to an end, even when *)
(* the model call it is in would never return.                             *)
AbortEndsTheTurn ==
  (InTurn /\ ToSet(requests) \cap Sent({"abort"}) # {}) ~> ~InTurn

(* Once the UI is gone the worker stops, whatever it was doing.             *)
ExitStopsTheWorker == uiGone ~> pc = "stopped"

(* With a provider that answers every call, every message reaches the model *)
(* or is refused, unless the user leaves: none is left in the channel or in *)
(* the steering queue when the turn it was sent to ends.                    *)
EveryMessageIsTaken ==
  []<>(loop # "call") =>
    \A i \in Id :
      i \in Sent({"message"}) ~> (i \in ToSet(taken) \cup ended \/ uiGone)

(* The worker implements TurnService: a message that waits is in the        *)
(* channel, in the steering queue, or about to start its turn.              *)
Over == pc \in {"ending", "stopped"}
Starting == pc = "preflight" \/ (InTurn /\ loop = "prepare")
Unread == ToSet(requests) \cap Sent({"message"})
OldestFirst(ids) ==
  CHOOSE s \in [1..Cardinality(ids) -> ids] : Increasing(s) /\ ToSet(s) = ids

Service == INSTANCE TurnService WITH
  Message <- Id,
  waiting <- IF Over THEN <<>>
             ELSE (IF Starting THEN <<turn>> ELSE <<>>)
                  \o steering \o OldestFirst(Unread),
  seen <- taken,
  state <- IF Over THEN "over"
           ELSE IF Starting THEN "starting"
           ELSE IF InTurn THEN "busy" ELSE "free"

(* Every step of the worker, the loop and the UI is a step of TurnService. *)
ImplementsTurnService == Service!Spec
-----------------------------------------------------------------------------
(* What the repository says and the code does not do.                      *)

(* agent_run.rs: the Esc of one turn must not spoil the next one.  So a     *)
(* turn that the abort check ends has handled an Abort or a Shutdown.       *)
AbortStaysInItsTurn == [][killed' # killed => draining # "no"]_vars
=============================================================================
