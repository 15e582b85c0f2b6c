-------------------------- MODULE ConfirmationGate --------------------------
(***************************************************************************)
(* The confirmation gate.  A tool call passes pass_gate before it runs:    *)
(* the policy engine, the session's grants and the tool itself decide      *)
(* whether the user is asked.  A question travels over the message bus to  *)
(* the worker, over the stream channel to the UI, which shows one card and *)
(* queues the others; the answer returns as a ConfirmTool request and a    *)
(* response on the bus.  Esc and Ctrl+C end the turn in the meantime, and  *)
(* messages sent during a turn join it or start the next one.              *)
(*                                                                         *)
(* A call stands for its tool_call id, for the correlation id of its       *)
(* question and for its card.  A turn is one model response: segments run  *)
(* in order, the calls of a segment concurrently (execute_batch); a call   *)
(* of Barrier has a segment of its own and is the only kind that gets the  *)
(* abort token.                                                            *)
(***************************************************************************)
EXTENDS Naturals, Sequences, SequencesExt, FiniteSets

CONSTANTS
  Calls,          \* tool calls
  NoCall,         \* no card is waiting for an answer
  Barrier,        \* calls of the tools run alone (is_barrier_tool)
  Sensitive,      \* calls that touch a sensitive file (guard_hit)
  PerInvocation,  \* calls whose tool requires_invocation_confirmation
  Tool,           \* the tool of each call
  Plan,           \* bound: the turns, each a sequence of segments of calls
  MaxOutside      \* bound: Aborts and decisions of the remote inbox in a run

Turn == DOMAIN Plan
Segment(t, s) == Plan[t][s]
CallsOf(t) == UNION ToSet(Plan[t])

ASSUME CallAssumption ==
  /\ IsFiniteSet(Calls) /\ NoCall \notin Calls
  /\ Barrier \subseteq Calls /\ Sensitive \subseteq Calls
  /\ PerInvocation \subseteq Calls
  /\ Tool \in [Calls -> STRING]
  /\ \A c, e \in Calls : Tool[c] = Tool[e] =>
       (c \in Barrier <=> e \in Barrier) /\ (c \in PerInvocation <=> e \in PerInvocation)
ASSUME PlanAssumption ==
  /\ Plan \in Seq(Seq(SUBSET Calls))
  /\ \A t \in Turn : \A s \in DOMAIN Plan[t] :
       \A c \in Segment(t, s) \cap Barrier : Segment(t, s) = {c}
ASSUME BoundAssumption == MaxOutside \in Nat

(* The answers of the card: allow once, allow from now on (AllowSession and *)
(* ProceedAlwaysAndSave), deny.                                            *)
Decision == {"once", "always", "deny"}
Policy == {"allow", "ask", "rule", "deny"}   \* rule: an explicit ask rule
Phase == {"new", "asking", "waiting", "allowed", "approved",
          "declined", "closed", "aborted"}
Ran == {"allowed", "approved"}
Over == Phase \ {"new", "asking", "waiting"}

VARIABLES
  gate,       \* where each call is in pass_gate
  policy,     \* what check_tool_policy said of a call it let pass
  answer,     \* the response on the bus that its wait will take
  grants,     \* SessionPermissionManager: tools allowed from now on
  running,    \* run_streaming_session runs
  turn,       \* the running, or the last, turn
  segment,    \* the segment of tool calls it is in
  stopped,    \* abort_requested of the session
  flag,       \* StarAgent::abort_flag
  token,      \* abort_token of the turn is cancelled
  bus,        \* questions the worker has not relayed (bus_rx)
  stream,     \* chunks of the loop the worker has not forwarded
  requests,   \* mpsc channel from the UI to the worker
  steering,   \* AsyncMessageQueue: messages that came during a turn
  messages,   \* mpsc channel from the worker to the UI
  active,     \* pending_tool_call_id: the card the keys answer
  queue,      \* pending_confirmation_queue
  busy,       \* is_streaming or is_processing
  cancelling, \* cancelling_since
  completed,  \* complete_task_message_ids
  sent,       \* user messages sent
  aborts,     \* Aborts sent
  remote,     \* remote decisions sent
  screen,     \* the card the last frame showed under the keys
  decided,    \* history variable: the first decision sent for each call
  dropped     \* history variable: calls whose card the end of a grace period
              \* took although nobody cancels them

gates == <<gate, policy, answer, grants>>
loop  == <<running, turn, segment, stopped, flag, token>>
pipes == <<bus, stream, requests, steering, messages>>
cards == <<active, queue>>
ui    == <<cards, busy, cancelling, completed>>
hist  == <<sent, aborts, remote, screen, decided, dropped>>
vars  == <<gates, loop, pipes, ui, hist>>

Request == [kind : {"answer"}, call : Calls, decision : Decision]
           \cup [kind : {"message"}, turn : Turn] \cup [kind : {"abort"}]
Report == [kind : {"result"}, call : Calls] \cup [kind : {"done"}, turn : Turn]
Chunk == Report \cup [kind : {"card"}, call : Calls] \cup [kind : {"start"}, turn : Turn]

TypeOK ==
  /\ gate \in [Calls -> Phase]
  /\ policy \in [Calls -> Policy \cup {"unknown"}]
  /\ answer \in [Calls -> Decision \cup {"none", "policy"}]
  /\ grants \subseteq {Tool[c] : c \in Calls}
  /\ running \in BOOLEAN /\ turn \in Turn \cup {0} /\ segment \in Nat \ {0}
  /\ running => turn \in Turn
  /\ stopped \in BOOLEAN /\ flag \in BOOLEAN /\ token \in BOOLEAN
  /\ bus \in Seq(Calls) /\ stream \in Seq(Report)
  /\ requests \in Seq(Request) /\ steering \in Seq(Turn) /\ messages \in Seq(Chunk)
  /\ active \in Calls \cup {NoCall} /\ queue \in Seq(Calls)
  /\ busy \in BOOLEAN /\ cancelling \in BOOLEAN /\ completed \subseteq Turn
  /\ sent \in 0..Len(Plan) /\ aborts \in 0..MaxOutside /\ remote \in 0..MaxOutside
  /\ screen \in Calls \cup {NoCall}
  /\ decided \in [Calls -> Decision \cup {"none"}] /\ dropped \subseteq Calls

Init ==
  /\ gate = [c \in Calls |-> "new"] /\ policy = [c \in Calls |-> "unknown"]
  /\ answer = [c \in Calls |-> "none"] /\ grants = {}
  /\ running = FALSE /\ turn = 0 /\ segment = 1
  /\ stopped = FALSE /\ flag = FALSE /\ token = FALSE
  /\ bus = <<>> /\ stream = <<>> /\ requests = <<>> /\ steering = <<>> /\ messages = <<>>
  /\ active = NoCall /\ queue = <<>>
  /\ busy = FALSE /\ cancelling = FALSE /\ completed = {}
  /\ sent = 0 /\ aborts = 0 /\ remote = 0 /\ screen = NoCall
  /\ decided = [c \in Calls |-> "none"] /\ dropped = {}
-----------------------------------------------------------------------------
(* pass_gate.                                                              *)

Granted(c) == Tool[c] \in grants

(* Mutant: the sensitive-file check in front of the policy's verdict.      *)
ApprovedSensitiveFirst(c, p) == p = "allow" \/ (Granted(c) /\ p # "rule" /\ c \notin Sensitive)

(* What already allows a call: the policy or a grant, never for a          *)
(* sensitive file, a grant never against an explicit ask rule.             *)
Approved(c, p) ==
  /\ c \notin Sensitive
  /\ p = "allow" \/ (Granted(c) /\ p # "rule")

(* What pass_gate does, given the policy p and the tool's own check:       *)
(* should_confirm_execute has a card of its own, has none, or fails.       *)
Verdict(c, p, own) ==
  IF p = "deny" THEN "closed"
  ELSE IF Approved(c, p) /\ (c \notin PerInvocation \/ own = "none") THEN "allowed"
  ELSE IF own = "error" THEN "closed"
  ELSE "asking"

CallStarts(c) == running /\ segment <= Len(Plan[turn]) /\ c \in Segment(turn, segment)

(* A call is not begun under a cancelled token, if it has one.             *)
CancelledBeforeStart(c) ==
  /\ CallStarts(c) /\ gate[c] = "new"
  /\ c \in Barrier /\ token
  /\ gate' = [gate EXCEPT ![c] = "aborted"]
  /\ UNCHANGED <<policy, answer, grants, loop, pipes, ui, hist>>

PassGate(c, p, own) ==
  /\ CallStarts(c) /\ gate[c] = "new"
  /\ ~(c \in Barrier /\ token)
  /\ gate' = [gate EXCEPT ![c] = Verdict(c, p, own)]
  /\ policy' = IF Verdict(c, p, own) = "allowed"
               THEN [policy EXCEPT ![c] = p] ELSE policy
  /\ UNCHANGED <<answer, grants, loop, pipes, ui, hist>>

(* publish: the policy is asked again and may have changed.  It may answer *)
(* with a refusal, it never answers with a consent.                        *)
Publish(c, p) ==
  /\ gate[c] = "asking"
  /\ gate' = [gate EXCEPT ![c] = "waiting"]
  /\ IF p = "deny"
     THEN answer' = [answer EXCEPT ![c] = "policy"] /\ bus' = bus
     ELSE bus' = Append(bus, c) /\ answer' = answer
  /\ UNCHANGED <<policy, grants, loop, stream, requests, steering, messages, ui, hist>>

(* Mutant: the grant of a sensitive call is stored like any other.         *)
GrantsOfAny(c, d) == IF d = "always" THEN grants \cup {Tool[c]} ELSE grants

(* record_approval: a lasting answer is stored for the tool, unless the    *)
(* call touched a sensitive file.                                          *)
GrantsAfter(c, d) ==
  IF d = "always" /\ c \notin Sensitive THEN grants \cup {Tool[c]} ELSE grants

(* The wait takes the first response for its id; it is preferred to an     *)
(* abort that is there at the same time.                                   *)
TakeAnswer(c) ==
  /\ gate[c] = "waiting" /\ answer[c] # "none"
  /\ gate' = [gate EXCEPT ![c] = CASE answer[c] = "policy" -> "closed"
                                   [] answer[c] = "deny" -> "declined"
                                   [] OTHER -> "approved"]
  /\ grants' = GrantsAfter(c, answer[c])
  /\ UNCHANGED <<policy, answer, loop, pipes, ui, hist>>

(* The token ends the wait of a call that has it.  dismiss_request then    *)
(* broadcasts a response that the worker does not relay.                   *)
AbortWait(c) ==
  /\ gate[c] = "waiting" /\ answer[c] = "none"
  /\ c \in Barrier /\ token
  /\ gate' = [gate EXCEPT ![c] = "aborted"]
  /\ UNCHANGED <<policy, answer, grants, loop, pipes, ui, hist>>

Results(calls) == [j \in 1..Cardinality(calls) |->
                     [kind |-> "result", call |-> SetToSeq(calls)[j]]]

(* execute_batch returns when every call of the segment is over; then the  *)
(* results are reported.  The segments of a response are not interrupted   *)
(* by an abort.  After the last one the loop looks at the abort flag and   *)
(* takes the messages that came meanwhile into the conversation; the model *)
(* answers them in this turn, without tools (bound).                       *)
NotTakenIn == IF flag THEN steering ELSE <<>>

SegmentEnds ==
  /\ running /\ segment <= Len(Plan[turn])
  /\ \A c \in Segment(turn, segment) : gate[c] \in Over
  /\ segment' = segment + 1
  /\ stream' = stream \o Results(Segment(turn, segment))
  /\ steering' = IF segment = Len(Plan[turn]) THEN NotTakenIn ELSE steering
  /\ UNCHANGED <<gates, running, turn, stopped, flag, token, bus, requests,
                 messages, ui, hist>>

(* An abort ends the model call that would have asked for the tool calls.  *)
ModelCallCancelled ==
  /\ running /\ flag /\ segment = 1
  /\ \A c \in CallsOf(turn) : gate[c] = "new"
  /\ segment' = Len(Plan[turn]) + 1
  /\ UNCHANGED <<gates, running, turn, stopped, flag, token, pipes, ui, hist>>

LoopReturns ==
  /\ running /\ segment = Len(Plan[turn]) + 1
  /\ segment' = segment + 1
  /\ stream' = Append(stream, [kind |-> "done", turn |-> turn])
  /\ UNCHANGED <<gates, running, turn, stopped, flag, token, bus, requests,
                 steering, messages, ui, hist>>

(* The task of arm_abort_token that turns the flag into a cancelled token. *)
Watcher ==
  /\ running /\ flag /\ ~token
  /\ token' = TRUE
  /\ UNCHANGED <<gates, running, turn, segment, stopped, flag, pipes, ui, hist>>
-----------------------------------------------------------------------------
(* The worker.                                                             *)

Requested(kind) == requests # <<>> /\ Head(requests).kind = kind

(* What came during the last turn and was not taken in goes first.  A flag *)
(* left by an idle Abort ends the turn before its first call; otherwise the *)
(* turn takes in what else waits in the steering queue.                    *)
StartTurn ==
  /\ ~running
  /\ \/ /\ steering # <<>>
        /\ turn' = Head(steering)
        /\ steering' = IF flag THEN Tail(steering) ELSE <<>>
        /\ UNCHANGED requests
     \/ /\ steering = <<>> /\ Requested("message")
        /\ turn' = Head(requests).turn
        /\ requests' = Tail(requests)
        /\ UNCHANGED steering
  /\ running' = TRUE
  /\ segment' = IF flag THEN Len(Plan[turn']) + 1 ELSE 1
  /\ messages' = Append(messages, [kind |-> "start", turn |-> turn'])
  /\ UNCHANGED <<gates, stopped, flag, token, bus, stream, ui, hist>>

(* During a session the relay forwards questions, also after an Abort.     *)
Relay ==
  /\ running /\ bus # <<>>
  /\ bus' = Tail(bus)
  /\ messages' = Append(messages, [kind |-> "card", call |-> Head(bus)])
  /\ UNCHANGED <<gates, loop, stream, requests, steering, ui, hist>>

(* Done ends the session; what the bus still holds waits for the next one. *)
Forward ==
  /\ running /\ stream # <<>>
  /\ stream' = Tail(stream)
  /\ messages' = Append(messages, Head(stream))
  /\ IF Head(stream).kind = "done"
     THEN running' = FALSE /\ stopped' = FALSE /\ flag' = FALSE /\ token' = FALSE
     ELSE UNCHANGED <<running, stopped, flag, token>>
  /\ UNCHANGED <<gates, turn, segment, bus, requests, steering, ui, hist>>

(* A session that has read an Abort reads no more requests until it ends;  *)
(* between turns the steering queue goes first.                            *)
Listens == IF running THEN ~stopped ELSE steering = <<>>

(* A message that comes during a turn.                                     *)
Steer ==
  /\ running /\ Listens /\ Requested("message")
  /\ requests' = Tail(requests)
  /\ steering' = Append(steering, Head(requests).turn)
  /\ UNCHANGED <<gates, loop, bus, stream, messages, ui, hist>>

(* Mutant: the answer is kept for after the turn like other requests.      *)
ConfirmToolWhenIdle ==
  /\ ~running /\ Requested("answer")
  /\ LET r == Head(requests) IN
       answer' = IF gate[r.call] = "waiting" /\ answer[r.call] = "none"
                 THEN [answer EXCEPT ![r.call] = r.decision] ELSE answer
  /\ requests' = Tail(requests)
  /\ UNCHANGED <<gate, policy, grants, loop, bus, stream, steering, messages, ui,
                 hist>>

(* Mutant: a wait takes any response, not only the one for its id.         *)
ConfirmToolAnyWait ==
  /\ Listens /\ Requested("answer")
  /\ LET r == Head(requests) IN
       answer' = [c \in Calls |->
                    IF gate[c] = "waiting" /\ answer[c] = "none"
                    THEN r.decision ELSE answer[c]]
  /\ requests' = Tail(requests)
  /\ UNCHANGED <<gate, policy, grants, loop, bus, stream, steering, messages, ui,
                 hist>>

(* The decision is published on the bus; a call that no longer waits, or   *)
(* has its response, does not hear it.                                     *)
ConfirmTool ==
  /\ Listens /\ Requested("answer")
  /\ LET r == Head(requests) IN
       answer' = IF gate[r.call] = "waiting" /\ answer[r.call] = "none"
                 THEN [answer EXCEPT ![r.call] = r.decision] ELSE answer
  /\ requests' = Tail(requests)
  /\ UNCHANGED <<gate, policy, grants, loop, bus, stream, steering, messages, ui,
                 hist>>

(* During a turn the session says Done at once and then drains the stream. *)
Abort ==
  /\ Listens /\ Requested("abort")
  /\ requests' = Tail(requests)
  /\ flag' = TRUE /\ stopped' = running
  /\ messages' = IF running
                  THEN Append(messages, [kind |-> "done", turn |-> turn])
                  ELSE messages
  /\ UNCHANGED <<gates, running, turn, segment, token, bus, stream, steering, ui,
                 hist>>
-----------------------------------------------------------------------------
(* The UI.                                                                 *)

(* clear_pending_confirmation: the next queued card becomes active.        *)
Clear == IF queue = <<>>
         THEN active' = NoCall /\ queue' = queue
         ELSE active' = Head(queue) /\ queue' = Tail(queue)

Decide(c, d) ==
  /\ requests' = Append(requests, [kind |-> "answer", call |-> c, decision |-> d])
  /\ decided' = IF decided[c] = "none" THEN [decided EXCEPT ![c] = d] ELSE decided

(* A frame is drawn.                                                       *)
Draw ==
  /\ screen # active
  /\ screen' = active
  /\ UNCHANGED <<gates, loop, pipes, ui, sent, aborts, remote, decided, dropped>>

(* A key answers the active card; the user presses it because of the card  *)
(* he sees.                                                                *)
Press(d) ==
  /\ active # NoCall /\ screen # NoCall
  /\ Decide(active, d)
  /\ Clear
  /\ UNCHANGED <<gates, loop, bus, stream, steering, messages, busy, cancelling,
                 completed, sent, aborts, remote, screen, dropped>>

(* apply_remote_tool_decision: for any card that waits; it stays.          *)
RemoteDecision(c, d) ==
  /\ aborts + remote < MaxOutside /\ remote' = remote + 1
  /\ c \in ToSet(queue) \cup {active} /\ c # NoCall
  /\ Decide(c, d)
  /\ UNCHANGED <<gates, loop, bus, stream, steering, messages, ui, sent, aborts,
                 screen, dropped>>

(* Ctrl+C, or Esc while no card is active.                                 *)
Cancel ==
  /\ busy /\ aborts + remote < MaxOutside
  /\ aborts' = aborts + 1
  /\ requests' = Append(requests, [kind |-> "abort"])
  /\ cancelling' = TRUE
  /\ UNCHANGED <<gates, loop, bus, stream, steering, messages, cards, busy,
                 completed, sent, remote, screen, decided, dropped>>

(* The remote inbox can cancel too; the UI then waits for Done.            *)
RemoteCancel ==
  /\ aborts + remote < MaxOutside
  /\ aborts' = aborts + 1
  /\ requests' = Append(requests, [kind |-> "abort"])
  /\ UNCHANGED <<gates, loop, bus, stream, steering, messages, ui, sent, remote,
                 screen, decided, dropped>>

OnScreen(c) == c = active \/ c \in ToSet(queue)
Cancelled == flag \/ [kind |-> "abort"] \in ToSet(requests)

(* 1.5 s after a key the UI stops waiting for the turn and drops its cards, *)
(* and with them those of a turn that has started since.                   *)
GraceExpires ==
  /\ busy /\ cancelling
  /\ busy' = FALSE /\ cancelling' = FALSE
  /\ active' = NoCall /\ queue' = <<>>
  /\ dropped' = IF Cancelled THEN dropped
                ELSE dropped \cup {c \in Calls : OnScreen(c) /\ gate[c] = "waiting"}
  /\ UNCHANGED <<gates, loop, pipes, completed, sent, aborts, remote, screen, decided>>

SendsMessage ==
  /\ sent < Len(Plan) /\ sent' = sent + 1
  /\ requests' = Append(requests, [kind |-> "message", turn |-> sent + 1])
  /\ UNCHANGED <<gates, loop, bus, stream, steering, messages, cards, completed,
                 aborts, remote, screen, decided, dropped>>

(* enqueue_user_message: a message that starts a turn.                     *)
SendMessage ==
  /\ active = NoCall /\ (~busy \/ cancelling)
  /\ busy' = TRUE /\ cancelling' = FALSE
  /\ SendsMessage

(* steer_user_message; messages of the remote inbox and of loops, too, are *)
(* sent whatever the UI does.                                              *)
SteerMessage ==
  /\ SendsMessage
  /\ UNCHANGED <<busy, cancelling>>

Arrived(kind) == messages # <<>> /\ Head(messages).kind = kind

StartArrives ==
  /\ Arrived("start")
  /\ messages' = Tail(messages)
  /\ busy' = TRUE
  /\ completed' = completed \ {Head(messages).turn}
  /\ UNCHANGED <<gates, loop, bus, stream, requests, steering, cards, cancelling, hist>>

(* Mutant: a new card replaces the one that waits for an answer.           *)
CardSuperseded ==
  /\ Arrived("card")
  /\ messages' = Tail(messages)
  /\ active' = Head(messages).call
  /\ queue' = queue
  /\ UNCHANGED <<gates, loop, bus, stream, requests, steering, busy, cancelling,
                 completed, hist>>

(* A new card takes the keys; the one that had them goes to the front of   *)
(* the queue.                                                              *)
CardArrives ==
  /\ Arrived("card")
  /\ messages' = Tail(messages)
  /\ active' = Head(messages).call
  /\ queue' = IF active = NoCall THEN queue ELSE <<active>> \o queue
  /\ UNCHANGED <<gates, loop, bus, stream, requests, steering, busy, cancelling,
                 completed, hist>>

(* A call has at most one card.                                            *)
Without(s, c) ==
  IF c \in ToSet(s) THEN RemoveAt(s, CHOOSE i \in DOMAIN s : s[i] = c) ELSE s

(* handle_tool_result_message: the card of a call that is over goes away.  *)
ResultArrives ==
  /\ Arrived("result")
  /\ messages' = Tail(messages)
  /\ LET c == Head(messages).call
         rest == Without(queue, c)
     IN  IF active # c THEN active' = active /\ queue' = rest
         ELSE IF rest = <<>> THEN active' = NoCall /\ queue' = rest
         ELSE active' = Head(rest) /\ queue' = Tail(rest)
  /\ UNCHANGED <<gates, loop, bus, stream, requests, steering, busy, cancelling,
                 completed, hist>>

(* The first Done of a turn drops the queued cards, not the active one.    *)
DoneArrives ==
  /\ Arrived("done")
  /\ messages' = Tail(messages)
  /\ LET t == Head(messages).turn IN
       IF t \in completed THEN UNCHANGED <<queue, busy, completed>>
       ELSE /\ queue' = <<>>
            /\ busy' = cancelling
            /\ completed' = completed \cup {t}
  /\ UNCHANGED <<gates, loop, bus, stream, requests, steering, active, cancelling, hist>>
-----------------------------------------------------------------------------
Own == {"card", "none", "error"}

GateNext(c) ==
  \/ CancelledBeforeStart(c)
  \/ \E p \in Policy, own \in Own : PassGate(c, p, own)
  \/ \E p \in Policy : Publish(c, p)
  \/ TakeAnswer(c)
  \/ AbortWait(c)

LoopNext == SegmentEnds \/ ModelCallCancelled \/ LoopReturns \/ Watcher

WorkerNext == StartTurn \/ Relay \/ Forward \/ Steer \/ ConfirmTool \/ Abort

Screen == StartArrives \/ CardArrives \/ ResultArrives \/ DoneArrives \/ GraceExpires \/ Draw

User ==
  \/ \E d \in Decision : Press(d)
  \/ \E c \in Calls, d \in {"once", "deny"} : RemoteDecision(c, d)
  \/ Cancel \/ RemoteCancel
  \/ SendMessage \/ SteerMessage

Next == (\E c \in Calls : GateNext(c)) \/ LoopNext \/ WorkerNext \/ Screen \/ User

Spec == Init /\ [][Next]_vars

(* Fairness.  The tasks of the loop, of the worker and of the UI run on    *)
(* fair schedulers, the worker's select takes each ready branch in turn,   *)
(* and the user looks at the screen and answers the card he sees.          *)
Answer == \E d \in Decision : Press(d)

FairSpec ==
  /\ Spec
  /\ \A c \in Calls : WF_vars(GateNext(c))
  /\ WF_vars(SegmentEnds) /\ WF_vars(ModelCallCancelled)
  /\ WF_vars(LoopReturns) /\ WF_vars(Watcher)
  /\ WF_vars(StartTurn \/ Steer \/ ConfirmTool \/ Abort)
  /\ WF_vars(Relay) /\ WF_vars(Forward)
  /\ WF_vars(StartArrives \/ CardArrives \/ ResultArrives \/ DoneArrives)
  /\ WF_vars(GraceExpires) /\ WF_vars(Draw)
  /\ WF_vars(Answer)
-----------------------------------------------------------------------------
(* A call runs only if somebody allowed it: the user through its own card, *)
(* or else the policy or a lasting answer for its tool; the latter two     *)
(* never for a sensitive file, a lasting answer never against an ask rule  *)
(* (pass_gate).                                                            *)
OnlyAllowedCallsRun ==
  \A c \in Calls :
    /\ gate[c] = "approved" => decided[c] \in {"once", "always"}
    /\ gate[c] = "allowed" =>
         /\ c \notin Sensitive
         /\ policy[c] = "allow" \/ (Granted(c) /\ policy[c] \in {"ask", "allow"})

(* The gate implements Permissions: through policy checks, bus, channels,  *)
(* cards, keys and the remote inbox, each call is settled once, a lasting  *)
(* permission comes from a yes to a question of its tool and stays, and a  *)
(* yes is overruled by a cancellation only (pass_gate, record_approval,    *)
(* await_tool_decision).                                                   *)
Fate(c) ==
  CASE gate[c] = "new" -> "new"
    [] gate[c] \in {"asking", "waiting"} -> "asked"
    [] gate[c] = "allowed" -> IF policy[c] = "allow" THEN "policy" ELSE "grant"
    [] gate[c] = "approved" -> "user"
    [] OTHER -> "refused"

Gate == INSTANCE Permissions WITH
  Call <- Calls, Guarded <- Sensitive, ToolOf <- Tool,
  fate <- [c \in Calls |-> Fate(c)], said <- decided, cancelled <- flag

ImplementsPermissions == Gate!Spec

(* The first decision on a card settles its call, whoever took it and      *)
(* whatever follows: what was refused never runs, and an abort does not    *)
(* throw away an answer that has come (await_tool_decision).               *)
FirstDecisionCounts ==
  \A c \in Calls :
    /\ answer[c] \in Decision => answer[c] = decided[c]
    /\ gate[c] = "approved" => answer[c] \in {"once", "always"}
    /\ gate[c] = "declined" => answer[c] = "deny"
    /\ gate[c] = "aborted" => answer[c] = "none"

(* As long as nobody cancels, the question of every waiting call is in one *)
(* place: on its way to the screen, under the keys, in the queue, or       *)
(* answered and on its way back.  No gate waits for a card that is gone,   *)
(* but for the cards that the grace period of an earlier turn took away    *)
(* (ToolConfirmationRequest handler, clear_pending_confirmation).          *)
OnItsWay(c) ==
  \/ c \in ToSet(bus)
  \/ [kind |-> "card", call |-> c] \in ToSet(messages)
AnswerOnItsWay(c) ==
  \E j \in DOMAIN requests : requests[j].kind = "answer" /\ requests[j].call = c

EveryWaitHasItsCard ==
  \A c \in Calls :
    gate[c] = "waiting" /\ ~Cancelled =>
      \/ answer[c] # "none" \/ AnswerOnItsWay(c)
      \/ OnItsWay(c) \/ OnScreen(c) \/ c \in dropped

(* With a user who answers, a turn that is not cancelled, and none of whose *)
(* cards was dropped, comes to its end.                                    *)
AnsweredTurnsEnd ==
  running ~> (~running \/ Cancelled \/ CallsOf(turn) \cap dropped # {})
-----------------------------------------------------------------------------
(* What the repository says and the code does not do.                      *)

(* message_bus.rs: an abort of the turn ends the wait.                     *)
AbortEndsTheWait ==
  \A c \in Calls : (gate[c] = "waiting" /\ stopped) ~> gate[c] # "waiting"
=============================================================================
