-------------------------- MODULE SubAgents_proofs --------------------------
(***************************************************************************)
(* Proofs about SubAgents, for any agents and any number of turns and      *)
(* rounds.                                                                 *)
(***************************************************************************)
EXTENDS SubAgents, TLAPS

(* Sequences, as far as the channels need them.                            *)
LEMMA TailFacts ==
  ASSUME NEW S, NEW s \in Seq(S), s # <<>>
  PROVE  /\ Len(s) \in Nat \ {0}
         /\ Head(s) = s[1] /\ Head(s) \in S
         /\ Tail(s) \in Seq(S) /\ Len(Tail(s)) = Len(s) - 1
         /\ \A i \in 1..Len(Tail(s)) : Tail(s)[i] = s[i + 1]
OBVIOUS

LEMMA AppendFacts ==
  ASSUME NEW S, NEW s \in Seq(S), NEW x \in S
  PROVE  /\ Append(s, x) \in Seq(S)
         /\ Len(s) \in Nat /\ Len(Append(s, x)) = Len(s) + 1
         /\ \A i \in 1..Len(s) : Append(s, x)[i] = s[i]
         /\ Append(s, x)[Len(s) + 1] = x
OBVIOUS

LEMMA ToSetFacts ==
  ASSUME NEW s \in Seq(Agent)
  PROVE  ToSet(s) \subseteq Agent
BY DEF ToSet

LEMMA ToSetAppend ==
  ASSUME NEW s \in Seq(Agent), NEW a \in Agent
  PROVE  ToSet(Append(s, a)) = ToSet(s) \cup {a}
<1> DEFINE t == Append(s, a)
<1>1. t \in Seq(Agent) /\ Len(s) \in Nat /\ Len(t) = Len(s) + 1
  OBVIOUS
<1>2. \A i \in 1..Len(s) : t[i] = s[i]
  OBVIOUS
<1>3. t[Len(s) + 1] = a
  OBVIOUS
<1>4. DOMAIN s = 1..Len(s) /\ DOMAIN t = 1..(Len(s) + 1)
  BY <1>1
<1> HIDE DEF t
<1>5. ASSUME NEW x \in ToSet(t)
      PROVE  x \in ToSet(s) \cup {a}
  <2>1. PICK i \in DOMAIN t : x = t[i]
    BY <1>5 DEF ToSet
  <2>2. CASE i = Len(s) + 1
    BY <1>3, <2>1, <2>2
  <2>3. CASE i \in 1..Len(s)
    BY <1>2, <1>4, <2>1, <2>3 DEF ToSet
  <2>4. QED
    BY <1>1, <1>4, <2>2, <2>3
<1>6. ToSet(s) \subseteq ToSet(t)
  BY <1>1, <1>2, <1>4 DEF ToSet
<1>7. a \in ToSet(t)
  BY <1>1, <1>3, <1>4 DEF ToSet
<1>8. QED
  BY <1>5, <1>6, <1>7 DEF t

LEMMA ToSetEmpty == ToSet(<<>>) = {}
BY DEF ToSet

LEMMA UpdateIsChunk ==
  ASSUME NEW a \in Agent, NEW s \in Status
  PROVE  Update(a, s) \in Chunk /\ Update(a, s).agent = a /\ Update(a, s).status = s
BY DEF Update, Chunk

LEMMA ChunkFacts ==
  ASSUME NEW c \in Chunk
  PROVE  c.agent \in Agent /\ c.status \in Status
BY DEF Chunk
-----------------------------------------------------------------------------
(* Type correctness.                                                       *)
LEMMA TypeInit == Init => TypeOK
<1> SUFFICES ASSUME Init
             PROVE  TypeOK
  OBVIOUS
<1>1. <<>> \in Seq(Chunk) /\ <<>> \in Seq(Agent)
  OBVIOUS
<1>2. row \in [Agent -> Status \cup {"none"}]
  BY DEF Init
<1>3. mode \in [Agent -> Mode]
  BY DEF Init, Mode
<1>4. heard \in [Conversation -> SUBSET Agent]
  BY DEF Init
<1>5. pc \in [Agent -> {"off", "called", "started", "working", "waiting",
                       "finished", "written", "shown", "posted", "returned"}]
  BY DEF Init
<1>6. direct \in Seq(Chunk) /\ events \in Seq(Chunk) /\ bg \in Seq(Chunk)
  BY <1>1 DEF Init
<1>7. pending \in Seq(Agent)
  BY <1>1 DEF Init
<1>8. turn \in 0..MaxTurns /\ rounds \in 0..MaxRounds
  BY BoundsAssumption DEF Init
<1>9. QED
  BY <1>2, <1>3, <1>4, <1>5, <1>6, <1>7, <1>8 DEF Init, TypeOK

LEMMA EmitType ==
  ASSUME TypeOK, NEW a \in Agent, NEW s \in Status, EmitToUi(Update(a, s))
  PROVE  direct' \in Seq(Chunk) /\ bg' \in Seq(Chunk)
<1> DEFINE chunk == Update(a, s)
<1>1. chunk \in Chunk
  BY UpdateIsChunk
<1>2. direct \in Seq(Chunk) /\ bg \in Seq(Chunk)
  BY DEF TypeOK
<1>3. EmitToUi(chunk)
  OBVIOUS
<1> HIDE DEF chunk
<1>4. Append(direct, chunk) \in Seq(Chunk) /\ Append(bg, chunk) \in Seq(Chunk)
  BY <1>1, <1>2
<1>5. QED
  BY <1>2, <1>3, <1>4 DEF EmitToUi

LEMMA SendType ==
  ASSUME TypeOK, NEW c \in Chunk, Send(c)
  PROVE  row' \in [Agent -> Status \cup {"none"}]
BY ChunkFacts DEF Send, TypeOK

LEMMA DrainType ==
  ASSUME TypeOK, NEW c \in Conversation, DrainForNextTurn(c)
  PROVE  /\ pending' \in Seq(Agent) /\ notified' \in SUBSET Agent
         /\ heard' \in [Conversation -> SUBSET Agent]
<1>1. ToSet(pending) \subseteq Agent
  BY ToSetFacts DEF TypeOK
<1>2. QED
  BY <1>1 DEF DrainForNextTurn, TypeOK

LEMMA NotesType ==
  ASSUME TypeOK
  PROVE  [i \in DOMAIN pending |-> Update(pending[i], "Finished")] \in Seq(Chunk)
<1>1. \A i \in DOMAIN pending : pending[i] \in Agent
  BY DEF TypeOK
<1>2. \A i \in DOMAIN pending : Update(pending[i], "Finished") \in Chunk
  BY <1>1, UpdateIsChunk DEF Status
<1>3. DOMAIN pending = 1..Len(pending) /\ Len(pending) \in Nat
  BY DEF TypeOK
<1>4. QED
  BY <1>2, <1>3

LEMMA TypeStep == ASSUME TypeOK, [Next]_vars PROVE TypeOK'
<1> USE DEF session, agents, queue
<1>1. CASE ForwardBg
  <2>1. Head(bg) \in Chunk /\ Tail(bg) \in Seq(Chunk)
    BY <1>1, TailFacts DEF ForwardBg, TypeOK
  <2>2. row' \in [Agent -> Status \cup {"none"}]
    BY <1>1, <2>1, SendType DEF ForwardBg
  <2>3. QED
    BY <1>1, <2>1, <2>2 DEF ForwardBg, TypeOK
<1>2. CASE StartTurn
  <2>1. ToSet(pending) \subseteq Agent
    BY ToSetFacts DEF TypeOK
  <2>2. turn' \in 0..MaxTurns
    BY <1>2, BoundsAssumption DEF StartTurn, TypeOK
  <2>3. QED
    BY <1>2, <2>1, <2>2 DEF StartTurn, TypeOK
<1>3. ASSUME NEW aborted \in BOOLEAN, LoopTop(aborted)
      PROVE  TypeOK'
  <2>1. CASE aborted \/ RoundsUsedUp
    BY <1>3, <2>1 DEF LoopTop, TypeOK
  <2>2. CASE ~(aborted \/ RoundsUsedUp)
    <3>1. rounds' \in 0..MaxRounds
      BY <1>3, <2>2, BoundsAssumption DEF LoopTop, RoundsUsedUp, TypeOK
    <3>2. DrainForNextTurn(Main) /\ Main \in Conversation
      BY <1>3, <2>2 DEF LoopTop, Conversation
    <3>3. /\ pending' \in Seq(Agent) /\ notified' \in SUBSET Agent
          /\ heard' \in [Conversation -> SUBSET Agent]
      BY <3>2, DrainType
    <3> DEFINE notes == [i \in DOMAIN pending |-> Update(pending[i], "Finished")]
    <3>4. direct' = direct \o notes
      BY <1>3, <2>2 DEF LoopTop
    <3>5. direct' \in Seq(Chunk)
      <4>1. notes \in Seq(Chunk)
        BY NotesType
      <4> HIDE DEF notes
      <4>2. QED
        BY <3>4, <4>1 DEF TypeOK
    <3> HIDE DEF notes
    <3>6. QED
      BY <1>3, <2>2, <3>1, <3>3, <3>5 DEF LoopTop, TypeOK
  <2>3. QED
    BY <2>1, <2>2
<1>4. CASE Answer
  BY <1>4 DEF Answer, TypeOK
<1>5. ASSUME NEW waited \in SUBSET Agent, NEW spawned \in SUBSET Agent,
             Call(waited, spawned)
      PROVE  TypeOK'
  <2>1. mode' \in [Agent -> Mode]
    BY <1>5 DEF Call, TypeOK, Mode
  <2>2. pc' \in [Agent -> {"off", "called", "started", "working", "waiting",
                           "finished", "written", "shown", "posted", "returned"}]
    BY <1>5 DEF Call, TypeOK
  <2>3. QED
    BY <1>5, <2>1, <2>2 DEF Call, TypeOK
<1>6. ASSUME NEW a \in Agent, ConsumeResult(a)
      PROVE  TypeOK'
  <2>1. Update(a, "Background") \in Chunk
    BY UpdateIsChunk DEF Status
  <2>2. direct' \in Seq(Chunk) /\ events' \in Seq(Chunk)
    <3> DEFINE chunk == Update(a, "Background")
    <3>1. \/ direct' = Append(direct, chunk) /\ events' = Append(events, chunk)
          \/ UNCHANGED <<direct, events>>
      BY <1>6 DEF ConsumeResult
    <3>2. chunk \in Chunk
      BY <2>1
    <3> HIDE DEF chunk
    <3>3. /\ direct \in Seq(Chunk) /\ Append(direct, chunk) \in Seq(Chunk)
          /\ events \in Seq(Chunk) /\ Append(events, chunk) \in Seq(Chunk)
      BY <3>2 DEF TypeOK
    <3>4. QED
      BY <3>1, <3>3
  <2>3. QED
    BY <1>6, <2>2 DEF ConsumeResult, TypeOK
<1>7. CASE TakeDirect
  <2>1. Head(direct) \in Chunk /\ Tail(direct) \in Seq(Chunk)
    BY <1>7, TailFacts DEF TakeDirect, TypeOK
  <2>2. row' \in [Agent -> Status \cup {"none"}]
    BY <1>7, <2>1, SendType DEF TakeDirect
  <2>3. QED
    BY <1>7, <2>1, <2>2 DEF TakeDirect, TypeOK
<1>8. CASE TakeEvent
  <2>1. Head(events) \in Chunk /\ Tail(events) \in Seq(Chunk)
    BY <1>8, TailFacts DEF TakeEvent, TypeOK
  <2>2. row' \in [Agent -> Status \cup {"none"}]
    BY <1>8, <2>1, SendType DEF TakeEvent
  <2>3. QED
    BY <1>8, <2>1, <2>2 DEF TakeEvent, TypeOK
<1>9. CASE TakeDone
  <2>1. direct' \in Seq(Chunk)
    BY <1>9 DEF TakeDone
  <2>2. rounds' \in 0..MaxRounds
    BY <1>9, BoundsAssumption DEF TakeDone
  <2>3. QED
    BY <1>9, <2>1, <2>2 DEF TakeDone, TypeOK
<1>10. ASSUME NEW a \in Agent, Subtask(a)
       PROVE  TypeOK'
  BY <1>10 DEF Subtask, To, TypeOK, Mode
<1>11. ASSUME NEW a \in Agent, SubagentDrains(a)
       PROVE  TypeOK'
  <2>1. /\ pending' \in Seq(Agent) /\ notified' \in SUBSET Agent
        /\ heard' \in [Conversation -> SUBSET Agent]
    BY <1>11, DrainType DEF SubagentDrains, Conversation
  <2>2. QED
    BY <1>11, <2>1 DEF SubagentDrains, TypeOK
<1>12. ASSUME NEW a \in Agent, StartSync(a) \/ Progress(a)
       PROVE  TypeOK'
  <2>1. direct' \in Seq(Chunk) /\ bg' \in Seq(Chunk)
    BY <1>12, EmitType DEF StartSync, Progress, Status
  <2>2. QED
    BY <1>12, <2>1 DEF StartSync, Progress, To, TypeOK
<1>13. ASSUME NEW a \in Agent, ReturnSync(a) \/ ShowEnd(a)
       PROVE  TypeOK'
  <2>1. direct' \in Seq(Chunk) /\ bg' \in Seq(Chunk)
    BY <1>13, EmitType DEF ReturnSync, ShowEnd, Status
  <2>2. QED
    BY <1>13, <2>1 DEF ReturnSync, ShowEnd, To, TypeOK
<1>14. ASSUME NEW a \in Agent, LoopDone(a) \/ Watchdog(a) \/ WriteOutput(a)
       PROVE  TypeOK'
  BY <1>14 DEF LoopDone, Watchdog, WriteOutput, To, TypeOK
<1>15. ASSUME NEW a \in Agent, Enqueue(a)
       PROVE  TypeOK'
  BY <1>15 DEF Enqueue, To, TypeOK
<1>16. CASE UNCHANGED vars
  BY <1>16 DEF vars, TypeOK
<1>17. QED
  BY <1>1, <1>2, <1>3, <1>4, <1>5, <1>6, <1>7, <1>8, <1>9, <1>10, <1>11,
     <1>12, <1>13, <1>14, <1>15, <1>16 DEF Next, LoopNext, SessionNext, AgentNext

(* Every variable keeps its type, and a turn runs at most MaxRounds rounds *)
(* (run_agentic_loop).                                                     *)
THEOREM TypeCorrect == Spec => []TypeOK
<1>1. Init => TypeOK
  BY TypeInit
<1>2. TypeOK /\ [Next]_vars => TypeOK'
  BY TypeStep
<1>3. QED
  BY <1>1, <1>2, PTL DEF Spec
-----------------------------------------------------------------------------
(* Reports.  An agent posts as its last step, so a report that waits was   *)
(* not read, and what was read was posted.                                 *)
Reported == ToSet(pending) \cup notified

ReportsOnce ==
  /\ \A a \in Agent : mode[a] = "none" => pc[a] = "off"
  /\ \A a \in Agent : mode[a] = "sync" => pc[a] \notin {"written", "shown", "posted"}
  /\ \A a \in Reported : pc[a] = "posted"
  /\ ToSet(pending) \cap notified = {}
  /\ \A c \in Conversation : heard[c] \subseteq notified
ReportsInv == TypeOK /\ ReportsOnce

LEMMA ReportsInit == Init => ReportsOnce
BY ToSetEmpty DEF Init, ReportsOnce, Reported, Conversation

(* An agent that moves on without posting leaves the reports alone.        *)
LEMMA ReportsMove ==
  ASSUME ReportsInv, NEW a \in Agent, NEW place,
         To(a, place), UNCHANGED queue, mode' = mode \/ mode' = [mode EXCEPT ![a] = "background"],
         pc[a] # "posted", mode'[a] # "none",
         mode'[a] = "sync" => place \notin {"written", "shown", "posted"}
  PROVE  ReportsOnce'
<1>1. ToSet(pending)' = ToSet(pending) /\ Reported' = Reported
  BY DEF queue, Reported, ToSet
<1>2. a \notin Reported
  BY DEF ReportsInv, ReportsOnce
<1>3. Reported \subseteq Agent
  BY ToSetFacts DEF ReportsInv, TypeOK, Reported
<1>4. \A b \in Agent : b # a => mode'[b] = mode[b] /\ pc'[b] = pc[b]
  BY DEF ReportsInv, TypeOK, To
<1>5. pc'[a] = place
  BY DEF ReportsInv, TypeOK, To
<1>6. QED
  BY <1>1, <1>2, <1>3, <1>4, <1>5 DEF ReportsInv, ReportsOnce, queue

LEMMA ReportsDrain ==
  ASSUME ReportsInv, NEW c \in Conversation, DrainForNextTurn(c), UNCHANGED <<mode, pc>>
  PROVE  ReportsOnce'
<1>1. ToSet(pending)' = {} /\ notified' = Reported
  BY ToSetEmpty DEF DrainForNextTurn, ToSet, Reported
<1>2. Reported' = Reported
  BY <1>1 DEF Reported
<1>3. \A d \in Conversation : heard'[d] \subseteq notified'
  BY <1>1 DEF DrainForNextTurn, ReportsInv, ReportsOnce, TypeOK, Reported
<1>4. QED
  BY <1>1, <1>2, <1>3 DEF ReportsInv, ReportsOnce

LEMMA ReportsPost ==
  ASSUME ReportsInv, NEW a \in Agent, Enqueue(a)
  PROVE  /\ ReportsOnce'
         /\ ToSet(pending') = ToSet(pending) \cup {a}
         /\ a \notin Reported
<1>1. a \notin Reported /\ mode[a] # "sync" /\ mode[a] # "none"
  BY DEF Enqueue, ReportsInv, ReportsOnce
<1>2. pending' = Append(pending, a)
  BY <1>1 DEF Enqueue, Reported
<1>3. ToSet(pending') = ToSet(pending) \cup {a}
  BY <1>2, ToSetAppend DEF ReportsInv, TypeOK
<1>4. pc'[a] = "posted" /\ \A b \in Agent : b # a => pc'[b] = pc[b]
  BY DEF Enqueue, To, ReportsInv, TypeOK
<1>5. Reported \subseteq Agent
  BY ToSetFacts DEF ReportsInv, TypeOK, Reported
<1>6. ToSet(pending)' = ToSet(pending')
  BY DEF ToSet
<1>7. UNCHANGED <<mode, notified, heard>>
  BY DEF Enqueue, queue
<1>8. Reported' = Reported \cup {a}
  BY <1>3, <1>6, <1>7 DEF Reported
<1>9. ReportsOnce'
  BY <1>1, <1>3, <1>4, <1>5, <1>6, <1>7, <1>8 DEF ReportsInv, ReportsOnce, Reported
<1>10. QED
  BY <1>1, <1>3, <1>9

(* The steps of the agents that post nothing.                              *)
Moves(a) ==
  \/ Subtask(a) \/ StartSync(a) \/ Progress(a) \/ LoopDone(a) \/ ReturnSync(a)
  \/ Watchdog(a) \/ WriteOutput(a) \/ ShowEnd(a)

LEMMA MovesKeepReports ==
  ASSUME ReportsInv, NEW a \in Agent, Moves(a)
  PROVE  ReportsOnce' /\ UNCHANGED queue
<1> USE DEF agents
<1>1. CASE Subtask(a)
  <2>1. pc[a] # "posted" /\ mode'[a] = "background"
    BY <1>1 DEF Subtask, ReportsInv, ReportsOnce, TypeOK
  <2>2. QED
    BY <1>1, <2>1, ReportsMove DEF Subtask
<1>2. CASE StartSync(a)
  <2>1. mode[a] # "none"
    BY <1>2 DEF StartSync, ReportsInv, ReportsOnce
  <2>2. QED
    BY <1>2, <2>1, ReportsMove DEF StartSync
<1>3. CASE Progress(a)
  <2>1. mode[a] # "none"
    BY <1>3 DEF Progress, ReportsInv, ReportsOnce
  <2>2. QED
    BY <1>3, <2>1, ReportsMove DEF Progress
<1>4. CASE LoopDone(a)
  <2>1. mode[a] # "none"
    BY <1>4 DEF LoopDone, ReportsInv, ReportsOnce
  <2>2. PICK place \in {"finished", "waiting"} : To(a, place)
    BY <1>4 DEF LoopDone
  <2>3. QED
    BY <1>4, <2>1, <2>2, ReportsMove DEF LoopDone
<1>5. CASE ReturnSync(a)
  BY <1>5, ReportsMove DEF ReturnSync
<1>6. CASE Watchdog(a)
  <2>1. pc[a] # "posted"
    BY <1>6 DEF Watchdog, ReportsInv, ReportsOnce
  <2>2. QED
    BY <1>6, <2>1, ReportsMove DEF Watchdog
<1>7. CASE WriteOutput(a)
  <2>1. mode[a] # "none"
    BY <1>7 DEF WriteOutput, ReportsInv, ReportsOnce
  <2>2. QED
    BY <1>7, <2>1, ReportsMove DEF WriteOutput
<1>8. CASE ShowEnd(a)
  <2>1. mode[a] # "none" /\ mode[a] # "sync"
    BY <1>8 DEF ShowEnd, ReportsInv, ReportsOnce
  <2>2. QED
    BY <1>8, <2>1, ReportsMove DEF ShowEnd
<1>9. QED
  BY <1>1, <1>2, <1>3, <1>4, <1>5, <1>6, <1>7, <1>8 DEF Moves

(* The steps of the turn that do not touch the agents or the queue.        *)
Quiet == UNCHANGED <<mode, pc, pending, notified, heard>>

LEMMA QuietKeepsReports ==
  ASSUME ReportsInv, Quiet
  PROVE  ReportsOnce'
BY DEF Quiet, ReportsInv, ReportsOnce, Reported, ToSet

LEMMA CallKeepsReports ==
  ASSUME ReportsInv, NEW waited \in SUBSET Agent, NEW spawned \in SUBSET Agent,
         Call(waited, spawned)
  PROVE  ReportsOnce' /\ UNCHANGED queue
<1>1. UNCHANGED queue
  BY DEF Call
<1>2. ToSet(pending)' = ToSet(pending) /\ Reported' = Reported
  BY <1>1 DEF queue, Reported, ToSet
<1>3. \A b \in waited \cup spawned : pc[b] = "off" /\ b \notin Reported
  BY DEF Call, ReportsInv, ReportsOnce
<1>4. \A b \in waited \cup spawned :
        pc'[b] \in {"called", "started"} /\ mode'[b] # "none"
  BY DEF Call
<1>5. \A b \in Agent \ (waited \cup spawned) : pc'[b] = pc[b] /\ mode'[b] = mode[b]
  BY DEF Call
<1>6. Reported \subseteq Agent
  BY ToSetFacts DEF ReportsInv, TypeOK, Reported
<1>7. ReportsOnce'
  BY <1>1, <1>2, <1>3, <1>4, <1>5, <1>6 DEF ReportsInv, ReportsOnce, queue
<1>8. QED
  BY <1>1, <1>7

LEMMA TopDrains ==
  ASSUME NEW aborted \in BOOLEAN, LoopTop(aborted)
  PROVE  Quiet \/ (DrainForNextTurn(Main) /\ UNCHANGED <<mode, pc>>)
BY DEF LoopTop, Quiet, agents, queue

(* What a step does, as far as the reports are concerned.                  *)
LEMMA ReportSteps ==
  ASSUME [Next]_vars
  PROVE  \/ Quiet
         \/ \E waited, spawned \in SUBSET Agent : Call(waited, spawned)
         \/ \E c \in Conversation : DrainForNextTurn(c) /\ UNCHANGED <<mode, pc>>
         \/ \E a \in Agent : Moves(a)
         \/ \E a \in Agent : Enqueue(a)
<1> USE DEF session, agents, queue
<1>1. CASE ForwardBg \/ StartTurn \/ Answer \/ SessionNext \/ UNCHANGED vars
  BY <1>1 DEF ForwardBg, StartTurn, Answer, SessionNext, TakeDirect, TakeEvent,
              TakeDone, vars, Quiet
<1>2. ASSUME NEW a \in Agent, ConsumeResult(a)
      PROVE  Quiet
  BY <1>2 DEF ConsumeResult, Quiet
<1>3. ASSUME NEW aborted \in BOOLEAN, LoopTop(aborted)
      PROVE  Quiet \/ \E c \in Conversation :
                        DrainForNextTurn(c) /\ UNCHANGED <<mode, pc>>
  BY <1>3, TopDrains DEF Conversation
<1>4. ASSUME NEW a \in Agent, SubagentDrains(a)
      PROVE  \E c \in Conversation : DrainForNextTurn(c) /\ UNCHANGED <<mode, pc>>
  BY <1>4 DEF SubagentDrains, Conversation
<1>5. ASSUME NEW a \in Agent, Subtask(a) \/ AgentNext(a)
      PROVE  Moves(a) \/ Enqueue(a)
  BY <1>5 DEF AgentNext, Moves
<1>6. QED
  BY <1>1, <1>2, <1>3, <1>4, <1>5 DEF Next, LoopNext

LEMMA ReportsStep == ASSUME ReportsInv, [Next]_vars PROVE ReportsOnce'
BY ReportSteps, QuietKeepsReports, CallKeepsReports, ReportsDrain, MovesKeepReports,
   ReportsPost

LEMMA ReportsInvariant == Spec => []ReportsInv
<1>1. Init => ReportsInv
  BY TypeInit, ReportsInit DEF ReportsInv
<1>2. ReportsInv /\ [Next]_vars => ReportsInv'
  BY TypeStep, ReportsStep DEF ReportsInv
<1>3. QED
  BY <1>1, <1>2, PTL DEF Spec

Readers == [a \in Agent |-> {c \in Conversation : a \in heard[c]}]

LEMMA PostsAreReported ==
  ASSUME ReportsInv, NEW a \in Agent, Enqueue(a)
  PROVE  Reports!Post(a)
<1>1. ToSet(pending') = ToSet(pending) \cup {a} /\ a \notin Reported
  BY ReportsPost
<1>2. a \notin ToSet(pending) /\ \A c \in Conversation : a \notin heard[c]
  BY <1>1 DEF ReportsInv, ReportsOnce, Reported
<1>3. UNCHANGED heard
  BY DEF Enqueue
<1>4. QED
  BY <1>1, <1>2, <1>3 DEF Reports!Post

LEMMA DrainsAreReads ==
  ASSUME ReportsInv, NEW c \in Conversation, DrainForNextTurn(c)
  PROVE  Reports!ReadAll(c)
<1>1. ToSet(pending') = {}
  BY ToSetEmpty DEF DrainForNextTurn
<1>2. heard' = [heard EXCEPT ![c] = @ \cup ToSet(pending)]
  BY DEF DrainForNextTurn
<1>3. heard \in [Conversation -> SUBSET Agent]
  BY DEF ReportsInv, TypeOK
<1>4. ASSUME NEW a \in Agent
      PROVE  {d \in Conversation : a \in heard'[d]} =
               IF a \in ToSet(pending) THEN {c} ELSE {d \in Conversation : a \in heard[d]}
  <2>1. CASE a \in ToSet(pending)
    <3>1. \A d \in Conversation : a \notin heard[d]
      BY <2>1 DEF ReportsInv, ReportsOnce
    <3>2. QED
      BY <1>2, <1>3, <2>1, <3>1
  <2>2. CASE a \notin ToSet(pending)
    BY <1>2, <1>3, <2>2
  <2>3. QED
    BY <2>1, <2>2
<1>5. QED
  BY <1>1, <1>4 DEF Reports!ReadAll

LEMMA UnchangedReports ==
  ASSUME UNCHANGED queue
  PROVE  UNCHANGED <<ToSet(pending), Readers>>
BY DEF queue, ToSet, Readers

LEMMA ReportsRefine ==
  ASSUME ReportsInv, [Next]_vars
  PROVE  Reports!Next \/ UNCHANGED <<ToSet(pending), Readers>>
<1>1. CASE Quiet
  BY <1>1, UnchangedReports DEF Quiet, queue
<1>2. ASSUME NEW waited \in SUBSET Agent, NEW spawned \in SUBSET Agent, Call(waited, spawned)
      PROVE  UNCHANGED <<ToSet(pending), Readers>>
  BY <1>2, CallKeepsReports, UnchangedReports
<1>3. ASSUME NEW c \in Conversation, DrainForNextTurn(c)
      PROVE  Reports!Next
  BY <1>3, DrainsAreReads DEF Reports!Next
<1>4. ASSUME NEW a \in Agent, Moves(a)
      PROVE  UNCHANGED <<ToSet(pending), Readers>>
  BY <1>4, MovesKeepReports, UnchangedReports
<1>5. ASSUME NEW a \in Agent, Enqueue(a)
      PROVE  Reports!Next
  BY <1>5, PostsAreReported DEF Reports!Next
<1>6. QED
  BY <1>1, <1>2, <1>3, <1>4, <1>5, ReportSteps

LEMMA ReportsStart == Init => Reports!Init
BY ToSetEmpty DEF Init, Reports!Init, Conversation

(* Every report is read once, by one conversation, and a read takes all    *)
(* that wait (NotificationQueue).                                          *)
THEOREM ReportsAreReadOnce == Spec => ImplementsAgentReports
<1>1. Init => Reports!Init
  BY ReportsStart
<1>2. ReportsInv /\ [Next]_vars => [Reports!Next]_<<ToSet(pending), Readers>>
  BY ReportsRefine
<1>3. Spec => []ReportsInv
  BY ReportsInvariant
<1>4. QED
  BY <1>1, <1>2, <1>3, PTL DEF Spec, ImplementsAgentReports, Reports!Spec, Readers
-----------------------------------------------------------------------------
(* The turn.  Between turns its channels are empty; what it found in the   *)
(* queue waits at most until its first round.                              *)
Between == ~open => /\ direct = <<>> /\ events = <<>>
                    /\ rounds = 0 /\ backlog = {}
TurnInv ==
  /\ open <=> loop # "off"
  /\ batch # {} => loop = "tools"
  /\ Between
  /\ backlog \cap ToSet(pending) # {} => loop = "top" /\ rounds = 0
  /\ backlog \subseteq Reported

LEMMA TurnInit == Init => TurnInv
BY ToSetEmpty DEF Init, TurnInv, Between

(* An agent whose step posts nothing leaves the turn alone.                *)
LEMMA MovesKeepSession ==
  ASSUME NEW a \in Agent, Moves(a)
  PROVE  /\ UNCHANGED <<session, events, queue>>
         /\ direct' # direct => open
<1>1. CASE Subtask(a) \/ LoopDone(a) \/ Watchdog(a) \/ WriteOutput(a)
  BY <1>1 DEF Subtask, LoopDone, Watchdog, WriteOutput
<1>2. CASE StartSync(a) \/ Progress(a) \/ ReturnSync(a) \/ ShowEnd(a)
  BY <1>2 DEF StartSync, Progress, ReturnSync, ShowEnd, EmitToUi
<1>3. QED
  BY <1>1, <1>2 DEF Moves

LEMMA PostKeepsTurn ==
  ASSUME ReportsInv, TurnInv, NEW a \in Agent, Enqueue(a)
  PROVE  TurnInv'
<1>1. ToSet(pending') = ToSet(pending) \cup {a} /\ a \notin Reported
  BY ReportsPost
<1>2. UNCHANGED <<session, direct, events, notified>>
  BY DEF Enqueue
<1>3. ToSet(pending)' = ToSet(pending')
  BY DEF ToSet
<1>4. backlog' \cap ToSet(pending)' = backlog \cap ToSet(pending)
  BY <1>1, <1>2, <1>3 DEF session, TurnInv
<1>5. Reported \subseteq Reported'
  BY <1>1, <1>2, <1>3 DEF Reported
<1>6. QED
  BY <1>2, <1>4, <1>5 DEF TurnInv, Between, session

LEMMA TopKeepsTurn ==
  ASSUME TypeOK, TurnInv, NEW aborted \in BOOLEAN, LoopTop(aborted)
  PROVE  TurnInv'
<1>1. open /\ UNCHANGED <<open, batch>> /\ batch = {}
  BY DEF LoopTop, TurnInv
<1>2. CASE aborted \/ RoundsUsedUp
  <2>1. loop' = "returned" /\ UNCHANGED <<rounds, queue>>
    BY <1>2 DEF LoopTop
  <2>2. backlog' \cap ToSet(pending) = {}
    <3>1. CASE aborted
      BY <1>2, <3>1 DEF LoopTop
    <3>2. CASE ~aborted
      <4>1. backlog' = backlog /\ rounds = MaxRounds
        BY <1>2, <3>2 DEF LoopTop, RoundsUsedUp
      <4>2. rounds # 0
        BY <4>1, BoundsAssumption
      <4>3. QED
        BY <4>1, <4>2 DEF TurnInv
    <3>3. QED
      BY <3>1, <3>2
  <2>3. backlog' \subseteq backlog
    BY <1>2 DEF LoopTop
  <2>4. ToSet(pending)' = ToSet(pending) /\ Reported' = Reported
    BY <2>1 DEF queue, ToSet, Reported
  <2>5. QED
    BY <1>1, <2>1, <2>2, <2>3, <2>4 DEF TurnInv, Between
<1>3. CASE ~(aborted \/ RoundsUsedUp)
  <2>1. loop' = "call" /\ backlog' = backlog /\ DrainForNextTurn(Main)
    BY <1>3 DEF LoopTop
  <2>2. ToSet(pending)' = {} /\ Reported' = Reported
    BY <2>1, ToSetEmpty DEF DrainForNextTurn, ToSet, Reported
  <2>3. QED
    BY <1>1, <2>1, <2>2 DEF TurnInv, Between
<1>4. QED
  BY <1>2, <1>3

LEMMA TurnStep == ASSUME ReportsInv, TurnInv, [Next]_vars PROVE TurnInv'
<1> USE DEF session, agents, queue
<1>1. CASE ForwardBg \/ UNCHANGED vars
  BY <1>1 DEF ForwardBg, vars, TurnInv, Between, Reported, ToSet
<1>2. CASE StartTurn
  <2>1. rounds = 0 /\ batch = {} /\ direct = <<>> /\ events = <<>>
    BY <1>2 DEF StartTurn, TurnInv, Between
  <2>2. ToSet(pending)' = ToSet(pending) /\ Reported' = Reported
    BY <1>2 DEF StartTurn, ToSet, Reported
  <2>3. QED
    BY <1>2, <2>1, <2>2 DEF StartTurn, TurnInv, Between, Reported
<1>3. ASSUME NEW aborted \in BOOLEAN, LoopTop(aborted)
      PROVE  TurnInv'
  BY <1>3, TopKeepsTurn DEF ReportsInv
<1>4. CASE Answer
  <2>1. UNCHANGED <<open, batch, rounds, backlog, direct, events, pending, notified>>
    BY <1>4 DEF Answer
  <2>2. ToSet(pending)' = ToSet(pending) /\ Reported' = Reported
    BY <2>1 DEF ToSet, Reported
  <2>3. loop = "call" /\ loop' = "returned"
    BY <1>4 DEF Answer
  <2>4. QED
    BY <2>1, <2>2, <2>3 DEF TurnInv, Between
<1>5. ASSUME NEW waited \in SUBSET Agent, NEW spawned \in SUBSET Agent,
             Call(waited, spawned)
      PROVE  TurnInv'
  <2>1. UNCHANGED <<open, rounds, backlog, direct, events, pending, notified>>
    BY <1>5 DEF Call
  <2>2. ToSet(pending)' = ToSet(pending) /\ Reported' = Reported
    BY <2>1 DEF ToSet, Reported
  <2>3. loop = "call" /\ loop' = "tools"
    BY <1>5 DEF Call
  <2>4. QED
    BY <2>1, <2>2, <2>3 DEF TurnInv, Between
<1>6. ASSUME NEW a \in Agent, ConsumeResult(a)
      PROVE  TurnInv'
  <2>1. UNCHANGED <<open, rounds, backlog, pending, notified>>
    BY <1>6 DEF ConsumeResult
  <2>2. ToSet(pending)' = ToSet(pending) /\ Reported' = Reported
    BY <2>1 DEF ToSet, Reported
  <2>3. loop = "tools" /\ loop' \in {"top", "tools"}
    BY <1>6 DEF ConsumeResult
  <2>4. open /\ backlog \cap ToSet(pending) = {}
    BY <2>3 DEF TurnInv
  <2>5. batch' # {} => loop' = "tools"
    BY <1>6 DEF ConsumeResult
  <2>6. QED
    BY <2>1, <2>2, <2>3, <2>4, <2>5 DEF TurnInv, Between
<1>7. CASE TakeDirect \/ TakeEvent
  <2>1. open /\ UNCHANGED <<open, loop, rounds, batch, backlog, pending, notified>>
    BY <1>7 DEF TakeDirect, TakeEvent
  <2>2. QED
    BY <2>1 DEF TurnInv, Between, Reported, ToSet
<1>8. CASE TakeDone
  <2>1. UNCHANGED <<batch, pending, notified>> /\ batch = {}
    BY <1>8 DEF TakeDone, TurnInv
  <2>2. QED
    BY <1>8, <2>1 DEF TakeDone, TurnInv, Between
<1>9. ASSUME NEW a \in Agent, SubagentDrains(a)
      PROVE  TurnInv'
  <2>1. ToSet(pending)' = {} /\ Reported' = Reported
    BY <1>9, ToSetEmpty DEF SubagentDrains, DrainForNextTurn, ToSet, Reported
  <2>2. UNCHANGED <<session, direct, events>>
    BY <1>9 DEF SubagentDrains
  <2>3. QED
    BY <2>1, <2>2 DEF TurnInv, Between
<1>10. ASSUME NEW a \in Agent, Moves(a)
       PROVE  TurnInv'
  <2>1. UNCHANGED <<session, events, queue>> /\ (direct' # direct => open)
    BY <1>10, MovesKeepSession
  <2>2. QED
    BY <2>1 DEF TurnInv, Between, Reported, ToSet
<1>11. ASSUME NEW a \in Agent, Enqueue(a)
       PROVE  TurnInv'
  BY <1>11, PostKeepsTurn
<1>12. QED
  BY <1>1, <1>2, <1>3, <1>4, <1>5, <1>6, <1>7, <1>8, <1>9, <1>10, <1>11
     DEF Next, LoopNext, SessionNext, AgentNext, Moves

(* What waits in the queue when a turn begins is read by the time its loop *)
(* returns, unless it was aborted (run_agentic_loop).                      *)
THEOREM TurnsHearTheBacklog == Spec => []BacklogIsHeard
<1>1. TurnInv => BacklogIsHeard
  BY DEF TurnInv, BacklogIsHeard
<1>2. Init => TurnInv
  BY TurnInit
<1>3. ReportsInv /\ TurnInv /\ [Next]_vars => TurnInv'
  BY TurnStep
<1>4. QED
  BY <1>1, <1>2, <1>3, ReportsInvariant, PTL DEF Spec
-----------------------------------------------------------------------------
(* Rows.  Whoever is said to have ended, in a row or in an update on its   *)
(* way to one, was waited for or has tried to write its output.            *)
Ended(chunks) == {a \in Agent : \E i \in DOMAIN chunks : chunks[i] = Update(a, "Finished")}
RowsEnded == {a \in Agent : row[a] = "Finished"}
PastOutput == {a \in Agent : pc[a] \in {"written", "shown", "posted"}}
Claimed == RowsEnded \cup Ended(direct) \cup Ended(events) \cup Ended(bg) \cup PastOutput
Excused == tried \cup {a \in Agent : mode[a] = "sync"}
OutputInv == Claimed \subseteq Excused

LEMMA ChunkIsUpdate ==
  ASSUME NEW c \in Chunk
  PROVE  c = Update(c.agent, c.status)
BY DEF Chunk, Update

LEMMA EndedAppend ==
  ASSUME NEW s \in Seq(Chunk), NEW a \in Agent, NEW status \in Status
  PROVE  Ended(Append(s, Update(a, status))) \subseteq
           Ended(s) \cup (IF status = "Finished" THEN {a} ELSE {})
<1> DEFINE c == Update(a, status)
           t == Append(s, c)
<1>1. c \in Chunk /\ c.agent = a /\ c.status = status
  BY UpdateIsChunk
<1>2. /\ t \in Seq(Chunk)
      /\ Len(s) \in Nat /\ Len(t) = Len(s) + 1
      /\ \A i \in 1..Len(s) : t[i] = s[i]
      /\ t[Len(s) + 1] = c
  <2> HIDE DEF c
  <2>1. QED
    BY <1>1, AppendFacts
<1>3. DOMAIN s = 1..Len(s) /\ DOMAIN t = 1..(Len(s) + 1)
  BY <1>2
<1> HIDE DEF t
<1>4. ASSUME NEW b \in Ended(t)
      PROVE  b \in Ended(s) \cup (IF status = "Finished" THEN {a} ELSE {})
  <2>1. b \in Agent
    BY <1>4 DEF Ended
  <2>2. PICK i \in DOMAIN t : t[i] = Update(b, "Finished")
    BY <1>4 DEF Ended
  <2>3. CASE i = Len(s) + 1
    <3>1. c = Update(b, "Finished")
      BY <1>2, <2>2, <2>3
    <3>2. b = a /\ status = "Finished"
      BY <3>1 DEF Update
    <3>3. QED
      BY <3>2
  <2>4. CASE i \in 1..Len(s)
    <3>1. s[i] = Update(b, "Finished")
      BY <1>2, <2>2, <2>4
    <3>2. QED
      BY <1>3, <2>1, <2>4, <3>1 DEF Ended
  <2>5. QED
    BY <1>2, <1>3, <2>3, <2>4
<1>5. QED
  BY <1>4 DEF t

LEMMA EndedTail ==
  ASSUME NEW s \in Seq(Chunk), s # <<>>
  PROVE  Ended(Tail(s)) \subseteq Ended(s)
<1>1. /\ Len(s) \in Nat \ {0}
      /\ Tail(s) \in Seq(Chunk) /\ Len(Tail(s)) = Len(s) - 1
      /\ \A i \in 1..Len(Tail(s)) : Tail(s)[i] = s[i + 1]
  BY TailFacts
<1>2. \A i \in DOMAIN Tail(s) : i + 1 \in DOMAIN s /\ Tail(s)[i] = s[i + 1]
  BY <1>1
<1>3. QED
  BY <1>2 DEF Ended

LEMMA EndedEmpty == Ended(<<>>) = {}
BY DEF Ended

Notes == [i \in DOMAIN pending |-> Update(pending[i], "Finished")]

LEMMA NotesFacts ==
  ASSUME TypeOK
  PROVE  /\ Notes \in Seq(Chunk)
         /\ direct \o Notes \in Seq(Chunk)
         /\ Len(direct) \in Nat /\ Len(Notes) \in Nat /\ DOMAIN Notes = DOMAIN pending
         /\ DOMAIN direct = 1..Len(direct) /\ DOMAIN Notes = 1..Len(Notes)
         /\ DOMAIN (direct \o Notes) = 1..(Len(direct) + Len(Notes))
         /\ \A i \in 1..Len(direct) : (direct \o Notes)[i] = direct[i]
         /\ \A i \in 1..Len(Notes) :
              /\ (direct \o Notes)[Len(direct) + i] = Notes[i]
              /\ Notes[i] = Update(pending[i], "Finished") /\ pending[i] \in Agent
<1>1. Notes \in Seq(Chunk)
  BY NotesType DEF Notes
<1>2. direct \in Seq(Chunk) /\ pending \in Seq(Agent)
  BY DEF TypeOK
<1>3. DOMAIN Notes = DOMAIN pending
  BY DEF Notes
<1>4. \A i \in DOMAIN Notes : Notes[i] = Update(pending[i], "Finished") /\ pending[i] \in Agent
  BY <1>2, <1>3 DEF Notes
<1>5. QED
  BY <1>1, <1>2, <1>3, <1>4

LEMMA EndedNotes ==
  ASSUME TypeOK
  PROVE  Ended(direct \o Notes) \subseteq Ended(direct) \cup ToSet(pending)
<1> DEFINE t == direct \o Notes
<1>1. ASSUME NEW b \in Ended(t)
      PROVE  b \in Ended(direct) \cup ToSet(pending)
  <2>1. PICK i \in 1..(Len(direct) + Len(Notes)) : t[i] = Update(b, "Finished")
    BY <1>1, NotesFacts DEF Ended
  <2>2. CASE i \in 1..Len(direct)
    <3>1. direct[i] = Update(b, "Finished") /\ i \in DOMAIN direct
      BY <2>1, <2>2, NotesFacts
    <3>2. QED
      BY <1>1, <3>1 DEF Ended
  <2>3. CASE i \notin 1..Len(direct)
    <3>1. PICK j \in 1..Len(Notes) : i = Len(direct) + j
      <4>1. i - Len(direct) \in 1..Len(Notes) /\ i = Len(direct) + (i - Len(direct))
        BY <2>1, <2>3, NotesFacts
      <4>2. QED
        BY <4>1
    <3>2. Update(pending[j], "Finished") = Update(b, "Finished")
      BY <2>1, <3>1, NotesFacts
    <3>3. b = pending[j] /\ j \in DOMAIN pending
      BY <3>1, <3>2, NotesFacts DEF Update
    <3>4. QED
      BY <3>3 DEF ToSet
  <2>4. QED
    BY <2>2, <2>3
<1>2. QED
  BY <1>1

LEMMA SendEnds ==
  ASSUME TypeOK, NEW s \in Seq(Chunk), s # <<>>, Send(Head(s))
  PROVE  RowsEnded' \subseteq RowsEnded \cup Ended(s)
<1>1. Head(s) \in Chunk /\ Head(s) = s[1] /\ 1 \in DOMAIN s
  BY TailFacts
<1>2. Head(s).agent \in Agent
  BY <1>1, ChunkFacts
<1>3. row' = [row EXCEPT ![Head(s).agent] = Head(s).status]
  BY DEF Send
<1>4. \A a \in Agent : a # Head(s).agent => row'[a] = row[a]
  BY <1>3 DEF TypeOK
<1>5. row'[Head(s).agent] = Head(s).status
  BY <1>2, <1>3 DEF TypeOK
<1>6. Head(s).status = "Finished" => Head(s).agent \in Ended(s)
  BY <1>1, <1>2, ChunkIsUpdate DEF Ended
<1>7. QED
  BY <1>2, <1>4, <1>5, <1>6 DEF RowsEnded

LEMMA EmitEnds ==
  ASSUME TypeOK, NEW a \in Agent, NEW status \in Status, EmitToUi(Update(a, status))
  PROVE  Ended(direct') \cup Ended(bg') \subseteq
           Ended(direct) \cup Ended(bg) \cup (IF status = "Finished" THEN {a} ELSE {})
<1>1. direct \in Seq(Chunk) /\ bg \in Seq(Chunk)
  BY DEF TypeOK
<1>2. CASE open
  BY <1>1, <1>2, EndedAppend DEF EmitToUi
<1>3. CASE ~open
  BY <1>1, <1>3, EndedAppend DEF EmitToUi
<1>4. QED
  BY <1>2, <1>3

LEMMA PrimedEnds ==
  /\ Ended(direct)' = Ended(direct') /\ Ended(events)' = Ended(events')
  /\ Ended(bg)' = Ended(bg')
BY DEF Ended

LEMMA OutputInit == Init => OutputInv
<1> SUFFICES ASSUME Init
             PROVE  Claimed = {}
  BY DEF OutputInv
<1>1. RowsEnded = {} /\ PastOutput = {}
  BY DEF Init, RowsEnded, PastOutput
<1>2. QED
  BY <1>1, EndedEmpty DEF Init, Claimed

(* Whoever has an excuse keeps it.                                         *)
LEMMA ExcusedStays == ASSUME ReportsInv, [Next]_vars PROVE Excused \subseteq Excused'
<1> USE DEF session, agents, queue
<1>1. CASE UNCHANGED <<mode, tried>>
  BY <1>1 DEF Excused
<1>2. ASSUME NEW waited \in SUBSET Agent, NEW spawned \in SUBSET Agent,
             Call(waited, spawned)
      PROVE  Excused \subseteq Excused'
  <2>1. \A a \in Agent : mode[a] = "sync" => mode'[a] = "sync"
    BY <1>2 DEF Call
  <2>2. QED
    BY <1>2, <2>1 DEF Call, Excused
<1>3. ASSUME NEW a \in Agent, Subtask(a)
      PROVE  Excused \subseteq Excused'
  BY <1>3 DEF Subtask, Excused, ReportsInv, TypeOK
<1>4. ASSUME NEW a \in Agent, WriteOutput(a)
      PROVE  Excused \subseteq Excused'
  BY <1>4 DEF WriteOutput, Excused
<1>5. ASSUME NEW aborted \in BOOLEAN, LoopTop(aborted)
      PROVE  UNCHANGED <<mode, tried>>
  BY <1>5 DEF LoopTop
<1>6. ASSUME NEW a \in Agent, ConsumeResult(a) \/ SubagentDrains(a) \/ Enqueue(a)
                             \/ StartSync(a) \/ Progress(a) \/ LoopDone(a)
                             \/ ReturnSync(a) \/ Watchdog(a) \/ ShowEnd(a)
      PROVE  UNCHANGED <<mode, tried>>
  BY <1>6 DEF ConsumeResult, SubagentDrains, Enqueue, StartSync, Progress, LoopDone,
              ReturnSync, Watchdog, ShowEnd
<1>7. CASE ForwardBg \/ StartTurn \/ Answer \/ SessionNext \/ UNCHANGED vars
  BY <1>1, <1>7 DEF ForwardBg, StartTurn, Answer, SessionNext, TakeDirect, TakeEvent,
                    TakeDone, vars
<1>8. QED
  BY <1>1, <1>2, <1>3, <1>4, <1>5, <1>6, <1>7 DEF Next, LoopNext, AgentNext

LEMMA OutputStep == ASSUME ReportsInv, OutputInv, [Next]_vars PROVE OutputInv'
<1> USE DEF session, agents, queue
<1>0. TypeOK /\ Excused \subseteq Excused'
  BY ExcusedStays DEF ReportsInv
<1>1. SUFFICES Claimed' \subseteq Claimed \cup Excused'
  BY <1>0 DEF OutputInv
<1>2. CASE ForwardBg
  <2>1. RowsEnded' \subseteq RowsEnded \cup Ended(bg) /\ Ended(bg') \subseteq Ended(bg)
    BY <1>0, <1>2, SendEnds, EndedTail DEF ForwardBg, TypeOK
  <2>2. UNCHANGED <<direct, events, pc>>
    BY <1>2 DEF ForwardBg
  <2>3. QED
    BY <2>1, <2>2, PrimedEnds DEF Claimed, PastOutput
<1>3. CASE TakeDirect
  <2>1. /\ RowsEnded' \subseteq RowsEnded \cup Ended(direct)
        /\ Ended(direct') \subseteq Ended(direct)
    BY <1>0, <1>3, SendEnds, EndedTail DEF TakeDirect, TypeOK
  <2>2. UNCHANGED <<bg, events, pc>>
    BY <1>3 DEF TakeDirect
  <2>3. QED
    BY <2>1, <2>2, PrimedEnds DEF Claimed, PastOutput
<1>4. CASE TakeEvent
  <2>1. /\ RowsEnded' \subseteq RowsEnded \cup Ended(events)
        /\ Ended(events') \subseteq Ended(events)
    BY <1>0, <1>4, SendEnds, EndedTail DEF TakeEvent, TypeOK
  <2>2. UNCHANGED <<bg, direct, pc>>
    BY <1>4 DEF TakeEvent
  <2>3. QED
    BY <2>1, <2>2, PrimedEnds DEF Claimed, PastOutput
<1>5. CASE TakeDone
  <2>1. Ended(direct') = {} /\ UNCHANGED <<row, events, bg, pc>>
    BY <1>5, EndedEmpty DEF TakeDone
  <2>2. QED
    BY <2>1, PrimedEnds DEF Claimed, PastOutput, RowsEnded
<1>6. CASE UNCHANGED <<row, direct, events, bg, pc>>
  BY <1>6, PrimedEnds DEF Claimed, PastOutput, RowsEnded
<1>7. ASSUME NEW aborted \in BOOLEAN, LoopTop(aborted)
      PROVE  Claimed' \subseteq Claimed \cup Excused'
  <2>1. UNCHANGED <<row, events, bg, pc>> /\ (direct' = direct \/ direct' = direct \o Notes)
    BY <1>7 DEF LoopTop, Notes
  <2>2. Ended(direct') \subseteq Ended(direct) \cup ToSet(pending)
    BY <1>0, <2>1, EndedNotes
  <2>3. ToSet(pending) \subseteq PastOutput
    BY <1>0, ToSetFacts DEF ReportsInv, ReportsOnce, Reported, PastOutput, TypeOK
  <2>4. QED
    BY <2>1, <2>2, <2>3, PrimedEnds DEF Claimed, PastOutput, RowsEnded
<1>8. ASSUME NEW a \in Agent, ConsumeResult(a)
      PROVE  Claimed' \subseteq Claimed \cup Excused'
  <2>1. UNCHANGED <<row, bg, pc>>
    BY <1>8 DEF ConsumeResult
  <2>2. /\ direct' = direct \/ direct' = Append(direct, Update(a, "Background"))
        /\ events' = events \/ events' = Append(events, Update(a, "Background"))
    BY <1>8 DEF ConsumeResult
  <2>3. "Background" \in Status /\ "Background" # "Finished"
    BY DEF Status
  <2>4. Ended(direct') \subseteq Ended(direct) /\ Ended(events') \subseteq Ended(events)
    BY <1>0, <2>2, <2>3, EndedAppend DEF TypeOK
  <2>5. QED
    BY <2>1, <2>4, PrimedEnds DEF Claimed, PastOutput, RowsEnded
<1>9. ASSUME NEW waited \in SUBSET Agent, NEW spawned \in SUBSET Agent,
             Call(waited, spawned)
      PROVE  Claimed' \subseteq Claimed \cup Excused'
  <2>1. UNCHANGED <<row, direct, events, bg>>
    BY <1>9 DEF Call
  <2>2. \A a \in Agent : pc'[a] = pc[a] \/ pc'[a] \in {"called", "started"}
    BY <1>9 DEF Call
  <2>3. PastOutput' \subseteq PastOutput
    BY <2>2 DEF PastOutput
  <2>4. QED
    BY <2>1, <2>3, PrimedEnds DEF Claimed, RowsEnded
<1>10. ASSUME NEW a \in Agent, Subtask(a) \/ LoopDone(a) \/ Watchdog(a)
       PROVE  Claimed' \subseteq Claimed \cup Excused'
  <2>1. UNCHANGED <<row, direct, events, bg>>
    BY <1>10 DEF Subtask, LoopDone, Watchdog
  <2>2. PastOutput' \subseteq PastOutput
    BY <1>0, <1>10 DEF Subtask, LoopDone, Watchdog, To, PastOutput, TypeOK
  <2>3. QED
    BY <2>1, <2>2, PrimedEnds DEF Claimed, RowsEnded
<1>11. ASSUME NEW a \in Agent, StartSync(a) \/ Progress(a)
       PROVE  Claimed' \subseteq Claimed \cup Excused'
  <2>1. "Running" \in Status /\ "Running" # "Finished"
    BY DEF Status
  <2>2. Ended(direct') \cup Ended(bg') \subseteq Ended(direct) \cup Ended(bg)
    BY <1>0, <1>11, <2>1, EmitEnds DEF StartSync, Progress
  <2>3. UNCHANGED <<row, events>>
    BY <1>11 DEF StartSync, Progress
  <2>4. PastOutput' \subseteq PastOutput
    BY <1>0, <1>11 DEF StartSync, Progress, To, PastOutput, TypeOK
  <2>5. QED
    BY <2>2, <2>3, <2>4, PrimedEnds DEF Claimed, RowsEnded
<1>12. ASSUME NEW a \in Agent, ReturnSync(a)
       PROVE  Claimed' \subseteq Claimed \cup Excused'
  <2>1. Ended(direct') \cup Ended(bg') \subseteq Ended(direct) \cup Ended(bg) \cup {a}
    BY <1>0, <1>12, EmitEnds DEF ReturnSync, Status
  <2>2. UNCHANGED <<row, events>>
    BY <1>12 DEF ReturnSync
  <2>3. PastOutput' \subseteq PastOutput
    BY <1>0, <1>12 DEF ReturnSync, To, PastOutput, TypeOK
  <2>4. a \in Excused
    BY <1>12 DEF ReturnSync, Excused
  <2>5. QED
    BY <1>0, <2>1, <2>2, <2>3, <2>4, PrimedEnds DEF Claimed, RowsEnded
<1>13. ASSUME NEW a \in Agent, WriteOutput(a)
       PROVE  Claimed' \subseteq Claimed \cup Excused'
  <2>1. UNCHANGED <<row, direct, events, bg>> /\ a \in Excused'
    BY <1>13 DEF WriteOutput, Excused
  <2>2. PastOutput' \subseteq PastOutput \cup {a}
    BY <1>0, <1>13 DEF WriteOutput, To, PastOutput, TypeOK
  <2>3. QED
    BY <2>1, <2>2, PrimedEnds DEF Claimed, RowsEnded
<1>14. ASSUME NEW a \in Agent, ShowEnd(a)
       PROVE  Claimed' \subseteq Claimed \cup Excused'
  <2>1. Ended(direct') \cup Ended(bg') \subseteq Ended(direct) \cup Ended(bg) \cup {a}
    BY <1>0, <1>14, EmitEnds DEF ShowEnd, Status
  <2>2. UNCHANGED <<row, events>>
    BY <1>14 DEF ShowEnd
  <2>3. a \in PastOutput /\ PastOutput' \subseteq PastOutput
    BY <1>0, <1>14 DEF ShowEnd, To, PastOutput, TypeOK
  <2>4. QED
    BY <2>1, <2>2, <2>3, PrimedEnds DEF Claimed, RowsEnded
<1>15. ASSUME NEW a \in Agent, Enqueue(a)
       PROVE  Claimed' \subseteq Claimed \cup Excused'
  <2>1. UNCHANGED <<row, direct, events, bg>>
    BY <1>15 DEF Enqueue
  <2>2. PastOutput' \subseteq PastOutput
    BY <1>0, <1>15 DEF Enqueue, To, PastOutput, TypeOK
  <2>3. QED
    BY <2>1, <2>2, PrimedEnds DEF Claimed, RowsEnded
<1>16. ASSUME NEW a \in Agent, SubagentDrains(a)
       PROVE  UNCHANGED <<row, direct, events, bg, pc>>
  BY <1>16 DEF SubagentDrains
<1>17. CASE StartTurn \/ Answer \/ UNCHANGED vars
  BY <1>6, <1>17 DEF StartTurn, Answer, vars
<1>18. QED
  BY <1>2, <1>3, <1>4, <1>5, <1>6, <1>7, <1>8, <1>9, <1>10, <1>11, <1>12, <1>13,
     <1>14, <1>15, <1>16, <1>17 DEF Next, LoopNext, SessionNext, AgentNext

(* A row that shows the end of a background agent comes after the attempt  *)
(* to write its output file, through all three channels (spawn_background).*)
THEOREM EndsAreShownAfterTheOutput == Spec => []OutputBeforeTheRow
<1>1. OutputInv => OutputBeforeTheRow
  BY DEF OutputInv, Claimed, RowsEnded, Excused, OutputBeforeTheRow
<1>2. Init => OutputInv
  BY OutputInit
<1>3. ReportsInv /\ OutputInv /\ [Next]_vars => OutputInv'
  BY OutputStep
<1>4. QED
  BY <1>1, <1>2, <1>3, ReportsInvariant, PTL DEF Spec
-----------------------------------------------------------------------------
(* Late ends.  Shown says of an agent what EndsFinished says of its row and *)
(* the updates behind it, without the sequence they make together.         *)
Only(a, chunks) ==
  \A j \in DOMAIN chunks : chunks[j].agent = a => chunks[j].status = "Finished"
None(a, chunks) == \A j \in DOMAIN chunks : chunks[j].agent # a
Shown(a) == (row[a] = "Finished" /\ Only(a, bg)) \/ EndsFinished(a, bg)
LateInv ==
  \A a \in late : /\ pc[a] \in {"shown", "posted"} /\ a \notin batch
                  /\ Shown(a) /\ Only(a, direct) /\ None(a, events)

LEMMA ShownMeans ==
  ASSUME TypeOK, NEW a \in Agent, Shown(a)
  PROVE  EndsFinished(a, Coming(a))
<1> DEFINE first == Update(a, row[a])
           s == <<first>> \o bg
<1>1. bg \in Seq(Chunk) /\ Len(bg) \in Nat /\ DOMAIN bg = 1..Len(bg)
  BY DEF TypeOK
<1>2. DOMAIN s = 1..(1 + Len(bg)) /\ s[1] = first /\ \A j \in 1..Len(bg) : s[1 + j] = bg[j]
  <2> HIDE DEF first
  <2>1. QED
    BY <1>1
<1> HIDE DEF s, first
<1>3. ASSUME NEW j \in DOMAIN s, j > 1
      PROVE  j - 1 \in DOMAIN bg /\ s[j] = bg[j - 1]
  <2>1. j - 1 \in 1..Len(bg) /\ j = 1 + (j - 1)
    BY <1>1, <1>2, <1>3
  <2>2. s[1 + (j - 1)] = bg[j - 1]
    BY <1>2, <2>1
  <2>3. QED
    BY <1>1, <2>1, <2>2
<1>4. CASE row[a] = "Finished" /\ Only(a, bg)
  <2>1. s[1] = Update(a, "Finished") /\ 1 \in DOMAIN s
    BY <1>1, <1>2, <1>4 DEF first
  <2>2. \A j \in DOMAIN s : j > 1 /\ s[j].agent = a => s[j].status = "Finished"
    BY <1>3, <1>4 DEF Only
  <2>3. QED
    BY <2>1, <2>2 DEF EndsFinished, Coming, s, first
<1>5. CASE EndsFinished(a, bg)
  <2>1. PICK i \in DOMAIN bg :
          /\ bg[i] = Update(a, "Finished")
          /\ \A j \in DOMAIN bg : j > i /\ bg[j].agent = a => bg[j].status = "Finished"
    BY <1>5 DEF EndsFinished
  <2>2. 1 + i \in DOMAIN s /\ s[1 + i] = Update(a, "Finished")
    BY <1>1, <1>2, <2>1
  <2>3. ASSUME NEW j \in DOMAIN s, j > 1 + i, s[j].agent = a
        PROVE  s[j].status = "Finished"
    <3>1. j > 1 /\ j - 1 > i
      BY <1>1, <1>2, <2>1, <2>3
    <3>2. QED
      BY <1>3, <2>1, <2>3, <3>1
  <2>4. QED
    BY <2>2, <2>3 DEF EndsFinished, Coming, s, first
<1>6. QED
  BY <1>4, <1>5 DEF Shown

LEMMA AppendKeeps ==
  ASSUME NEW s \in Seq(Chunk), NEW c \in Chunk, NEW a \in Agent,
         c.agent = a => c.status = "Finished"
  PROVE  /\ Only(a, s) => Only(a, Append(s, c))
         /\ EndsFinished(a, s) => EndsFinished(a, Append(s, c))
<1> DEFINE t == Append(s, c)
<1>1. /\ Len(s) \in Nat /\ DOMAIN s = 1..Len(s) /\ DOMAIN t = 1..(Len(s) + 1)
      /\ \A i \in 1..Len(s) : t[i] = s[i]
      /\ t[Len(s) + 1] = c
  BY AppendFacts
<1> HIDE DEF t
<1>2. \A j \in DOMAIN t : (j \in DOMAIN s /\ t[j] = s[j]) \/ t[j] = c
  BY <1>1
<1>3. \A i \in DOMAIN s : i \in DOMAIN t /\ t[i] = s[i]
  BY <1>1
<1>4. Only(a, s) => Only(a, t)
  BY <1>2 DEF Only
<1>5. EndsFinished(a, s) => EndsFinished(a, t)
  BY <1>2, <1>3 DEF EndsFinished
<1>6. QED
  BY <1>4, <1>5 DEF t

LEMMA AppendEnds ==
  ASSUME NEW s \in Seq(Chunk), NEW a \in Agent
  PROVE  EndsFinished(a, Append(s, Update(a, "Finished")))
<1> DEFINE c == Update(a, "Finished")
           t == Append(s, c)
<1>1. c \in Chunk
  BY UpdateIsChunk DEF Status
<1>2. Len(s) \in Nat /\ DOMAIN t = 1..(Len(s) + 1) /\ t[Len(s) + 1] = c
  <2> HIDE DEF c
  <2>1. QED
    BY <1>1, AppendFacts
<1> HIDE DEF t
<1>3. Len(s) + 1 \in DOMAIN t /\ \A j \in DOMAIN t : ~(j > Len(s) + 1)
  BY <1>2
<1>4. QED
  BY <1>2, <1>3 DEF EndsFinished, t

LEMMA TailKeeps ==
  ASSUME NEW s \in Seq(Chunk), s # <<>>, NEW a \in Agent
  PROVE  /\ Only(a, s) => Only(a, Tail(s))
         /\ None(a, s) => None(a, Tail(s))
         /\ EndsFinished(a, s) =>
              \/ EndsFinished(a, Tail(s))
              \/ Head(s) = Update(a, "Finished") /\ Only(a, Tail(s))
<1> DEFINE t == Tail(s)
<1>1. /\ Len(s) \in Nat \ {0} /\ Head(s) = s[1]
      /\ DOMAIN s = 1..Len(s) /\ DOMAIN t = 1..(Len(s) - 1)
      /\ \A i \in 1..(Len(s) - 1) : t[i] = s[i + 1]
  BY TailFacts
<1> HIDE DEF t
<1>2. \A j \in DOMAIN t : j + 1 \in DOMAIN s /\ t[j] = s[j + 1] /\ j \in Nat \ {0}
  BY <1>1
<1>3. (Only(a, s) => Only(a, t)) /\ (None(a, s) => None(a, t))
  BY <1>2 DEF Only, None
<1>4. ASSUME EndsFinished(a, s)
      PROVE  EndsFinished(a, t) \/ (Head(s) = Update(a, "Finished") /\ Only(a, t))
  <2>1. PICK i \in DOMAIN s :
          /\ s[i] = Update(a, "Finished")
          /\ \A j \in DOMAIN s : j > i /\ s[j].agent = a => s[j].status = "Finished"
    BY <1>4 DEF EndsFinished
  <2>2. CASE i = 1
    <3>1. \A j \in DOMAIN t : j + 1 > i
      BY <1>2, <2>2
    <3>2. Only(a, t)
      BY <1>2, <2>1, <3>1 DEF Only
    <3>3. QED
      BY <1>1, <2>1, <2>2, <3>2
  <2>3. CASE i # 1
    <3>1. i - 1 \in DOMAIN t /\ t[i - 1] = Update(a, "Finished")
      <4>1. i - 1 \in 1..(Len(s) - 1) /\ (i - 1) + 1 = i
        BY <1>1, <2>3
      <4>2. QED
        BY <1>1, <2>1, <4>1
    <3>2. \A j \in DOMAIN t : j > i - 1 => j + 1 > i
      BY <1>1, <1>2
    <3>3. \A j \in DOMAIN t : j > i - 1 /\ t[j].agent = a => t[j].status = "Finished"
      BY <1>2, <2>1, <3>2
    <3>4. QED
      BY <3>1, <3>3 DEF EndsFinished
  <2>4. QED
    BY <2>2, <2>3
<1>5. QED
  BY <1>3, <1>4 DEF t

LEMMA NotesKeep ==
  ASSUME TypeOK, NEW a \in Agent, Only(a, direct)
  PROVE  Only(a, direct \o Notes)
<1> DEFINE t == direct \o Notes
<1>1. ASSUME NEW j \in DOMAIN t, t[j].agent = a
      PROVE  t[j].status = "Finished"
  <2>1. j \in 1..(Len(direct) + Len(Notes))
    BY <1>1, NotesFacts
  <2>2. CASE j \in 1..Len(direct)
    BY <1>1, <2>2, NotesFacts DEF Only
  <2>3. CASE j \notin 1..Len(direct)
    <3>1. PICK i \in 1..Len(Notes) : j = Len(direct) + i
      <4>1. j - Len(direct) \in 1..Len(Notes) /\ j = Len(direct) + (j - Len(direct))
        BY <2>1, <2>3, NotesFacts
      <4>2. QED
        BY <4>1
    <3>2. t[j] = Update(pending[i], "Finished")
      BY <3>1, NotesFacts
    <3>3. QED
      BY <3>2 DEF Update
  <2>4. QED
    BY <2>2, <2>3
<1>2. QED
  BY <1>1 DEF Only

(* An update that is sent on: Finished or about somebody else.             *)
LEMMA SendKeeps ==
  ASSUME TypeOK, NEW s \in Seq(Chunk), s # <<>>, Send(Head(s)), UNCHANGED bg,
         NEW a \in Agent, Only(a, s), Shown(a)
  PROVE  Shown(a)'
<1>1. Head(s) \in Chunk /\ Head(s) = s[1] /\ 1 \in DOMAIN s
  BY TailFacts
<1>2. row' = [row EXCEPT ![Head(s).agent] = Head(s).status] /\ Head(s).agent \in Agent
  BY <1>1, ChunkFacts DEF Send
<1>3. CASE Head(s).agent = a
  <2>1. Head(s).status = "Finished"
    BY <1>1, <1>3 DEF Only
  <2>2. row'[a] = "Finished"
    BY <1>2, <1>3, <2>1 DEF TypeOK
  <2>3. QED
    BY <2>2 DEF Shown, Only, EndsFinished
<1>4. CASE Head(s).agent # a
  <2>1. row'[a] = row[a]
    BY <1>2, <1>4 DEF TypeOK
  <2>2. QED
    BY <2>1 DEF Shown, Only, EndsFinished
<1>5. QED
  BY <1>3, <1>4

LEMMA ForwardKeeps ==
  ASSUME TypeOK, ForwardBg, NEW a \in Agent, Shown(a)
  PROVE  Shown(a)'
<1>1. bg # <<>> /\ bg \in Seq(Chunk) /\ bg' = Tail(bg) /\ Send(Head(bg))
  BY DEF ForwardBg, TypeOK
<1>2. Head(bg) \in Chunk /\ Head(bg) = bg[1] /\ 1 \in DOMAIN bg
  BY <1>1, TailFacts
<1>3. row' = [row EXCEPT ![Head(bg).agent] = Head(bg).status] /\ Head(bg).agent \in Agent
  BY <1>1, <1>2, ChunkFacts DEF Send
<1>4. CASE EndsFinished(a, bg')
  BY <1>4 DEF Shown, EndsFinished
<1>5. CASE Only(a, bg') /\ Head(bg) = Update(a, "Finished")
  <2>1. row'[a] = "Finished"
    BY <1>3, <1>5 DEF TypeOK, Update
  <2>2. QED
    BY <1>5, <2>1 DEF Shown, Only
<1>6. CASE row[a] = "Finished" /\ Only(a, bg)
  <2>1. Only(a, bg')
    BY <1>1, <1>6, TailKeeps
  <2>2. Head(bg).agent = a => Head(bg).status = "Finished"
    BY <1>2, <1>6 DEF Only
  <2>3. row'[a] = "Finished"
    BY <1>3, <1>6, <2>2 DEF TypeOK
  <2>4. QED
    BY <2>1, <2>3 DEF Shown, Only
<1>7. CASE EndsFinished(a, bg)
  <2>1. \/ EndsFinished(a, bg')
        \/ Head(bg) = Update(a, "Finished") /\ Only(a, bg')
    BY <1>1, <1>7, TailKeeps
  <2>2. QED
    BY <1>4, <1>5, <2>1
<1>8. QED
  BY <1>6, <1>7 DEF Shown

(* An update that is emitted, under the same condition.                    *)
LEMMA EmitKeeps ==
  ASSUME TypeOK, NEW b \in Agent, NEW status \in Status, EmitToUi(Update(b, status)),
         UNCHANGED row, NEW a \in Agent, b = a => status = "Finished",
         Shown(a), Only(a, direct)
  PROVE  Shown(a)' /\ Only(a, direct)'
<1> DEFINE c == Update(b, status)
<1>1. c \in Chunk /\ (c.agent = a => c.status = "Finished")
  BY UpdateIsChunk
<1>2. direct \in Seq(Chunk) /\ bg \in Seq(Chunk)
  BY DEF TypeOK
<1>3. EmitToUi(c)
  OBVIOUS
<1> HIDE DEF c
<1>4. CASE open
  <2>1. direct' = Append(direct, c) /\ bg' = bg
    BY <1>3, <1>4 DEF EmitToUi
  <2>2. Only(a, direct')
    BY <1>1, <1>2, <2>1, AppendKeeps
  <2>3. QED
    BY <2>1, <2>2 DEF Shown, Only, EndsFinished
<1>5. CASE ~open
  <2>1. bg' = Append(bg, c) /\ direct' = direct
    BY <1>3, <1>5 DEF EmitToUi
  <2>2. /\ Only(a, bg) => Only(a, bg')
        /\ EndsFinished(a, bg) => EndsFinished(a, bg')
    BY <1>1, <1>2, <2>1, AppendKeeps
  <2>3. QED
    BY <2>1, <2>2 DEF Shown, Only, EndsFinished
<1>6. QED
  BY <1>4, <1>5

LEMMA LateFrame ==
  ASSUME LateInv, UNCHANGED <<late, row, direct, events, bg>>,
         \A a \in late : pc'[a] \in {"shown", "posted"} /\ a \notin batch'
  PROVE  LateInv'
BY DEF LateInv, Shown, Only, None, EndsFinished

LEMMA LateInit == Init => LateInv
BY DEF Init, LateInv

LEMMA LateEmits ==
  ASSUME ReportsInv, LateInv, NEW b \in Agent, b \notin late,
         NEW status \in Status, EmitToUi(Update(b, status)),
         UNCHANGED <<row, events, late, batch>>,
         \A a \in Agent : a # b => pc'[a] = pc[a]
  PROVE  LateInv'
<1>1. ASSUME NEW a \in late'
      PROVE  /\ pc'[a] \in {"shown", "posted"} /\ a \notin batch'
             /\ Shown(a)' /\ Only(a, direct)' /\ None(a, events)'
  <2>1. a \in late /\ a \in Agent /\ a # b
    BY <1>1 DEF ReportsInv, TypeOK
  <2>2. Shown(a)' /\ Only(a, direct)'
    BY <2>1, EmitKeeps DEF LateInv, ReportsInv
  <2>3. QED
    BY <2>1, <2>2 DEF LateInv, None
<1>2. QED
  BY <1>1 DEF LateInv

LEMMA LateEnd ==
  ASSUME ReportsInv, TurnInv, LateInv, NEW b \in Agent, ShowEnd(b)
  PROVE  LateInv'
<1>1. TypeOK /\ late \subseteq Agent /\ UNCHANGED <<session, events, row>>
  BY DEF ShowEnd, ReportsInv, TypeOK
<1>2. pc'[b] = "shown" /\ \A a \in Agent : a # b => pc'[a] = pc[a]
  BY <1>1 DEF ShowEnd, To, TypeOK
<1>3. EmitToUi(Update(b, "Finished")) /\ "Finished" \in Status
  BY DEF ShowEnd, Status
<1>4. ASSUME NEW a \in late
      PROVE  /\ pc'[a] \in {"shown", "posted"} /\ a \notin batch'
             /\ Shown(a)' /\ Only(a, direct)' /\ None(a, events)'
  <2>1. Shown(a)' /\ Only(a, direct)'
    BY <1>1, <1>3, <1>4, EmitKeeps DEF LateInv
  <2>2. QED
    BY <1>1, <1>2, <1>4, <2>1 DEF LateInv, None, session
<1>5. CASE open
  <2>1. late' = late
    BY <1>5 DEF ShowEnd
  <2>2. QED
    BY <1>4, <2>1 DEF LateInv
<1>6. CASE ~open
  <2>1. late' = late \cup {b}
    BY <1>6 DEF ShowEnd
  <2>2. direct = <<>> /\ events = <<>> /\ batch = {}
    BY <1>6 DEF TurnInv, Between
  <2>3. bg' = Append(bg, Update(b, "Finished")) /\ direct' = <<>>
        /\ events' = <<>> /\ batch' = {}
    BY <1>1, <1>3, <1>6, <2>2 DEF EmitToUi, session
  <2>4. EndsFinished(b, bg')
    BY <1>1, <2>3, AppendEnds DEF TypeOK
  <2>5. Shown(b)' /\ Only(b, direct)' /\ None(b, events)'
    BY <2>3, <2>4 DEF Shown, Only, None, EndsFinished
  <2>6. QED
    BY <1>2, <1>4, <2>1, <2>3, <2>5 DEF LateInv
<1>7. QED
  BY <1>5, <1>6

(* The channels of the turn: what is taken from them, dropped or added.    *)
LEMMA LateTakes ==
  ASSUME ReportsInv, LateInv, TakeDirect \/ TakeEvent \/ TakeDone \/ ForwardBg
  PROVE  LateInv'
<1> USE DEF session, agents, queue
<1>1. TypeOK /\ UNCHANGED <<late, pc, batch>> /\ late \subseteq Agent
  BY DEF TakeDirect, TakeEvent, TakeDone, ForwardBg, ReportsInv, TypeOK
<1>2. direct \in Seq(Chunk) /\ events \in Seq(Chunk)
  BY <1>1 DEF TypeOK
<1>3. SUFFICES ASSUME NEW a \in late
               PROVE  Shown(a)' /\ Only(a, direct)' /\ None(a, events)'
  BY <1>1 DEF LateInv
<1>4. a \in Agent /\ Shown(a) /\ Only(a, direct) /\ None(a, events)
  BY <1>1 DEF LateInv
<1>5. CASE TakeDirect
  <2>1. direct # <<>> /\ Send(Head(direct)) /\ direct' = Tail(direct)
        /\ UNCHANGED <<bg, events>>
    BY <1>5 DEF TakeDirect
  <2>2. Shown(a)' /\ Only(a, direct')
    BY <1>1, <1>2, <1>4, <2>1, SendKeeps, TailKeeps
  <2>3. QED
    BY <1>4, <2>1, <2>2 DEF Only, None
<1>6. CASE TakeEvent
  <2>1. events # <<>> /\ Send(Head(events)) /\ events' = Tail(events)
        /\ UNCHANGED <<bg, direct>>
    BY <1>6 DEF TakeEvent
  <2>2. Only(a, events)
    BY <1>4 DEF Only, None
  <2>3. Shown(a)' /\ None(a, events')
    BY <1>1, <1>2, <1>4, <2>1, <2>2, SendKeeps, TailKeeps
  <2>4. QED
    BY <1>4, <2>1, <2>3 DEF Only, None
<1>7. CASE TakeDone
  <2>1. direct' = <<>> /\ UNCHANGED <<bg, row, events>>
    BY <1>7 DEF TakeDone
  <2>2. QED
    BY <1>4, <2>1 DEF Shown, Only, None, EndsFinished
<1>8. CASE ForwardBg
  <2>1. Shown(a)' /\ UNCHANGED <<direct, events>>
    BY <1>1, <1>4, <1>8, ForwardKeeps DEF ForwardBg
  <2>2. QED
    BY <1>4, <2>1 DEF Only, None
<1>9. QED
  BY <1>5, <1>6, <1>7, <1>8

LEMMA LateTop ==
  ASSUME ReportsInv, LateInv, NEW aborted \in BOOLEAN, LoopTop(aborted)
  PROVE  LateInv'
<1>1. TypeOK /\ late \subseteq Agent /\ UNCHANGED <<late, pc, batch, row, bg, events>>
  BY DEF LoopTop, agents, ReportsInv, TypeOK
<1>2. direct' = direct \/ direct' = direct \o Notes
  BY DEF LoopTop, Notes
<1>3. ASSUME NEW a \in late
      PROVE  Only(a, direct)'
  <2>1. a \in Agent /\ Only(a, direct)
    BY <1>1 DEF LateInv
  <2>2. Only(a, direct \o Notes)
    BY <1>1, <2>1, NotesKeep
  <2>3. Only(a, direct')
    BY <1>2, <2>1, <2>2
  <2>4. QED
    BY <2>3 DEF Only
<1>4. \A a \in late : Shown(a)' /\ None(a, events)'
  BY <1>1 DEF LateInv, Shown, Only, None, EndsFinished
<1>5. QED
  BY <1>1, <1>3, <1>4 DEF LateInv

LEMMA LateConsumes ==
  ASSUME ReportsInv, LateInv, NEW b \in Agent, ConsumeResult(b)
  PROVE  LateInv'
<1>1. TypeOK /\ late \subseteq Agent /\ b \notin late
      /\ UNCHANGED <<late, pc, row, bg>> /\ batch' \subseteq batch
  BY DEF ConsumeResult, agents, ReportsInv, TypeOK, LateInv
<1>2. CASE UNCHANGED <<direct, events>>
  BY <1>1, <1>2, LateFrame DEF LateInv
<1>3. CASE direct' = Append(direct, Update(b, "Background"))
           /\ events' = Append(events, Update(b, "Background"))
  <2> DEFINE c == Update(b, "Background")
  <2>1. c \in Chunk /\ c.agent = b
    BY UpdateIsChunk DEF Status
  <2>2. direct \in Seq(Chunk) /\ events \in Seq(Chunk)
    BY <1>1 DEF TypeOK
  <2>3. direct' = Append(direct, c) /\ events' = Append(events, c)
    BY <1>3
  <2> HIDE DEF c
  <2>4. ASSUME NEW a \in late
        PROVE  Only(a, direct') /\ None(a, events')
    <3>1. a \in Agent /\ a # b
      BY <1>1
    <3>2. Only(a, direct')
      BY <2>1, <2>2, <2>3, <3>1, AppendKeeps DEF LateInv
    <3>3. None(a, events')
      BY <2>1, <2>2, <2>3, <3>1, AppendFacts DEF LateInv, None
    <3>4. QED
      BY <3>2, <3>3
  <2>5. QED
    BY <1>1, <2>4 DEF LateInv, Shown, Only, None, EndsFinished
<1>4. QED
  BY <1>2, <1>3 DEF ConsumeResult

LEMMA LateStep ==
  ASSUME ReportsInv, TurnInv, LateInv, [Next]_vars
  PROVE  LateInv'
<1> USE DEF session, agents, queue
<1>0. TypeOK /\ late \subseteq Agent /\ \A a \in late : mode[a] \notin {"none", "sync"}
  BY DEF ReportsInv, ReportsOnce, TypeOK, LateInv
<1>1. CASE TakeDirect \/ TakeEvent \/ TakeDone \/ ForwardBg
  BY <1>1, LateTakes
<1>2. CASE StartTurn \/ Answer \/ UNCHANGED vars
  BY <1>2, LateFrame DEF StartTurn, Answer, vars, LateInv
<1>3. ASSUME NEW aborted \in BOOLEAN, LoopTop(aborted)
      PROVE  LateInv'
  BY <1>3, LateTop
<1>4. ASSUME NEW waited \in SUBSET Agent, NEW spawned \in SUBSET Agent,
             Call(waited, spawned)
      PROVE  LateInv'
  <2>1. \A a \in late : pc'[a] = pc[a] /\ a \notin batch'
    BY <1>0, <1>4 DEF Call
  <2>2. UNCHANGED <<late, row, direct, events, bg>>
    BY <1>4 DEF Call
  <2>3. QED
    BY <2>1, <2>2, LateFrame DEF LateInv
<1>5. ASSUME NEW a \in Agent, ConsumeResult(a)
      PROVE  LateInv'
  BY <1>5, LateConsumes
<1>6. ASSUME NEW a \in Agent, SubagentDrains(a)
      PROVE  LateInv'
  BY <1>6, LateFrame DEF SubagentDrains, LateInv
<1>7. ASSUME NEW b \in Agent, Subtask(b) \/ LoopDone(b) \/ Watchdog(b) \/ WriteOutput(b)
      PROVE  LateInv'
  <2>1. UNCHANGED <<late, row, direct, events, bg, batch>>
    BY <1>7 DEF Subtask, LoopDone, Watchdog, WriteOutput
  <2>2. b \notin late
    BY <1>0, <1>7 DEF Subtask, LoopDone, Watchdog, WriteOutput, LateInv
  <2>3. \A a \in late : pc'[a] = pc[a]
    BY <1>0, <1>7, <2>2 DEF Subtask, LoopDone, Watchdog, WriteOutput, To, TypeOK
  <2>4. QED
    BY <2>1, <2>3, LateFrame DEF LateInv
<1>8. ASSUME NEW b \in Agent, StartSync(b) \/ Progress(b)
      PROVE  LateInv'
  <2>1. b \notin late /\ UNCHANGED <<row, events, late, batch>>
    BY <1>8 DEF StartSync, Progress, LateInv
  <2>2. EmitToUi(Update(b, "Running")) /\ "Running" \in Status
    BY <1>8 DEF StartSync, Progress, Status
  <2>3. \A a \in Agent : a # b => pc'[a] = pc[a]
    BY <1>0, <1>8 DEF StartSync, Progress, To, TypeOK
  <2>4. QED
    BY <2>1, <2>2, <2>3, LateEmits
<1>9. ASSUME NEW b \in Agent, ReturnSync(b)
      PROVE  LateInv'
  <2>1. b \notin late /\ UNCHANGED <<row, events, late, batch>>
    BY <1>9 DEF ReturnSync, LateInv
  <2>2. EmitToUi(Update(b, "Finished")) /\ "Finished" \in Status
    BY <1>9 DEF ReturnSync, Status
  <2>3. \A a \in Agent : a # b => pc'[a] = pc[a]
    BY <1>0, <1>9 DEF ReturnSync, To, TypeOK
  <2>4. QED
    BY <2>1, <2>2, <2>3, LateEmits
<1>10. ASSUME NEW b \in Agent, ShowEnd(b)
       PROVE  LateInv'
  BY <1>10, LateEnd
<1>11. ASSUME NEW b \in Agent, Enqueue(b)
       PROVE  LateInv'
  <2>1. UNCHANGED <<late, row, direct, events, bg, batch>>
    BY <1>11 DEF Enqueue
  <2>2. \A a \in late : pc'[a] \in {"shown", "posted"}
    BY <1>0, <1>11 DEF Enqueue, To, TypeOK, LateInv
  <2>3. QED
    BY <2>1, <2>2, LateFrame DEF LateInv
<1>12. QED
  BY <1>1, <1>2, <1>3, <1>4, <1>5, <1>6, <1>7, <1>8, <1>9, <1>10, <1>11
     DEF Next, LoopNext, SessionNext, AgentNext

(* An agent that ends between turns is shown as finished for good: the     *)
(* permanent channel brings the end and no later update says otherwise     *)
(* (emit_to_ui).                                                           *)
THEOREM LateEndsStayShown == Spec => []LateEndsAreShown
<1>1. TypeOK /\ LateInv => LateEndsAreShown
  BY ShownMeans DEF LateInv, LateEndsAreShown, Only, None, TypeOK
<1>2. Init => TurnInv /\ LateInv
  BY TurnInit, LateInit
<1>3. ReportsInv /\ TurnInv /\ LateInv /\ [Next]_vars => TurnInv' /\ LateInv'
  BY TurnStep, LateStep
<1>4. ReportsInv => TypeOK
  BY DEF ReportsInv
<1>5. QED
  BY <1>1, <1>2, <1>3, <1>4, ReportsInvariant, PTL DEF Spec
=============================================================================
