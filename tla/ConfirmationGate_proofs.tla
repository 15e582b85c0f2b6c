----------------------- MODULE ConfirmationGate_proofs -----------------------
(***************************************************************************)
(* Proofs about the confirmation gate, for any calls, plan of turns and    *)
(* number of aborts and remote decisions.                                  *)
(***************************************************************************)
EXTENDS ConfirmationGate, FiniteSetTheorems, TLAPS

(* Sequences and what is in them.                                          *)
LEMMA AppendFacts ==
  ASSUME NEW S, NEW s \in Seq(S), NEW x \in S
  PROVE  /\ Append(s, x) \in Seq(S)
         /\ ToSet(Append(s, x)) = ToSet(s) \cup {x}
  <1>1. /\ Append(s, x) \in Seq(S)
        /\ DOMAIN s = 1 .. Len(s) /\ DOMAIN Append(s, x) = 1 .. (Len(s) + 1)
        /\ Len(s) \in Nat
        /\ \A i \in 1 .. Len(s) : Append(s, x)[i] = s[i]
        /\ Append(s, x)[Len(s) + 1] = x
    OBVIOUS
  <1> QED
    BY <1>1 DEF ToSet

LEMMA TailFacts ==
  ASSUME NEW S, NEW s \in Seq(S), s # <<>>
  PROVE  /\ Head(s) \in S /\ Head(s) \in ToSet(s)
         /\ Tail(s) \in Seq(S)
         /\ ToSet(Tail(s)) \subseteq ToSet(s)
         /\ ToSet(s) = {Head(s)} \cup ToSet(Tail(s))
  <1>1. /\ Tail(s) \in Seq(S) /\ Head(s) \in S /\ Head(s) = s[1]
        /\ Len(s) \in Nat /\ Len(s) > 0
        /\ DOMAIN s = 1 .. Len(s) /\ DOMAIN Tail(s) = 1 .. (Len(s) - 1)
        /\ \A i \in 1 .. (Len(s) - 1) : Tail(s)[i] = s[i + 1]
    OBVIOUS
  <1>2. Head(s) \in ToSet(s)
    BY <1>1 DEF ToSet
  <1>3. ToSet(Tail(s)) \subseteq ToSet(s)
    <2>1. \A i \in 1 .. (Len(s) - 1) : i + 1 \in 1 .. Len(s)
      BY <1>1
    <2> QED
      BY <1>1, <2>1 DEF ToSet
  <1>4. ToSet(s) \subseteq {Head(s)} \cup ToSet(Tail(s))
    <2> SUFFICES ASSUME NEW i \in 1 .. Len(s)
                 PROVE  s[i] = Head(s) \/ s[i] \in ToSet(Tail(s))
      BY <1>1 DEF ToSet
    <2>1. CASE i # 1
      <3>1. i - 1 \in DOMAIN Tail(s) /\ s[i] = Tail(s)[i - 1]
        BY <1>1, <2>1
      <3> QED
        BY <3>1 DEF ToSet
    <2> QED
      BY <1>1, <2>1
  <1> QED
    BY <1>1, <1>2, <1>3, <1>4

LEMMA ConcatFacts ==
  ASSUME NEW S, NEW s \in Seq(S), NEW t \in Seq(S)
  PROVE  /\ s \o t \in Seq(S)
         /\ ToSet(s \o t) \subseteq ToSet(s) \cup ToSet(t)
  <1>1. /\ s \o t \in Seq(S) /\ Len(s) \in Nat /\ Len(t) \in Nat
        /\ DOMAIN s = 1 .. Len(s) /\ DOMAIN t = 1 .. Len(t)
        /\ DOMAIN (s \o t) = 1 .. (Len(s) + Len(t))
        /\ \A i \in 1 .. (Len(s) + Len(t)) :
             (s \o t)[i] = IF i <= Len(s) THEN s[i] ELSE t[i - Len(s)]
    OBVIOUS
  <1>2. \A i \in 1 .. (Len(s) + Len(t)) :
          i \in 1 .. Len(s) \/ i - Len(s) \in 1 .. Len(t)
    BY <1>1
  <1> QED
    BY <1>1, <1>2 DEF ToSet

LEMMA WithoutFacts ==
  ASSUME NEW S, NEW s \in Seq(S), NEW c
  PROVE  /\ Without(s, c) \in Seq(S)
         /\ ToSet(Without(s, c)) \subseteq ToSet(s)
  <1>1. CASE c \notin ToSet(s)
    BY <1>1 DEF Without
  <1>2. CASE c \in ToSet(s)
    <2> DEFINE i == CHOOSE j \in DOMAIN s : s[j] = c
               a == SubSeq(s, 1, i - 1)
               b == SubSeq(s, i + 1, Len(s))
    <2>1. i \in DOMAIN s
      BY <1>2 DEF ToSet
    <2>2. Len(s) \in Nat /\ i \in 1 .. Len(s) /\ DOMAIN s = 1 .. Len(s)
      BY <2>1
    <2> HIDE DEF i
    <2>3. /\ a \in Seq(S) /\ DOMAIN a = 1 .. (i - 1)
          /\ \A j \in 1 .. (i - 1) : j \in 1 .. Len(s) /\ a[j] = s[j]
      BY <2>2
    <2>4. /\ b \in Seq(S) /\ DOMAIN b = 1 .. (Len(s) - i)
          /\ \A j \in 1 .. (Len(s) - i) : i + j \in 1 .. Len(s) /\ b[j] = s[i + j]
      BY <2>2
    <2>5. ToSet(a) \subseteq ToSet(s) /\ ToSet(b) \subseteq ToSet(s)
      BY <2>2, <2>3, <2>4 DEF ToSet
    <2>6. Without(s, c) = a \o b
      BY <1>2 DEF Without, RemoveAt, i
    <2> HIDE DEF a, b
    <2>7. a \o b \in Seq(S) /\ ToSet(a \o b) \subseteq ToSet(a) \cup ToSet(b)
      BY <2>3, <2>4, ConcatFacts
    <2> QED
      BY <2>5, <2>6, <2>7
  <1> QED
    BY <1>1, <1>2

(* What Results lists are results of the calls.                            *)
LEMMA ResultsFacts ==
  ASSUME NEW calls \in SUBSET Calls
  PROVE  Results(calls) \in Seq(Report)
  <1>1. IsFiniteSet(calls)
    BY CallAssumption, FS_Subset
  <1>2. Cardinality(calls) \in Nat /\ ExistsBijection(1 .. Cardinality(calls), calls)
    BY <1>1, FS_CardinalityType
  <1>3. PICK f : f \in [1 .. Cardinality(calls) -> calls] /\ IsInjective(f)
    BY <1>2 DEF ExistsBijection, Bijection, Injection
  <1>4. SetToSeq(calls) \in [1 .. Cardinality(calls) -> calls]
    BY <1>3 DEF SetToSeq
  <1> QED
    BY <1>2, <1>4 DEF Results, Report

LEMMA PlanFacts ==
  ASSUME NEW t \in Turn
  PROVE  /\ Len(Plan) \in Nat /\ Turn = 1 .. Len(Plan)
         /\ Plan[t] \in Seq(SUBSET Calls) /\ Len(Plan[t]) \in Nat
         /\ \A s \in Nat \ {0} : s <= Len(Plan[t]) => Segment(t, s) \subseteq Calls
  BY PlanAssumption DEF Turn, Segment
-----------------------------------------------------------------------------
LEMMA GateType == ASSUME TypeOK, NEW c \in Calls, GateNext(c) PROVE TypeOK'
  <1> USE DEF gates, loop, pipes, cards, ui, hist
  <1>1. CASE CancelledBeforeStart(c)
    BY <1>1 DEF CancelledBeforeStart, TypeOK, Phase
  <1>2. ASSUME NEW p \in Policy, NEW own \in Own, PassGate(c, p, own)
        PROVE  TypeOK'
    <2>1. Verdict(c, p, own) \in Phase
      BY DEF Verdict, Phase
    <2>2. gate' \in [Calls -> Phase] /\ policy' \in [Calls -> Policy \cup {"unknown"}]
      BY <1>2, <2>1 DEF PassGate, TypeOK
    <2> QED
      BY <1>2, <2>2 DEF PassGate, TypeOK
  <1>3. ASSUME NEW p \in Policy, Publish(c, p)
        PROVE  TypeOK'
    <2>1. gate' \in [Calls -> Phase]
      BY <1>3 DEF Publish, TypeOK, Phase
    <2>2. answer' \in [Calls -> Decision \cup {"none", "policy"}]
      BY <1>3 DEF Publish, TypeOK
    <2>3. bus' \in Seq(Calls)
      <3>1. bus' = bus \/ bus' = Append(bus, c)
        BY <1>3 DEF Publish
      <3>2. bus \in Seq(Calls)
        BY DEF TypeOK
      <3> QED
        BY <3>1, <3>2, AppendFacts
    <2> QED
      BY <1>3, <2>1, <2>2, <2>3 DEF Publish, TypeOK
  <1>4. CASE TakeAnswer(c)
    <2>1. gate' \in [Calls -> Phase]
      BY <1>4 DEF TakeAnswer, TypeOK, Phase
    <2>2. grants' \subseteq {Tool[e] : e \in Calls}
      BY <1>4 DEF TakeAnswer, GrantsAfter, TypeOK
    <2> QED
      BY <1>4, <2>1, <2>2 DEF TakeAnswer, TypeOK
  <1>5. CASE AbortWait(c)
    BY <1>5 DEF AbortWait, TypeOK, Phase
  <1> QED
    BY <1>1, <1>2, <1>3, <1>4, <1>5 DEF GateNext

LEMMA LoopType == ASSUME TypeOK, LoopNext PROVE TypeOK'
  <1> USE DEF gates, pipes, cards, ui, hist
  <1>1. CASE SegmentEnds
    <2>1. turn \in Turn /\ segment \in Nat \ {0} /\ segment <= Len(Plan[turn])
      BY <1>1 DEF SegmentEnds, TypeOK
    <2>2. Segment(turn, segment) \in SUBSET Calls
      BY <2>1, PlanFacts
    <2>3. stream' \in Seq(Report)
      BY <1>1, <2>2, ResultsFacts, ConcatFacts DEF SegmentEnds, TypeOK
    <2>4. steering' \in Seq(Turn)
      BY <1>1 DEF SegmentEnds, NotTakenIn, TypeOK
    <2>5. segment' \in Nat \ {0} /\ running' = running /\ turn' = turn
      BY <1>1, <2>1 DEF SegmentEnds
    <2>6. UNCHANGED <<gates, stopped, flag, token, bus, requests, messages, ui, hist>>
      BY <1>1 DEF SegmentEnds
    <2> QED
      BY <2>3, <2>4, <2>5, <2>6 DEF TypeOK
  <1>2. CASE ModelCallCancelled
    <2>1. turn \in Turn
      BY <1>2 DEF ModelCallCancelled, TypeOK
    <2>2. segment' \in Nat \ {0}
      BY <1>2, <2>1, PlanFacts DEF ModelCallCancelled
    <2> QED
      BY <1>2, <2>2 DEF ModelCallCancelled, TypeOK
  <1>3. CASE LoopReturns
    <2>1. turn \in Turn /\ segment \in Nat \ {0}
      BY <1>3 DEF LoopReturns, TypeOK
    <2>2. [kind |-> "done", turn |-> turn] \in Report
      BY <2>1 DEF Report
    <2>3. stream' \in Seq(Report)
      BY <1>3, <2>2, AppendFacts DEF LoopReturns, TypeOK
    <2>4. segment' \in Nat \ {0} /\ running' = running /\ turn' = turn
      BY <1>3, <2>1 DEF LoopReturns
    <2>5. UNCHANGED <<gates, stopped, flag, token, bus, requests, steering, messages, ui,
                      hist>>
      BY <1>3 DEF LoopReturns
    <2> QED
      BY <2>3, <2>4, <2>5 DEF TypeOK
  <1>4. CASE Watcher
    BY <1>4 DEF Watcher, TypeOK
  <1> QED
    BY <1>1, <1>2, <1>3, <1>4 DEF LoopNext

(* The message that starts a turn comes from the steering queue or else    *)
(* from the channel.                                                       *)
LEMMA StartedTurn ==
  ASSUME TypeOK, StartTurn
  PROVE  /\ turn' \in Turn /\ requests' \in Seq(Request) /\ steering' \in Seq(Turn)
         /\ \/ /\ steering # <<>> /\ turn' = Head(steering) /\ requests' = requests
               /\ steering' \in {Tail(steering), <<>>}
            \/ /\ steering = <<>> /\ steering' = <<>>
               /\ requests # <<>> /\ Head(requests).kind = "message"
               /\ turn' = Head(requests).turn /\ requests' = Tail(requests)
  <1>1. steering \in Seq(Turn) /\ requests \in Seq(Request)
    BY DEF TypeOK
  <1>2. CASE steering # <<>>
    <2>1. /\ turn' = Head(steering) /\ requests' = requests
          /\ steering' \in {Tail(steering), <<>>}
      BY <1>2 DEF StartTurn
    <2>2. Head(steering) \in Turn /\ Tail(steering) \in Seq(Turn) /\ <<>> \in Seq(Turn)
      BY <1>1, <1>2, TailFacts
    <2> QED
      BY <1>1, <1>2, <2>1, <2>2
  <1>3. CASE steering = <<>>
    <2>1. /\ requests # <<>> /\ Head(requests).kind = "message" /\ steering' = steering
          /\ turn' = Head(requests).turn /\ requests' = Tail(requests)
      BY <1>3 DEF StartTurn, Requested
    <2>2. Head(requests) \in Request /\ Tail(requests) \in Seq(Request)
      BY <1>1, <2>1, TailFacts
    <2>3. Head(requests).turn \in Turn
      BY <2>1, <2>2 DEF Request
    <2> QED
      BY <1>1, <1>3, <2>1, <2>2, <2>3
  <1> QED
    BY <1>2, <1>3

LEMMA StartIsShown ==
  ASSUME TypeOK, StartTurn
  PROVE  /\ [kind |-> "start", turn |-> turn'] \in Chunk
         /\ messages' = Append(messages, [kind |-> "start", turn |-> turn'])
         /\ messages \in Seq(Chunk) /\ messages' \in Seq(Chunk)
         /\ UNCHANGED <<gates, stopped, flag, token, bus, stream, ui, hist>>
         /\ ~running /\ running'
  <1>1. turn' \in Turn
    BY StartedTurn
  <1>2. [kind |-> "start", turn |-> turn'] \in Chunk
    BY <1>1 DEF Chunk
  <1>3. messages \in Seq(Chunk) /\ messages' = Append(messages, [kind |-> "start", turn |-> turn'])
    BY DEF StartTurn, TypeOK
  <1>4. messages' \in Seq(Chunk)
    BY <1>2, <1>3, AppendFacts
  <1> QED
    BY <1>2, <1>3, <1>4 DEF StartTurn

LEMMA WorkerType == ASSUME TypeOK, WorkerNext PROVE TypeOK'
  <1> USE DEF gates, loop, ui, cards, hist
  <1>1. CASE StartTurn
    <2>1. /\ turn' \in Turn /\ requests' \in Seq(Request) /\ steering' \in Seq(Turn)
      BY <1>1, StartedTurn
    <2>2. segment' \in Nat \ {0} /\ running'
      BY <1>1, <2>1, PlanFacts DEF StartTurn
    <2>3. [kind |-> "start", turn |-> turn'] \in Chunk
      BY <2>1 DEF Chunk
    <2>4. messages' \in Seq(Chunk)
      <3>1. messages \in Seq(Chunk) /\ messages' = Append(messages, [kind |-> "start", turn |-> turn'])
        BY <1>1 DEF StartTurn, TypeOK
      <3> QED
        BY <2>3, <3>1, AppendFacts
    <2>5. UNCHANGED <<gates, stopped, flag, token, bus, stream, ui, hist>>
      BY <1>1 DEF StartTurn
    <2> QED
      BY <2>1, <2>2, <2>4, <2>5 DEF TypeOK
  <1>2. CASE Relay
    <2>1. bus' \in Seq(Calls) /\ Head(bus) \in Calls
      BY <1>2, TailFacts DEF Relay, TypeOK
    <2>2. [kind |-> "card", call |-> Head(bus)] \in Chunk
      BY <2>1 DEF Chunk
    <2>3. messages' \in Seq(Chunk)
      BY <1>2, <2>2, AppendFacts DEF Relay, TypeOK
    <2> QED
      BY <1>2, <2>1, <2>3 DEF Relay, TypeOK
  <1>3. CASE Forward
    <2>1. stream' \in Seq(Report) /\ Head(stream) \in Chunk
      BY <1>3, TailFacts DEF Forward, TypeOK, Chunk
    <2>2. messages' \in Seq(Chunk)
      BY <1>3, <2>1, AppendFacts DEF Forward, TypeOK
    <2>3. /\ running' \in BOOLEAN /\ stopped' \in BOOLEAN
          /\ flag' \in BOOLEAN /\ token' \in BOOLEAN
          /\ running' => running
      BY <1>3 DEF Forward, TypeOK
    <2> QED
      BY <1>3, <2>1, <2>2, <2>3 DEF Forward, TypeOK
  <1>4. CASE ConfirmTool
    <2>1. requests # <<>> /\ Head(requests).kind = "answer"
      BY <1>4 DEF ConfirmTool, Requested
    <2>2. Head(requests) \in Request /\ requests' \in Seq(Request)
      BY <1>4, <2>1, TailFacts DEF ConfirmTool, TypeOK
    <2>3. Head(requests).decision \in Decision
      BY <2>1, <2>2 DEF Request
    <2>4. answer' \in [Calls -> Decision \cup {"none", "policy"}]
      BY <1>4, <2>3 DEF ConfirmTool, TypeOK
    <2> QED
      BY <1>4, <2>2, <2>4 DEF ConfirmTool, TypeOK
  <1>5. CASE Abort
    <2>1. requests' \in Seq(Request)
      BY <1>5, TailFacts DEF Abort, Requested, TypeOK
    <2>2. running => [kind |-> "done", turn |-> turn] \in Chunk
      BY DEF TypeOK, Chunk, Report
    <2>3. messages' \in Seq(Chunk)
      BY <1>5, <2>2, AppendFacts DEF Abort, TypeOK
    <2>4. flag' = TRUE /\ stopped' \in BOOLEAN
      BY <1>5 DEF Abort, TypeOK
    <2> QED
      BY <1>5, <2>1, <2>3, <2>4 DEF Abort, TypeOK
  <1>6. CASE Steer
    <2>1. requests # <<>> /\ Head(requests).kind = "message" /\ requests' = Tail(requests)
      BY <1>6 DEF Steer, Requested
    <2>2. Head(requests) \in Request /\ requests' \in Seq(Request)
      BY <2>1, TailFacts DEF TypeOK
    <2>3. Head(requests).turn \in Turn
      BY <2>1, <2>2 DEF Request
    <2>4. steering' \in Seq(Turn)
      BY <1>6, <2>3, AppendFacts DEF Steer, TypeOK
    <2> QED
      BY <1>6, <2>2, <2>4 DEF Steer, TypeOK
  <1> QED
    BY <1>1, <1>2, <1>3, <1>4, <1>5, <1>6 DEF WorkerNext

LEMMA ClearFacts ==
  ASSUME TypeOK, Clear
  PROVE  /\ active' \in Calls \cup {NoCall} /\ queue' \in Seq(Calls)
         /\ \A c \in Calls : OnScreen(c)' => OnScreen(c)
  <1>1. CASE queue = <<>>
    <2>1. ToSet(queue) = {}
      BY <1>1 DEF ToSet
    <2> QED
      BY <1>1, <2>1, CallAssumption DEF Clear, TypeOK, OnScreen
  <1>2. CASE queue # <<>>
    <2>1. queue \in Seq(Calls)
      BY DEF TypeOK
    <2>2. /\ Head(queue) \in Calls /\ Head(queue) \in ToSet(queue)
          /\ Tail(queue) \in Seq(Calls) /\ ToSet(Tail(queue)) \subseteq ToSet(queue)
      BY <1>2, <2>1, TailFacts
    <2> QED
      BY <1>2, <2>2 DEF Clear, OnScreen
  <1> QED
    BY <1>1, <1>2

LEMMA DecideFacts ==
  ASSUME TypeOK, NEW c \in Calls, NEW d \in Decision, Decide(c, d)
  PROVE  /\ requests' \in Seq(Request)
         /\ requests' = Append(requests, [kind |-> "answer", call |-> c, decision |-> d])
         /\ decided' \in [Calls -> Decision \cup {"none"}]
         /\ \A e \in Calls : decided'[e] =
              IF e = c /\ decided[e] = "none" THEN d ELSE decided[e]
  <1>1. [kind |-> "answer", call |-> c, decision |-> d] \in Request
    BY DEF Request
  <1>2. requests' \in Seq(Request)
    BY <1>1, AppendFacts DEF Decide, TypeOK
  <1> QED
    BY <1>2 DEF Decide, TypeOK

LEMMA ScreenType == ASSUME TypeOK, Screen PROVE TypeOK'
  <1> USE DEF gates, loop, pipes, ui, cards, hist
  <1>1. CASE CardArrives
    <2>1. messages # <<>> /\ Head(messages).kind = "card"
      BY <1>1 DEF CardArrives, Arrived
    <2>2. messages' \in Seq(Chunk) /\ Head(messages) \in Chunk
      BY <1>1, <2>1, TailFacts DEF CardArrives, TypeOK
    <2>3. active' \in Calls
      BY <1>1, <2>1, <2>2 DEF CardArrives, Chunk, Report
    <2>4. active # NoCall => <<active>> \in Seq(Calls)
      BY DEF TypeOK
    <2>5. queue' \in Seq(Calls)
      BY <1>1, <2>4, ConcatFacts DEF CardArrives, TypeOK
    <2> QED
      BY <1>1, <2>2, <2>3, <2>5 DEF CardArrives, TypeOK
  <1>2. CASE ResultArrives
    <2> DEFINE rest == Without(queue, Head(messages).call)
    <2>1. messages' \in Seq(Chunk)
      BY <1>2, TailFacts DEF ResultArrives, Arrived, TypeOK
    <2>2. rest \in Seq(Calls)
      BY WithoutFacts DEF TypeOK
    <2> HIDE DEF rest
    <2>3. rest # <<>> => Head(rest) \in Calls /\ Tail(rest) \in Seq(Calls)
      BY <2>2, TailFacts
    <2>4. active' \in Calls \cup {NoCall} /\ queue' \in Seq(Calls)
      BY <1>2, <2>2, <2>3 DEF ResultArrives, TypeOK, rest
    <2> QED
      BY <1>2, <2>1, <2>4 DEF ResultArrives, TypeOK
  <1>3. CASE DoneArrives
    <2>1. messages # <<>> /\ Head(messages).kind = "done"
      BY <1>3 DEF DoneArrives, Arrived
    <2>2. messages' \in Seq(Chunk) /\ Head(messages) \in Chunk
      BY <1>3, <2>1, TailFacts DEF DoneArrives, TypeOK
    <2>3. Head(messages).turn \in Turn
      BY <2>1, <2>2 DEF Chunk, Report
    <2>4. queue' \in Seq(Calls) /\ busy' \in BOOLEAN /\ completed' \subseteq Turn
      <3>1. queue \in Seq(Calls) /\ <<>> \in Seq(Calls)
        BY DEF TypeOK
      <3>2. queue' \in {queue, <<>>} /\ busy' \in {busy, cancelling}
        BY <1>3 DEF DoneArrives
      <3>3. completed' \in {completed, completed \cup {Head(messages).turn}}
        BY <1>3 DEF DoneArrives
      <3> QED
        BY <2>3, <3>1, <3>2, <3>3 DEF TypeOK
    <2> QED
      BY <1>3, <2>2, <2>4 DEF DoneArrives, TypeOK
  <1>4. CASE GraceExpires
    <2>1. queue' \in Seq(Calls) /\ active' \in Calls \cup {NoCall}
      BY <1>4 DEF GraceExpires
    <2> QED
      BY <1>4, <2>1 DEF GraceExpires, TypeOK
  <1>5. CASE Draw
    BY <1>5 DEF Draw, TypeOK
  <1>6. CASE StartArrives
    <2>1. messages' \in Seq(Chunk)
      BY <1>6, TailFacts DEF StartArrives, Arrived, TypeOK
    <2> QED
      BY <1>6, <2>1 DEF StartArrives, TypeOK
  <1> QED
    BY <1>1, <1>2, <1>3, <1>4, <1>5, <1>6 DEF Screen

LEMMA UserType == ASSUME TypeOK, User PROVE TypeOK'
  <1> USE DEF gates, loop, ui, cards
  <1>1. ASSUME NEW d \in Decision, Press(d)
        PROVE  TypeOK'
    <2>1. active \in Calls /\ Decide(active, d) /\ Clear
      BY <1>1 DEF Press, TypeOK
    <2>2. requests' \in Seq(Request) /\ decided' \in [Calls -> Decision \cup {"none"}]
      BY <2>1, DecideFacts
    <2> QED
      BY <1>1, <2>1, <2>2, ClearFacts DEF Press, TypeOK
  <1>2. ASSUME NEW c \in Calls, NEW d \in {"once", "deny"}, RemoteDecision(c, d)
        PROVE  TypeOK'
    <2>1. Decide(c, d) /\ d \in Decision
      BY <1>2 DEF RemoteDecision, Decision
    <2>2. requests' \in Seq(Request) /\ decided' \in [Calls -> Decision \cup {"none"}]
      BY <2>1, DecideFacts
    <2>3. remote' \in 0 .. MaxOutside
      BY <1>2, BoundAssumption DEF RemoteDecision, TypeOK
    <2> QED
      BY <1>2, <2>2, <2>3 DEF RemoteDecision, TypeOK
  <1>3. CASE Cancel \/ RemoteCancel
    <2>1. [kind |-> "abort"] \in Request
      BY DEF Request
    <2>2. requests' \in Seq(Request)
      <3>1. requests \in Seq(Request)
        BY DEF TypeOK
      <3>2. requests' = Append(requests, [kind |-> "abort"])
        BY <1>3 DEF Cancel, RemoteCancel
      <3> QED
        BY <2>1, <3>1, <3>2, AppendFacts
    <2>3. aborts' \in 0 .. MaxOutside
      <3>1. aborts + remote < MaxOutside /\ aborts' = aborts + 1
        BY <1>3 DEF Cancel, RemoteCancel
      <3>2. aborts \in Nat /\ remote \in Nat
        BY BoundAssumption DEF TypeOK
      <3> QED
        BY <3>1, <3>2, BoundAssumption
    <2>4. cancelling' \in BOOLEAN
      <3>1. cancelling' = TRUE \/ cancelling' = cancelling
        BY <1>3 DEF Cancel, RemoteCancel
      <3>2. cancelling \in BOOLEAN
        BY DEF TypeOK
      <3> QED
        BY <3>1, <3>2
    <2>5. UNCHANGED <<gates, loop, bus, stream, steering, messages, cards, busy,
                      completed, sent, remote, screen, decided, dropped>>
      <3>1. CASE Cancel
        BY <3>1 DEF Cancel
      <3>2. CASE RemoteCancel
        BY <3>2 DEF RemoteCancel
      <3> QED
        BY <1>3, <3>1, <3>2
    <2> QED
      BY <2>2, <2>3, <2>4, <2>5 DEF TypeOK
  <1>4. CASE SendMessage \/ SteerMessage
    <2>0. SendsMessage /\ busy' \in BOOLEAN /\ cancelling' \in BOOLEAN
      BY <1>4 DEF SendMessage, SteerMessage, TypeOK
    <2>1. Len(Plan) \in Nat /\ Turn = 1 .. Len(Plan)
      BY PlanAssumption DEF Turn
    <2>2. sent + 1 \in Turn /\ sent' \in 0 .. Len(Plan)
      BY <2>0, <2>1 DEF SendsMessage, TypeOK
    <2>3. [kind |-> "message", turn |-> sent + 1] \in Request
      BY <2>2 DEF Request
    <2>4. requests' \in Seq(Request)
      <3>1. /\ requests \in Seq(Request)
            /\ requests' = Append(requests, [kind |-> "message", turn |-> sent + 1])
        BY <2>0 DEF SendsMessage, TypeOK
      <3> QED
        BY <2>3, <3>1, AppendFacts
    <2>5. UNCHANGED <<gates, loop, bus, stream, steering, messages, cards, completed,
                      aborts, remote, screen, decided, dropped>>
      BY <2>0 DEF SendsMessage
    <2> QED
      BY <2>0, <2>2, <2>4, <2>5 DEF TypeOK
  <1> QED
    BY <1>1, <1>2, <1>3, <1>4 DEF User

(* Calls, cards, questions and answers keep their shape through the gate,  *)
(* the channels and the screen, and a running turn is one of the plan.     *)
THEOREM TypeCorrect == Spec => []TypeOK
  <1>1. Init => TypeOK
    <2> SUFFICES ASSUME Init PROVE TypeOK
      OBVIOUS
    <2>1. Len(Plan) \in Nat
      BY PlanAssumption
    <2>2. /\ gate \in [Calls -> Phase]
          /\ policy \in [Calls -> Policy \cup {"unknown"}]
          /\ answer \in [Calls -> Decision \cup {"none", "policy"}]
          /\ decided \in [Calls -> Decision \cup {"none"}]
      BY DEF Init, Phase
    <2>3. /\ bus \in Seq(Calls) /\ stream \in Seq(Report) /\ queue \in Seq(Calls)
          /\ requests \in Seq(Request) /\ messages \in Seq(Chunk)
          /\ steering \in Seq(Turn) /\ dropped \subseteq Calls
      BY DEF Init
    <2>4. aborts \in 0 .. MaxOutside /\ remote \in 0 .. MaxOutside
      BY BoundAssumption DEF Init
    <2>5. /\ grants \subseteq {Tool[c] : c \in Calls} /\ completed \subseteq Turn
          /\ active \in Calls \cup {NoCall} /\ screen \in Calls \cup {NoCall}
      BY DEF Init
    <2>7. /\ turn \in Turn \cup {0} /\ segment \in Nat \ {0} /\ sent \in 0 .. Len(Plan)
      BY <2>1 DEF Init
    <2>6. /\ ~running /\ running \in BOOLEAN
          /\ stopped \in BOOLEAN /\ flag \in BOOLEAN /\ token \in BOOLEAN
          /\ busy \in BOOLEAN /\ cancelling \in BOOLEAN
      BY DEF Init
    <2> QED
      BY <2>2, <2>3, <2>4, <2>5, <2>6, <2>7 DEF TypeOK
  <1>2. TypeOK /\ [Next]_vars => TypeOK'
    <2> SUFFICES ASSUME TypeOK, [Next]_vars PROVE TypeOK'
      OBVIOUS
    <2>1. CASE UNCHANGED vars
      BY <2>1 DEF vars, gates, loop, pipes, ui, cards, hist, TypeOK
    <2> QED
      BY <2>1, GateType, LoopType, WorkerType, ScreenType, UserType DEF Next
  <1> QED
    BY <1>1, <1>2, PTL DEF Spec
-----------------------------------------------------------------------------
(* A call runs only with a permission.  The grants only grow, and what a   *)
(* call was allowed on stays as it was.                                    *)
GrantsGrow == grants \subseteq grants'

LEMMA PermissionFacts ==
  ASSUME TypeOK, [Next]_vars
  PROVE  /\ GrantsGrow
         /\ \A c \in Calls : gate[c] \notin {"new", "asking", "waiting"} =>
              gate'[c] = gate[c] /\ policy'[c] = policy[c] /\ answer'[c] = answer[c]
  <1> USE DEF GrantsGrow
  <1>1. ASSUME NEW e \in Calls, GateNext(e)
        PROVE  /\ GrantsGrow
               /\ \A c \in Calls : gate[c] \notin {"new", "asking", "waiting"} =>
                    gate'[c] = gate[c] /\ policy'[c] = policy[c] /\ answer'[c] = answer[c]
    <2>1. gate[e] \in {"new", "asking", "waiting"}
      BY <1>1 DEF GateNext, CancelledBeforeStart, PassGate, Publish, TakeAnswer, AbortWait
    <2>2. \A c \in Calls : c # e =>
            gate'[c] = gate[c] /\ policy'[c] = policy[c] /\ answer'[c] = answer[c]
      BY <1>1 DEF GateNext, CancelledBeforeStart, PassGate, Publish, TakeAnswer,
                  AbortWait, TypeOK
    <2>3. GrantsGrow
      BY <1>1 DEF GateNext, CancelledBeforeStart, PassGate, Publish, TakeAnswer,
                  AbortWait, GrantsAfter
    <2> QED
      BY <2>1, <2>2, <2>3
  <1>2. CASE ConfirmTool
    BY <1>2 DEF ConfirmTool, TypeOK
  <1>3. CASE ~ConfirmTool /\ (LoopNext \/ WorkerNext \/ Screen \/ User \/ UNCHANGED vars)
    <2>1. UNCHANGED gates
      BY <1>3 DEF LoopNext, SegmentEnds, ModelCallCancelled, LoopReturns, Watcher,
                  WorkerNext, StartTurn, Relay, Forward, Steer, Abort,
                  Screen, StartArrives, CardArrives, ResultArrives, DoneArrives,
                  GraceExpires, Draw,
                  User, Press, RemoteDecision, Cancel, RemoteCancel, SendMessage,
                  SteerMessage, SendsMessage, vars
    <2> QED
      BY <2>1 DEF gates
  <1> QED
    BY <1>1, <1>2, <1>3 DEF Next, WorkerNext

(* Nothing runs that was neither allowed nor approved, given that what the *)
(* gate took was the first decision on the card (below).                   *)
AllowedInv ==
  \A c \in Calls : gate[c] = "allowed" =>
    /\ c \notin Sensitive
    /\ policy[c] = "allow" \/ (Granted(c) /\ policy[c] \in {"ask", "allow"})

LEMMA AllowedStep == ASSUME TypeOK, AllowedInv, [Next]_vars PROVE AllowedInv'
  <1> SUFFICES ASSUME NEW c \in Calls, gate'[c] = "allowed"
               PROVE  /\ c \notin Sensitive
                      /\ policy'[c] = "allow" \/ (Granted(c)' /\ policy'[c] \in {"ask", "allow"})
    BY DEF AllowedInv
  <1>1. CASE gate[c] = "allowed"
    BY <1>1, PermissionFacts DEF AllowedInv, Granted, GrantsGrow
  <1>2. CASE gate[c] # "allowed"
    <2>1. PICK e \in Calls : GateNext(e)
      <3>1. CASE LoopNext \/ WorkerNext \/ Screen \/ User \/ UNCHANGED vars
        <4>1. gate' = gate
          BY <3>1 DEF LoopNext, SegmentEnds, ModelCallCancelled, LoopReturns, Watcher,
                  WorkerNext, StartTurn, Relay, Forward, Steer, ConfirmTool, Abort,
                  Screen, StartArrives, CardArrives, ResultArrives, DoneArrives,
                  GraceExpires, Draw,
                  User, Press, RemoteDecision, Cancel, RemoteCancel, SendMessage,
                  SteerMessage, SendsMessage,
                  vars, gates
        <4> QED
          BY <1>2, <4>1
      <3> QED
        BY <3>1 DEF Next
    <2>2. PICK p \in Policy, own \in Own : PassGate(c, p, own)
      <3>1. ~(CancelledBeforeStart(e) \/ TakeAnswer(e) \/ AbortWait(e)
              \/ \E p \in Policy : Publish(e, p))
        BY <1>2 DEF CancelledBeforeStart, Publish, TakeAnswer, AbortWait, TypeOK
      <3>2. PICK p \in Policy, own \in Own : PassGate(e, p, own)
        BY <2>1, <3>1 DEF GateNext
      <3>3. c = e
        BY <1>2, <3>2 DEF PassGate, TypeOK
      <3> QED
        BY <3>2, <3>3
    <2>3. Verdict(c, p, own) = "allowed" /\ policy'[c] = p /\ grants' = grants
      BY <2>2 DEF PassGate, TypeOK, gates
    <2>4. Approved(c, p) /\ p # "deny"
      BY <2>3 DEF Verdict
    <2> QED
      BY <2>3, <2>4 DEF Approved, Granted, Policy
  <1> QED
    BY <1>1, <1>2

(* A lasting permission goes back to a card on which the user gave it, for *)
(* a call of that tool that touched no sensitive file (record_approval).   *)
GrantsWereGiven ==
  \A tool \in grants : \E c \in Calls \ Sensitive :
    Tool[c] = tool /\ gate[c] = "approved" /\ answer[c] = "always"

LEMMA GrantStep ==
  ASSUME TypeOK, GrantsWereGiven, [Next]_vars
  PROVE  GrantsWereGiven'
  <1> SUFFICES ASSUME NEW tool \in grants'
               PROVE  \E c \in Calls \ Sensitive :
                        Tool[c] = tool /\ gate'[c] = "approved" /\ answer'[c] = "always"
    BY DEF GrantsWereGiven
  <1>1. CASE tool \in grants
    <2>1. PICK c \in Calls \ Sensitive :
            Tool[c] = tool /\ gate[c] = "approved" /\ answer[c] = "always"
      BY <1>1 DEF GrantsWereGiven
    <2>2. gate'[c] = gate[c] /\ answer'[c] = answer[c]
      BY <2>1, PermissionFacts
    <2> QED
      BY <2>1, <2>2
  <1>2. CASE tool \notin grants
    <2>1. PICK c \in Calls : TakeAnswer(c)
      BY <1>2 DEF Next, GateNext, CancelledBeforeStart, PassGate, Publish, AbortWait,
                  LoopNext, SegmentEnds, ModelCallCancelled, LoopReturns, Watcher,
                  WorkerNext, StartTurn, Relay, Forward, Steer, ConfirmTool, Abort,
                  Screen, StartArrives, CardArrives, ResultArrives, DoneArrives,
                  GraceExpires, Draw,
                  User, Press, RemoteDecision, Cancel, RemoteCancel, SendMessage,
                  SteerMessage, SendsMessage,
                  vars, gates
    <2>2. answer[c] = "always" /\ c \notin Sensitive /\ tool = Tool[c]
      BY <1>2, <2>1 DEF TakeAnswer, GrantsAfter
    <2>3. gate'[c] = "approved" /\ answer'[c] = "always"
      BY <2>1, <2>2 DEF TakeAnswer, TypeOK
    <2> QED
      BY <2>2, <2>3
  <1> QED
    BY <1>1, <1>2

(* A lasting permission goes back to a card on which the user gave it.     *)
THEOREM GrantsHaveTheirCard == Spec => []GrantsWereGiven
  <1>1. Init => GrantsWereGiven
    BY DEF Init, GrantsWereGiven
  <1> QED
    BY <1>1, GrantStep, TypeCorrect, PTL DEF Spec
-----------------------------------------------------------------------------
(* The first decision counts.  A call has no card before it waits, so that *)
(* a wait begins without answers; from then on the first answer on its way *)
(* is the first that was given.                                            *)
Shown(c) == OnItsWay(c) \/ OnScreen(c)
IsAnswer(r, c) == r.kind = "answer" /\ r.call = c
FirstAnswerIs(c, d) ==
  \E j \in 1 .. Len(requests) :
    /\ IsAnswer(requests[j], c) /\ requests[j].decision = d
    /\ \A i \in 1 .. (j - 1) : ~IsAnswer(requests[i], c)

NoCardBefore ==
  \A c \in Calls : gate[c] \in {"new", "asking"} =>
    /\ ~Shown(c) /\ ~AnswerOnItsWay(c)
    /\ decided[c] = "none" /\ answer[c] = "none"
AnswersInOrder ==
  \A c \in Calls : gate[c] = "waiting" /\ answer[c] = "none" =>
    (decided[c] = "none" /\ ~AnswerOnItsWay(c)) \/ FirstAnswerIs(c, decided[c])
DecidedInv == NoCardBefore /\ AnswersInOrder /\ FirstDecisionCounts

LEMMA RequestTaken ==
  ASSUME TypeOK, requests # <<>>, requests' = Tail(requests), NEW c \in Calls
  PROVE  /\ AnswerOnItsWay(c)' => AnswerOnItsWay(c)
         /\ \A d : FirstAnswerIs(c, d) =>
              IF IsAnswer(Head(requests), c) THEN Head(requests).decision = d
              ELSE FirstAnswerIs(c, d)'
         /\ IsAnswer(Head(requests), c) => AnswerOnItsWay(c)
  <1>1. /\ requests' \in Seq(Request) /\ Head(requests) = requests[1]
        /\ Len(requests) \in Nat /\ Len(requests) > 0 /\ Len(requests') = Len(requests) - 1
        /\ DOMAIN requests = 1 .. Len(requests) /\ DOMAIN requests' = 1 .. Len(requests')
        /\ \A i \in 1 .. Len(requests') : requests'[i] = requests[i + 1]
    BY DEF TypeOK
  <1>2. AnswerOnItsWay(c)' => AnswerOnItsWay(c)
    <2>1. \A i \in 1 .. Len(requests') : i + 1 \in 1 .. Len(requests)
      BY <1>1
    <2> QED
      BY <1>1, <2>1 DEF AnswerOnItsWay
  <1>3. ASSUME NEW d, FirstAnswerIs(c, d)
        PROVE  IF IsAnswer(Head(requests), c) THEN Head(requests).decision = d
               ELSE FirstAnswerIs(c, d)'
    <2>1. PICK j \in 1 .. Len(requests) :
            /\ IsAnswer(requests[j], c) /\ requests[j].decision = d
            /\ \A i \in 1 .. (j - 1) : ~IsAnswer(requests[i], c)
      BY <1>3 DEF FirstAnswerIs
    <2>2. CASE j = 1
      BY <1>1, <2>1, <2>2
    <2>3. CASE j # 1
      <3>1. ~IsAnswer(Head(requests), c)
        BY <1>1, <2>1, <2>3
      <3>2. j - 1 \in 1 .. Len(requests') /\ requests'[j - 1] = requests[j]
        BY <1>1, <2>3
      <3>3. ASSUME NEW i \in 1 .. ((j - 1) - 1)
            PROVE  ~IsAnswer(requests'[i], c)
        <4>1. i + 1 \in 1 .. (j - 1) /\ requests'[i] = requests[i + 1]
          BY <1>1
        <4> QED
          BY <2>1, <4>1
      <3> QED
        BY <2>1, <3>1, <3>2, <3>3 DEF FirstAnswerIs, IsAnswer
    <2> QED
      BY <2>2, <2>3
  <1>4. IsAnswer(Head(requests), c) => AnswerOnItsWay(c)
    BY <1>1 DEF IsAnswer, AnswerOnItsWay
  <1> QED
    BY <1>2, <1>3, <1>4

LEMMA RequestSent ==
  ASSUME TypeOK, NEW r \in Request, requests' = Append(requests, r), NEW c \in Calls
  PROVE  /\ \A d : FirstAnswerIs(c, d) => FirstAnswerIs(c, d)'
         /\ ~AnswerOnItsWay(c) =>
              IF IsAnswer(r, c) THEN FirstAnswerIs(c, r.decision)'
              ELSE ~AnswerOnItsWay(c)'
  <1>1. /\ Len(requests) \in Nat /\ Len(requests') = Len(requests) + 1
        /\ DOMAIN requests = 1 .. Len(requests) /\ DOMAIN requests' = 1 .. Len(requests')
        /\ \A i \in 1 .. Len(requests) : requests'[i] = requests[i]
        /\ requests'[Len(requests) + 1] = r
    BY DEF TypeOK
  <1>2. ASSUME NEW d, FirstAnswerIs(c, d)
        PROVE  FirstAnswerIs(c, d)'
    <2>1. PICK j \in 1 .. Len(requests) :
            /\ IsAnswer(requests[j], c) /\ requests[j].decision = d
            /\ \A i \in 1 .. (j - 1) : ~IsAnswer(requests[i], c)
      BY <1>2 DEF FirstAnswerIs
    <2>2. j \in 1 .. Len(requests') /\ requests'[j] = requests[j]
      BY <1>1
    <2>3. \A i \in 1 .. (j - 1) : requests'[i] = requests[i]
      BY <1>1
    <2> QED
      BY <2>1, <2>2, <2>3 DEF FirstAnswerIs, IsAnswer
  <1>3. ASSUME ~AnswerOnItsWay(c)
        PROVE  IF IsAnswer(r, c) THEN FirstAnswerIs(c, r.decision)'
               ELSE ~AnswerOnItsWay(c)'
    <2>1. \A i \in 1 .. Len(requests) : ~IsAnswer(requests'[i], c)
      BY <1>1, <1>3 DEF AnswerOnItsWay, IsAnswer
    <2>2. CASE IsAnswer(r, c)
      <3>1. Len(requests') \in 1 .. Len(requests') /\ requests'[Len(requests')] = r
        BY <1>1
      <3>2. \A i \in 1 .. (Len(requests') - 1) : ~IsAnswer(requests'[i], c)
        BY <1>1, <2>1
      <3> QED
        BY <2>2, <3>1, <3>2 DEF FirstAnswerIs, IsAnswer
    <2>3. CASE ~IsAnswer(r, c)
      BY <1>1, <2>1, <2>3 DEF AnswerOnItsWay, IsAnswer
    <2> QED
      BY <2>2, <2>3
  <1> QED
    BY <1>2, <1>3

(* On its way from the bus to the screen a card is never another call's.   *)
CardsKept == \A c \in Calls : Shown(c)' => Shown(c)

LEMMA CardsOfWorker ==
  ASSUME TypeOK, SegmentEnds \/ ModelCallCancelled \/ LoopReturns \/ Watcher \/ WorkerNext
  PROVE  CardsKept
  <1> SUFFICES ASSUME NEW c \in Calls, Shown(c)' PROVE Shown(c)
    BY DEF CardsKept
  <1> DEFINE card == [kind |-> "card", call |-> c]
  <1>0. /\ UNCHANGED <<active, queue>>
        /\ bus \in Seq(Calls) /\ messages \in Seq(Chunk) /\ stream \in Seq(Report)
    BY DEF SegmentEnds, ModelCallCancelled, LoopReturns, Watcher, WorkerNext, StartTurn,
           Relay, Forward, Steer, ConfirmTool, Abort, ui, cards, TypeOK
  <1>1. CASE UNCHANGED <<bus, messages>>
    BY <1>0, <1>1 DEF Shown, OnItsWay, OnScreen
  <1>2. CASE Relay
    <2>1. bus # <<>> /\ bus' = Tail(bus)
          /\ messages' = Append(messages, [kind |-> "card", call |-> Head(bus)])
      BY <1>2 DEF Relay
    <2>2. Head(bus) \in Calls /\ Head(bus) \in ToSet(bus) /\ ToSet(bus') \subseteq ToSet(bus)
      BY <1>0, <2>1, TailFacts
    <2>3. [kind |-> "card", call |-> Head(bus)] \in Chunk
      BY <2>2 DEF Chunk
    <2>4. ToSet(messages') = ToSet(messages) \cup {[kind |-> "card", call |-> Head(bus)]}
      BY <1>0, <2>1, <2>3, AppendFacts
    <2>5. card = [kind |-> "card", call |-> Head(bus)] => c = Head(bus)
      OBVIOUS
    <2> QED
      BY <1>0, <2>2, <2>4, <2>5 DEF Shown, OnItsWay, OnScreen
  <1>3. CASE Forward
    <2>1. stream # <<>> /\ messages' = Append(messages, Head(stream)) /\ bus' = bus
      BY <1>3 DEF Forward
    <2>2. Head(stream) \in Report
      BY <1>0, <2>1, TailFacts
    <2>3. Head(stream) \in Chunk /\ Head(stream).kind # "card"
      BY <2>2 DEF Report, Chunk
    <2>4. ToSet(messages') = ToSet(messages) \cup {Head(stream)}
      BY <1>0, <2>1, <2>3, AppendFacts
    <2>5. card # Head(stream)
      BY <2>3
    <2> QED
      BY <1>0, <2>1, <2>4, <2>5 DEF Shown, OnItsWay, OnScreen
  <1>4. CASE Abort
    <2> DEFINE done == [kind |-> "done", turn |-> turn]
    <2>1. bus' = bus /\ messages' = IF running THEN Append(messages, done) ELSE messages
      BY <1>4 DEF Abort
    <2>2. running => done \in Chunk
      BY DEF TypeOK, Chunk, Report
    <2>3. ToSet(messages') \subseteq ToSet(messages) \cup {done}
      BY <1>0, <2>1, <2>2, AppendFacts
    <2>4. card # done
      <3>1. card.kind = "card" /\ done.kind = "done"
        OBVIOUS
      <3> QED
        BY <3>1
    <2> QED
      BY <1>0, <2>1, <2>3, <2>4 DEF Shown, OnItsWay, OnScreen
  <1>5. CASE StartTurn
    <2> DEFINE start == [kind |-> "start", turn |-> turn']
    <2>1. bus' = bus /\ messages' = Append(messages, start) /\ start \in Chunk
      BY <1>5, StartIsShown
    <2>2. ToSet(messages') = ToSet(messages) \cup {start}
      BY <1>0, <2>1, AppendFacts
    <2>3. card # start
      <3>1. card.kind = "card" /\ start.kind = "start"
        OBVIOUS
      <3> QED
        BY <3>1
    <2> QED
      BY <1>0, <2>1, <2>2, <2>3 DEF Shown, OnItsWay, OnScreen
  <1> QED
    BY <1>1, <1>2, <1>3, <1>4, <1>5 DEF SegmentEnds, ModelCallCancelled, LoopReturns,
       Watcher,
       WorkerNext, Steer, ConfirmTool, pipes

LEMMA CardsOfScreen == ASSUME TypeOK, Screen PROVE CardsKept
  <1> SUFFICES ASSUME NEW c \in Calls, Shown(c)' PROVE Shown(c)
    BY DEF CardsKept
  <1>0. bus' = bus /\ messages \in Seq(Chunk) /\ queue \in Seq(Calls) /\ NoCall \notin Calls
    BY CallAssumption DEF Screen, StartArrives, CardArrives, ResultArrives,
       DoneArrives, GraceExpires,
       Draw, pipes, TypeOK
  <1>1. CASE messages # <<>> /\ messages' = Tail(messages)
             /\ (StartArrives \/ CardArrives \/ ResultArrives \/ DoneArrives)
    <2>1. /\ Head(messages) \in Chunk /\ Head(messages) \in ToSet(messages)
          /\ ToSet(messages') \subseteq ToSet(messages)
      BY <1>0, <1>1, TailFacts
    <2>2. CASE CardArrives
      <3>1. /\ Head(messages).kind = "card" /\ active' = Head(messages).call
            /\ queue' = queue \/ (active # NoCall /\ queue' = <<active>> \o queue)
        BY <2>2 DEF CardArrives, Arrived
      <3>2. Head(messages) = [kind |-> "card", call |-> active']
        BY <2>1, <3>1 DEF Chunk, Report
      <3>3. ToSet(queue') \subseteq ToSet(queue) \cup {active}
        <4>1. CASE active # NoCall /\ queue' = <<active>> \o queue
          <5>1. <<active>> \in Seq(Calls) /\ ToSet(<<active>>) = {active}
            BY <4>1 DEF TypeOK, ToSet
          <5> QED
            BY <1>0, <4>1, <5>1, ConcatFacts
        <4> QED
          BY <3>1, <4>1
      <3> QED
        BY <1>0, <2>1, <3>2, <3>3 DEF Shown, OnItsWay, OnScreen
    <2>3. CASE ResultArrives
      <3> DEFINE rest == Without(queue, Head(messages).call)
      <3>1. rest \in Seq(Calls) /\ ToSet(rest) \subseteq ToSet(queue)
        BY <1>0, WithoutFacts
      <3> HIDE DEF rest
      <3>2. rest # <<>> => Head(rest) \in ToSet(rest) /\ ToSet(Tail(rest)) \subseteq ToSet(rest)
        BY <3>1, TailFacts
      <3>3. \/ active' = active /\ queue' = rest
            \/ active' = NoCall /\ queue' = rest
            \/ rest # <<>> /\ active' = Head(rest) /\ queue' = Tail(rest)
        BY <2>3 DEF ResultArrives, rest
      <3> QED
        BY <1>0, <2>1, <3>1, <3>2, <3>3 DEF Shown, OnItsWay, OnScreen
    <2>4. CASE DoneArrives
      <3>1. active' = active /\ queue' \in {queue, <<>>} /\ ToSet(<<>>) = {}
        BY <2>4 DEF DoneArrives, ToSet
      <3> QED
        BY <1>0, <2>1, <3>1 DEF Shown, OnItsWay, OnScreen
    <2>5. CASE StartArrives
      BY <1>0, <2>1, <2>5 DEF StartArrives, cards, Shown, OnItsWay, OnScreen
    <2> QED
      BY <1>1, <2>2, <2>3, <2>4, <2>5
  <1>2. CASE GraceExpires
    <2>1. messages' = messages /\ active' = NoCall /\ queue' = <<>> /\ ToSet(<<>>) = {}
      BY <1>2 DEF GraceExpires, pipes, ToSet
    <2> QED
      BY <1>0, <2>1 DEF Shown, OnItsWay, OnScreen
  <1>3. CASE Draw
    BY <1>3 DEF Draw, pipes, ui, cards, Shown, OnItsWay, OnScreen
  <1> QED
    BY <1>1, <1>2, <1>3 DEF Screen, StartArrives, CardArrives, ResultArrives,
       DoneArrives, Arrived

(* A step that takes no answer and gives none keeps the invariant, if it   *)
(* shows no new card and does not move a gate.                             *)
LEMMA DecidedFrame ==
  ASSUME TypeOK, DecidedInv, CardsKept, UNCHANGED <<gate, answer, decided>>,
         \A c \in Calls : AnswerOnItsWay(c)' => AnswerOnItsWay(c),
         \A c \in Calls : \A d : FirstAnswerIs(c, d) => FirstAnswerIs(c, d)'
  PROVE  DecidedInv'
  <1>1. NoCardBefore'
    BY DEF DecidedInv, NoCardBefore, CardsKept
  <1>2. AnswersInOrder'
    BY DEF DecidedInv, AnswersInOrder
  <1>3. FirstDecisionCounts'
    BY DEF DecidedInv, FirstDecisionCounts
  <1> QED
    BY <1>1, <1>2, <1>3 DEF DecidedInv

(* What a step of pass_gate does to its call.                              *)
GateMoves(c) ==
  /\ gate'[c] \in {"new", "asking"} =>
       gate[c] = "new" /\ answer'[c] = answer[c] /\ bus' = bus
  /\ gate'[c] = "waiting" => gate[c] = "asking"
  /\ answer'[c] \in {answer[c], "policy"}
  /\ gate'[c] = "approved" => answer'[c] \in {"once", "always"}
  /\ gate'[c] = "declined" => answer'[c] = "deny"
  /\ gate'[c] = "aborted" => answer'[c] = "none"

LEMMA GateMovesOn ==
  ASSUME TypeOK, NoCardBefore, NEW c \in Calls, GateNext(c)
  PROVE  GateMoves(c)
  <1>1. CASE CancelledBeforeStart(c)
    BY <1>1 DEF CancelledBeforeStart, TypeOK, NoCardBefore, GateMoves
  <1>2. ASSUME NEW p \in Policy, NEW own \in Own, PassGate(c, p, own)
        PROVE  GateMoves(c)
    <2>1. gate[c] = "new" /\ gate'[c] \in {"closed", "allowed", "asking"}
      BY <1>2 DEF PassGate, Verdict, TypeOK
    <2> QED
      BY <1>2, <2>1 DEF PassGate, pipes, GateMoves
  <1>3. ASSUME NEW p \in Policy, Publish(c, p)
        PROVE  GateMoves(c)
    <2>1. gate[c] = "asking" /\ gate'[c] = "waiting" /\ answer'[c] \in {answer[c], "policy"}
      BY <1>3 DEF Publish, TypeOK
    <2> QED
      BY <2>1 DEF GateMoves
  <1>4. CASE TakeAnswer(c)
    <2>1. answer' = answer /\ answer[c] # "none" /\ answer[c] \in Decision \cup {"none", "policy"}
      BY <1>4 DEF TakeAnswer, TypeOK
    <2>2. gate'[c] = CASE answer[c] = "policy" -> "closed"
                       [] answer[c] = "deny" -> "declined"
                       [] OTHER -> "approved"
      BY <1>4 DEF TakeAnswer, TypeOK
    <2> QED
      BY <2>1, <2>2 DEF GateMoves, Decision
  <1>5. CASE AbortWait(c)
    BY <1>5 DEF AbortWait, TypeOK, GateMoves
  <1> QED
    BY <1>1, <1>2, <1>3, <1>4, <1>5 DEF GateNext

LEMMA DecidedGate ==
  ASSUME TypeOK, DecidedInv, NEW e \in Calls, GateNext(e)
  PROVE  DecidedInv'
  <1>1. UNCHANGED <<requests, messages, cards, decided>>
    BY DEF GateNext, CancelledBeforeStart, PassGate, Publish, TakeAnswer, AbortWait,
           pipes, ui, hist
  <1>2. /\ \A c \in Calls : c # e => gate'[c] = gate[c] /\ answer'[c] = answer[c]
        /\ bus' \in {bus, Append(bus, e)}
    BY DEF GateNext, CancelledBeforeStart, PassGate, Publish, TakeAnswer, AbortWait,
           TypeOK, pipes
  <1>3. \A c \in Calls : Shown(c)' => Shown(c) \/ (c = e /\ bus' # bus)
    <2>1. bus \in Seq(Calls)
      BY DEF TypeOK
    <2>2. bus' # bus => ToSet(bus') = ToSet(bus) \cup {e}
      <3>1. ToSet(Append(bus, e)) = ToSet(bus) \cup {e}
        BY <2>1, AppendFacts
      <3> QED
        BY <1>2, <3>1
    <2> QED
      BY <1>1, <2>2 DEF Shown, OnItsWay, OnScreen, cards
  <1>4. \A c \in Calls : /\ AnswerOnItsWay(c)' = AnswerOnItsWay(c)
                         /\ \A d : FirstAnswerIs(c, d)' = FirstAnswerIs(c, d)
    BY <1>1 DEF AnswerOnItsWay, FirstAnswerIs
  <1>5. GateMoves(e)
    BY GateMovesOn DEF DecidedInv
  <1>6. NoCardBefore'
    BY <1>1, <1>2, <1>3, <1>4, <1>5 DEF DecidedInv, NoCardBefore, GateMoves
  <1>7. AnswersInOrder'
    <2> SUFFICES ASSUME NEW c \in Calls, gate'[c] = "waiting", answer'[c] = "none"
                 PROVE  (decided[c] = "none" /\ ~AnswerOnItsWay(c)) \/ FirstAnswerIs(c, decided[c])
      BY <1>1, <1>4 DEF AnswersInOrder
    <2>1. CASE c = e
      BY <1>5, <2>1 DEF DecidedInv, NoCardBefore, GateMoves
    <2>2. CASE c # e
      BY <1>2, <2>2 DEF DecidedInv, AnswersInOrder
    <2> QED
      BY <2>1, <2>2
  <1>8. FirstDecisionCounts'
    <2> SUFFICES ASSUME NEW c \in Calls
                 PROVE  /\ answer'[c] \in Decision => answer'[c] = decided'[c]
                        /\ gate'[c] = "approved" => answer'[c] \in {"once", "always"}
                        /\ gate'[c] = "declined" => answer'[c] = "deny"
                        /\ gate'[c] = "aborted" => answer'[c] = "none"
      BY DEF FirstDecisionCounts
    <2>1. CASE c = e
      BY <1>1, <1>5, <2>1 DEF DecidedInv, FirstDecisionCounts, GateMoves, Decision
    <2>2. CASE c # e
      BY <1>1, <1>2, <2>2 DEF DecidedInv, FirstDecisionCounts
    <2> QED
      BY <2>1, <2>2
  <1> QED
    BY <1>6, <1>7, <1>8 DEF DecidedInv

LEMMA DecidedWorker ==
  ASSUME TypeOK, DecidedInv,
         SegmentEnds \/ ModelCallCancelled \/ LoopReturns \/ Watcher \/ WorkerNext
  PROVE  DecidedInv'
  <1>1. CardsKept
    BY CardsOfWorker
  <1>2. CASE requests' = requests
    <2>1. UNCHANGED <<gate, answer, decided>>
      <3>1. ~ConfirmTool
        <4>1. ASSUME ConfirmTool PROVE FALSE
          <5>1. requests # <<>> /\ requests' = Tail(requests) /\ requests \in Seq(Request)
            BY <4>1 DEF ConfirmTool, Requested, TypeOK
          <5> QED
            BY <1>2, <5>1
        <4> QED
          BY <4>1
      <3> QED
        BY <3>1 DEF SegmentEnds, ModelCallCancelled, LoopReturns, Watcher, WorkerNext,
           StartTurn, Relay, Forward, Steer, Abort, gates, hist
    <2> QED
      BY <1>1, <1>2, <2>1, DecidedFrame DEF AnswerOnItsWay, FirstAnswerIs
  <1>3. CASE (StartTurn \/ Steer \/ Abort) /\ requests' # requests
    <2>1. /\ requests # <<>> /\ requests' = Tail(requests)
          /\ Head(requests).kind # "answer" /\ UNCHANGED <<gate, answer, decided>>
      BY <1>3, StartedTurn DEF StartTurn, Steer, Abort, Requested, gates, hist
    <2>2. \A c \in Calls : ~IsAnswer(Head(requests), c)
      BY <2>1 DEF IsAnswer
    <2>3. \A c \in Calls :
            /\ AnswerOnItsWay(c)' => AnswerOnItsWay(c)
            /\ \A d : FirstAnswerIs(c, d) => FirstAnswerIs(c, d)'
      BY <2>1, <2>2, RequestTaken
    <2> QED
      BY <1>1, <2>1, <2>3, DecidedFrame
  <1>4. CASE ConfirmTool
    <2> DEFINE r == Head(requests)
    <2>1. /\ requests # <<>> /\ requests' = Tail(requests) /\ r.kind = "answer"
          /\ UNCHANGED <<gate, decided>>
          /\ answer' = IF gate[r.call] = "waiting" /\ answer[r.call] = "none"
                       THEN [answer EXCEPT ![r.call] = r.decision] ELSE answer
      BY <1>4 DEF ConfirmTool, Requested, hist
    <2>2. r \in Request
      BY <2>1, TailFacts DEF TypeOK
    <2>3. r.call \in Calls /\ r.decision \in Decision
      BY <2>1, <2>2 DEF Request
    <2>4. \A c \in Calls :
            answer'[c] = IF c = r.call /\ gate[c] = "waiting" /\ answer[c] = "none"
                         THEN r.decision ELSE answer[c]
      BY <2>1, <2>3 DEF TypeOK
    <2>5. \A c \in Calls : IsAnswer(r, c) <=> c = r.call
      BY <2>1 DEF IsAnswer
    <2> HIDE DEF r
    <2>6. \A c \in Calls :
            /\ AnswerOnItsWay(c)' => AnswerOnItsWay(c)
            /\ c = r.call => AnswerOnItsWay(c)
            /\ \A d : FirstAnswerIs(c, d) =>
                 IF c = r.call THEN r.decision = d ELSE FirstAnswerIs(c, d)'
      BY <2>1, <2>5, RequestTaken DEF r
    <2>7. NoCardBefore'
      BY <1>1, <2>1, <2>4, <2>6 DEF DecidedInv, NoCardBefore, CardsKept
    <2>8. AnswersInOrder'
      <3> SUFFICES ASSUME NEW c \in Calls, gate'[c] = "waiting", answer'[c] = "none"
                   PROVE  \/ decided'[c] = "none" /\ ~AnswerOnItsWay(c)'
                          \/ FirstAnswerIs(c, decided[c])'
        BY DEF AnswersInOrder
      <3>1. c # r.call /\ gate[c] = "waiting" /\ answer[c] = "none" /\ decided'[c] = decided[c]
        BY <2>1, <2>3, <2>4 DEF Decision
      <3> QED
        BY <2>1, <2>6, <3>1 DEF DecidedInv, AnswersInOrder
    <2>9. FirstDecisionCounts'
      <3> SUFFICES ASSUME NEW c \in Calls
                   PROVE  /\ answer'[c] \in Decision => answer'[c] = decided'[c]
                          /\ gate'[c] = "approved" => answer'[c] \in {"once", "always"}
                          /\ gate'[c] = "declined" => answer'[c] = "deny"
                          /\ gate'[c] = "aborted" => answer'[c] = "none"
        BY DEF FirstDecisionCounts
      <3>1. CASE c = r.call /\ gate[c] = "waiting" /\ answer[c] = "none"
        <4>1. FirstAnswerIs(c, decided[c])
          BY <2>6, <3>1 DEF DecidedInv, AnswersInOrder
        <4>2. r.decision = decided[c]
          BY <2>6, <3>1, <4>1
        <4> QED
          BY <2>1, <2>4, <3>1, <4>2
      <3>2. CASE ~(c = r.call /\ gate[c] = "waiting" /\ answer[c] = "none")
        BY <2>1, <2>4, <3>2 DEF DecidedInv, FirstDecisionCounts
      <3> QED
        BY <3>1, <3>2
    <2> QED
      BY <2>7, <2>8, <2>9 DEF DecidedInv
  <1> QED
    BY <1>2, <1>3, <1>4 DEF SegmentEnds, ModelCallCancelled, LoopReturns, Watcher,
       WorkerNext, Relay, Forward, pipes

LEMMA DecidedDecide ==
  ASSUME TypeOK, DecidedInv, NEW e \in Calls, NEW d \in Decision, Decide(e, d),
         Shown(e), CardsKept, UNCHANGED <<gate, answer>>
  PROVE  DecidedInv'
  <1> DEFINE r == [kind |-> "answer", call |-> e, decision |-> d]
  <1>1. /\ r \in Request /\ requests' = Append(requests, r)
        /\ \A c \in Calls : IsAnswer(r, c) <=> c = e
        /\ r.decision = d
    BY DEF Decide, Request, IsAnswer
  <1>2. \A c \in Calls :
          decided'[c] = IF c = e /\ decided[c] = "none" THEN d ELSE decided[c]
    BY DecideFacts
  <1> HIDE DEF r
  <1>3. \A c \in Calls :
          /\ \A a : FirstAnswerIs(c, a) => FirstAnswerIs(c, a)'
          /\ ~AnswerOnItsWay(c) =>
               IF c = e THEN FirstAnswerIs(c, d)' ELSE ~AnswerOnItsWay(c)'
    BY <1>1, RequestSent
  <1>4. gate[e] \notin {"new", "asking"}
    BY DEF DecidedInv, NoCardBefore
  <1>5. NoCardBefore'
    BY <1>2, <1>3, <1>4 DEF DecidedInv, NoCardBefore, CardsKept
  <1>6. AnswersInOrder'
    <2> SUFFICES ASSUME NEW c \in Calls, gate[c] = "waiting", answer[c] = "none"
                 PROVE  \/ decided'[c] = "none" /\ ~AnswerOnItsWay(c)'
                        \/ FirstAnswerIs(c, decided[c])'
      BY DEF AnswersInOrder
    <2>1. CASE decided[c] = "none" /\ ~AnswerOnItsWay(c)
      BY <1>2, <1>3, <2>1
    <2>2. CASE FirstAnswerIs(c, decided[c]) /\ decided'[c] = decided[c]
      BY <1>3, <2>2
    <2>3. CASE FirstAnswerIs(c, decided[c]) /\ decided'[c] # decided[c]
      <3>1. PICK j \in 1 .. Len(requests) :
              IsAnswer(requests[j], c) /\ requests[j].decision = "none"
        BY <1>2, <2>3 DEF FirstAnswerIs
      <3>2. requests[j] \in Request
        BY DEF TypeOK
      <3> QED
        BY <3>1, <3>2 DEF IsAnswer, Request, Decision
    <2> QED
      BY <2>1, <2>2, <2>3 DEF DecidedInv, AnswersInOrder
  <1>7. FirstDecisionCounts'
    BY <1>2 DEF DecidedInv, FirstDecisionCounts, Decision
  <1> QED
    BY <1>5, <1>6, <1>7 DEF DecidedInv

LEMMA DecidedUser == ASSUME TypeOK, DecidedInv, User PROVE DecidedInv'
  <1>1. ASSUME NEW d \in Decision, Press(d)
        PROVE  DecidedInv'
    <2>1. active \in Calls /\ Decide(active, d) /\ Clear
          /\ UNCHANGED <<gate, answer, bus, messages>>
      BY <1>1 DEF Press, TypeOK, gates
    <2>2. Shown(active)
      BY DEF Shown, OnScreen
    <2>3. CardsKept
      BY <2>1, ClearFacts DEF CardsKept, Shown, OnItsWay
    <2> QED
      BY <2>1, <2>2, <2>3, DecidedDecide
  <1>2. ASSUME NEW c \in Calls, NEW d \in {"once", "deny"}, RemoteDecision(c, d)
        PROVE  DecidedInv'
    <2>1. Decide(c, d) /\ d \in Decision /\ UNCHANGED <<gate, answer, bus, messages, active, queue>>
      BY <1>2 DEF RemoteDecision, Decision, gates, ui, cards
    <2>2. Shown(c)
      BY <1>2 DEF RemoteDecision, Shown, OnScreen
    <2>3. CardsKept
      BY <2>1 DEF CardsKept, Shown, OnItsWay, OnScreen
    <2> QED
      BY <2>1, <2>2, <2>3, DecidedDecide
  <1>3. ASSUME NEW r \in Request, r.kind # "answer", requests' = Append(requests, r),
               UNCHANGED <<gate, answer, decided, bus, messages, active, queue>>
        PROVE  DecidedInv'
    <2>1. \A c \in Calls : ~IsAnswer(r, c)
      BY <1>3 DEF IsAnswer
    <2>2. \A c \in Calls :
            /\ AnswerOnItsWay(c)' => AnswerOnItsWay(c)
            /\ \A a : FirstAnswerIs(c, a) => FirstAnswerIs(c, a)'
      BY <1>3, <2>1, RequestSent
    <2>3. CardsKept
      BY <1>3 DEF CardsKept, Shown, OnItsWay, OnScreen
    <2> QED
      BY <1>3, <2>2, <2>3, DecidedFrame
  <1>4. CASE Cancel \/ RemoteCancel
    <2>1. [kind |-> "abort"] \in Request
      BY DEF Request
    <2> QED
      BY <1>3, <1>4, <2>1 DEF Cancel, RemoteCancel, gates, ui, cards
  <1>5. CASE SendMessage \/ SteerMessage
    <2>1. [kind |-> "message", turn |-> sent + 1] \in Request
      BY <1>5, PlanAssumption DEF SendMessage, SteerMessage, SendsMessage, TypeOK,
         Turn, Request
    <2> QED
      BY <1>3, <1>5, <2>1 DEF SendMessage, SteerMessage, SendsMessage, gates, cards
  <1> QED
    BY <1>1, <1>2, <1>4, <1>5 DEF User

LEMMA DecidedInvariant == Spec => []DecidedInv
  <1>1. Init => DecidedInv
    <2> SUFFICES ASSUME Init PROVE DecidedInv
      OBVIOUS
    <2>1. ToSet(bus) = {} /\ ToSet(messages) = {} /\ ToSet(queue) = {} /\ DOMAIN requests = {}
      BY DEF Init, ToSet
    <2>2. \A c \in Calls : ~Shown(c) /\ ~AnswerOnItsWay(c)
      BY <2>1, CallAssumption DEF Init, Shown, OnItsWay, OnScreen, AnswerOnItsWay
    <2> QED
      BY <2>2 DEF Init, DecidedInv, NoCardBefore, AnswersInOrder, FirstDecisionCounts,
         Decision
  <1>2. TypeOK /\ DecidedInv /\ [Next]_vars => DecidedInv'
    <2> SUFFICES ASSUME TypeOK, DecidedInv, [Next]_vars PROVE DecidedInv'
      OBVIOUS
    <2>1. CASE Screen
      <3>1. UNCHANGED <<gate, answer, requests, decided>>
        BY <2>1 DEF Screen, StartArrives, CardArrives, ResultArrives, DoneArrives,
           GraceExpires, Draw,
                    gates, pipes, hist
      <3> QED
        BY <2>1, <3>1, CardsOfScreen, DecidedFrame DEF AnswerOnItsWay, FirstAnswerIs
    <2>2. CASE UNCHANGED vars
      BY <2>2, DecidedFrame DEF vars, gates, pipes, ui, cards, hist, CardsKept, Shown,
         OnItsWay, OnScreen, AnswerOnItsWay, FirstAnswerIs
    <2> QED
      BY <2>1, <2>2, DecidedGate, DecidedWorker, DecidedUser DEF Next, LoopNext
  <1> QED
    BY <1>1, <1>2, TypeCorrect, PTL DEF Spec

(* The first decision on a card settles its call.                          *)
THEOREM TheFirstDecisionCounts == Spec => []FirstDecisionCounts
  <1>1. DecidedInv => FirstDecisionCounts
    BY DEF DecidedInv
  <1> QED
    BY <1>1, DecidedInvariant, PTL

(* A call runs only if the policy, a lasting answer for its tool or the    *)
(* user on its own card allowed it, within the limits of each.             *)
THEOREM NothingElseRuns == Spec => []OnlyAllowedCallsRun
  <1>1. Init => AllowedInv
    BY DEF Init, AllowedInv
  <1>2. Spec => []AllowedInv
    BY <1>1, AllowedStep, TypeCorrect, PTL DEF Spec
  <1>3. AllowedInv /\ FirstDecisionCounts => OnlyAllowedCallsRun
    BY DEF AllowedInv, FirstDecisionCounts, OnlyAllowedCallsRun, Decision
  <1> QED
    BY <1>2, <1>3, TheFirstDecisionCounts, PTL
-----------------------------------------------------------------------------
(* The refinement of Permissions.  What the policy decided has no card, so *)
(* nobody says a word about it; the token is cancelled under the flag only.*)
Cardless(c) == ~Shown(c) /\ ~AnswerOnItsWay(c) /\ decided[c] = "none"
ByThePolicy(c) == gate[c] = "allowed" \/ answer[c] = "policy"
CardlessInv == \A c \in Calls : ByThePolicy(c) => Cardless(c)
TokenInv == token => flag

LEMMA AnswersOfWorker ==
  ASSUME TypeOK, SegmentEnds \/ ModelCallCancelled \/ LoopReturns \/ Watcher \/ WorkerNext,
         NEW c \in Calls
  PROVE  AnswerOnItsWay(c)' => AnswerOnItsWay(c)
  <1>1. \/ requests' = requests
        \/ requests # <<>> /\ requests' = Tail(requests)
    BY StartedTurn DEF SegmentEnds, ModelCallCancelled, LoopReturns, Watcher, WorkerNext,
       Relay, Forward, Steer, ConfirmTool, Abort, Requested, pipes
  <1>2. CASE requests' = requests
    BY <1>2 DEF AnswerOnItsWay
  <1> QED
    BY <1>1, <1>2, RequestTaken

LEMMA CardlessFrame ==
  ASSUME TypeOK, CardlessInv, CardsKept, UNCHANGED decided,
         \A c \in Calls : AnswerOnItsWay(c)' => AnswerOnItsWay(c),
         \A c \in Calls : ByThePolicy(c)' => ByThePolicy(c)
  PROVE  CardlessInv'
  BY DEF CardlessInv, Cardless, CardsKept

LEMMA CardlessGate ==
  ASSUME TypeOK, DecidedInv, CardlessInv, NEW e \in Calls, GateNext(e)
  PROVE  CardlessInv'
  <1>1. UNCHANGED <<requests, messages, cards, decided>>
    BY DEF GateNext, CancelledBeforeStart, PassGate, Publish, TakeAnswer, AbortWait,
           pipes, ui, hist
  <1>2. /\ \A c \in Calls : c # e => gate'[c] = gate[c] /\ answer'[c] = answer[c]
        /\ bus' = bus \/ (bus' = Append(bus, e) /\ gate'[e] = "waiting" /\ answer' = answer
                          /\ gate[e] = "asking")
    BY DEF GateNext, CancelledBeforeStart, PassGate, Publish, TakeAnswer, AbortWait,
           TypeOK, pipes
  <1>3. \A c \in Calls : ByThePolicy(c)' /\ ~ByThePolicy(c) =>
          c = e /\ gate[e] \in {"new", "asking"} /\ bus' = bus
    BY <1>2 DEF ByThePolicy, GateNext, CancelledBeforeStart, PassGate, Publish,
       TakeAnswer,
           AbortWait, TypeOK, pipes
  <1>4. \A c \in Calls : Shown(c)' => Shown(c) \/ (c = e /\ bus' # bus)
    <2>1. ToSet(Append(bus, e)) = ToSet(bus) \cup {e}
      BY AppendFacts DEF TypeOK
    <2>2. \A c \in Calls : c \in ToSet(bus') => c \in ToSet(bus) \/ (c = e /\ bus' # bus)
      <3>1. CASE bus' = bus
        BY <3>1
      <3>2. CASE bus' = Append(bus, e) /\ bus' # bus
        <4>1. ToSet(bus') = ToSet(bus) \cup {e}
          BY <2>1, <3>2
        <4> QED
          BY <3>2, <4>1
      <3> QED
        BY <1>2, <3>1, <3>2
    <2> QED
      BY <1>1, <2>2 DEF Shown, OnItsWay, OnScreen, cards
  <1>5. \A c \in Calls : AnswerOnItsWay(c)' = AnswerOnItsWay(c)
    BY <1>1 DEF AnswerOnItsWay
  <1> SUFFICES ASSUME NEW c \in Calls, ByThePolicy(c)' PROVE Cardless(c)'
    BY DEF CardlessInv
  <1>6. Cardless(c)
    BY <1>3 DEF CardlessInv, Cardless, DecidedInv, NoCardBefore
  <1>7. ~(c = e /\ bus' # bus)
    <2> SUFFICES ASSUME c = e, bus' # bus PROVE FALSE
      OBVIOUS
    <2>1. ByThePolicy(c)
      BY <1>3
    <2> QED
      BY <1>2, <2>1 DEF ByThePolicy, DecidedInv, NoCardBefore
  <1> QED
    BY <1>1, <1>4, <1>5, <1>6, <1>7 DEF Cardless

LEMMA CardlessWorker ==
  ASSUME TypeOK, CardlessInv,
         SegmentEnds \/ ModelCallCancelled \/ LoopReturns \/ Watcher \/ WorkerNext
  PROVE  CardlessInv'
  <1>1. CardsKept
    BY CardsOfWorker
  <1>2. \A c \in Calls : AnswerOnItsWay(c)' => AnswerOnItsWay(c)
    BY AnswersOfWorker
  <1>3. UNCHANGED <<gate, decided>>
    BY DEF SegmentEnds, ModelCallCancelled, LoopReturns, Watcher, WorkerNext, StartTurn,
       Relay, Forward, Steer, ConfirmTool, Abort, gates, hist
  <1>4. \A c \in Calls : answer'[c] = "policy" => answer[c] = "policy"
    <2>1. CASE ConfirmTool
      <3> DEFINE r == Head(requests)
      <3>1. r \in Request /\ r.kind = "answer"
        BY <2>1, TailFacts DEF ConfirmTool, Requested, TypeOK
      <3>2. r.decision \in Decision
        BY <3>1 DEF Request
      <3>3. \A c \in Calls : answer'[c] \in {answer[c], r.decision}
        BY <2>1 DEF ConfirmTool, TypeOK
      <3> QED
        BY <3>2, <3>3 DEF Decision
    <2>2. CASE ~ConfirmTool
      BY <2>2 DEF SegmentEnds, ModelCallCancelled, LoopReturns, Watcher, WorkerNext,
         StartTurn, Relay, Forward, Steer, Abort, gates
    <2> QED
      BY <2>1, <2>2
  <1> QED
    BY <1>1, <1>2, <1>3, <1>4, CardlessFrame DEF ByThePolicy

LEMMA CardlessUser == ASSUME TypeOK, CardlessInv, User PROVE CardlessInv'
  <1>0. UNCHANGED <<gate, answer, bus, messages>>
    BY DEF User, Press, RemoteDecision, Cancel, RemoteCancel, SendMessage,
       SteerMessage, SendsMessage, gates
  <1>1. ASSUME NEW e \in Calls, NEW d \in Decision, Decide(e, d), Shown(e), CardsKept
        PROVE  CardlessInv'
    <2> DEFINE r == [kind |-> "answer", call |-> e, decision |-> d]
    <2>1. /\ r \in Request /\ requests' = Append(requests, r)
          /\ \A c \in Calls : IsAnswer(r, c) <=> c = e
      BY <1>1 DEF Decide, Request, IsAnswer
    <2>2. \A c \in Calls :
            decided'[c] = IF c = e /\ decided[c] = "none" THEN d ELSE decided[c]
      BY <1>1, DecideFacts
    <2> HIDE DEF r
    <2>3. \A c \in Calls : ~AnswerOnItsWay(c) /\ c # e => ~AnswerOnItsWay(c)'
      BY <2>1, RequestSent
    <2> SUFFICES ASSUME NEW c \in Calls, ByThePolicy(c)' PROVE Cardless(c)'
      BY DEF CardlessInv
    <2>4. ByThePolicy(c)
      BY <1>0 DEF ByThePolicy
    <2>5. Cardless(c) /\ c # e
      BY <1>1, <2>4 DEF CardlessInv, Cardless
    <2> QED
      BY <1>1, <2>2, <2>3, <2>5 DEF Cardless, CardsKept
  <1>2. ASSUME NEW d \in Decision, Press(d)
        PROVE  CardlessInv'
    <2>1. active \in Calls /\ Decide(active, d) /\ Clear
      BY <1>2 DEF Press, TypeOK
    <2>2. CardsKept
      BY <1>0, <2>1, ClearFacts DEF CardsKept, Shown, OnItsWay
    <2> QED
      BY <1>1, <2>1, <2>2 DEF Shown, OnScreen
  <1>3. ASSUME NEW c \in Calls, NEW d \in {"once", "deny"}, RemoteDecision(c, d)
        PROVE  CardlessInv'
    <2>1. Decide(c, d) /\ d \in Decision /\ UNCHANGED <<active, queue>>
      BY <1>3 DEF RemoteDecision, Decision, ui, cards
    <2>2. CardsKept
      BY <1>0, <2>1 DEF CardsKept, Shown, OnItsWay, OnScreen
    <2>3. Shown(c)
      BY <1>3 DEF RemoteDecision, Shown, OnScreen
    <2> QED
      BY <1>1, <2>1, <2>2, <2>3
  <1>4. CASE Cancel \/ RemoteCancel \/ SendMessage \/ SteerMessage
    <2>1. PICK r \in Request : r.kind # "answer" /\ requests' = Append(requests, r)
      <3>1. CASE Cancel \/ RemoteCancel
        BY <3>1 DEF Cancel, RemoteCancel, Request
      <3>2. CASE SendMessage \/ SteerMessage
        <4>1. [kind |-> "message", turn |-> sent + 1] \in Request
          BY <3>2, PlanAssumption DEF SendMessage, SteerMessage, SendsMessage, TypeOK,
             Turn, Request
        <4> QED
          BY <3>2, <4>1 DEF SendMessage, SteerMessage, SendsMessage
      <3> QED
        BY <1>4, <3>1, <3>2
    <2>2. UNCHANGED <<active, queue, decided>>
      BY <1>4 DEF Cancel, RemoteCancel, SendMessage, SteerMessage, SendsMessage, ui, cards
    <2>3. \A c \in Calls : AnswerOnItsWay(c)' => AnswerOnItsWay(c)
      BY <2>1, RequestSent DEF IsAnswer
    <2>4. CardsKept
      BY <1>0, <2>2 DEF CardsKept, Shown, OnItsWay, OnScreen
    <2> QED
      BY <1>0, <2>2, <2>3, <2>4, CardlessFrame DEF ByThePolicy
  <1> QED
    BY <1>2, <1>3, <1>4 DEF User

LEMMA CardlessHolds == Spec => [](CardlessInv /\ TokenInv)
  <1>1. Init => CardlessInv /\ TokenInv
    BY DEF Init, CardlessInv, ByThePolicy, TokenInv
  <1>2. TypeOK /\ DecidedInv /\ CardlessInv /\ [Next]_vars => CardlessInv'
    <2> SUFFICES ASSUME TypeOK, DecidedInv, CardlessInv, [Next]_vars PROVE CardlessInv'
      OBVIOUS
    <2>1. CASE Screen
      <3>1. UNCHANGED <<gate, answer, requests, decided>>
        BY <2>1 DEF Screen, StartArrives, CardArrives, ResultArrives, DoneArrives,
           GraceExpires, Draw,
                    gates, pipes, hist
      <3> QED
        BY <2>1, <3>1, CardsOfScreen, CardlessFrame DEF AnswerOnItsWay, ByThePolicy
    <2>2. CASE UNCHANGED vars
      BY <2>2, CardlessFrame DEF vars, gates, pipes, ui, cards, hist, CardsKept, Shown,
         OnItsWay, OnScreen, AnswerOnItsWay, ByThePolicy
    <2> QED
      BY <2>1, <2>2, CardlessGate, CardlessWorker, CardlessUser DEF Next, LoopNext
  <1>3. TokenInv /\ [Next]_vars => TokenInv'
    BY DEF TokenInv, Next, GateNext, CancelledBeforeStart, PassGate, Publish, AbortWait,
       TakeAnswer, LoopNext, SegmentEnds, ModelCallCancelled, LoopReturns, Watcher,
       WorkerNext, StartTurn, Relay, Forward, Steer, ConfirmTool, Abort,
       Screen, StartArrives, CardArrives, ResultArrives, DoneArrives, GraceExpires, Draw,
       User, Press, RemoteDecision, Cancel, RemoteCancel, SendMessage, SteerMessage,
       SendsMessage, vars, loop
  <1> QED
    BY <1>1, <1>2, <1>3, TypeCorrect, DecidedInvariant, PTL DEF Spec

(* The steps of the gate, as steps of Permissions.                         *)
Fates == [c \in Calls |-> Fate(c)]
Promise == <<Fates, decided, grants, flag>>

LEMMA FatesKept ==
  ASSUME UNCHANGED <<gate, policy>>
  PROVE  UNCHANGED Fates
  BY DEF Fates, Fate

LEMMA FateMoves ==
  ASSUME TypeOK, NEW e \in Calls,
         \A c \in Calls : c # e => gate'[c] = gate[c] /\ policy'[c] = policy[c]
  PROVE  Fates' = [Fates EXCEPT ![e] = Fate(e)']
  BY DEF Fates, Fate

LEMMA GateRefines ==
  ASSUME TypeOK, DecidedInv, CardlessInv, TokenInv, NEW e \in Calls, GateNext(e)
  PROVE  Gate!Next \/ UNCHANGED Promise
  <1>1. UNCHANGED <<decided, flag>>
    BY DEF GateNext, CancelledBeforeStart, PassGate, Publish, TakeAnswer, AbortWait,
       loop, hist
  <1>2. Fates' = [Fates EXCEPT ![e] = Fate(e)']
    <2>1. \A c \in Calls : c # e => gate'[c] = gate[c] /\ policy'[c] = policy[c]
      BY DEF GateNext, CancelledBeforeStart, PassGate, Publish, TakeAnswer, AbortWait,
         TypeOK
    <2> QED
      BY <2>1, FateMoves
  <1>3. Fates[e] = Fate(e)
    BY DEF Fates
  <1>4. ASSUME Fates[e] \in {"new", "asked"}, decided[e] \in {"none", "deny"},
               Fate(e)' = "refused", UNCHANGED grants
        PROVE  Gate!Next
    <2>1. Gate!Refuse(e)
      BY <1>1, <1>2, <1>4 DEF Gate!Refuse, Fates
    <2> QED
      BY <2>1 DEF Gate!Next
  <1>5. CASE CancelledBeforeStart(e)
    <2>1. gate[e] = "new" /\ gate'[e] = "aborted" /\ UNCHANGED grants
      BY <1>5 DEF CancelledBeforeStart, TypeOK
    <2>2. decided[e] = "none" /\ Fate(e) = "new" /\ Fate(e)' = "refused"
      BY <2>1 DEF DecidedInv, NoCardBefore, Fate
    <2> QED
      BY <1>3, <1>4, <2>1, <2>2
  <1>6. ASSUME NEW p \in Policy, NEW own \in Own, PassGate(e, p, own)
        PROVE  Gate!Next
    <2>1. gate[e] = "new" /\ gate'[e] = Verdict(e, p, own) /\ UNCHANGED grants
      BY <1>6 DEF PassGate, TypeOK
    <2>2. decided[e] = "none" /\ Fate(e) = "new"
      BY <2>1 DEF DecidedInv, NoCardBefore, Fate
    <2>3. CASE gate'[e] = "closed"
      BY <1>3, <1>4, <2>1, <2>2, <2>3 DEF Fate
    <2>4. CASE gate'[e] = "asking"
      <3>1. Fate(e)' = "asked"
        BY <2>4 DEF Fate
      <3>2. Gate!Ask(e)
        BY <1>1, <1>2, <1>3, <2>1, <2>2, <3>1 DEF Gate!Ask, Fates
      <3> QED
        BY <3>2 DEF Gate!Next
    <2>5. CASE gate'[e] = "allowed"
      <3>1. Verdict(e, p, own) = "allowed"
        BY <2>1, <2>5
      <3>2. Approved(e, p)
        BY <3>1 DEF Verdict
      <3>3. policy'[e] = p
        BY <1>6, <3>1 DEF PassGate, TypeOK
      <3>4. e \notin Sensitive
        BY <3>2 DEF Approved
      <3>5. CASE p = "allow"
        <4>1. Fate(e)' = "policy"
          BY <2>5, <3>3, <3>5 DEF Fate
        <4>2. Gate!ByPolicy(e)
          BY <1>1, <1>2, <1>3, <2>1, <2>2, <3>4, <4>1 DEF Gate!ByPolicy, Fates
        <4> QED
          BY <4>2 DEF Gate!Next
      <3>6. CASE p # "allow"
        <4>1. Fate(e)' = "grant"
          BY <2>5, <3>3, <3>6 DEF Fate
        <4>2. Tool[e] \in grants
          BY <3>2, <3>6 DEF Approved, Granted
        <4>3. Gate!ByGrant(e)
          BY <1>1, <1>2, <1>3, <2>1, <2>2, <3>4, <4>1, <4>2 DEF Gate!ByGrant, Fates
        <4> QED
          BY <4>3 DEF Gate!Next
      <3> QED
        BY <3>5, <3>6
    <2> QED
      BY <2>1, <2>3, <2>4, <2>5 DEF Verdict
  <1>7. ASSUME NEW p \in Policy, Publish(e, p)
        PROVE  UNCHANGED Promise
    <2>1. gate[e] = "asking" /\ gate'[e] = "waiting" /\ UNCHANGED grants
      BY <1>7 DEF Publish, TypeOK
    <2>2. Fate(e)' = Fates[e]
      BY <1>3, <2>1 DEF Fate
    <2>3. Fates' = Fates
      BY <1>2, <2>2 DEF Fates
    <2> QED
      BY <1>1, <2>1, <2>3 DEF Promise
  <1>8. CASE TakeAnswer(e)
    <2>1. /\ gate[e] = "waiting" /\ answer[e] \in Decision \cup {"policy"}
          /\ gate'[e] = CASE answer[e] = "policy" -> "closed"
                          [] answer[e] = "deny" -> "declined"
                          [] OTHER -> "approved"
          /\ grants' = GrantsAfter(e, answer[e])
      BY <1>8 DEF TakeAnswer, TypeOK
    <2>2. Fates[e] = "asked"
      BY <1>3, <2>1 DEF Fate
    <2>3. CASE answer[e] = "policy"
      <3>1. decided[e] = "none"
        BY <2>3 DEF CardlessInv, Cardless, ByThePolicy
      <3>2. Fate(e)' = "refused" /\ UNCHANGED grants
        BY <2>1, <2>3 DEF Fate, GrantsAfter
      <3> QED
        BY <1>4, <2>2, <3>1, <3>2
    <2>4. CASE answer[e] = "deny"
      <3>1. decided[e] = "deny"
        BY <2>4 DEF DecidedInv, FirstDecisionCounts, Decision
      <3>2. Fate(e)' = "refused" /\ UNCHANGED grants
        BY <2>1, <2>4 DEF Fate, GrantsAfter
      <3> QED
        BY <1>4, <2>2, <3>1, <3>2
    <2>5. CASE answer[e] \in {"once", "always"}
      <3>1. decided[e] = answer[e]
        BY <2>5 DEF DecidedInv, FirstDecisionCounts, Decision
      <3>2. Fate(e)' = "user"
        BY <2>1, <2>5 DEF Fate
      <3>3. Gate!ByUser(e)
        BY <1>1, <1>2, <2>1, <2>2, <2>5, <3>1, <3>2 DEF Gate!ByUser, GrantsAfter, Fates
      <3> QED
        BY <3>3 DEF Gate!Next
    <2> QED
      BY <2>1, <2>3, <2>4, <2>5 DEF Decision
  <1>9. CASE AbortWait(e)
    <2>1. gate[e] = "waiting" /\ gate'[e] = "aborted" /\ UNCHANGED grants /\ flag
      BY <1>9 DEF AbortWait, TypeOK, TokenInv
    <2>2. Fates[e] = "asked" /\ Fate(e)' = "refused"
      BY <1>3, <2>1 DEF Fate
    <2>3. Gate!Withdraw(e)
      BY <1>1, <1>2, <2>1, <2>2 DEF Gate!Withdraw, Fates
    <2> QED
      BY <2>3 DEF Gate!Next
  <1> QED
    BY <1>5, <1>6, <1>7, <1>8, <1>9 DEF GateNext

LEMMA SayingRefines ==
  ASSUME TypeOK, DecidedInv, CardlessInv, NEW e \in Calls, NEW d \in Decision,
         Decide(e, d), Shown(e), UNCHANGED <<gate, policy, grants, flag>>
  PROVE  Gate!Next \/ UNCHANGED Promise
  <1>1. UNCHANGED Fates
    BY FatesKept
  <1>2. CASE decided[e] # "none"
    BY <1>1, <1>2 DEF Decide, Promise
  <1>3. CASE decided[e] = "none"
    <2>1. gate[e] \notin {"new", "asking", "allowed"} /\ gate[e] \in Phase
      BY DEF DecidedInv, NoCardBefore, CardlessInv, Cardless, ByThePolicy, TypeOK
    <2>2. Fate(e) \in {"asked", "user", "refused"}
      BY <2>1 DEF Fate, Phase
    <2>3. Fates[e] \in {"asked", "user", "refused"}
      BY <2>2 DEF Fates
    <2>4. decided' = [decided EXCEPT ![e] = d]
      BY <1>3 DEF Decide
    <2>5. Gate!Say(e, d)
      BY <1>1, <1>3, <2>3, <2>4 DEF Gate!Say, Fates
    <2> QED
      BY <2>5 DEF Gate!Next, Decision
  <1> QED
    BY <1>2, <1>3

LEMMA StepRefines ==
  ASSUME TypeOK, DecidedInv, CardlessInv, TokenInv, [Next]_vars
  PROVE  Gate!Next \/ UNCHANGED Promise
  <1>1. ASSUME NEW d \in Decision, Press(d)
        PROVE  Gate!Next \/ UNCHANGED Promise
    <2>1. active \in Calls /\ Decide(active, d) /\ UNCHANGED <<gate, policy, grants, flag>>
      BY <1>1 DEF Press, TypeOK, gates, loop
    <2>2. Shown(active)
      BY DEF Shown, OnScreen
    <2> QED
      BY <2>1, <2>2, SayingRefines
  <1>2. ASSUME NEW c \in Calls, NEW d \in {"once", "deny"}, RemoteDecision(c, d)
        PROVE  Gate!Next \/ UNCHANGED Promise
    <2>1. d \in Decision /\ Decide(c, d) /\ UNCHANGED <<gate, policy, grants, flag>>
      BY <1>2 DEF RemoteDecision, Decision, gates, loop
    <2>2. Shown(c)
      BY <1>2 DEF RemoteDecision, Shown, OnScreen
    <2> QED
      BY <2>1, <2>2, SayingRefines
  <1>3. CASE Forward \/ Abort
    <2>1. UNCHANGED <<gate, policy, decided, grants>> /\ flag' \in BOOLEAN
      BY <1>3 DEF Forward, Abort, gates, hist, TypeOK
    <2>2. Gate!Cancel
      BY <2>1, FatesKept DEF Gate!Cancel, Fates
    <2> QED
      BY <2>2 DEF Gate!Next
  <1>4. CASE LoopNext \/ StartTurn \/ Relay \/ Steer \/ ConfirmTool \/ Screen
             \/ Cancel \/ RemoteCancel \/ SendMessage \/ SteerMessage \/ UNCHANGED vars
    <2>1. UNCHANGED <<gate, policy, decided, grants, flag>>
      BY <1>4 DEF LoopNext, SegmentEnds, ModelCallCancelled, LoopReturns, Watcher,
         StartTurn, Relay, Steer, ConfirmTool, Screen, StartArrives, CardArrives,
         ResultArrives, DoneArrives, GraceExpires, Draw, Cancel, RemoteCancel,
         SendMessage, SteerMessage, SendsMessage, vars, gates, loop, hist
    <2> QED
      BY <2>1, FatesKept DEF Promise
  <1> QED
    BY <1>1, <1>2, <1>3, <1>4, GateRefines DEF Next, WorkerNext, User

(* The gate keeps the promises of Permissions: between a call and the      *)
(* user's word lie the bus, two channels, the cards and the worker, and it *)
(* is as if the first word reached the call at once (pass_gate).           *)
THEOREM TheGateKeepsItsPromise == Spec => ImplementsPermissions
  <1>1. Init => Gate!Init
    BY DEF Init, Gate!Init, Fate
  <1>2. TypeOK /\ DecidedInv /\ CardlessInv /\ TokenInv /\ [Next]_vars => [Gate!Next]_Promise
    BY StepRefines
  <1> QED
    BY <1>1, <1>2, TypeCorrect, DecidedInvariant, CardlessHolds, PTL
       DEF Spec, ImplementsPermissions, Gate!Spec, Promise, Fates
-----------------------------------------------------------------------------
(* Every wait has its card.  First, sequences by their indices.            *)
LEMMA TailIndex ==
  ASSUME NEW S, NEW s \in Seq(S), s # <<>>
  PROVE  /\ 1 \in DOMAIN s /\ Head(s) = s[1] /\ DOMAIN s \subseteq Nat \ {0}
         /\ DOMAIN Tail(s) \subseteq Nat \ {0} /\ Len(Tail(s)) = Len(s) - 1
         /\ \A i \in DOMAIN Tail(s) : i + 1 \in DOMAIN s /\ Tail(s)[i] = s[i + 1]
         /\ \A i \in DOMAIN s : i # 1 => i - 1 \in DOMAIN Tail(s) /\ s[i] = Tail(s)[i - 1]
  OBVIOUS

LEMMA AppendIndex ==
  ASSUME NEW S, NEW s \in Seq(S), NEW x \in S
  PROVE  /\ DOMAIN s \subseteq Nat \ {0} /\ Len(s) \in Nat
         /\ DOMAIN Append(s, x) = DOMAIN s \cup {Len(s) + 1}
         /\ \A i \in DOMAIN s : i < Len(s) + 1 /\ Append(s, x)[i] = s[i]
         /\ Append(s, x)[Len(s) + 1] = x
  OBVIOUS

LEMMA KindsOfResults ==
  ASSUME NEW calls \in SUBSET Calls, NEW r \in ToSet(Results(calls))
  PROVE  r.kind = "result" /\ r.call \in calls
  <1>1. IsFiniteSet(calls)
    BY CallAssumption, FS_Subset
  <1>2. Cardinality(calls) \in Nat /\ ExistsBijection(1 .. Cardinality(calls), calls)
    BY <1>1, FS_CardinalityType
  <1>3. PICK f : f \in [1 .. Cardinality(calls) -> calls] /\ IsInjective(f)
    BY <1>2 DEF ExistsBijection, Bijection, Injection
  <1>4. SetToSeq(calls) \in [1 .. Cardinality(calls) -> calls]
    BY <1>3 DEF SetToSeq
  <1>5. PICK j \in 1 .. Cardinality(calls) :
          r = [kind |-> "result", call |-> SetToSeq(calls)[j]]
    BY DEF ToSet, Results
  <1> QED
    BY <1>4, <1>5

(* Messages of the user are asked for in the order of their turns, later   *)
(* than turn t and up to the last one sent, n.                             *)
InOrder(q, t, n) ==
  \A j \in DOMAIN q : q[j].kind = "message" =>
    /\ t < q[j].turn /\ q[j].turn <= n
    /\ \A i \in DOMAIN q : i < j /\ q[i].kind = "message" => q[i].turn < q[j].turn

LEMMA InOrderTail ==
  ASSUME NEW q \in Seq(Request), q # <<>>, NEW t, NEW n, InOrder(q, t, n)
  PROVE  /\ InOrder(Tail(q), t, n)
         /\ Head(q).kind = "message" => InOrder(Tail(q), Head(q).turn, n) /\ Head(q).turn <= n
  <1>1. /\ 1 \in DOMAIN q /\ Head(q) = q[1] /\ DOMAIN Tail(q) \subseteq Nat \ {0}
        /\ \A i \in DOMAIN Tail(q) : i + 1 \in DOMAIN q /\ Tail(q)[i] = q[i + 1]
    BY TailIndex
  <1>2. \A i, j \in DOMAIN Tail(q) : i < j => i + 1 < j + 1
    BY <1>1
  <1>3. \A j \in DOMAIN Tail(q) : 1 < j + 1
    BY <1>1
  <1>4. InOrder(Tail(q), t, n)
    BY <1>1, <1>2 DEF InOrder
  <1>5. Head(q).kind = "message" => InOrder(Tail(q), Head(q).turn, n) /\ Head(q).turn <= n
    BY <1>1, <1>2, <1>3 DEF InOrder
  <1> QED
    BY <1>4, <1>5

LEMMA InOrderAppend ==
  ASSUME NEW q \in Seq(Request), NEW t \in Nat, NEW n \in Nat, t <= n, InOrder(q, t, n),
         NEW r \in Request
  PROVE  /\ r.kind # "message" => InOrder(Append(q, r), t, n)
         /\ r.kind = "message" /\ r.turn = n + 1 => InOrder(Append(q, r), t, n + 1)
  <1> DEFINE a == Append(q, r)
  <1>1. /\ DOMAIN a = DOMAIN q \cup {Len(q) + 1} /\ a[Len(q) + 1] = r
        /\ \A i \in DOMAIN q : i < Len(q) + 1 /\ a[i] = q[i]
        /\ Len(q) \in Nat /\ DOMAIN q \subseteq Nat \ {0}
    BY AppendIndex
  <1>2. \A j \in DOMAIN q : ~(Len(q) + 1 < j)
    BY <1>1
  <1>3. \A j \in DOMAIN q : q[j].kind = "message" => q[j].turn \in Nat
    <2>1. \A j \in DOMAIN q : q[j] \in Request
      OBVIOUS
    <2>2. Turn \subseteq Nat
      BY PlanAssumption DEF Turn
    <2> QED
      BY <2>1, <2>2 DEF Request
  <1>4. ~(Len(q) + 1 < Len(q) + 1)
    BY <1>1
  <1> HIDE DEF a
  <1>5. ASSUME r.kind # "message"
        PROVE  InOrder(a, t, n)
    BY <1>1, <1>2, <1>5 DEF InOrder
  <1>6. ASSUME r.kind = "message", r.turn = n + 1
        PROVE  InOrder(a, t, n + 1)
    <2>1. \A j \in DOMAIN q : q[j].kind = "message" =>
            q[j].turn <= n + 1 /\ q[j].turn < r.turn /\ t < q[j].turn
      BY <1>3, <1>6 DEF InOrder
    <2>2. t < r.turn /\ r.turn <= n + 1
      BY <1>6
    <2> QED
      BY <1>1, <1>2, <1>4, <2>1, <2>2 DEF InOrder
  <1> QED
    BY <1>5, <1>6 DEF a

(* Messages that joined turn t, and were not taken in, come in order too,  *)
(* and before those that are still asked for.                              *)
SteersInOrder(s, q, t, n) ==
  \A i \in DOMAIN s :
    /\ t < s[i] /\ s[i] <= n
    /\ \A j \in DOMAIN s : i < j => s[i] < s[j]
    /\ \A r \in ToSet(q) : r.kind = "message" => s[i] < r.turn

LEMMA SteersInOrderTail ==
  ASSUME NEW s \in Seq(Turn), s # <<>>, NEW q \in Seq(Request), NEW t, NEW n,
         InOrder(q, t, n), SteersInOrder(s, q, t, n)
  PROVE  /\ t < Head(s) /\ Head(s) <= n /\ InOrder(q, Head(s), n)
         /\ SteersInOrder(Tail(s), q, Head(s), n)
  <1>1. /\ 1 \in DOMAIN s /\ Head(s) = s[1] /\ DOMAIN Tail(s) \subseteq Nat \ {0}
        /\ \A i \in DOMAIN Tail(s) : i + 1 \in DOMAIN s /\ Tail(s)[i] = s[i + 1]
    BY TailIndex
  <1>2. \A i, j \in DOMAIN Tail(s) : i < j => i + 1 < j + 1
    BY <1>1
  <1>3. \A j \in DOMAIN Tail(s) : 1 < j + 1
    BY <1>1
  <1>4. \A j \in DOMAIN q : q[j] \in ToSet(q)
    BY DEF ToSet
  <1> QED
    BY <1>1, <1>2, <1>3, <1>4 DEF SteersInOrder, InOrder

LEMMA SteersInOrderAppend ==
  ASSUME NEW s \in Seq(Turn), NEW q \in Seq(Request), q # <<>>, NEW t, NEW n,
         InOrder(q, t, n), SteersInOrder(s, q, t, n), Head(q).kind = "message"
  PROVE  SteersInOrder(Append(s, Head(q).turn), Tail(q), t, n)
  <1> DEFINE x == Head(q).turn
             a == Append(s, x)
  <1>1. /\ 1 \in DOMAIN q /\ Head(q) = q[1] /\ DOMAIN Tail(q) \subseteq Nat \ {0}
        /\ \A i \in DOMAIN Tail(q) : i + 1 \in DOMAIN q /\ Tail(q)[i] = q[i + 1]
        /\ Head(q) \in Request
    BY TailIndex
  <1>2. x \in Turn
    BY <1>1 DEF Request
  <1>3. /\ DOMAIN s \subseteq Nat \ {0} /\ Len(s) \in Nat
        /\ DOMAIN a = DOMAIN s \cup {Len(s) + 1} /\ a[Len(s) + 1] = x
        /\ \A i \in DOMAIN s : i < Len(s) + 1 /\ a[i] = s[i]
    BY <1>2, AppendIndex
  <1>4. \A j \in DOMAIN Tail(q) : 1 < j + 1
    BY <1>1
  <1>5. Head(q) \in ToSet(q) /\ ToSet(Tail(q)) \subseteq ToSet(q)
    BY TailFacts
  <1>6. t < x /\ x <= n /\ \A r \in ToSet(Tail(q)) : r.kind = "message" => x < r.turn
    <2>1. t < x /\ x <= n
      BY <1>1 DEF InOrder
    <2>2. ASSUME NEW r \in ToSet(Tail(q)), r.kind = "message"
          PROVE  x < r.turn
      <3>1. PICK j \in DOMAIN Tail(q) : r = Tail(q)[j]
        BY DEF ToSet
      <3>2. j + 1 \in DOMAIN q /\ r = q[j + 1] /\ 1 < j + 1
        BY <1>1, <1>4, <3>1
      <3> QED
        BY <1>1, <2>2, <3>2 DEF InOrder
    <2> QED
      BY <2>1, <2>2
  <1>7. \A i \in DOMAIN s : ~(Len(s) + 1 < i)
    BY <1>3
  <1>8. ~(Len(s) + 1 < Len(s) + 1)
    BY <1>3
  <1>9. \A i \in DOMAIN s : s[i] < x
    BY <1>5 DEF SteersInOrder
  <1> HIDE DEF a, x
  <1>10. SteersInOrder(a, Tail(q), t, n)
    BY <1>3, <1>5, <1>6, <1>7, <1>8, <1>9 DEF SteersInOrder
  <1> QED
    BY <1>10 DEF a, x

LEMMA SteersInOrderSent ==
  ASSUME NEW s \in Seq(Turn), NEW q \in Seq(Request), NEW r \in Request, NEW t,
         NEW n \in Nat, SteersInOrder(s, q, t, n)
  PROVE  /\ r.kind # "message" => SteersInOrder(s, Append(q, r), t, n)
         /\ r.kind = "message" /\ r.turn = n + 1 => SteersInOrder(s, Append(q, r), t, n + 1)
  <1>1. ToSet(Append(q, r)) = ToSet(q) \cup {r}
    BY AppendFacts
  <1>2. \A i \in DOMAIN s : s[i] \in Nat
    BY PlanAssumption DEF Turn
  <1>3. \A x \in Nat : x <= n => x <= n + 1 /\ x < n + 1
    OBVIOUS
  <1> QED
    BY <1>1, <1>2, <1>3 DEF SteersInOrder

LEMMA SteersInOrderTaken ==
  ASSUME NEW s, NEW q \in Seq(Request), q # <<>>, NEW t, NEW n, SteersInOrder(s, q, t, n)
  PROVE  SteersInOrder(s, Tail(q), t, n)
  BY TailFacts DEF SteersInOrder

(* A call that asks is in the segment under way; the Done of a turn is the *)
(* last chunk of its stream; results are of calls that are over; turns     *)
(* start in the order of their messages.                                   *)
Asking == {c \in Calls : gate[c] \in {"asking", "waiting"}}
AsksInItsSegment == \A c \in Asking : CallStarts(c)
DoneIsLast ==
  \A j \in DOMAIN stream : stream[j].kind = "done" =>
    /\ running /\ segment > Len(Plan[turn]) + 1
    /\ j = Len(stream) /\ stream[j].turn = turn
ResultsAreOver ==
  \A r \in ToSet(stream) \cup ToSet(messages) :
    r.kind = "result" => gate[r.call] \in Over
TurnsInOrder ==
  /\ turn <= sent /\ InOrder(requests, turn, sent)
  /\ SteersInOrder(steering, requests, turn, sent)
  /\ \A r \in ToSet(messages) : r.kind = "done" => r.turn <= turn
LoopInv == AsksInItsSegment /\ DoneIsLast /\ ResultsAreOver /\ TurnsInOrder

LEMMA NumbersOfTurns ==
  ASSUME TypeOK
  PROVE  /\ turn \in Nat /\ sent \in Nat /\ segment \in Nat \ {0}
         /\ Turn \subseteq Nat \ {0}
         /\ running => Len(Plan[turn]) \in Nat
  <1>1. Len(Plan) \in Nat /\ Turn = 1 .. Len(Plan)
    BY PlanAssumption DEF Turn
  <1>2. running => Len(Plan[turn]) \in Nat
    BY PlanFacts DEF TypeOK
  <1> QED
    BY <1>1, <1>2 DEF TypeOK

LEMMA ChunkTurns ==
  ASSUME NEW r \in Chunk
  PROVE  /\ r.kind = "done" => r.turn \in Turn
         /\ r.kind = "result" => r.call \in Calls
         /\ r.kind = "card" => r.call \in Calls /\ r = [kind |-> "card", call |-> r.call]
         /\ r.kind \in {"start", "done", "result", "card"}
  BY DEF Chunk, Report

LEMMA LoopGate ==
  ASSUME TypeOK, LoopInv, NEW e \in Calls, GateNext(e)
  PROVE  LoopInv'
  <1>1. /\ \A c \in Calls : c # e => gate'[c] = gate[c]
        /\ gate[e] \notin Over /\ gate'[e] \in Phase
        /\ gate'[e] \in {"asking", "waiting"} => CallStarts(e) \/ gate[e] = "asking"
        /\ UNCHANGED <<running, turn, segment, stream, messages, requests, steering, sent>>
    <2>1. CASE CancelledBeforeStart(e) \/ AbortWait(e)
      BY <2>1 DEF CancelledBeforeStart, AbortWait, TypeOK, Over, Phase, loop, pipes, hist
    <2>2. ASSUME NEW p \in Policy, NEW own \in Own, PassGate(e, p, own)
          PROVE  /\ \A c \in Calls : c # e => gate'[c] = gate[c]
                 /\ gate[e] \notin Over /\ gate'[e] \in Phase
                 /\ CallStarts(e)
                 /\ UNCHANGED <<running, turn, segment, stream, messages, requests, steering, sent>>
      <3>1. Verdict(e, p, own) \in Phase
        BY DEF Verdict, Phase
      <3> QED
        BY <2>2, <3>1 DEF PassGate, TypeOK, Over, loop, pipes, hist
    <2>3. ASSUME NEW p \in Policy, Publish(e, p)
          PROVE  /\ \A c \in Calls : c # e => gate'[c] = gate[c]
                 /\ gate[e] = "asking" /\ gate'[e] \in Phase
                 /\ UNCHANGED <<running, turn, segment, stream, messages, requests, steering, sent>>
      BY <2>3 DEF Publish, TypeOK, Phase, loop, hist
    <2>4. CASE TakeAnswer(e)
      BY <2>4 DEF TakeAnswer, TypeOK, Over, Phase, loop, pipes, hist
    <2> QED
      BY <2>1, <2>2, <2>3, <2>4 DEF GateNext, Over
  <1>2. AsksInItsSegment'
    BY <1>1 DEF LoopInv, AsksInItsSegment, Asking, CallStarts
  <1>3. ResultsAreOver'
    <2> SUFFICES ASSUME NEW r \in ToSet(stream) \cup ToSet(messages), r.kind = "result"
                 PROVE  gate'[r.call] \in Over
      BY <1>1 DEF ResultsAreOver
    <2>1. gate[r.call] \in Over
      BY DEF LoopInv, ResultsAreOver
    <2>2. r \in Chunk
      BY DEF TypeOK, ToSet, Chunk
    <2>3. r.call \in Calls
      BY <2>2, ChunkTurns
    <2> QED
      BY <1>1, <2>1, <2>3
  <1>4. DoneIsLast' /\ TurnsInOrder'
    BY <1>1 DEF LoopInv, DoneIsLast, TurnsInOrder
  <1> QED
    BY <1>2, <1>3, <1>4 DEF LoopInv

LEMMA NoDoneYet ==
  ASSUME TypeOK, LoopInv, ~running \/ segment <= Len(Plan[turn]) + 1
  PROVE  \A j \in DOMAIN stream : stream[j].kind # "done"
  BY NumbersOfTurns DEF LoopInv, DoneIsLast

LEMMA LoopLoop ==
  ASSUME TypeOK, LoopInv, LoopNext
  PROVE  LoopInv'
  <1>0. /\ running /\ UNCHANGED <<gate, running, turn, messages, requests, sent>>
        /\ turn \in Turn /\ segment \in Nat \ {0} /\ Len(Plan[turn]) \in Nat
        /\ stream \in Seq(Report)
    BY PlanFacts DEF LoopNext, SegmentEnds, ModelCallCancelled, LoopReturns, Watcher,
       gates, pipes, hist, TypeOK
  <1>1. TurnsInOrder'
    <2>1. steering' \in {steering, <<>>}
      BY DEF LoopNext, SegmentEnds, NotTakenIn, ModelCallCancelled, LoopReturns, Watcher,
         pipes
    <2> QED
      BY <1>0, <2>1 DEF LoopInv, TurnsInOrder, SteersInOrder
  <1>2. CASE SegmentEnds
    <2> DEFINE calls == Segment(turn, segment)
               t == Results(calls)
    <2>1. /\ segment <= Len(Plan[turn]) /\ \A c \in calls : gate[c] \in Over
          /\ stream' = stream \o t
      BY <1>2 DEF SegmentEnds
    <2>2. calls \in SUBSET Calls
      BY <1>0, <2>1, PlanFacts
    <2> HIDE DEF calls
    <2>3. t \in Seq(Report) /\ \A r \in ToSet(t) : r.kind = "result" /\ r.call \in calls
      BY <2>2, ResultsFacts, KindsOfResults
    <2> HIDE DEF t
    <2>4. stream' \in Seq(Report) /\ ToSet(stream') \subseteq ToSet(stream) \cup ToSet(t)
      BY <1>0, <2>1, <2>3, ConcatFacts
    <2>5. Asking = {}
      BY <2>1 DEF LoopInv, AsksInItsSegment, Asking, CallStarts, Over, calls
    <2>6. \A j \in DOMAIN stream : stream[j].kind # "done"
      BY <1>0, <2>1, NoDoneYet
    <2>7. \A r \in ToSet(stream') : r.kind # "done"
      BY <2>3, <2>4, <2>6 DEF ToSet
    <2>8. DoneIsLast'
      BY <2>7 DEF DoneIsLast, ToSet
    <2>9. ResultsAreOver'
      BY <1>0, <2>1, <2>3, <2>4 DEF LoopInv, ResultsAreOver
    <2> QED
      BY <1>0, <1>1, <2>5, <2>8, <2>9 DEF LoopInv, AsksInItsSegment, Asking
  <1>3. CASE ModelCallCancelled
    <2>1. /\ segment = 1 /\ \A c \in CallsOf(turn) : gate[c] = "new"
          /\ stream' = stream
      BY <1>3 DEF ModelCallCancelled, pipes
    <2>2. Asking = {}
      <3> SUFFICES ASSUME NEW c \in Asking PROVE FALSE
        OBVIOUS
      <3>1. 1 <= Len(Plan[turn]) /\ c \in Plan[turn][1]
        BY <2>1 DEF LoopInv, AsksInItsSegment, CallStarts, Segment
      <3>2. Plan[turn] \in Seq(SUBSET Calls)
        BY <1>0, PlanFacts
      <3>3. Plan[turn][1] \in ToSet(Plan[turn])
        BY <3>1, <3>2 DEF ToSet
      <3>4. c \in CallsOf(turn)
        BY <3>1, <3>3 DEF CallsOf
      <3> QED
        BY <2>1, <3>4 DEF Asking
    <2>3. \A j \in DOMAIN stream : stream[j].kind # "done"
      BY <1>0, <2>1, NoDoneYet
    <2> QED
      BY <1>0, <1>1, <2>1, <2>2, <2>3
         DEF LoopInv, AsksInItsSegment, Asking, DoneIsLast, ResultsAreOver
  <1>4. CASE LoopReturns
    <2> DEFINE done == [kind |-> "done", turn |-> turn]
    <2>1. /\ segment = Len(Plan[turn]) + 1 /\ segment' = segment + 1
          /\ stream' = Append(stream, done)
      BY <1>4 DEF LoopReturns
    <2>2. done \in Report /\ done.kind = "done" /\ done.turn = turn
      BY <1>0 DEF Report
    <2>3. Asking = {}
      BY <1>0, <2>1 DEF LoopInv, AsksInItsSegment, CallStarts
    <2>4. \A j \in DOMAIN stream : stream[j].kind # "done"
      BY <1>0, <2>1, NoDoneYet
    <2> HIDE DEF done
    <2>5. /\ DOMAIN stream' = DOMAIN stream \cup {Len(stream) + 1}
          /\ \A i \in DOMAIN stream : stream'[i] = stream[i]
          /\ stream'[Len(stream) + 1] = done
      BY <1>0, <2>1, <2>2, AppendIndex
    <2>6. Len(stream') = Len(stream) + 1
      BY <1>0, <2>1, <2>2
    <2>7. DoneIsLast'
      <3>1. segment' > Len(Plan[turn]) + 1
        BY <1>0, <2>1
      <3> QED
        BY <1>0, <2>2, <2>4, <2>5, <2>6, <3>1 DEF DoneIsLast
    <2>8. ToSet(stream') = ToSet(stream) \cup {done}
      BY <1>0, <2>1, <2>2, AppendFacts
    <2>9. ResultsAreOver'
      BY <1>0, <2>2, <2>8 DEF LoopInv, ResultsAreOver
    <2> QED
      BY <1>0, <1>1, <2>3, <2>7, <2>9 DEF LoopInv, AsksInItsSegment, Asking
  <1>5. CASE Watcher
    BY <1>5 DEF Watcher, pipes, gates, hist, LoopInv, AsksInItsSegment, Asking,
       CallStarts,
                DoneIsLast, ResultsAreOver, TurnsInOrder
  <1> QED
    BY <1>2, <1>3, <1>4, <1>5 DEF LoopNext

(* A turn starts later than the one before it.                             *)
LEMMA LaterTurn ==
  ASSUME TypeOK, TurnsInOrder, StartTurn
  PROVE  /\ turn < turn' /\ turn' <= sent /\ turn' \in Nat
         /\ InOrder(requests', turn', sent) /\ SteersInOrder(steering', requests', turn', sent)
         /\ \A r \in ToSet(messages) : r.kind = "done" => r.turn < turn'
  <1>0. /\ requests \in Seq(Request) /\ steering \in Seq(Turn) /\ messages \in Seq(Chunk)
        /\ turn \in Nat /\ turn' \in Nat
        /\ InOrder(requests, turn, sent) /\ SteersInOrder(steering, requests, turn, sent)
    BY StartedTurn, NumbersOfTurns DEF TypeOK, TurnsInOrder
  <1>1. /\ turn < turn' /\ turn' <= sent
        /\ InOrder(requests', turn', sent) /\ SteersInOrder(steering', requests', turn', sent)
    <2>1. CASE /\ steering # <<>> /\ turn' = Head(steering) /\ requests' = requests
               /\ steering' \in {Tail(steering), <<>>}
      <3>1. /\ turn < turn' /\ turn' <= sent /\ InOrder(requests', turn', sent)
            /\ SteersInOrder(Tail(steering), requests', turn', sent)
        BY <1>0, <2>1, SteersInOrderTail
      <3> QED
        BY <2>1, <3>1 DEF SteersInOrder
    <2>2. CASE /\ steering' = <<>> /\ requests # <<>> /\ Head(requests).kind = "message"
               /\ turn' = Head(requests).turn /\ requests' = Tail(requests)
      <3>1. InOrder(requests', turn', sent) /\ turn' <= sent
        BY <1>0, <2>2, InOrderTail
      <3>2. turn < turn'
        BY <1>0, <2>2, TailIndex DEF InOrder
      <3> QED
        BY <2>2, <3>1, <3>2 DEF SteersInOrder
    <2> QED
      BY <2>1, <2>2, StartedTurn
  <1>2. ASSUME NEW r \in ToSet(messages), r.kind = "done"
        PROVE  r.turn < turn'
    <2>1. r \in Chunk
      BY <1>0 DEF ToSet
    <2>2. r.turn \in Nat
      BY <1>2, <2>1, ChunkTurns, NumbersOfTurns
    <2>3. r.turn <= turn
      BY <1>2 DEF TurnsInOrder
    <2> QED
      BY <1>0, <1>1, <2>2, <2>3
  <1> QED
    BY <1>0, <1>1, <1>2

LEMMA LoopWorker ==
  ASSUME TypeOK, LoopInv, WorkerNext
  PROVE  LoopInv'
  <1>0. /\ gate' = gate /\ sent' = sent /\ sent \in Nat /\ turn \in Nat
        /\ requests \in Seq(Request) /\ stream \in Seq(Report) /\ messages \in Seq(Chunk)
        /\ InOrder(requests, turn, sent) /\ turn <= sent
        /\ steering \in Seq(Turn) /\ SteersInOrder(steering, requests, turn, sent)
    BY NumbersOfTurns DEF WorkerNext, StartTurn, Relay, Forward, Steer, ConfirmTool,
       Abort, gates,
       hist, TypeOK, LoopInv, TurnsInOrder
  <1>1. CASE StartTurn
    <2> DEFINE start == [kind |-> "start", turn |-> turn']
    <2>1. /\ ~running /\ stream' = stream /\ messages' = Append(messages, start)
          /\ start \in Chunk /\ start.kind = "start"
      BY <1>1, StartIsShown
    <2>2. Asking = {}
      BY <2>1 DEF LoopInv, AsksInItsSegment, CallStarts
    <2>3. \A j \in DOMAIN stream : stream[j].kind # "done"
      BY <2>1, NoDoneYet
    <2> HIDE DEF start
    <2>4. ToSet(messages') = ToSet(messages) \cup {start}
      BY <1>0, <2>1, AppendFacts
    <2>5. ASSUME NEW r \in ToSet(messages), r.kind = "done"
          PROVE  r.turn <= turn'
      <3>1. r \in Chunk
        BY <1>0 DEF ToSet
      <3>2. r.turn \in Nat /\ r.turn < turn' /\ turn' \in Nat
        BY <1>1, <2>5, <3>1, ChunkTurns, NumbersOfTurns, LaterTurn DEF LoopInv
      <3> QED
        BY <3>2
    <2>6. TurnsInOrder'
      <3>1. /\ turn' <= sent /\ InOrder(requests', turn', sent)
            /\ SteersInOrder(steering', requests', turn', sent)
        BY <1>1, LaterTurn DEF LoopInv
      <3> QED
        BY <1>0, <2>1, <2>4, <2>5, <3>1 DEF TurnsInOrder
    <2>7. ResultsAreOver'
      BY <1>0, <2>1, <2>4 DEF LoopInv, ResultsAreOver
    <2> QED
      BY <1>0, <2>1, <2>2, <2>3, <2>6, <2>7 DEF LoopInv, AsksInItsSegment, Asking,
         DoneIsLast
  <1>2. CASE Relay
    <2> DEFINE card == [kind |-> "card", call |-> Head(bus)]
    <2>1. /\ bus # <<>> /\ messages' = Append(messages, card)
          /\ UNCHANGED <<running, turn, segment, stream, requests, steering>>
      BY <1>2 DEF Relay, loop
    <2>2. Head(bus) \in Calls
      BY <2>1, TailFacts DEF TypeOK
    <2>3. card \in Chunk /\ card.kind = "card"
      BY <2>2 DEF Chunk
    <2> HIDE DEF card
    <2>4. ToSet(messages') = ToSet(messages) \cup {card}
      BY <1>0, <2>1, <2>3, AppendFacts
    <2>5. ResultsAreOver' /\ TurnsInOrder'
      BY <1>0, <2>1, <2>3, <2>4 DEF LoopInv, ResultsAreOver, TurnsInOrder
    <2> QED
      BY <1>0, <2>1, <2>5 DEF LoopInv, AsksInItsSegment, Asking, CallStarts, DoneIsLast
  <1>3. CASE Forward
    <2> DEFINE x == Head(stream)
    <2>1. /\ stream # <<>> /\ stream' = Tail(stream) /\ messages' = Append(messages, x)
          /\ running /\ UNCHANGED <<turn, segment, requests, steering>>
          /\ running' = (x.kind # "done")
      BY <1>3 DEF Forward, TypeOK
    <2>2. /\ x \in Report /\ x \in ToSet(stream) /\ ToSet(stream') \subseteq ToSet(stream)
      BY <1>0, <2>1, TailFacts
    <2>3. x \in Chunk
      BY <2>2 DEF Chunk
    <2>4. /\ 1 \in DOMAIN stream /\ x = stream[1]
          /\ Len(stream') = Len(stream) - 1
          /\ \A i \in DOMAIN stream' : i + 1 \in DOMAIN stream /\ stream'[i] = stream[i + 1]
          /\ DOMAIN stream' \subseteq Nat \ {0}
      BY <1>0, <2>1, TailIndex
    <2>5. Len(stream) \in Nat /\ DOMAIN stream' = 1 .. Len(stream')
      BY <1>0, <2>1
    <2> HIDE DEF x
    <2>6. ToSet(messages') = ToSet(messages) \cup {x}
      BY <1>0, <2>1, <2>3, AppendFacts
    <2>7. x.kind = "done" => segment > Len(Plan[turn]) + 1 /\ Len(stream) = 1 /\ x.turn = turn
      BY <2>4 DEF LoopInv, DoneIsLast
    <2>8. AsksInItsSegment'
      <3>1. x.kind = "done" => Asking = {}
        BY <2>1, <2>7, NumbersOfTurns DEF LoopInv, AsksInItsSegment, CallStarts
      <3> QED
        BY <1>0, <2>1, <3>1 DEF LoopInv, AsksInItsSegment, Asking, CallStarts
    <2>9. DoneIsLast'
      <3> SUFFICES ASSUME NEW j \in DOMAIN stream', stream'[j].kind = "done"
                   PROVE  /\ running' /\ segment > Len(Plan[turn]) + 1
                          /\ j = Len(stream') /\ stream'[j].turn = turn
        BY <2>1 DEF DoneIsLast
      <3>1. /\ segment > Len(Plan[turn]) + 1
            /\ j + 1 = Len(stream) /\ stream'[j].turn = turn
        BY <2>4 DEF LoopInv, DoneIsLast
      <3>2. j = Len(stream') /\ Len(stream) # 1
        BY <2>4, <2>5, <3>1
      <3> QED
        BY <2>1, <2>7, <3>1, <3>2
    <2>10. ResultsAreOver'
      BY <1>0, <2>2, <2>6 DEF LoopInv, ResultsAreOver
    <2>11. TurnsInOrder'
      BY <1>0, <2>1, <2>6, <2>7 DEF LoopInv, TurnsInOrder
    <2> QED
      BY <2>8, <2>9, <2>10, <2>11 DEF LoopInv
  <1>4. CASE ConfirmTool
    <2>1. /\ requests # <<>> /\ requests' = Tail(requests)
          /\ UNCHANGED <<running, turn, segment, stream, messages, steering>>
      BY <1>4 DEF ConfirmTool, Requested, loop
    <2>2. InOrder(requests', turn, sent) /\ SteersInOrder(steering', requests', turn, sent)
      BY <1>0, <2>1, InOrderTail, SteersInOrderTaken
    <2> QED
      BY <1>0, <2>1, <2>2 DEF LoopInv, AsksInItsSegment, Asking, CallStarts, DoneIsLast,
         ResultsAreOver, TurnsInOrder
  <1>5. CASE Abort
    <2> DEFINE done == [kind |-> "done", turn |-> turn]
    <2>1. /\ requests # <<>> /\ requests' = Tail(requests)
          /\ messages' = IF running THEN Append(messages, done) ELSE messages
          /\ UNCHANGED <<running, turn, segment, stream, steering>>
      BY <1>5 DEF Abort, Requested
    <2>2. InOrder(requests', turn, sent) /\ SteersInOrder(steering', requests', turn, sent)
      BY <1>0, <2>1, InOrderTail, SteersInOrderTaken
    <2>3. /\ running => done \in Chunk
          /\ done.kind = "done" /\ done.turn = turn
      BY DEF TypeOK, Chunk, Report
    <2> HIDE DEF done
    <2>4. ToSet(messages') \subseteq ToSet(messages) \cup {done}
      BY <1>0, <2>1, <2>3, AppendFacts
    <2>5. ResultsAreOver' /\ TurnsInOrder'
      BY <1>0, <2>1, <2>2, <2>3, <2>4 DEF LoopInv, ResultsAreOver, TurnsInOrder
    <2> QED
      BY <1>0, <2>1, <2>5 DEF LoopInv, AsksInItsSegment, Asking, CallStarts, DoneIsLast
  <1>6. CASE Steer
    <2>1. /\ requests # <<>> /\ requests' = Tail(requests) /\ Head(requests).kind = "message"
          /\ steering' = Append(steering, Head(requests).turn)
          /\ UNCHANGED <<running, turn, segment, stream, messages>>
      BY <1>6 DEF Steer, Requested, loop
    <2>2. InOrder(requests', turn, sent) /\ SteersInOrder(steering', requests', turn, sent)
      BY <1>0, <2>1, InOrderTail, SteersInOrderAppend
    <2> QED
      BY <1>0, <2>1, <2>2 DEF LoopInv, AsksInItsSegment, Asking, CallStarts, DoneIsLast,
         ResultsAreOver, TurnsInOrder
  <1> QED
    BY <1>1, <1>2, <1>3, <1>4, <1>5, <1>6 DEF WorkerNext

LEMMA LoopScreen ==
  ASSUME TypeOK, LoopInv, Screen
  PROVE  LoopInv'
  <1>1. /\ UNCHANGED <<gate, running, turn, segment, stream, requests, steering, sent>>
        /\ messages' = messages \/ (messages # <<>> /\ messages' = Tail(messages))
    BY DEF Screen, StartArrives, CardArrives, ResultArrives, DoneArrives, GraceExpires,
       Draw, Arrived,
           gates, loop, pipes, hist
  <1>2. ToSet(messages') \subseteq ToSet(messages)
    BY <1>1, TailFacts DEF TypeOK
  <1> QED
    BY <1>1, <1>2 DEF LoopInv, AsksInItsSegment, Asking, CallStarts, DoneIsLast,
       ResultsAreOver, TurnsInOrder

LEMMA LoopUser ==
  ASSUME TypeOK, LoopInv, User
  PROVE  LoopInv'
  <1>0. /\ turn \in Nat /\ sent \in Nat /\ turn <= sent /\ InOrder(requests, turn, sent)
        /\ requests \in Seq(Request) /\ steering \in Seq(Turn)
        /\ SteersInOrder(steering, requests, turn, sent)
    BY NumbersOfTurns DEF TypeOK, LoopInv, TurnsInOrder
  <1>1. ASSUME NEW r \in Request, requests' = Append(requests, r),
               \/ r.kind # "message" /\ sent' = sent
               \/ r.kind = "message" /\ r.turn = sent + 1 /\ sent' = sent + 1,
               UNCHANGED <<gate, running, turn, segment, stream, steering, messages>>
        PROVE  LoopInv'
    <2>1. InOrder(requests', turn, sent') /\ turn <= sent'
      BY <1>0, <1>1, InOrderAppend
    <2>2. SteersInOrder(steering', requests', turn, sent')
      BY <1>0, <1>1, SteersInOrderSent
    <2> QED
      BY <1>1, <2>1, <2>2 DEF LoopInv, AsksInItsSegment, Asking, CallStarts, DoneIsLast,
         ResultsAreOver, TurnsInOrder
  <1>2. ASSUME NEW c \in Calls, NEW d \in Decision, Decide(c, d), sent' = sent,
               UNCHANGED <<gate, running, turn, segment, stream, steering, messages>>
        PROVE  LoopInv'
    <2> DEFINE r == [kind |-> "answer", call |-> c, decision |-> d]
    <2>1. r \in Request /\ r.kind # "message"
      BY DEF Request
    <2>2. requests' = Append(requests, r)
      BY <1>2 DEF Decide
    <2>3. PICK q \in Request : q.kind # "message" /\ requests' = Append(requests, q)
      BY <2>1, <2>2
    <2> QED
      BY <1>1, <1>2, <2>3
  <1>3. ASSUME NEW d \in Decision, Press(d)
        PROVE  LoopInv'
    <2>1. active \in Calls /\ Decide(active, d) /\ sent' = sent
          /\ UNCHANGED <<gate, running, turn, segment, stream, steering, messages>>
      BY <1>3 DEF Press, TypeOK, gates, loop
    <2> QED
      BY <1>2, <2>1
  <1>4. ASSUME NEW c \in Calls, NEW d \in {"once", "deny"}, RemoteDecision(c, d)
        PROVE  LoopInv'
    <2>1. Decide(c, d) /\ d \in Decision /\ sent' = sent
          /\ UNCHANGED <<gate, running, turn, segment, stream, steering, messages>>
      BY <1>4 DEF RemoteDecision, Decision, gates, loop
    <2> QED
      BY <1>2, <2>1
  <1>5. CASE Cancel \/ RemoteCancel
    <2> DEFINE r == [kind |-> "abort"]
    <2>1. r \in Request /\ r.kind # "message"
      BY DEF Request
    <2>2. /\ requests' = Append(requests, r) /\ sent' = sent
          /\ UNCHANGED <<gate, running, turn, segment, stream, steering, messages>>
      BY <1>5 DEF Cancel, RemoteCancel, gates, loop
    <2>3. PICK q \in Request : q.kind # "message" /\ requests' = Append(requests, q)
      BY <2>1, <2>2
    <2> QED
      BY <1>1, <2>2, <2>3
  <1>6. CASE SendMessage \/ SteerMessage
    <2>1. [kind |-> "message", turn |-> sent + 1] \in Request
      BY <1>6, PlanAssumption DEF SendMessage, SteerMessage, SendsMessage, TypeOK,
         Turn, Request
    <2> QED
      BY <1>1, <1>6, <2>1 DEF SendMessage, SteerMessage, SendsMessage, gates, loop
  <1> QED
    BY <1>3, <1>4, <1>5, <1>6 DEF User

LEMMA LoopHolds == Spec => []LoopInv
  <1>1. Init => LoopInv
    <2> SUFFICES ASSUME Init PROVE LoopInv
      OBVIOUS
    <2>1. /\ DOMAIN stream = {} /\ DOMAIN requests = {} /\ DOMAIN steering = {}
          /\ ToSet(stream) = {} /\ ToSet(messages) = {}
      BY DEF Init, ToSet
    <2> QED
      BY <2>1 DEF Init, LoopInv, AsksInItsSegment, Asking, DoneIsLast, ResultsAreOver,
         TurnsInOrder, InOrder, SteersInOrder
  <1>2. TypeOK /\ LoopInv /\ [Next]_vars => LoopInv'
    <2> SUFFICES ASSUME TypeOK, LoopInv, [Next]_vars PROVE LoopInv'
      OBVIOUS
    <2>1. CASE UNCHANGED vars
      BY <2>1 DEF vars, gates, loop, pipes, hist, LoopInv, AsksInItsSegment, Asking,
         CallStarts, DoneIsLast, ResultsAreOver, TurnsInOrder
    <2> QED
      BY <2>1, LoopGate, LoopLoop, LoopWorker, LoopScreen, LoopUser DEF Next
  <1> QED
    BY <1>1, <1>2, TypeCorrect, PTL DEF Spec

(* A Done of a turn that still runs comes from an Abort.                   *)
DoneMeansFlag ==
  \A r \in ToSet(messages) : running /\ r.kind = "done" /\ r.turn = turn => flag

LEMMA FlagWorker ==
  ASSUME TypeOK, LoopInv, DoneMeansFlag, WorkerNext
  PROVE  DoneMeansFlag'
  <1>0. messages \in Seq(Chunk) /\ stream \in Seq(Report) /\ turn \in Nat
    BY NumbersOfTurns DEF TypeOK
  <1>1. ASSUME NEW x \in Chunk, messages' = Append(messages, x), x.kind # "done",
               UNCHANGED <<running, turn, flag>>
        PROVE  DoneMeansFlag'
    <2>1. ToSet(messages') = ToSet(messages) \cup {x}
      BY <1>0, <1>1, AppendFacts
    <2> QED
      BY <1>1, <2>1 DEF DoneMeansFlag
  <1>2. CASE StartTurn
    <2> DEFINE start == [kind |-> "start", turn |-> turn']
    <2>1. messages' = Append(messages, start) /\ start \in Chunk /\ start.kind = "start"
      BY <1>2, StartIsShown
    <2> HIDE DEF start
    <2>2. ToSet(messages') = ToSet(messages) \cup {start}
      BY <1>0, <2>1, AppendFacts
    <2>3. \A r \in ToSet(messages) : r.kind = "done" => r.turn # turn'
      <3> SUFFICES ASSUME NEW r \in ToSet(messages), r.kind = "done" PROVE r.turn # turn'
        OBVIOUS
      <3>1. r \in Chunk
        BY <1>0 DEF ToSet
      <3>2. r.turn \in Nat /\ r.turn < turn' /\ turn' \in Nat
        BY <1>2, <3>1, ChunkTurns, NumbersOfTurns, LaterTurn DEF LoopInv
      <3> QED
        BY <3>2
    <2> QED
      BY <2>1, <2>2, <2>3 DEF DoneMeansFlag
  <1>3. CASE Relay
    <2>1. bus # <<>> /\ messages' = Append(messages, [kind |-> "card", call |-> Head(bus)])
          /\ UNCHANGED <<running, turn, flag>>
      BY <1>3 DEF Relay, loop
    <2>2. Head(bus) \in Calls
      BY <2>1, TailFacts DEF TypeOK
    <2>3. PICK x \in Chunk : x.kind = "card" /\ messages' = Append(messages, x)
      BY <2>1, <2>2 DEF Chunk
    <2> QED
      BY <1>1, <2>1, <2>3
  <1>4. CASE Forward
    <2>1. /\ stream # <<>> /\ messages' = Append(messages, Head(stream)) /\ turn' = turn
          /\ IF Head(stream).kind = "done" THEN running' = FALSE
             ELSE UNCHANGED <<running, flag>>
      BY <1>4 DEF Forward
    <2>2. Head(stream) \in Chunk
      BY <1>0, <2>1, TailFacts DEF Chunk
    <2>3. CASE Head(stream).kind = "done"
      BY <2>1, <2>3 DEF DoneMeansFlag
    <2> QED
      BY <1>1, <2>1, <2>2, <2>3
  <1>5. CASE Steer \/ ConfirmTool
    <2>1. UNCHANGED <<running, turn, flag, messages>>
      BY <1>5 DEF Steer, ConfirmTool, loop
    <2> QED
      BY <2>1 DEF DoneMeansFlag
  <1>6. CASE Abort
    BY <1>6 DEF Abort, DoneMeansFlag
  <1> QED
    BY <1>2, <1>3, <1>4, <1>5, <1>6 DEF WorkerNext

LEMMA FlagHolds == Spec => []DoneMeansFlag
  <1>1. Init => DoneMeansFlag
    BY DEF Init, DoneMeansFlag
  <1>2. TypeOK /\ LoopInv /\ DoneMeansFlag /\ [Next]_vars => DoneMeansFlag'
    <2> SUFFICES ASSUME TypeOK, LoopInv, DoneMeansFlag, [Next]_vars PROVE DoneMeansFlag'
      OBVIOUS
    <2>1. CASE (\E c \in Calls : GateNext(c)) \/ LoopNext \/ User \/ UNCHANGED vars
      <3>1. UNCHANGED <<running, turn, flag, messages>>
        BY <2>1 DEF GateNext, CancelledBeforeStart, PassGate, Publish, TakeAnswer,
           AbortWait,
           LoopNext, SegmentEnds, ModelCallCancelled, LoopReturns, Watcher,
           User, Press, RemoteDecision, Cancel, RemoteCancel, SendMessage, SteerMessage,
           SendsMessage, vars, loop, pipes
      <3> QED
        BY <3>1 DEF DoneMeansFlag
    <2>2. CASE Screen
      <3>1. /\ UNCHANGED <<running, turn, flag>>
            /\ messages' = messages \/ (messages # <<>> /\ messages' = Tail(messages))
        BY <2>2 DEF Screen, StartArrives, CardArrives, ResultArrives, DoneArrives,
           GraceExpires,
           Draw, Arrived, loop, pipes
      <3>2. ToSet(messages') \subseteq ToSet(messages)
        BY <3>1, TailFacts DEF TypeOK
      <3> QED
        BY <3>1, <3>2 DEF DoneMeansFlag
    <2> QED
      BY <2>1, <2>2, FlagWorker DEF Next
  <1> QED
    BY <1>1, <1>2, TypeCorrect, LoopHolds, PTL DEF Spec

(* While a call waits, its card comes after the Done of any earlier turn.  *)
OldDone(r, t) == r.kind = "done" /\ r.turn # t
IsCard(r, c) == r.kind = "card" /\ r.call = c
NoOldDone(q, t) == \A j \in DOMAIN q : ~OldDone(q[j], t)
CardsLast(q, c, t) ==
  \A i, j \in DOMAIN q : i <= j /\ OldDone(q[j], t) => ~IsCard(q[i], c)
LateInv ==
  \A c \in Calls : gate[c] = "waiting" =>
    CardsLast(messages, c, turn) /\ (OnScreen(c) => NoOldDone(messages, turn))

LEMMA CardsLastTail ==
  ASSUME NEW q \in Seq(Chunk), q # <<>>, NEW c, NEW t, CardsLast(q, c, t)
  PROVE  /\ CardsLast(Tail(q), c, t)
         /\ NoOldDone(q, t) => NoOldDone(Tail(q), t)
         /\ IsCard(Head(q), c) => NoOldDone(Tail(q), t)
  <1>1. /\ 1 \in DOMAIN q /\ Head(q) = q[1] /\ DOMAIN Tail(q) \subseteq Nat \ {0}
        /\ \A i \in DOMAIN Tail(q) : i + 1 \in DOMAIN q /\ Tail(q)[i] = q[i + 1]
    BY TailIndex
  <1>2. \A i, j \in DOMAIN Tail(q) : i <= j => i + 1 <= j + 1
    BY <1>1
  <1>3. \A j \in DOMAIN Tail(q) : 1 <= j + 1
    BY <1>1
  <1>4. CardsLast(Tail(q), c, t)
    BY <1>1, <1>2 DEF CardsLast
  <1>5. NoOldDone(q, t) => NoOldDone(Tail(q), t)
    BY <1>1 DEF NoOldDone
  <1>6. IsCard(Head(q), c) => NoOldDone(Tail(q), t)
    BY <1>1, <1>3 DEF CardsLast, NoOldDone
  <1> QED
    BY <1>4, <1>5, <1>6

LEMMA CardsLastAppend ==
  ASSUME NEW q \in Seq(Chunk), NEW c, NEW t, NEW x \in Chunk, ~OldDone(x, t)
  PROVE  /\ CardsLast(q, c, t) => CardsLast(Append(q, x), c, t)
         /\ NoOldDone(q, t) => NoOldDone(Append(q, x), t)
  <1> DEFINE a == Append(q, x)
  <1>1. /\ DOMAIN a = DOMAIN q \cup {Len(q) + 1} /\ a[Len(q) + 1] = x
        /\ \A i \in DOMAIN q : i < Len(q) + 1 /\ a[i] = q[i]
        /\ Len(q) \in Nat /\ DOMAIN q \subseteq Nat \ {0}
    BY AppendIndex
  <1>2. \A j \in DOMAIN q : ~(Len(q) + 1 <= j)
    BY <1>1
  <1> HIDE DEF a
  <1>3. CardsLast(q, c, t) => CardsLast(a, c, t)
    BY <1>1, <1>2 DEF CardsLast
  <1>4. NoOldDone(q, t) => NoOldDone(a, t)
    BY <1>1 DEF NoOldDone
  <1> QED
    BY <1>3, <1>4 DEF a

(* Where the cards on the screen come from, and which of them stay.        *)
LEMMA ConcatKeeps ==
  ASSUME NEW S, NEW s \in Seq(S), NEW t \in Seq(S)
  PROVE  ToSet(s) \cup ToSet(t) \subseteq ToSet(s \o t)
  <1>1. /\ Len(s) \in Nat /\ Len(t) \in Nat
        /\ DOMAIN s = 1 .. Len(s) /\ DOMAIN t = 1 .. Len(t)
        /\ DOMAIN (s \o t) = 1 .. (Len(s) + Len(t))
        /\ \A i \in 1 .. Len(s) : (s \o t)[i] = s[i]
        /\ \A i \in 1 .. Len(t) : (s \o t)[Len(s) + i] = t[i]
    OBVIOUS
  <1>2. /\ \A i \in 1 .. Len(s) : i \in 1 .. (Len(s) + Len(t))
        /\ \A i \in 1 .. Len(t) : Len(s) + i \in 1 .. (Len(s) + Len(t))
    BY <1>1
  <1> QED
    BY <1>1, <1>2 DEF ToSet

LEMMA WithoutKeeps ==
  ASSUME NEW S, NEW s \in Seq(S), NEW c, NEW e \in ToSet(s), e # c
  PROVE  e \in ToSet(Without(s, c))
  <1>1. CASE c \notin ToSet(s)
    BY <1>1 DEF Without
  <1>2. CASE c \in ToSet(s)
    <2> DEFINE i == CHOOSE j \in DOMAIN s : s[j] = c
               a == SubSeq(s, 1, i - 1)
               b == SubSeq(s, i + 1, Len(s))
    <2>1. i \in DOMAIN s /\ s[i] = c
      BY <1>2 DEF ToSet
    <2>2. Len(s) \in Nat /\ i \in 1 .. Len(s) /\ DOMAIN s = 1 .. Len(s)
      BY <2>1
    <2>3. Without(s, c) = a \o b
      BY <1>2 DEF Without, RemoveAt
    <2> HIDE DEF i
    <2>4. /\ a \in Seq(S) /\ DOMAIN a = 1 .. (i - 1)
          /\ \A j \in 1 .. (i - 1) : a[j] = s[j]
      BY <2>2
    <2>5. /\ b \in Seq(S) /\ DOMAIN b = 1 .. (Len(s) - i)
          /\ \A j \in 1 .. (Len(s) - i) : b[j] = s[i + j]
      BY <2>2
    <2>6. PICK k \in 1 .. Len(s) : s[k] = e
      BY <2>2 DEF ToSet
    <2>7. k \in 1 .. (i - 1) \/ k - i \in 1 .. (Len(s) - i)
      BY <2>1, <2>2, <2>6
    <2> HIDE DEF a, b
    <2>8. k \in 1 .. (i - 1) => e \in ToSet(a)
      BY <2>4, <2>6 DEF ToSet
    <2>9. k - i \in 1 .. (Len(s) - i) => e \in ToSet(b)
      <3>1. k = i + (k - i)
        BY <2>2
      <3> QED
        BY <2>5, <2>6, <3>1 DEF ToSet
    <2>10. ToSet(a) \cup ToSet(b) \subseteq ToSet(a \o b)
      BY <2>4, <2>5, ConcatKeeps
    <2> QED
      BY <2>3, <2>7, <2>8, <2>9, <2>10
  <1> QED
    BY <1>1, <1>2

LEMMA HeadOrTail ==
  ASSUME NEW s \in Seq(Calls), NEW c \in ToSet(s)
  PROVE  s # <<>> /\ (c = Head(s) \/ c \in ToSet(Tail(s)))
  <1>1. s # <<>>
    BY DEF ToSet
  <1> QED
    BY <1>1, TailFacts

LEMMA ClearKeeps ==
  ASSUME TypeOK, Clear, NEW c \in Calls, OnScreen(c), c # active
  PROVE  OnScreen(c)'
  <1>1. c \in ToSet(queue) /\ queue \in Seq(Calls)
    BY DEF OnScreen, TypeOK
  <1> QED
    BY <1>1, HeadOrTail DEF Clear, OnScreen

LEMMA CardShows ==
  ASSUME TypeOK, CardArrives, NEW c \in Calls
  PROVE  OnScreen(c)' <=> OnScreen(c) \/ IsCard(Head(messages), c)
  <1>1. /\ messages # <<>> /\ Head(messages).kind = "card"
        /\ active' = Head(messages).call
        /\ queue' = IF active = NoCall THEN queue ELSE <<active>> \o queue
    BY DEF CardArrives, Arrived
  <1>2. queue \in Seq(Calls) /\ c # NoCall
    BY CallAssumption DEF TypeOK
  <1>3. CASE active = NoCall
    BY <1>1, <1>2, <1>3 DEF OnScreen, IsCard
  <1>4. CASE active # NoCall
    <2>1. <<active>> \in Seq(Calls) /\ ToSet(<<active>>) = {active}
      BY <1>4 DEF TypeOK, ToSet
    <2>2. ToSet(<<active>> \o queue) = {active} \cup ToSet(queue)
      BY <1>2, <2>1, ConcatFacts, ConcatKeeps
    <2> QED
      BY <1>1, <1>4, <2>2 DEF OnScreen, IsCard
  <1> QED
    BY <1>3, <1>4

LEMMA ResultKeeps ==
  ASSUME TypeOK, ResultArrives, NEW c \in Calls
  PROVE  /\ OnScreen(c)' => OnScreen(c)
         /\ OnScreen(c) /\ c # Head(messages).call => OnScreen(c)'
  <1> DEFINE e == Head(messages).call
             rest == Without(queue, e)
  <1>1. queue \in Seq(Calls) /\ c # NoCall
    BY CallAssumption DEF TypeOK
  <1>2. rest \in Seq(Calls) /\ ToSet(rest) \subseteq ToSet(queue)
    BY <1>1, WithoutFacts
  <1>3. c \in ToSet(queue) /\ c # e => c \in ToSet(rest)
    BY <1>1, WithoutKeeps
  <1>4. IF active # e THEN active' = active /\ queue' = rest
        ELSE IF rest = <<>> THEN active' = NoCall /\ queue' = rest
        ELSE active' = Head(rest) /\ queue' = Tail(rest)
    BY DEF ResultArrives
  <1> HIDE DEF rest, e
  <1>5. rest # <<>> => /\ Head(rest) \in ToSet(rest) /\ ToSet(Tail(rest)) \subseteq ToSet(rest)
                       /\ ToSet(rest) = {Head(rest)} \cup ToSet(Tail(rest))
    BY <1>2, TailFacts
  <1>6. rest = <<>> => ToSet(rest) = {}
    BY DEF ToSet
  <1>7. OnScreen(c)' => OnScreen(c)
    BY <1>1, <1>2, <1>4, <1>5 DEF OnScreen
  <1>8. OnScreen(c) /\ c # e => OnScreen(c)'
    BY <1>1, <1>3, <1>4, <1>5, <1>6 DEF OnScreen
  <1> QED
    BY <1>7, <1>8 DEF e

LEMMA LateGate ==
  ASSUME TypeOK, NoCardBefore, LateInv, NEW e \in Calls, GateNext(e)
  PROVE  LateInv'
  <1>1. /\ UNCHANGED <<messages, turn, active, queue>>
        /\ \A c \in Calls : c # e => gate'[c] = gate[c]
    BY DEF GateNext, CancelledBeforeStart, PassGate, Publish, TakeAnswer, AbortWait,
       TypeOK,
           loop, pipes, ui, cards
  <1>2. gate'[e] = "waiting" => gate[e] = "asking"
    BY GateMovesOn DEF GateMoves
  <1>3. ASSUME gate[e] = "asking"
        PROVE  CardsLast(messages, e, turn) /\ ~OnScreen(e)
    <2>1. ~OnScreen(e) /\ [kind |-> "card", call |-> e] \notin ToSet(messages)
      BY <1>3 DEF NoCardBefore, Shown, OnItsWay
    <2>2. \A i \in DOMAIN messages : messages[i] \in Chunk
      BY DEF TypeOK
    <2>3. \A i \in DOMAIN messages : ~IsCard(messages[i], e)
      BY <2>1, <2>2, ChunkTurns DEF IsCard, ToSet
    <2> QED
      BY <2>1, <2>3 DEF CardsLast
  <1> SUFFICES ASSUME NEW c \in Calls, gate'[c] = "waiting"
               PROVE  /\ CardsLast(messages, c, turn)
                      /\ OnScreen(c) => NoOldDone(messages, turn)
    BY <1>1 DEF LateInv, OnScreen
  <1> QED
    BY <1>1, <1>2, <1>3 DEF LateInv

LEMMA LateWorker ==
  ASSUME TypeOK, LoopInv, LateInv, WorkerNext
  PROVE  LateInv'
  <1>0. /\ UNCHANGED <<gate, active, queue>>
        /\ stream \in Seq(Report) /\ messages \in Seq(Chunk)
    BY DEF WorkerNext, StartTurn, Relay, Forward, Steer, ConfirmTool, Abort, gates, ui,
       cards, TypeOK
  <1>1. ASSUME NEW x \in Chunk, ~OldDone(x, turn), messages' = Append(messages, x),
               turn' = turn
        PROVE  LateInv'
    BY <1>0, <1>1, CardsLastAppend DEF LateInv, OnScreen
  <1>2. CASE StartTurn
    <2>1. Asking = {}
      BY <1>2 DEF StartTurn, LoopInv, AsksInItsSegment, CallStarts
    <2> QED
      BY <1>0, <2>1 DEF Asking, LateInv
  <1>3. CASE Relay
    <2>1. bus # <<>> /\ turn' = turn
          /\ messages' = Append(messages, [kind |-> "card", call |-> Head(bus)])
      BY <1>3 DEF Relay, loop
    <2>2. Head(bus) \in Calls
      BY <2>1, TailFacts DEF TypeOK
    <2>3. PICK x \in Chunk : x.kind = "card" /\ messages' = Append(messages, x)
      BY <2>1, <2>2 DEF Chunk
    <2> QED
      BY <1>1, <2>1, <2>3 DEF OldDone
  <1>4. CASE Forward
    <2>1. stream # <<>> /\ messages' = Append(messages, Head(stream)) /\ turn' = turn
      BY <1>4 DEF Forward
    <2>2. Head(stream) \in Chunk
      BY <1>0, <2>1, TailFacts DEF Chunk
    <2>3. 1 \in DOMAIN stream /\ Head(stream) = stream[1]
      BY <1>0, <2>1, TailIndex
    <2>4. ~OldDone(Head(stream), turn)
      BY <2>3 DEF OldDone, LoopInv, DoneIsLast
    <2> QED
      BY <1>1, <2>1, <2>2, <2>4
  <1>5. CASE Steer \/ ConfirmTool
    BY <1>0, <1>5 DEF Steer, ConfirmTool, loop, LateInv, OnScreen
  <1>6. CASE Abort
    <2>1. /\ turn' = turn
          /\ ~running => messages' = messages
          /\ running => messages' = Append(messages, [kind |-> "done", turn |-> turn])
      BY <1>6 DEF Abort
    <2>2. CASE running
      <3>1. PICK x \in Chunk : x.turn = turn /\ messages' = Append(messages, x)
        BY <2>1, <2>2 DEF TypeOK, Chunk, Report
      <3> QED
        BY <1>1, <2>1, <3>1 DEF OldDone
    <2>3. CASE ~running
      BY <1>0, <2>1, <2>3 DEF LateInv, OnScreen
    <2> QED
      BY <2>2, <2>3
  <1> QED
    BY <1>2, <1>3, <1>4, <1>5, <1>6 DEF WorkerNext

LEMMA LateScreen ==
  ASSUME TypeOK, LateInv, Screen
  PROVE  LateInv'
  <1>0. UNCHANGED <<gate, turn>> /\ messages \in Seq(Chunk) /\ ToSet(<<>>) = {}
    BY DEF Screen, StartArrives, CardArrives, ResultArrives, DoneArrives, GraceExpires,
       Draw, gates, loop,
           TypeOK, ToSet
  <1> SUFFICES ASSUME NEW c \in Calls, gate[c] = "waiting"
               PROVE  /\ CardsLast(messages, c, turn)'
                      /\ OnScreen(c)' => NoOldDone(messages, turn)'
    BY <1>0 DEF LateInv
  <1>1. CardsLast(messages, c, turn) /\ (OnScreen(c) => NoOldDone(messages, turn))
    BY DEF LateInv
  <1>2. c # NoCall
    BY CallAssumption
  <1>3. ASSUME StartArrives \/ CardArrives \/ ResultArrives \/ DoneArrives
        PROVE  /\ messages # <<>> /\ messages' = Tail(messages)
               /\ CardsLast(messages', c, turn)
               /\ NoOldDone(messages, turn) => NoOldDone(messages', turn)
               /\ IsCard(Head(messages), c) => NoOldDone(messages', turn)
    <2>1. messages # <<>> /\ messages' = Tail(messages)
      BY <1>3 DEF StartArrives, CardArrives, ResultArrives, DoneArrives, Arrived
    <2> QED
      BY <1>0, <1>1, <2>1, CardsLastTail
  <1>4. CASE CardArrives
    BY <1>0, <1>1, <1>3, <1>4, CardShows
  <1>5. CASE ResultArrives
    BY <1>0, <1>1, <1>3, <1>5, ResultKeeps
  <1>6. CASE DoneArrives
    <2>1. OnScreen(c)' => OnScreen(c)
      BY <1>0, <1>6 DEF DoneArrives, OnScreen
    <2> QED
      BY <1>0, <1>1, <1>3, <1>6, <2>1
  <1>7. CASE GraceExpires \/ Draw
    <2>1. messages' = messages /\ (OnScreen(c)' => OnScreen(c))
      BY <1>0, <1>2, <1>7 DEF GraceExpires, Draw, pipes, ui, cards, OnScreen
    <2> QED
      BY <1>0, <1>1, <2>1
  <1>8. CASE StartArrives
    BY <1>0, <1>1, <1>3, <1>8 DEF StartArrives, cards, OnScreen
  <1> QED
    BY <1>4, <1>5, <1>6, <1>7, <1>8 DEF Screen

LEMMA LateHolds == Spec => []LateInv
  <1>1. Init => LateInv
    BY DEF Init, LateInv
  <1>2. TypeOK /\ DecidedInv /\ LoopInv /\ LateInv /\ [Next]_vars => LateInv'
    <2> SUFFICES ASSUME TypeOK, DecidedInv, LoopInv, LateInv, [Next]_vars PROVE LateInv'
      OBVIOUS
    <2>1. CASE LoopNext \/ UNCHANGED vars
      <3>1. UNCHANGED <<gate, messages, turn, active, queue>>
        BY <2>1 DEF LoopNext, SegmentEnds, ModelCallCancelled, LoopReturns, Watcher, vars,
           gates, loop, pipes, ui, cards
      <3> QED
        BY <3>1 DEF LateInv, OnScreen
    <2>2. CASE User
      <3>1. UNCHANGED <<gate, messages, turn>>
        BY <2>2 DEF User, Press, RemoteDecision, Cancel, RemoteCancel, SendMessage,
           SteerMessage, SendsMessage, gates, loop
      <3>2. Clear \/ UNCHANGED <<active, queue>>
        BY <2>2 DEF User, Press, RemoteDecision, Cancel, RemoteCancel, SendMessage,
           SteerMessage, SendsMessage, ui, cards
      <3>3. \A c \in Calls : OnScreen(c)' => OnScreen(c)
        BY <3>2, ClearFacts DEF OnScreen
      <3> QED
        BY <3>1, <3>3 DEF LateInv
    <2> QED
      BY <2>1, <2>2, LateGate, LateWorker, LateScreen DEF Next, DecidedInv
  <1> QED
    BY <1>1, <1>2, TypeCorrect, DecidedInvariant, LoopHolds, PTL DEF Spec

(* A call that waits has its question somewhere.                           *)
Placed(c) ==
  answer[c] # "none" \/ AnswerOnItsWay(c) \/ OnItsWay(c) \/ OnScreen(c) \/ c \in dropped

LEMMA NoAnswerLost ==
  ASSUME TypeOK, NEW r \in Request, requests' = Append(requests, r), NEW c \in Calls
  PROVE  /\ AnswerOnItsWay(c) => AnswerOnItsWay(c)'
         /\ IsAnswer(r, c) => AnswerOnItsWay(c)'
         /\ Cancelled /\ flag' = flag => Cancelled'
         /\ r = [kind |-> "abort"] => Cancelled'
  <1>1. /\ DOMAIN requests' = DOMAIN requests \cup {Len(requests) + 1}
        /\ \A i \in DOMAIN requests : requests'[i] = requests[i]
        /\ requests'[Len(requests) + 1] = r
    BY AppendIndex DEF TypeOK
  <1>2. ToSet(requests') = ToSet(requests) \cup {r}
    BY AppendFacts DEF TypeOK
  <1>3. /\ AnswerOnItsWay(c) => AnswerOnItsWay(c)'
        /\ IsAnswer(r, c) => AnswerOnItsWay(c)'
    BY <1>1 DEF AnswerOnItsWay, IsAnswer
  <1> QED
    BY <1>2, <1>3 DEF Cancelled

LEMMA WaitGate ==
  ASSUME TypeOK, EveryWaitHasItsCard, NEW e \in Calls, GateNext(e),
         NEW c \in Calls, gate'[c] = "waiting", ~Cancelled'
  PROVE  Placed(c)'
  <1>1. /\ UNCHANGED <<requests, messages, active, queue, flag, dropped>>
        /\ c # e => gate'[c] = gate[c] /\ answer'[c] = answer[c]
        /\ bus' = bus \/ bus' = Append(bus, e)
    BY DEF GateNext, CancelledBeforeStart, PassGate, Publish, TakeAnswer, AbortWait,
       TypeOK,
           loop, pipes, ui, cards, hist
  <1>2. ToSet(Append(bus, e)) = ToSet(bus) \cup {e}
    BY AppendFacts DEF TypeOK
  <1>3. ~Cancelled
    BY <1>1 DEF Cancelled
  <1>4. CASE c # e
    BY <1>1, <1>2, <1>3, <1>4 DEF EveryWaitHasItsCard, Placed, AnswerOnItsWay,
       OnItsWay, OnScreen
  <1>5. CASE c = e
    <2>1. ~CancelledBeforeStart(e) /\ ~AbortWait(e) /\ ~TakeAnswer(e)
      BY <1>5 DEF CancelledBeforeStart, AbortWait, TakeAnswer, TypeOK
    <2>2. \A p \in Policy, own \in Own : ~PassGate(e, p, own)
      BY <1>5 DEF PassGate, Verdict, TypeOK
    <2>3. PICK p \in Policy : Publish(e, p)
      BY <2>1, <2>2 DEF GateNext
    <2>4. answer'[e] = "policy" \/ bus' = Append(bus, e)
      BY <2>3 DEF Publish, TypeOK
    <2> QED
      BY <1>2, <1>5, <2>4 DEF Placed, OnItsWay
  <1> QED
    BY <1>4, <1>5

LEMMA WaitWorker ==
  ASSUME TypeOK, LoopInv, EveryWaitHasItsCard, WorkerNext,
         NEW c \in Calls, gate'[c] = "waiting", ~Cancelled'
  PROVE  Placed(c)'
  <1>0. /\ gate[c] = "waiting" /\ UNCHANGED <<active, queue, dropped>>
        /\ requests \in Seq(Request) /\ stream \in Seq(Report) /\ messages \in Seq(Chunk)
        /\ bus \in Seq(Calls)
    BY DEF WorkerNext, StartTurn, Relay, Forward, Steer, ConfirmTool, Abort, gates, ui,
       cards,
           hist, TypeOK
  <1>1. CallStarts(c)
    BY <1>0 DEF LoopInv, AsksInItsSegment, Asking
  <1>2. ~StartTurn /\ ~Abort
    BY <1>1 DEF StartTurn, Abort, CallStarts, Cancelled
  <1>3. CASE Relay
    <2> DEFINE card == [kind |-> "card", call |-> Head(bus)]
    <2>1. /\ bus # <<>> /\ bus' = Tail(bus) /\ messages' = Append(messages, card)
          /\ UNCHANGED <<answer, requests, flag>>
      BY <1>3 DEF Relay, gates, loop
    <2>2. ToSet(bus) = {Head(bus)} \cup ToSet(bus') /\ Head(bus) \in Calls
      BY <1>0, <2>1, TailFacts
    <2>3. card \in Chunk
      BY <2>2 DEF Chunk
    <2>4. ToSet(messages') = ToSet(messages) \cup {card}
      BY <1>0, <2>1, <2>3, AppendFacts
    <2>5. OnItsWay(c) => OnItsWay(c)'
      BY <2>2, <2>4 DEF OnItsWay
    <2>6. Placed(c)
      BY <1>0, <2>1 DEF EveryWaitHasItsCard, Placed, Cancelled
    <2> QED
      BY <1>0, <2>1, <2>5, <2>6 DEF Placed, AnswerOnItsWay, OnScreen
  <1>4. CASE Forward
    <2>1. /\ stream # <<>> /\ messages' = Append(messages, Head(stream))
          /\ UNCHANGED <<answer, requests, bus>>
          /\ Head(stream).kind # "done" => flag' = flag
      BY <1>4 DEF Forward, gates
    <2>2. Head(stream) \in Chunk
      BY <1>0, <2>1, TailFacts DEF Chunk
    <2>3. 1 \in DOMAIN stream /\ Head(stream) = stream[1]
      BY <1>0, <2>1, TailIndex
    <2>4. Head(stream).kind # "done"
      <3>1. segment <= Len(Plan[turn]) /\ running
        BY <1>1 DEF CallStarts
      <3>2. segment <= Len(Plan[turn]) + 1
        BY <3>1, NumbersOfTurns
      <3> QED
        BY <2>3, <3>2, NoDoneYet
    <2>5. ToSet(messages') = ToSet(messages) \cup {Head(stream)}
      BY <1>0, <2>1, <2>2, AppendFacts
    <2>6. Placed(c)
      BY <1>0, <2>1, <2>4 DEF EveryWaitHasItsCard, Placed, Cancelled
    <2> QED
      BY <1>0, <2>1, <2>5, <2>6 DEF Placed, AnswerOnItsWay, OnItsWay, OnScreen
  <1>5. CASE ConfirmTool
    <2> DEFINE r == Head(requests)
    <2>1. /\ requests # <<>> /\ requests' = Tail(requests) /\ r.kind = "answer"
          /\ UNCHANGED <<flag, bus, messages>>
          /\ answer' = IF gate[r.call] = "waiting" /\ answer[r.call] = "none"
                       THEN [answer EXCEPT ![r.call] = r.decision] ELSE answer
      BY <1>5 DEF ConfirmTool, Requested, loop
    <2>2. r \in Request /\ ToSet(requests) = {r} \cup ToSet(requests')
      BY <1>0, <2>1, TailFacts
    <2>3. r.call \in Calls /\ r.decision \in Decision /\ r # [kind |-> "abort"]
      BY <2>1, <2>2 DEF Request
    <2>4. answer'[c] = IF c = r.call /\ answer[c] = "none" THEN r.decision ELSE answer[c]
      BY <1>0, <2>1, <2>3 DEF TypeOK
    <2>5. /\ 1 \in DOMAIN requests /\ r = requests[1]
          /\ \A i \in DOMAIN requests : i # 1 =>
               i - 1 \in DOMAIN requests' /\ requests[i] = requests'[i - 1]
      BY <1>0, <2>1, TailIndex
    <2> HIDE DEF r
    <2>6. Placed(c)
      BY <1>0, <2>1, <2>2, <2>3 DEF EveryWaitHasItsCard, Placed, Cancelled
    <2>7. AnswerOnItsWay(c) => c = r.call \/ AnswerOnItsWay(c)'
      BY <2>5 DEF AnswerOnItsWay
    <2>8. answer[c] # "none" \/ c = r.call => answer'[c] # "none"
      BY <2>3, <2>4 DEF Decision
    <2> QED
      BY <1>0, <2>1, <2>6, <2>7, <2>8 DEF Placed, OnItsWay, OnScreen
  <1>6. CASE Steer
    <2>1. /\ requests # <<>> /\ requests' = Tail(requests) /\ Head(requests).kind = "message"
          /\ UNCHANGED <<answer, flag, bus, messages>>
      BY <1>6 DEF Steer, Requested, gates, loop
    <2>2. /\ 1 \in DOMAIN requests /\ Head(requests) = requests[1]
          /\ \A i \in DOMAIN requests : i # 1 =>
               i - 1 \in DOMAIN requests' /\ requests[i] = requests'[i - 1]
      BY <1>0, <2>1, TailIndex
    <2>3. AnswerOnItsWay(c) => AnswerOnItsWay(c)'
      BY <2>1, <2>2 DEF AnswerOnItsWay
    <2>4. ToSet(requests) = {Head(requests)} \cup ToSet(requests')
      BY <1>0, <2>1, TailFacts
    <2>5. Head(requests) # [kind |-> "abort"]
      BY <2>1
    <2>6. Placed(c)
      BY <1>0, <2>1, <2>4, <2>5 DEF EveryWaitHasItsCard, Placed, Cancelled
    <2> QED
      BY <1>0, <2>1, <2>3, <2>6 DEF Placed, OnItsWay, OnScreen
  <1> QED
    BY <1>2, <1>3, <1>4, <1>5, <1>6 DEF WorkerNext

LEMMA WaitScreen ==
  ASSUME TypeOK, LoopInv, DoneMeansFlag, LateInv, EveryWaitHasItsCard, Screen,
         NEW c \in Calls, gate'[c] = "waiting", ~Cancelled'
  PROVE  Placed(c)'
  <1>0. /\ gate[c] = "waiting" /\ ~Cancelled /\ UNCHANGED <<answer, requests, bus>>
        /\ messages \in Seq(Chunk) /\ dropped \subseteq dropped'
    BY DEF Screen, StartArrives, CardArrives, ResultArrives, DoneArrives, GraceExpires,
       Draw, gates, loop,
           pipes, hist, TypeOK, Cancelled
  <1>1. CallStarts(c) /\ running
    BY <1>0 DEF LoopInv, AsksInItsSegment, Asking, CallStarts
  <1>2. Placed(c)
    BY <1>0 DEF EveryWaitHasItsCard, Placed
  <1>3. SUFFICES ASSUME OnItsWay(c) \/ OnScreen(c)
                 PROVE  OnItsWay(c)' \/ OnScreen(c)' \/ c \in dropped'
    BY <1>0, <1>2 DEF Placed, AnswerOnItsWay
  <1>4. ASSUME StartArrives \/ CardArrives \/ ResultArrives \/ DoneArrives
        PROVE  /\ Head(messages) \in Chunk /\ Head(messages) \in ToSet(messages)
               /\ 1 \in DOMAIN messages /\ Head(messages) = messages[1]
               /\ OnItsWay(c) => OnItsWay(c)' \/ IsCard(Head(messages), c)
    <2>1. messages # <<>> /\ messages' = Tail(messages)
      BY <1>4 DEF StartArrives, CardArrives, ResultArrives, DoneArrives, Arrived
    <2>2. /\ Head(messages) \in Chunk /\ Head(messages) \in ToSet(messages)
          /\ ToSet(messages) = {Head(messages)} \cup ToSet(messages')
      BY <1>0, <2>1, TailFacts
    <2>3. OnItsWay(c) => OnItsWay(c)' \/ IsCard(Head(messages), c)
      BY <1>0, <2>2 DEF OnItsWay, IsCard
    <2> QED
      BY <1>0, <2>1, <2>2, <2>3, TailIndex
  <1>5. CASE CardArrives
    BY <1>3, <1>4, <1>5, CardShows
  <1>6. CASE ResultArrives
    <2>1. Head(messages).kind = "result"
      BY <1>6 DEF ResultArrives, Arrived
    <2>2. gate[Head(messages).call] \in Over
      BY <1>4, <1>6, <2>1 DEF LoopInv, ResultsAreOver
    <2>3. c # Head(messages).call
      BY <1>0, <2>2 DEF Over
    <2> QED
      BY <1>3, <1>4, <1>6, <2>1, <2>3, ResultKeeps DEF IsCard
  <1>7. CASE DoneArrives
    <2>1. Head(messages).kind = "done"
      BY <1>7 DEF DoneArrives, Arrived
    <2>2. Head(messages).turn # turn
      BY <1>0, <1>1, <1>4, <1>7, <2>1 DEF DoneMeansFlag, Cancelled
    <2>3. ~OnScreen(c)
      BY <1>0, <1>4, <1>7, <2>1, <2>2 DEF LateInv, NoOldDone, OldDone
    <2> QED
      BY <1>3, <1>4, <1>7, <2>1, <2>3 DEF IsCard
  <1>8. CASE GraceExpires
    BY <1>0, <1>3, <1>8 DEF GraceExpires, pipes, OnItsWay
  <1>9. CASE Draw
    BY <1>3, <1>9 DEF Draw, pipes, ui, cards, OnItsWay, OnScreen
  <1>10. CASE StartArrives
    <2>1. Head(messages).kind = "start"
      BY <1>10 DEF StartArrives, Arrived
    <2> QED
      BY <1>3, <1>4, <1>10, <2>1 DEF StartArrives, cards, IsCard, OnScreen
  <1> QED
    BY <1>5, <1>6, <1>7, <1>8, <1>9, <1>10 DEF Screen

LEMMA WaitUser ==
  ASSUME TypeOK, EveryWaitHasItsCard, User,
         NEW c \in Calls, gate'[c] = "waiting", ~Cancelled'
  PROVE  Placed(c)'
  <1>0. UNCHANGED <<gate, answer, bus, messages, flag, dropped>>
    BY DEF User, Press, RemoteDecision, Cancel, RemoteCancel, SendMessage,
       SteerMessage, SendsMessage, gates, loop, hist
  <1>1. ASSUME NEW r \in Request, requests' = Append(requests, r),
               OnScreen(c) => OnScreen(c)' \/ IsAnswer(r, c)
        PROVE  Placed(c)'
    <2>1. /\ AnswerOnItsWay(c) => AnswerOnItsWay(c)'
          /\ IsAnswer(r, c) => AnswerOnItsWay(c)'
          /\ ~Cancelled
      BY <1>0, <1>1, NoAnswerLost
    <2>2. Placed(c)
      BY <1>0, <2>1 DEF EveryWaitHasItsCard, Placed
    <2> QED
      BY <1>0, <1>1, <2>1, <2>2 DEF Placed, OnItsWay
  <1>2. ASSUME NEW e \in Calls, NEW d \in Decision, Decide(e, d)
        PROVE  \E r \in Request :
                 requests' = Append(requests, r) /\ (c = e => IsAnswer(r, c))
    <2> DEFINE r == [kind |-> "answer", call |-> e, decision |-> d]
    <2>1. r \in Request /\ r.kind = "answer" /\ r.call = e
      BY DEF Request
    <2>2. requests' = Append(requests, r)
      BY <1>2 DEF Decide
    <2> QED
      BY <2>1, <2>2 DEF IsAnswer
  <1>3. ASSUME NEW d \in Decision, Press(d)
        PROVE  Placed(c)'
    <2>1. active \in Calls /\ Decide(active, d) /\ Clear
      BY <1>3 DEF Press, TypeOK
    <2>2. PICK r \in Request :
            requests' = Append(requests, r) /\ (c = active => IsAnswer(r, c))
      BY <1>2, <2>1
    <2>3. OnScreen(c) => OnScreen(c)' \/ IsAnswer(r, c)
      BY <2>1, <2>2, ClearKeeps
    <2> QED
      BY <1>1, <2>2, <2>3
  <1>4. ASSUME NEW e \in Calls, NEW d \in {"once", "deny"}, RemoteDecision(e, d)
        PROVE  Placed(c)'
    <2>1. Decide(e, d) /\ d \in Decision /\ UNCHANGED <<active, queue>>
      BY <1>4 DEF RemoteDecision, Decision, ui, cards
    <2>2. PICK r \in Request : requests' = Append(requests, r)
      BY <1>2, <2>1
    <2> QED
      BY <1>1, <2>1, <2>2 DEF OnScreen
  <1>5. CASE Cancel \/ RemoteCancel
    <2>1. [kind |-> "abort"] \in Request
      BY DEF Request
    <2>2. requests' = Append(requests, [kind |-> "abort"])
      BY <1>5 DEF Cancel, RemoteCancel
    <2>3. PICK r \in Request : r = [kind |-> "abort"]
      BY <2>1
    <2> QED
      BY <2>2, <2>3, NoAnswerLost
  <1>6. CASE SendMessage \/ SteerMessage
    <2>1. [kind |-> "message", turn |-> sent + 1] \in Request
      BY <1>6, PlanAssumption DEF SendMessage, SteerMessage, SendsMessage, TypeOK,
         Turn, Request
    <2>2. PICK r \in Request : requests' = Append(requests, r)
      BY <1>6, <2>1 DEF SendMessage, SteerMessage, SendsMessage
    <2>3. UNCHANGED <<active, queue>>
      BY <1>6 DEF SendMessage, SteerMessage, SendsMessage, cards
    <2> QED
      BY <1>1, <2>2, <2>3 DEF OnScreen
  <1> QED
    BY <1>3, <1>4, <1>5, <1>6 DEF User

(* As long as nobody cancels, the question of every call that waits is on  *)
(* its way to the screen, on it, or answered: no gate waits for a card     *)
(* that is gone, but for those the end of a grace period took.             *)
THEOREM NoCardIsLost == Spec => []EveryWaitHasItsCard
  <1>1. Init => EveryWaitHasItsCard
    BY DEF Init, EveryWaitHasItsCard
  <1>2. TypeOK /\ LoopInv /\ DoneMeansFlag /\ LateInv /\ EveryWaitHasItsCard /\ [Next]_vars
          => EveryWaitHasItsCard'
    <2> SUFFICES ASSUME TypeOK, LoopInv, DoneMeansFlag, LateInv, EveryWaitHasItsCard, [Next]_vars,
                        NEW c \in Calls, gate'[c] = "waiting", ~Cancelled'
                 PROVE  Placed(c)'
      BY DEF EveryWaitHasItsCard, Placed
    <2>1. CASE LoopNext \/ UNCHANGED vars
      <3>1. UNCHANGED <<gate, answer, bus, messages, requests, active, queue, flag, dropped>>
        BY <2>1 DEF LoopNext, SegmentEnds, ModelCallCancelled, LoopReturns, Watcher, vars,
           gates, loop, pipes, ui, cards, hist
      <3> QED
        BY <3>1 DEF EveryWaitHasItsCard, Placed, Cancelled, AnswerOnItsWay, OnItsWay,
           OnScreen
    <2> QED
      BY <2>1, WaitGate, WaitWorker, WaitScreen, WaitUser DEF Next
  <1> QED
    BY <1>1, <1>2, TypeCorrect, LoopHolds, FlagHolds, LateHolds, PTL DEF Spec
-----------------------------------------------------------------------------
(* Nothing is cancelled, and no card dropped, before an Abort was sent.    *)
CancelInv == cancelling \/ Cancelled \/ dropped # {} => aborts > 0

LEMMA CancelStep == ASSUME TypeOK, CancelInv, [Next]_vars PROVE CancelInv'
  <1> DEFINE abort == [kind |-> "abort"]
  <1>0. aborts \in Nat /\ requests \in Seq(Request)
    BY BoundAssumption DEF TypeOK
  <1>1. CASE Cancel \/ RemoteCancel
    <2>1. aborts' = aborts + 1
      BY <1>1 DEF Cancel, RemoteCancel
    <2> QED
      BY <1>0, <2>1 DEF CancelInv
  <1>2. ASSUME NEW r \in Request, r.kind # "abort", requests' = Append(requests, r),
               aborts' = aborts, dropped' = dropped, flag' = flag, cancelling' => cancelling
        PROVE  CancelInv'
    <2>1. ToSet(requests') = ToSet(requests) \cup {r}
      BY <1>0, <1>2, AppendFacts
    <2>2. r # abort
      BY <1>2
    <2> QED
      BY <1>2, <2>1, <2>2 DEF CancelInv, Cancelled
  <1>3. ASSUME NEW c \in Calls, NEW d \in Decision, Decide(c, d),
               UNCHANGED <<aborts, dropped, flag, cancelling>>
        PROVE  CancelInv'
    <2> DEFINE r == [kind |-> "answer", call |-> c, decision |-> d]
    <2>1. r \in Request /\ r.kind # "abort" /\ requests' = Append(requests, r)
      BY <1>3 DEF Request, Decide
    <2> HIDE DEF r
    <2> QED
      BY <1>2, <1>3, <2>1
  <1>4. ASSUME NEW d \in Decision, Press(d)
        PROVE  CancelInv'
    BY <1>3, <1>4 DEF Press, TypeOK, loop
  <1>5. ASSUME NEW c \in Calls, NEW d \in {"once", "deny"}, RemoteDecision(c, d)
        PROVE  CancelInv'
    BY <1>3, <1>5 DEF RemoteDecision, Decision, loop, ui
  <1>6. CASE SendMessage \/ SteerMessage
    <2> DEFINE r == [kind |-> "message", turn |-> sent + 1]
    <2>1. r \in Request
      BY <1>6, PlanAssumption DEF SendMessage, SteerMessage, SendsMessage, TypeOK, Turn, Request
    <2>2. /\ r.kind # "abort" /\ requests' = Append(requests, r)
          /\ UNCHANGED <<aborts, dropped, flag>> /\ (cancelling' => cancelling)
      BY <1>6 DEF SendMessage, SteerMessage, SendsMessage, loop
    <2> HIDE DEF r
    <2> QED
      BY <1>2, <2>1, <2>2
  <1>7. CASE GraceExpires
    BY <1>7 DEF GraceExpires, loop, pipes, CancelInv, Cancelled
  <1>8. ASSUME requests # <<>>, requests' = Tail(requests),
               flag' = flag \/ Head(requests).kind = "abort",
               UNCHANGED <<aborts, dropped, cancelling>>
        PROVE  CancelInv'
    <2>1. /\ Head(requests) \in Request /\ Head(requests) \in ToSet(requests)
          /\ ToSet(requests') \subseteq ToSet(requests)
      BY <1>0, <1>8, TailFacts
    <2>2. Head(requests).kind = "abort" => Head(requests) = abort
      BY <2>1 DEF Request
    <2> QED
      BY <1>8, <2>1, <2>2 DEF CancelInv, Cancelled
  <1>9. CASE WorkerNext /\ requests' # requests
    <2>1. CASE StartTurn
      <3>1. requests # <<>> /\ requests' = Tail(requests)
        BY <1>9, <2>1, StartedTurn
      <3>2. UNCHANGED <<flag, aborts, dropped, cancelling>>
        BY <2>1 DEF StartTurn, ui, hist
      <3> QED
        BY <1>8, <3>1, <3>2
    <2>2. CASE Steer \/ ConfirmTool
      BY <1>8, <2>2 DEF Steer, ConfirmTool, Requested, loop, ui, hist
    <2>3. CASE Abort
      BY <1>8, <2>3 DEF Abort, Requested, ui, hist
    <2> QED
      BY <1>9, <2>1, <2>2, <2>3 DEF WorkerNext, Relay, Forward
  <1>10. CASE \/ \E c \in Calls : GateNext(c)
              \/ LoopNext \/ (WorkerNext /\ requests' = requests)
              \/ (Screen /\ ~GraceExpires) \/ UNCHANGED vars
    <2>1. UNCHANGED <<cancelling, dropped, aborts, requests>> /\ (flag' => flag)
      <3>1. CASE WorkerNext /\ requests' = requests
        <4>1. ~(Steer \/ ConfirmTool \/ Abort)
          <5>1. requests # <<>> => Tail(requests) # requests
            BY <1>0
          <5> QED
            BY <3>1, <5>1 DEF Steer, ConfirmTool, Abort, Requested
        <4> QED
          BY <3>1, <4>1 DEF WorkerNext, StartTurn, Relay, Forward, loop, ui, hist
      <3>2. CASE ~WorkerNext
        BY <1>10, <3>2
           DEF GateNext, CancelledBeforeStart, PassGate, Publish, TakeAnswer, AbortWait,
               LoopNext, SegmentEnds, ModelCallCancelled, LoopReturns, Watcher,
               Screen, StartArrives, CardArrives, ResultArrives, DoneArrives, Draw,
               vars, loop, pipes, ui, hist
      <3>3. CASE WorkerNext /\ requests' # requests
        <4>1. UNCHANGED requests
          BY <1>10, <3>3
             DEF GateNext, CancelledBeforeStart, PassGate, Publish, TakeAnswer, AbortWait,
                 LoopNext, SegmentEnds, ModelCallCancelled, LoopReturns, Watcher,
                 Screen, StartArrives, CardArrives, ResultArrives, DoneArrives, Draw,
                 vars, pipes
        <4> QED
          BY <3>3, <4>1
      <3> QED
        BY <3>1, <3>2, <3>3
    <2> QED
      BY <2>1 DEF CancelInv, Cancelled
  <1> QED
    BY <1>1, <1>4, <1>5, <1>6, <1>7, <1>9, <1>10 DEF Next, User, Screen

CardsWithoutCancel ==
  aborts = 0 => \A c \in Calls : gate[c] = "waiting" =>
    answer[c] # "none" \/ AnswerOnItsWay(c) \/ OnItsWay(c) \/ OnScreen(c)

(* Only a cancellation takes a card away: before the first Abort every call *)
(* that waits has its question on its way, on the screen, or answered,     *)
(* whatever messages join the turns and whatever is decided from afar.     *)
THEOREM OnlyACancelTakesCards == Spec => []CardsWithoutCancel
  <1>1. Init => CancelInv
    <2>1. Init => ToSet(requests) = {}
      BY DEF Init, ToSet
    <2> QED
      BY <2>1 DEF Init, CancelInv, Cancelled
  <1>2. Spec => []CancelInv
    BY <1>1, CancelStep, TypeCorrect, PTL DEF Spec
  <1>3. CancelInv /\ EveryWaitHasItsCard => CardsWithoutCancel
    BY DEF CancelInv, EveryWaitHasItsCard, CardsWithoutCancel
  <1> QED
    BY <1>2, <1>3, NoCardIsLost, PTL
-----------------------------------------------------------------------------
(* A running turn never sticks.  A session that listens no more is being   *)
(* cancelled; a queued card has one in front of it; a loop that returned   *)
(* has said so on the stream.                                              *)
StopInv == stopped => flag
QueueInv == queue # <<>> => active # NoCall
EndInv ==
  running /\ segment > Len(Plan[turn]) + 1 =>
    stream # <<>> /\ stream[Len(stream)].kind = "done"

LEMMA StopStep == ASSUME StopInv, [Next]_vars PROVE StopInv'
  <1>1. CASE Forward \/ Abort
    BY <1>1 DEF Forward, Abort, StopInv
  <1>2. CASE ~(Forward \/ Abort)
    <2>1. UNCHANGED <<stopped, flag>>
      BY <1>2 DEF Next, GateNext, CancelledBeforeStart, PassGate, Publish, TakeAnswer,
         AbortWait, LoopNext, SegmentEnds, ModelCallCancelled, LoopReturns, Watcher,
         WorkerNext, StartTurn, Relay, Steer, ConfirmTool,
         Screen, StartArrives, CardArrives, ResultArrives, DoneArrives, GraceExpires, Draw,
         User, Press, RemoteDecision, Cancel, RemoteCancel, SendMessage, SteerMessage,
         SendsMessage, vars, loop
    <2> QED
      BY <2>1 DEF StopInv
  <1> QED
    BY <1>1, <1>2

LEMMA QueueStep == ASSUME TypeOK, QueueInv, [Next]_vars PROVE QueueInv'
  <1>0. queue \in Seq(Calls) /\ messages \in Seq(Chunk) /\ NoCall \notin Calls
    BY CallAssumption DEF TypeOK
  <1>1. ASSUME NEW d \in Decision, Press(d)
        PROVE  QueueInv'
    BY <1>0, <1>1, TailFacts DEF Press, Clear, QueueInv
  <1>2. CASE CardArrives
    <2>1. Head(messages) \in Chunk /\ Head(messages).kind = "card"
      BY <1>0, <1>2, TailFacts DEF CardArrives, Arrived
    <2>2. Head(messages).call \in Calls
      BY <2>1, ChunkTurns
    <2> QED
      BY <1>0, <1>2, <2>2 DEF CardArrives, QueueInv
  <1>3. CASE ResultArrives
    <2> DEFINE e == Head(messages).call
               rest == Without(queue, e)
    <2>1. rest \in Seq(Calls) /\ ToSet(rest) \subseteq ToSet(queue)
      BY <1>0, WithoutFacts
    <2>2. IF active # e THEN active' = active /\ queue' = rest
          ELSE IF rest = <<>> THEN active' = NoCall /\ queue' = rest
          ELSE active' = Head(rest) /\ queue' = Tail(rest)
      BY <1>3 DEF ResultArrives
    <2> HIDE DEF rest, e
    <2>3. rest # <<>> => queue # <<>> /\ Head(rest) \in Calls
      <3>1. rest # <<>> => Head(rest) \in ToSet(rest) /\ Head(rest) \in Calls
        BY <2>1, TailFacts
      <3>2. queue = <<>> => ToSet(queue) = {}
        BY DEF ToSet
      <3> QED
        BY <2>1, <3>1, <3>2
    <2> QED
      BY <1>0, <2>2, <2>3 DEF QueueInv
  <1>4. CASE DoneArrives \/ GraceExpires
    BY <1>4 DEF DoneArrives, GraceExpires, QueueInv
  <1>5. CASE \/ \E c \in Calls : GateNext(c)
             \/ LoopNext \/ WorkerNext \/ StartArrives \/ Draw
             \/ \E c \in Calls, d \in {"once", "deny"} : RemoteDecision(c, d)
             \/ Cancel \/ RemoteCancel \/ SendMessage \/ SteerMessage \/ UNCHANGED vars
    <2>1. UNCHANGED <<active, queue>>
      BY <1>5 DEF GateNext, CancelledBeforeStart, PassGate, Publish, TakeAnswer, AbortWait,
         LoopNext, SegmentEnds, ModelCallCancelled, LoopReturns, Watcher,
         WorkerNext, StartTurn, Relay, Forward, Steer, ConfirmTool, Abort,
         StartArrives, Draw, RemoteDecision, Cancel, RemoteCancel, SendMessage,
         SteerMessage, SendsMessage, vars, ui, cards
    <2> QED
      BY <2>1 DEF QueueInv
  <1> QED
    BY <1>1, <1>2, <1>3, <1>4, <1>5 DEF Next, User, Screen

LEMMA EndStep == ASSUME TypeOK, EndInv, [Next]_vars PROVE EndInv'
  <1>0. /\ stream \in Seq(Report) /\ segment \in Nat \ {0}
        /\ running => Len(Plan[turn]) \in Nat
    BY NumbersOfTurns DEF TypeOK
  <1>1. CASE SegmentEnds
    <2>1. /\ running /\ segment <= Len(Plan[turn]) /\ turn' = turn
          /\ segment' = segment + 1
      BY <1>1 DEF SegmentEnds
    <2> QED
      BY <1>0, <2>1 DEF EndInv
  <1>2. CASE ModelCallCancelled
    <2>1. running /\ turn' = turn /\ segment' = Len(Plan[turn]) + 1
      BY <1>2 DEF ModelCallCancelled
    <2> QED
      BY <1>0, <2>1 DEF EndInv
  <1>3. CASE LoopReturns
    <2> DEFINE done == [kind |-> "done", turn |-> turn]
    <2>1. stream' = Append(stream, done) /\ done.kind = "done" /\ running /\ turn \in Turn
      BY <1>3 DEF LoopReturns, TypeOK
    <2>2. done \in Report
      BY <2>1 DEF Report
    <2> HIDE DEF done
    <2>3. stream' # <<>> /\ Len(stream') = Len(stream) + 1 /\ stream'[Len(stream) + 1] = done
      BY <1>0, <2>1, <2>2
    <2> QED
      BY <2>1, <2>3 DEF EndInv
  <1>4. CASE StartTurn
    <2>1. turn' \in Turn /\ segment' = IF flag THEN Len(Plan[turn']) + 1 ELSE 1
      BY <1>4, StartedTurn DEF StartTurn
    <2>2. Len(Plan[turn']) \in Nat
      BY <2>1, PlanFacts
    <2> QED
      BY <2>1, <2>2 DEF EndInv
  <1>5. CASE Forward
    <2>1. /\ stream # <<>> /\ stream' = Tail(stream) /\ UNCHANGED <<turn, segment>>
          /\ running /\ (running' => Head(stream).kind # "done")
      BY <1>5 DEF Forward
    <2> SUFFICES ASSUME running', segment > Len(Plan[turn]) + 1
                 PROVE  stream' # <<>> /\ stream'[Len(stream')].kind = "done"
      BY <2>1 DEF EndInv
    <2>2. stream[Len(stream)].kind = "done" /\ Head(stream).kind # "done"
      BY <2>1 DEF EndInv
    <2>3. Len(stream) # 1 /\ Len(stream) \in Nat \ {0}
      BY <1>0, <2>1, <2>2
    <2>4. Len(stream') = Len(stream) - 1 /\ Len(stream') >= 1
      <3>1. \A n \in Nat \ {0} : n # 1 => n - 1 >= 1
        OBVIOUS
      <3>2. Len(Tail(stream)) = Len(stream) - 1
        BY <1>0, <2>1
      <3> QED
        BY <2>1, <2>3, <3>1, <3>2
    <2>5. stream'[Len(stream')] = stream[Len(stream)]
      BY <1>0, <2>1, <2>3, <2>4
    <2>6. stream' # <<>>
      BY <2>4
    <2> QED
      BY <2>2, <2>5, <2>6
  <1>6. CASE \/ \E c \in Calls : GateNext(c)
             \/ Watcher \/ Relay \/ Steer \/ ConfirmTool \/ Abort \/ Screen \/ User
             \/ UNCHANGED vars
    <2>1. UNCHANGED <<running, turn, segment, stream>>
      BY <1>6 DEF GateNext, CancelledBeforeStart, PassGate, Publish, TakeAnswer, AbortWait,
         Watcher, Relay, Steer, ConfirmTool, Abort,
         Screen, StartArrives, CardArrives, ResultArrives, DoneArrives, GraceExpires, Draw,
         User, Press, RemoteDecision, Cancel, RemoteCancel, SendMessage, SteerMessage,
         SendsMessage, vars, loop, pipes
    <2> QED
      BY <2>1 DEF EndInv
  <1> QED
    BY <1>1, <1>2, <1>3, <1>4, <1>5, <1>6 DEF Next, LoopNext, WorkerNext

(* What a running turn can do next: a gate begins, asks or takes its       *)
(* answer, the loop goes on, the worker passes something on, the screen    *)
(* takes something in, or the user has a card to answer.                   *)
SomeStep ==
  \/ \E c \in Calls : CallStarts(c) /\ gate[c] = "new"
  \/ \E c \in Calls : gate[c] = "asking"
  \/ \E c \in Calls : gate[c] = "waiting" /\ answer[c] # "none"
  \/ segment <= Len(Plan[turn]) /\ \A c \in Segment(turn, segment) : gate[c] \in Over
  \/ segment = Len(Plan[turn]) + 1
  \/ stream # <<>> \/ bus # <<>>
  \/ Listens /\ requests # <<>>
  \/ messages # <<>>
  \/ active # NoCall

NeverStuck == running /\ ~Cancelled /\ CallsOf(turn) \cap dropped = {} => SomeStep

(* A turn that nobody cancels, and that lost no card, can always go on: if *)
(* nothing else can move, the user has a card to answer.                   *)
THEOREM TurnsNeverStick == Spec => []NeverStuck
  <1>1. Spec => [](StopInv /\ QueueInv /\ EndInv)
    <2>1. Init => StopInv /\ QueueInv /\ EndInv
      BY DEF Init, StopInv, QueueInv, EndInv
    <2> QED
      BY <2>1, StopStep, QueueStep, EndStep, TypeCorrect, PTL DEF Spec
  <1>2. TypeOK /\ EveryWaitHasItsCard /\ StopInv /\ QueueInv /\ EndInv => NeverStuck
    <2> SUFFICES ASSUME TypeOK, EveryWaitHasItsCard, StopInv, QueueInv, EndInv,
                        running, ~Cancelled, CallsOf(turn) \cap dropped = {}
                 PROVE  SomeStep
      BY DEF NeverStuck
    <2>0. /\ turn \in Turn /\ segment \in Nat \ {0} /\ Len(Plan[turn]) \in Nat
          /\ requests \in Seq(Request) /\ queue \in Seq(Calls)
      BY NumbersOfTurns DEF TypeOK
    <2>1. CASE segment > Len(Plan[turn]) + 1
      BY <2>1 DEF EndInv, SomeStep
    <2>2. CASE segment = Len(Plan[turn]) + 1
      BY <2>2 DEF SomeStep
    <2>3. CASE segment <= Len(Plan[turn])
      <3> SUFFICES ASSUME NEW c \in Segment(turn, segment), gate[c] \notin Over
                   PROVE  SomeStep
        BY <2>3 DEF SomeStep
      <3>1. c \in Calls /\ c \in CallsOf(turn)
        <4>1. segment \in DOMAIN Plan[turn]
          BY <2>0, <2>3, PlanAssumption DEF Turn
        <4>2. Segment(turn, segment) \in ToSet(Plan[turn])
          BY <4>1 DEF Segment, ToSet
        <4> QED
          BY <2>0, <2>3, <4>2, PlanFacts DEF CallsOf
      <3>2. gate[c] \in {"new", "asking", "waiting"}
        BY <3>1 DEF TypeOK, Over
      <3>3. CASE gate[c] = "new"
        BY <2>3, <3>1, <3>3 DEF SomeStep, CallStarts
      <3>4. CASE gate[c] = "asking"
        BY <3>1, <3>4 DEF SomeStep
      <3>5. CASE gate[c] = "waiting"
        <4>1. c \notin dropped
          BY <3>1
        <4>2. \/ answer[c] # "none" \/ AnswerOnItsWay(c)
              \/ OnItsWay(c) \/ OnScreen(c)
          BY <3>1, <3>5, <4>1 DEF EveryWaitHasItsCard
        <4>3. AnswerOnItsWay(c) => Listens /\ requests # <<>>
          BY DEF AnswerOnItsWay, Listens, StopInv, Cancelled
        <4>4. OnItsWay(c) => bus # <<>> \/ messages # <<>>
          BY DEF OnItsWay, ToSet
        <4>5. OnScreen(c) => active # NoCall
          <5>1. c \in ToSet(queue) => queue # <<>>
            BY DEF ToSet
          <5> QED
            BY <3>1, <5>1, CallAssumption DEF OnScreen, QueueInv
        <4> QED
          BY <3>1, <3>5, <4>2, <4>3, <4>4, <4>5 DEF SomeStep
      <3> QED
        BY <3>2, <3>3, <3>4, <3>5
    <2> QED
      BY <2>0, <2>1, <2>2, <2>3
  <1> QED
    BY <1>1, <1>2, TypeCorrect, NoCardIsLost, PTL
-----------------------------------------------------------------------------
(* What bounds the steps of a running turn: the calls that have not passed  *)
(* their gate, the segments and the stream of the loop, what is on the      *)
(* channels, and what is on the screen.  Each weighs more than what becomes *)
(* of it: a question more than a card on its way, that more than a card     *)
(* shown, that more than the answer.                                        *)
InPhase(g, P) == {c \in Calls : g[c] \in P}
One(b) == IF b THEN 1 ELSE 0
Unbegun == Cardinality(InPhase(gate, {"new"}))
Unasked == Cardinality(InPhase(gate, {"new", "asking"}))
Unsettled == Cardinality(InPhase(gate, {"new", "asking", "waiting"}))

SegmentsLeft == Len(Plan[turn]) + 2 - segment
SegmentWeight == 6 * Cardinality(Calls) + 7

CallWork == Unbegun + 7 * Unasked + Unsettled
LoopWork == SegmentsLeft * SegmentWeight + 6 * Len(stream) + One(~token) + 5 * One(~stopped)
ChannelWork == 6 * Len(bus) + 5 * Len(messages) + Len(requests)
ScreenWork ==
  3 * (Len(queue) + One(active # NoCall)) + One(screen # active) + 2 * One(cancelling)

Rank == CallWork + LoopWork + ChannelWork + ScreenWork

RoomInv == running => segment <= Len(Plan[turn]) + 2

(* The user sends a message, cancels, or decides from outside.              *)
UserSends ==
  \/ \E c \in Calls, d \in {"once", "deny"} : RemoteDecision(c, d)
  \/ Cancel \/ RemoteCancel
  \/ SendMessage \/ SteerMessage

LEMMA RoomStep == ASSUME TypeOK, RoomInv, [Next]_vars PROVE RoomInv'
  <1>0. segment \in Nat \ {0} /\ (running => Len(Plan[turn]) \in Nat)
    BY NumbersOfTurns DEF TypeOK
  <1>1. CASE SegmentEnds \/ ModelCallCancelled \/ LoopReturns
    <2>1. /\ running /\ UNCHANGED <<running, turn>>
          /\ \/ segment <= Len(Plan[turn]) + 1 /\ segment' = segment + 1
             \/ segment' = Len(Plan[turn]) + 1
      BY <1>0, <1>1 DEF SegmentEnds, ModelCallCancelled, LoopReturns
    <2> QED
      BY <1>0, <2>1 DEF RoomInv
  <1>2. CASE StartTurn
    <2>1. turn' \in Turn /\ segment' = IF flag THEN Len(Plan[turn']) + 1 ELSE 1
      BY <1>2, StartedTurn DEF StartTurn
    <2>2. Len(Plan[turn']) \in Nat
      BY <2>1, PlanFacts
    <2> QED
      BY <2>1, <2>2 DEF RoomInv
  <1>3. CASE Forward
    BY <1>3 DEF Forward, RoomInv
  <1>4. CASE \/ \E c \in Calls : GateNext(c)
             \/ Watcher \/ Relay \/ Steer \/ ConfirmTool \/ Abort \/ Screen \/ User
             \/ UNCHANGED vars
    <2>1. UNCHANGED <<running, turn, segment>>
      BY <1>4 DEF GateNext, CancelledBeforeStart, PassGate, Publish, TakeAnswer, AbortWait,
         Watcher, Relay, Steer, ConfirmTool, Abort,
         Screen, StartArrives, CardArrives, ResultArrives, DoneArrives, GraceExpires, Draw,
         User, Press, RemoteDecision, Cancel, RemoteCancel, SendMessage, SteerMessage,
         SendsMessage, vars, loop
    <2> QED
      BY <2>1 DEF RoomInv
  <1> QED
    BY <1>1, <1>2, <1>3, <1>4 DEF Next, LoopNext, WorkerNext

(* A call that leaves a set of phases leaves one call less in it.           *)
LEMMA InPhaseFacts ==
  ASSUME NEW g, NEW h, NEW P, NEW c \in Calls, \A e \in Calls : e # c => h[e] = g[e]
  PROVE  /\ Cardinality(InPhase(g, P)) \in Nat /\ Cardinality(InPhase(h, P)) \in Nat
         /\ h[c] \notin P /\ g[c] \in P =>
              /\ Cardinality(InPhase(g, P)) > 0
              /\ Cardinality(InPhase(h, P)) = Cardinality(InPhase(g, P)) - 1
         /\ (h[c] \in P <=> g[c] \in P) =>
              Cardinality(InPhase(h, P)) = Cardinality(InPhase(g, P))
  <1>1. IsFiniteSet(InPhase(g, P)) /\ IsFiniteSet(InPhase(h, P))
    BY CallAssumption, FS_Subset DEF InPhase
  <1>2. Cardinality(InPhase(g, P)) \in Nat /\ Cardinality(InPhase(h, P)) \in Nat
    BY <1>1, FS_CardinalityType
  <1>3. ASSUME h[c] \notin P, g[c] \in P
        PROVE  /\ Cardinality(InPhase(g, P)) > 0
               /\ Cardinality(InPhase(h, P)) = Cardinality(InPhase(g, P)) - 1
    <2>1. InPhase(h, P) = InPhase(g, P) \ {c} /\ c \in InPhase(g, P)
      BY <1>3 DEF InPhase
    <2>2. Cardinality(InPhase(g, P)) # 0
      BY <1>1, <2>1, FS_EmptySet
    <2> QED
      BY <1>1, <1>2, <2>1, <2>2, FS_RemoveElement
  <1>4. (h[c] \in P <=> g[c] \in P) => InPhase(h, P) = InPhase(g, P)
    BY DEF InPhase
  <1> QED
    BY <1>2, <1>3, <1>4

LEMMA CallWorkIsNat ==
  /\ Unbegun \in Nat /\ Unasked \in Nat /\ Unsettled \in Nat /\ CallWork \in Nat
  <1>1. \A P : Cardinality(InPhase(gate, P)) \in Nat
    BY CallAssumption, FS_Subset, FS_CardinalityType DEF InPhase
  <1>2. Unbegun \in Nat /\ Unasked \in Nat /\ Unsettled \in Nat
    BY <1>1 DEF Unbegun, Unasked, Unsettled
  <1> QED
    BY <1>2 DEF CallWork

(* A step of a gate takes its call on; a question is worth its card.        *)
LEMMA GateWork ==
  ASSUME TypeOK, NEW c \in Calls, GateNext(c)
  PROVE  /\ CallWork \in Nat /\ CallWork' \in Nat
         /\ \/ CallWork' < CallWork /\ bus' = bus
            \/ CallWork' + 7 <= CallWork /\ bus' = Append(bus, c)
         /\ UNCHANGED <<loop, stream, requests, messages, ui, hist>>
  <1> DEFINE Left(P) ==
        /\ gate'[c] \notin P /\ gate[c] \in P =>
             Cardinality(InPhase(gate', P)) = Cardinality(InPhase(gate, P)) - 1
        /\ (gate'[c] \in P <=> gate[c] \in P) =>
             Cardinality(InPhase(gate', P)) = Cardinality(InPhase(gate, P))
  <1>1. /\ \A e \in Calls : e # c => gate'[e] = gate[e]
        /\ UNCHANGED <<loop, stream, requests, messages, ui, hist>>
    BY DEF GateNext, CancelledBeforeStart, PassGate, Publish, TakeAnswer, AbortWait,
       TypeOK, pipes
  <1>0. ASSUME NEW P PROVE Left(P)
    BY <1>1, InPhaseFacts
  <1> HIDE DEF Left
  <1>2. /\ Unbegun \in Nat /\ Unbegun' \in Nat /\ Unasked \in Nat /\ Unasked' \in Nat
        /\ Unsettled \in Nat /\ Unsettled' \in Nat
    BY <1>1, InPhaseFacts DEF Unbegun, Unasked, Unsettled
  <1>3. /\ gate'[c] # "new" /\ gate[c] = "new" => Unbegun' = Unbegun - 1
        /\ gate'[c] # "new" /\ gate[c] # "new" => Unbegun' = Unbegun
    <2> DEFINE P == {"new"}
    <2>1. Left(P)
      BY <1>0
    <2> QED
      BY <2>1 DEF Unbegun, Left
  <1>4. LET P == {"new", "asking"} IN
        /\ gate'[c] \notin P /\ gate[c] \in P => Unasked' = Unasked - 1
        /\ (gate'[c] \in P <=> gate[c] \in P) => Unasked' = Unasked
    <2> DEFINE P == {"new", "asking"}
    <2>1. Left(P)
      BY <1>0
    <2> QED
      BY <2>1 DEF Unasked, Left
  <1>5. LET P == {"new", "asking", "waiting"} IN
        /\ gate'[c] \notin P /\ gate[c] \in P => Unsettled' = Unsettled - 1
        /\ (gate'[c] \in P <=> gate[c] \in P) => Unsettled' = Unsettled
    <2> DEFINE P == {"new", "asking", "waiting"}
    <2>1. Left(P)
      BY <1>0
    <2> QED
      BY <2>1 DEF Unsettled, Left
  <1>6. \/ gate[c] = "new" /\ gate'[c] # "new" /\ bus' = bus
        \/ gate[c] = "asking" /\ gate'[c] = "waiting" /\ bus' \in {bus, Append(bus, c)}
        \/ gate[c] = "waiting" /\ gate'[c] \notin {"new", "asking", "waiting"} /\ bus' = bus
    <2>1. CASE CancelledBeforeStart(c) \/ AbortWait(c) \/ TakeAnswer(c)
      BY <2>1 DEF CancelledBeforeStart, AbortWait, TakeAnswer, TypeOK, pipes
    <2>2. ASSUME NEW p \in Policy, NEW own \in Own, PassGate(c, p, own)
          PROVE  gate[c] = "new" /\ gate'[c] # "new" /\ bus' = bus
      <3>1. Verdict(c, p, own) # "new"
        BY DEF Verdict
      <3> QED
        BY <2>2, <3>1 DEF PassGate, TypeOK, pipes
    <2>3. ASSUME NEW p \in Policy, Publish(c, p)
          PROVE  /\ gate[c] = "asking" /\ gate'[c] = "waiting"
                 /\ bus' \in {bus, Append(bus, c)}
      BY <2>3 DEF Publish, TypeOK
    <2> QED
      BY <2>1, <2>2, <2>3 DEF GateNext
  <1>7. CASE gate[c] = "new" /\ gate'[c] # "new" /\ bus' = bus
    <2>1. Unbegun' = Unbegun - 1 /\ Unasked' <= Unasked /\ Unsettled' <= Unsettled
      BY <1>2, <1>3, <1>4, <1>5, <1>7
    <2>2. \A a, b, e, x, y, z \in Nat :
            x = a - 1 /\ y <= b /\ z <= e => x + 7 * y + z < a + 7 * b + e
      OBVIOUS
    <2>3. CallWork \in Nat /\ CallWork' \in Nat /\ CallWork' < CallWork
      <3>1. CallWork \in Nat /\ CallWork' \in Nat
        <4>1. \A x, y, z \in Nat : x + 7 * y + z \in Nat
          OBVIOUS
        <4> QED
          BY <1>2, <4>1, ZenonT(30) DEF CallWork
      <3>2. /\ CallWork = Unbegun + 7 * Unasked + Unsettled
            /\ CallWork' = Unbegun' + 7 * Unasked' + Unsettled'
        BY DEF CallWork
      <3>3. Unbegun' + 7 * Unasked' + Unsettled' < Unbegun + 7 * Unasked + Unsettled
        BY <1>2, <2>1, <2>2, ZenonT(30)
      <3> QED
        BY <3>1, <3>2, <3>3
    <2> QED
      BY <1>1, <1>7, <2>3
  <1>8. CASE gate[c] = "asking" /\ gate'[c] = "waiting" /\ bus' \in {bus, Append(bus, c)}
    <2>1. Unbegun' = Unbegun /\ Unasked' = Unasked - 1 /\ Unsettled' = Unsettled
      BY <1>2, <1>3, <1>4, <1>5, <1>8
    <2> QED
      BY <1>1, <1>2, <1>8, <2>1 DEF CallWork
  <1>9. CASE /\ gate[c] = "waiting" /\ gate'[c] \notin {"new", "asking", "waiting"}
             /\ bus' = bus
    <2>1. Unbegun' = Unbegun /\ Unasked' = Unasked /\ Unsettled' = Unsettled - 1
      BY <1>2, <1>3, <1>4, <1>5, <1>9
    <2> QED
      BY <1>1, <1>2, <1>9, <2>1 DEF CallWork
  <1> QED
    BY <1>6, <1>7, <1>8, <1>9

(* One segment less is a segment's weight less.                             *)
LEMMA OneLess ==
  ASSUME NEW a \in Nat, NEW b \in Nat, b < a, NEW k \in Nat
  PROVE  /\ a * k \in Nat /\ b * k \in Nat
         /\ b * k + k <= a * k
  <1>1. PICK d \in Nat : a = b + 1 + d
    <2>1. a - b - 1 \in Nat /\ a = b + 1 + (a - b - 1)
      OBVIOUS
    <2> QED
      BY <2>1
  <1>2. b * k \in Nat /\ d * k \in Nat
    OBVIOUS
  <1>3. a * k = b * k + k + d * k
    BY <1>1
  <1> QED
    BY <1>2, <1>3

LEMMA OneFacts == \A b : One(b) \in {0, 1}
  BY DEF One

LEMMA LengthFacts ==
  ASSUME NEW S, NEW s \in Seq(S)
  PROVE  /\ Len(s) \in Nat
         /\ \A x \in S : Len(Append(s, x)) = Len(s) + 1
         /\ s # <<>> => Len(Tail(s)) = Len(s) - 1 /\ Len(s) > 0
         /\ \A t \in Seq(S) : Len(t) \in Nat /\ Len(s \o t) = Len(s) + Len(t)
  OBVIOUS

LEMMA ResultsLength ==
  ASSUME NEW calls \in SUBSET Calls
  PROVE  /\ Cardinality(Calls) \in Nat
         /\ Len(Results(calls)) \in 0 .. Cardinality(Calls)
  <1>1. /\ IsFiniteSet(calls) /\ Cardinality(calls) \in Nat /\ Cardinality(Calls) \in Nat
        /\ Cardinality(calls) <= Cardinality(Calls)
    BY CallAssumption, FS_Subset, FS_CardinalityType
  <1>2. Len(Results(calls)) = Cardinality(calls)
    BY <1>1 DEF Results
  <1> QED
    BY <1>1, <1>2

LEMMA WithoutLength ==
  ASSUME NEW S, NEW s \in Seq(S), NEW c
  PROVE  Len(Without(s, c)) \in Nat /\ Len(Without(s, c)) <= Len(s)
  <1>1. CASE c \notin ToSet(s)
    BY <1>1 DEF Without
  <1>2. CASE c \in ToSet(s)
    <2> DEFINE i == CHOOSE j \in DOMAIN s : s[j] = c
               a == SubSeq(s, 1, i - 1)
               b == SubSeq(s, i + 1, Len(s))
    <2>1. i \in DOMAIN s
      BY <1>2 DEF ToSet
    <2>2. Len(s) \in Nat /\ i \in 1 .. Len(s)
      BY <2>1
    <2>3. Without(s, c) = a \o b
      BY <1>2 DEF Without, RemoveAt
    <2> HIDE DEF i
    <2>4. a \in Seq(S) /\ b \in Seq(S) /\ Len(a) = i - 1 /\ Len(b) = Len(s) - i
      BY <2>2
    <2> HIDE DEF a, b
    <2>5. Len(a \o b) = Len(a) + Len(b)
      BY <2>4
    <2> QED
      BY <2>2, <2>3, <2>4, <2>5
  <1> QED
    BY <1>1, <1>2

LEMMA WorkIsNat ==
  ASSUME TypeOK, RoomInv, running
  PROVE  /\ SegmentsLeft \in Nat /\ SegmentWeight \in Nat
         /\ LoopWork \in Nat /\ ChannelWork \in Nat /\ ScreenWork \in Nat
         /\ Rank \in Nat
  <1>1. SegmentsLeft \in Nat
    BY NumbersOfTurns DEF SegmentsLeft, RoomInv
  <1>2. SegmentWeight \in Nat
    <2>1. Cardinality(Calls) \in Nat
      BY CallAssumption, FS_CardinalityType
    <2> QED
      BY <2>1 DEF SegmentWeight
  <1>3. SegmentsLeft * SegmentWeight \in Nat
    BY <1>1, <1>2
  <1>4. /\ Len(stream) \in Nat /\ Len(bus) \in Nat /\ Len(messages) \in Nat
        /\ Len(requests) \in Nat /\ Len(queue) \in Nat
    BY DEF TypeOK
  <1>5. LoopWork \in Nat
    <2>1. One(~token) \in Nat /\ One(~stopped) \in Nat
      BY OneFacts
    <2> QED
      BY <1>3, <1>4, <2>1 DEF LoopWork
  <1>6. ChannelWork \in Nat
    BY <1>4 DEF ChannelWork
  <1>7. ScreenWork \in Nat
    <2>1. One(active # NoCall) \in Nat /\ One(screen # active) \in Nat /\ One(cancelling) \in Nat
      BY OneFacts
    <2> QED
      BY <1>4, <2>1 DEF ScreenWork
  <1>8. Rank \in Nat
    BY <1>5, <1>6, <1>7, CallWorkIsNat DEF Rank
  <1> QED
    BY <1>1, <1>2, <1>5, <1>6, <1>7, <1>8

(* The steps of the loop.                                                   *)
LEMMA LoopRank ==
  ASSUME TypeOK, RoomInv, running, LoopNext
  PROVE  \/ UNCHANGED vars
         \/ /\ LoopWork' \in Int /\ LoopWork' < LoopWork
            /\ UNCHANGED <<gate, bus, messages, requests, active, queue, screen, cancelling>>
  <1> DEFINE L == Len(Plan[turn])
             K == SegmentWeight
             m == Cardinality(Calls)
  <1>0. /\ L \in Nat /\ segment \in Nat \ {0} /\ segment <= L + 2
        /\ stream \in Seq(Report) /\ Len(stream) \in Nat
        /\ turn \in Turn
    BY NumbersOfTurns DEF TypeOK, RoomInv
  <1>1. m \in Nat /\ K = 6 * m + 7 /\ K \in Nat /\ SegmentsLeft = L + 2 - segment
        /\ SegmentsLeft \in Nat
    BY WorkIsNat, CallAssumption, FS_CardinalityType DEF SegmentWeight, SegmentsLeft
  <1>2. One(~token) \in {0, 1} /\ One(~stopped) \in {0, 1}
    BY OneFacts
  <1>3. SegmentWeight' = K
    BY DEF SegmentWeight
  <1> HIDE DEF L, K, m
  <1>4. ASSUME SegmentsLeft' \in Nat, SegmentsLeft' < SegmentsLeft,
               Len(stream') \in Nat, Len(stream') <= Len(stream) + m + 1,
               UNCHANGED <<token, stopped>>
        PROVE  LoopWork' \in Int /\ LoopWork' < LoopWork
    <2>1. SegmentsLeft' * K \in Nat /\ SegmentsLeft * K \in Nat
          /\ SegmentsLeft' * K + K <= SegmentsLeft * K
      BY <1>1, <1>4, OneLess
    <2>2. LoopWork' = SegmentsLeft' * K + 6 * Len(stream') + One(~token) + 5 * One(~stopped)
      BY <1>3, <1>4 DEF LoopWork
    <2>3. LoopWork = SegmentsLeft * K + 6 * Len(stream) + One(~token) + 5 * One(~stopped)
      BY DEF LoopWork, K
    <2>4. \A p, q, x, y, t, s \in Nat :
            p + (6 * m + 7) <= q /\ y <= x + m + 1 => p + 6 * y + t + 5 * s < q + 6 * x + t + 5 * s
      BY <1>1
    <2>5. One(~token) \in Nat /\ One(~stopped) \in Nat
      BY <1>2
    <2>6. SegmentsLeft' * K + (6 * m + 7) <= SegmentsLeft * K
      BY <1>1, <2>1
    <2>7. SegmentsLeft' * K + 6 * Len(stream') + One(~token) + 5 * One(~stopped)
            < SegmentsLeft * K + 6 * Len(stream) + One(~token) + 5 * One(~stopped)
      BY <1>0, <1>4, <2>1, <2>4, <2>5, <2>6, ZenonT(30)
    <2>8. LoopWork' \in Int
      BY <1>4, <2>1, <2>2, <2>5
    <2> QED
      BY <2>2, <2>3, <2>7, <2>8
  <1>5. CASE SegmentEnds
    <2> DEFINE calls == Segment(turn, segment)
    <2>1. /\ segment <= L /\ segment' = segment + 1 /\ turn' = turn
          /\ stream' = stream \o Results(calls) /\ UNCHANGED <<token, stopped>>
          /\ UNCHANGED <<gate, bus, messages, requests, active, queue, screen, cancelling>>
      BY <1>5 DEF SegmentEnds, L, gates, ui, cards, hist
    <2>2. calls \in SUBSET Calls
      BY <1>0, <2>1, PlanFacts DEF L
    <2> HIDE DEF calls
    <2>3. Results(calls) \in Seq(Report) /\ Len(Results(calls)) \in 0 .. m
      BY <2>2, ResultsFacts, ResultsLength DEF m
    <2>4. Len(stream') \in Nat /\ Len(stream') <= Len(stream) + m + 1
      BY <1>0, <1>1, <2>1, <2>3
    <2>5. SegmentsLeft' = L + 2 - (segment + 1)
      BY <2>1 DEF SegmentsLeft, L
    <2>6. SegmentsLeft' \in Nat /\ SegmentsLeft' < SegmentsLeft
      BY <1>0, <1>1, <2>1, <2>5
    <2> QED
      BY <1>4, <2>1, <2>4, <2>6
  <1>6. CASE ModelCallCancelled
    <2>1. /\ segment = 1 /\ segment' = L + 1 /\ turn' = turn
          /\ UNCHANGED <<gates, running, turn, stopped, flag, token, pipes, ui, hist>>
      BY <1>6 DEF ModelCallCancelled, L
    <2>2. CASE L = 0
      BY <2>1, <2>2 DEF vars, loop
    <2>3. CASE L # 0
      <3>1. SegmentsLeft' = L + 2 - (L + 1)
        BY <2>1 DEF SegmentsLeft, L
      <3>2. SegmentsLeft' \in Nat /\ SegmentsLeft' < SegmentsLeft
        BY <1>0, <1>1, <2>1, <2>3, <3>1
      <3>3. Len(stream') \in Nat /\ Len(stream') <= Len(stream) + m + 1
        BY <1>0, <1>1, <2>1 DEF pipes
      <3>4. LoopWork' \in Int /\ LoopWork' < LoopWork
        BY <1>4, <2>1, <3>2, <3>3
      <3> QED
        BY <2>1, <3>4 DEF gates, pipes, ui, cards, hist
    <2> QED
      BY <2>2, <2>3
  <1>7. CASE LoopReturns
    <2> DEFINE done == [kind |-> "done", turn |-> turn]
    <2>1. /\ segment = L + 1 /\ segment' = segment + 1 /\ turn' = turn
          /\ stream' = Append(stream, done) /\ UNCHANGED <<token, stopped>>
          /\ UNCHANGED <<gate, bus, messages, requests, active, queue, screen, cancelling>>
      BY <1>7 DEF LoopReturns, L, gates, ui, cards, hist
    <2>2. done \in Report
      BY <1>0 DEF Report
    <2> HIDE DEF done
    <2>3. Len(stream') \in Nat /\ Len(stream') <= Len(stream) + m + 1
      BY <1>0, <1>1, <2>1, <2>2
    <2>4. SegmentsLeft' = L + 2 - (segment + 1)
      BY <2>1 DEF SegmentsLeft, L
    <2>5. SegmentsLeft' \in Nat /\ SegmentsLeft' < SegmentsLeft
      BY <1>0, <1>1, <2>1, <2>4
    <2> QED
      BY <1>4, <2>1, <2>3, <2>5
  <1>8. CASE Watcher
    <2>1. /\ ~token /\ token' /\ UNCHANGED <<turn, segment, stopped, stream>>
          /\ UNCHANGED <<gate, bus, messages, requests, active, queue, screen, cancelling>>
      BY <1>8 DEF Watcher, gates, pipes, ui, cards, hist
    <2>2. One(~token) = 1 /\ One(~token') = 0
      BY <2>1 DEF One
    <2>3. SegmentsLeft' = SegmentsLeft
      BY <2>1 DEF SegmentsLeft
    <2>4. SegmentsLeft * K \in Nat
      BY <1>1
    <2>5. /\ LoopWork = SegmentsLeft * K + 6 * Len(stream) + 1 + 5 * One(~stopped)
          /\ LoopWork' = SegmentsLeft * K + 6 * Len(stream) + 0 + 5 * One(~stopped)
      BY <1>3, <2>1, <2>2, <2>3 DEF LoopWork, K
    <2>6. LoopWork' \in Int /\ LoopWork' < LoopWork
      BY <1>0, <1>2, <2>4, <2>5
    <2> QED
      BY <2>1, <2>6
  <1> QED
    BY <1>5, <1>6, <1>7, <1>8 DEF LoopNext

(* The steps of the worker.                                                 *)
LEMMA WorkerRank ==
  ASSUME TypeOK, RoomInv, running, running', WorkerNext
  PROVE  /\ LoopWork' \in Int /\ ChannelWork' \in Int
         /\ LoopWork' + ChannelWork' < LoopWork + ChannelWork
         /\ UNCHANGED <<gate, active, queue, screen, cancelling>>
  <1> DEFINE P == SegmentsLeft * SegmentWeight
  <1>0. /\ stream \in Seq(Report) /\ bus \in Seq(Calls) /\ messages \in Seq(Chunk)
        /\ requests \in Seq(Request) /\ turn \in Turn
        /\ Len(stream) \in Nat /\ Len(bus) \in Nat /\ Len(messages) \in Nat
        /\ Len(requests) \in Nat
    BY DEF TypeOK
  <1>1. /\ P \in Nat
        /\ LoopWork = P + 6 * Len(stream) + One(~token) + 5 * One(~stopped)
        /\ ChannelWork = 6 * Len(bus) + 5 * Len(messages) + Len(requests)
    BY WorkIsNat DEF LoopWork, ChannelWork
  <1>2. One(~token) \in {0, 1} /\ One(~stopped) \in {0, 1}
    BY OneFacts
  <1>3. ASSUME UNCHANGED <<turn, segment>>
        PROVE  /\ LoopWork' = P + 6 * Len(stream') + One(~token') + 5 * One(~stopped')
               /\ ChannelWork' = 6 * Len(bus') + 5 * Len(messages') + Len(requests')
    BY <1>3 DEF LoopWork, ChannelWork, SegmentsLeft, SegmentWeight
  <1> HIDE DEF P
  <1>4. CASE StartTurn
    BY <1>4 DEF StartTurn
  <1>5. CASE Relay
    <2>1. /\ bus # <<>> /\ bus' = Tail(bus)
          /\ messages' = Append(messages, [kind |-> "card", call |-> Head(bus)])
          /\ UNCHANGED <<turn, segment, stream, token, stopped, requests>>
          /\ UNCHANGED <<gate, active, queue, screen, cancelling>>
      BY <1>5 DEF Relay, loop, gates, ui, cards, hist
    <2>2. [kind |-> "card", call |-> Head(bus)] \in Chunk
      <3>1. Head(bus) \in Calls
        BY <1>0, <2>1, TailFacts
      <3> QED
        BY <3>1 DEF Chunk
    <2>3. Len(bus') = Len(bus) - 1 /\ Len(messages') = Len(messages) + 1
      BY <1>0, <2>1, <2>2, LengthFacts
    <2> QED
      BY <1>0, <1>1, <1>2, <1>3, <2>1, <2>3
  <1>6. CASE Forward
    <2>1. /\ stream # <<>> /\ stream' = Tail(stream)
          /\ messages' = Append(messages, Head(stream))
          /\ UNCHANGED <<turn, segment, bus, token, stopped, requests>>
          /\ UNCHANGED <<gate, active, queue, screen, cancelling>>
      BY <1>6 DEF Forward, gates, ui, cards, hist
    <2>2. Head(stream) \in Chunk
      BY <1>0, <2>1, TailFacts DEF Chunk
    <2>3. Len(stream') = Len(stream) - 1 /\ Len(messages') = Len(messages) + 1
      BY <1>0, <2>1, <2>2, LengthFacts
    <2>4. LoopWork' = LoopWork - 6 /\ LoopWork \in Int
      <3>1. LoopWork' = P + 6 * (Len(stream) - 1) + One(~token) + 5 * One(~stopped)
        BY <1>3, <2>1, <2>3
      <3>2. LoopWork = P + 6 * Len(stream) + One(~token) + 5 * One(~stopped)
        BY <1>1
      <3>3. /\ P \in Int /\ Len(stream) \in Int
            /\ One(~token) \in Int /\ One(~stopped) \in Int
        BY <1>0, <1>1, <1>2
      <3> QED
        BY <3>1, <3>2, <3>3
    <2>5. ChannelWork' = ChannelWork + 5 /\ ChannelWork \in Int
      <3>1. ChannelWork' = 6 * Len(bus) + 5 * (Len(messages) + 1) + Len(requests)
        BY <1>3, <2>1, <2>3
      <3>2. /\ ChannelWork = 6 * Len(bus) + 5 * Len(messages) + Len(requests)
            /\ Len(bus) \in Int /\ Len(messages) \in Int /\ Len(requests) \in Int
        BY <1>0, <1>1
      <3> QED
        BY <3>1, <3>2
    <2> QED
      BY <2>1, <2>4, <2>5
  <1>7. CASE Steer \/ ConfirmTool
    <2>1. /\ requests # <<>> /\ requests' = Tail(requests)
          /\ UNCHANGED <<turn, segment, bus, token, stopped, stream, messages>>
          /\ UNCHANGED <<gate, active, queue, screen, cancelling>>
      BY <1>7 DEF Steer, ConfirmTool, Requested, loop, gates, ui, cards, hist
    <2>2. Len(requests') = Len(requests) - 1
      BY <1>0, <2>1, LengthFacts
    <2> QED
      BY <1>0, <1>1, <1>2, <1>3, <2>1, <2>2
  <1>8. CASE Abort
    <2> DEFINE done == [kind |-> "done", turn |-> turn]
    <2>1. /\ requests # <<>> /\ requests' = Tail(requests)
          /\ messages' = Append(messages, done)
          /\ ~stopped /\ stopped'
          /\ UNCHANGED <<turn, segment, bus, token, stream>>
          /\ UNCHANGED <<gate, active, queue, screen, cancelling>>
      BY <1>8 DEF Abort, Listens, Requested, gates, ui, cards, hist
    <2>2. done \in Chunk
      BY <1>0 DEF Chunk, Report
    <2> HIDE DEF done
    <2>3. Len(requests') = Len(requests) - 1 /\ Len(messages') = Len(messages) + 1
      BY <1>0, <2>1, <2>2, LengthFacts
    <2>4. One(~stopped) = 1 /\ One(~stopped') = 0
      BY <2>1 DEF One
    <2>5. LoopWork' = LoopWork - 5 /\ LoopWork \in Int
      <3>1. LoopWork' = P + 6 * Len(stream) + One(~token) + 5 * One(~stopped')
        BY <1>3, <2>1
      <3>2. LoopWork = P + 6 * Len(stream) + One(~token) + 5 * One(~stopped)
        BY <1>1
      <3>3. P \in Int /\ Len(stream) \in Int /\ One(~token) \in Int
        BY <1>0, <1>1, <1>2
      <3> QED
        BY <2>4, <3>1, <3>2, <3>3
    <2>6. ChannelWork' = ChannelWork + 4 /\ ChannelWork \in Int
      <3>1. ChannelWork' = 6 * Len(bus) + 5 * (Len(messages) + 1) + (Len(requests) - 1)
        BY <1>3, <2>1, <2>3
      <3>2. /\ ChannelWork = 6 * Len(bus) + 5 * Len(messages) + Len(requests)
            /\ Len(bus) \in Int /\ Len(messages) \in Int /\ Len(requests) \in Int
        BY <1>0, <1>1
      <3> QED
        BY <3>1, <3>2
    <2> QED
      BY <2>1, <2>5, <2>6
  <1> QED
    BY <1>4, <1>5, <1>6, <1>7, <1>8 DEF WorkerNext

(* The screen, and the key that answers its card.                           *)
LEMMA ScreenRank ==
  ASSUME TypeOK, Screen \/ \E d \in Decision : Press(d)
  PROVE  /\ ChannelWork' \in Int /\ ScreenWork' \in Int
         /\ ChannelWork' + ScreenWork' < ChannelWork + ScreenWork
         /\ UNCHANGED <<gate, stream, token, stopped, turn, segment>>
  <1> DEFINE a == One(active # NoCall)
             b == One(screen # active)
             e == One(cancelling)
  <1>0. /\ messages \in Seq(Chunk) /\ requests \in Seq(Request) /\ queue \in Seq(Calls)
        /\ Len(bus) \in Nat /\ Len(messages) \in Nat /\ Len(requests) \in Nat
        /\ Len(queue) \in Nat
    BY DEF TypeOK
  <1>1. /\ a \in {0, 1} /\ b \in {0, 1} /\ e \in {0, 1}
        /\ a' \in {0, 1} /\ b' \in {0, 1} /\ e' \in {0, 1}
    BY OneFacts
  <1>2. /\ ScreenWork = 3 * (Len(queue) + a) + b + 2 * e
        /\ ScreenWork' = 3 * (Len(queue') + a') + b' + 2 * e'
        /\ ChannelWork = 6 * Len(bus) + 5 * Len(messages) + Len(requests)
        /\ ChannelWork' = 6 * Len(bus') + 5 * Len(messages') + Len(requests')
    BY DEF ScreenWork, ChannelWork
  <1>3. /\ active = NoCall => a = 0
        /\ active # NoCall => a = 1
        /\ active' = NoCall => a' = 0
        /\ active' # NoCall => a' = 1
        /\ screen # active => b = 1
        /\ screen' = active' => b' = 0
        /\ cancelling => e = 1
        /\ ~cancelling => e = 0
        /\ cancelling' = cancelling => e' = e
        /\ ~cancelling' => e' = 0
    BY DEF One
  <1> HIDE DEF a, b, e
  <1>4. ASSUME messages # <<>>, messages' = Tail(messages), UNCHANGED <<bus, requests>>,
               Len(queue') \in Nat, Len(queue') + a' <= Len(queue) + a + 1,
               e' = e
        PROVE  /\ ChannelWork' \in Int /\ ScreenWork' \in Int
               /\ ChannelWork' + ScreenWork' < ChannelWork + ScreenWork
    <2>1. Len(messages') = Len(messages) - 1
      BY <1>0, <1>4, LengthFacts
    <2>2. ChannelWork' = ChannelWork - 5 /\ ChannelWork \in Int
      BY <1>0, <1>2, <1>4, <2>1
    <2>3. \A m, n, u, v, x, y, w \in Nat :
            n + v <= m + u + 1 /\ y <= x + 1 => 3 * (n + v) + y + 2 * w <= 3 * (m + u) + x + 2 * w + 4
      OBVIOUS
    <2>4. /\ Len(queue) \in Nat /\ Len(queue') \in Nat /\ a \in Nat /\ a' \in Nat
          /\ b \in Nat /\ b' \in Nat /\ e \in Nat /\ b' <= b + 1
      BY <1>0, <1>1, <1>4
    <2>5. 3 * (Len(queue') + a') + b' + 2 * e <= 3 * (Len(queue) + a) + b + 2 * e + 4
      BY <1>4, <2>3, <2>4, ZenonT(30)
    <2>6. ScreenWork' <= ScreenWork + 4 /\ ScreenWork \in Int /\ ScreenWork' \in Int
      <3>1. ScreenWork' = 3 * (Len(queue') + a') + b' + 2 * e
        BY <1>2, <1>4
      <3> QED
        BY <1>2, <2>4, <2>5, <3>1
    <2>7. \A m, n, u, v \in Int : u = m - 5 /\ v <= n + 4 => u + v < m + n /\ u \in Int
      OBVIOUS
    <2>8. ChannelWork' \in Int
      BY <2>2
    <2> QED
      BY <2>2, <2>6, <2>7, <2>8, ZenonT(30)
  <1>5. CASE StartArrives
    <2>1. /\ messages # <<>> /\ messages' = Tail(messages)
          /\ UNCHANGED <<bus, requests, active, queue, cancelling>>
          /\ UNCHANGED <<gate, stream, token, stopped, turn, segment>>
      BY <1>5 DEF StartArrives, Arrived, gates, loop, cards
    <2> QED
      BY <1>0, <1>1, <1>3, <1>4, <2>1
  <1>6. CASE CardArrives
    <2>1. /\ messages # <<>> /\ messages' = Tail(messages)
          /\ UNCHANGED <<bus, requests, cancelling>>
          /\ UNCHANGED <<gate, stream, token, stopped, turn, segment>>
          /\ queue' = IF active = NoCall THEN queue ELSE <<active>> \o queue
      BY <1>6 DEF CardArrives, Arrived, gates, loop
    <2>2. Len(queue') \in Nat /\ Len(queue') = Len(queue) + a
      <3>1. CASE active = NoCall
        BY <1>0, <1>3, <2>1, <3>1
      <3>2. CASE active # NoCall
        <4>1. <<active>> \in Seq(Calls) /\ Len(<<active>>) = 1
          BY <3>2 DEF TypeOK
        <4>2. Len(<<active>> \o queue) = Len(<<active>>) + Len(queue)
          BY <1>0, <4>1, LengthFacts
        <4> QED
          BY <1>0, <1>3, <2>1, <3>2, <4>1, <4>2
      <3> QED
        BY <3>1, <3>2
    <2> QED
      BY <1>0, <1>1, <1>3, <1>4, <2>1, <2>2
  <1>7. CASE ResultArrives
    <2> DEFINE c == Head(messages).call
               rest == Without(queue, c)
    <2>1. /\ messages # <<>> /\ messages' = Tail(messages)
          /\ UNCHANGED <<bus, requests, cancelling>>
          /\ UNCHANGED <<gate, stream, token, stopped, turn, segment>>
          /\ IF active # c THEN active' = active /\ queue' = rest
             ELSE IF rest = <<>> THEN active' = NoCall /\ queue' = rest
             ELSE active' = Head(rest) /\ queue' = Tail(rest)
      BY <1>7 DEF ResultArrives, Arrived, gates, loop
    <2>2. rest \in Seq(Calls) /\ Len(rest) \in Nat /\ Len(rest) <= Len(queue)
      BY <1>0, WithoutFacts, WithoutLength
    <2> HIDE DEF rest, c
    <2>3. Len(queue') \in Nat /\ Len(queue') <= Len(queue)
      <3>1. rest # <<>> => Len(Tail(rest)) = Len(rest) - 1 /\ Len(rest) > 0
        BY <2>2, LengthFacts
      <3> QED
        BY <1>0, <2>1, <2>2, <3>1
    <2> QED
      BY <1>0, <1>1, <1>3, <1>4, <2>1, <2>3
  <1>8. CASE DoneArrives
    <2>1. /\ messages # <<>> /\ messages' = Tail(messages)
          /\ UNCHANGED <<bus, requests, active, cancelling>>
          /\ UNCHANGED <<gate, stream, token, stopped, turn, segment>>
          /\ queue' \in {queue, <<>>}
      BY <1>8 DEF DoneArrives, Arrived, gates, loop
    <2>2. Len(queue') \in Nat /\ Len(queue') <= Len(queue)
      BY <1>0, <2>1
    <2> QED
      BY <1>0, <1>1, <1>3, <1>4, <2>1, <2>2
  <1>9. CASE GraceExpires
    <2>1. /\ cancelling /\ ~cancelling' /\ active' = NoCall /\ queue' = <<>>
          /\ UNCHANGED <<bus, messages, requests>>
          /\ UNCHANGED <<gate, stream, token, stopped, turn, segment>>
      BY <1>9 DEF GraceExpires, gates, loop, pipes
    <2>2. Len(queue') = 0
      BY <2>1
    <2> QED
      BY <1>0, <1>1, <1>2, <1>3, <2>1, <2>2
  <1>10. CASE Draw
    <2>1. /\ screen # active /\ screen' = active
          /\ UNCHANGED <<bus, messages, requests, active, queue, cancelling>>
          /\ UNCHANGED <<gate, stream, token, stopped, turn, segment>>
      BY <1>10 DEF Draw, gates, loop, pipes, ui, cards
    <2>2. a' = a /\ b' = 0 /\ b = 1 /\ e' = e
      BY <1>1, <1>3, <2>1
    <2> QED
      BY <1>0, <1>1, <1>2, <2>1, <2>2
  <1>11. ASSUME NEW d \in Decision, Press(d)
         PROVE  /\ ChannelWork' \in Int /\ ScreenWork' \in Int
                /\ ChannelWork' + ScreenWork' < ChannelWork + ScreenWork
                /\ UNCHANGED <<gate, stream, token, stopped, turn, segment>>
    <2>1. /\ active # NoCall /\ Decide(active, d) /\ Clear
          /\ UNCHANGED <<bus, messages, cancelling>>
          /\ UNCHANGED <<gate, stream, token, stopped, turn, segment>>
      BY <1>11 DEF Press, gates, loop
    <2>2. active \in Calls
      BY <2>1 DEF TypeOK
    <2>3. Len(requests') = Len(requests) + 1
      <3>1. [kind |-> "answer", call |-> active, decision |-> d] \in Request
        BY <2>2 DEF Request
      <3> QED
        BY <1>0, <2>1, <3>1, LengthFacts DEF Decide
    <2>4. Len(queue') \in Nat /\ Len(queue') + a' = Len(queue) + a - 1
      <3>1. CASE queue = <<>>
        <4>1. Len(queue') = 0 /\ Len(queue) = 0 /\ a' = 0 /\ a = 1
          BY <1>3, <2>1, <3>1 DEF Clear
        <4> QED
          BY <4>1
      <3>2. CASE queue # <<>>
        <4>1. Head(queue) \in Calls
          BY <1>0, <3>2, TailFacts
        <4>2. active' # NoCall /\ queue' = Tail(queue)
          BY <2>1, <3>2, <4>1, CallAssumption DEF Clear
        <4>3. Len(queue') = Len(queue) - 1 /\ Len(queue) > 0
          BY <1>0, <3>2, <4>2, LengthFacts
        <4>4. a' = 1 /\ a = 1
          BY <1>3, <2>1, <4>2
        <4> QED
          BY <1>0, <4>3, <4>4
      <3> QED
        BY <3>1, <3>2
    <2>5. e' = e
      BY <1>3, <2>1
    <2>6. ChannelWork' = ChannelWork + 1 /\ ChannelWork \in Int
      BY <1>0, <1>2, <2>1, <2>3
    <2>7. /\ ScreenWork' = 3 * (Len(queue) + a - 1) + b' + 2 * e
          /\ ScreenWork = 3 * (Len(queue) + a) + b + 2 * e
      BY <1>2, <2>4, <2>5
    <2>8. ScreenWork' <= ScreenWork - 2 /\ ScreenWork \in Int /\ ScreenWork' \in Int
      BY <1>0, <1>1, <2>7
    <2>9. \A m, n, u, v \in Int : u = m + 1 /\ v <= n - 2 => u + v < m + n
      OBVIOUS
    <2>10. ChannelWork' \in Int
      BY <2>6
    <2>11. ChannelWork' + ScreenWork' < ChannelWork + ScreenWork
      BY <2>6, <2>8, <2>9, <2>10, ZenonT(30)
    <2> QED
      BY <2>1, <2>8, <2>10, <2>11
  <1> QED
    BY <1>5, <1>6, <1>7, <1>8, <1>9, <1>10, <1>11 DEF Screen

LEMMA Sums ==
  ASSUME NEW a \in Int, NEW b \in Int, NEW c \in Int, NEW d \in Int,
         NEW w \in Int, NEW x \in Int, NEW y \in Int, NEW z \in Int,
         \/ w < a /\ x = b /\ y = c /\ z = d
         \/ w + 7 <= a /\ x = b /\ y = c + 6 /\ z = d
         \/ w = a /\ x < b /\ y = c /\ z = d
         \/ w = a /\ z = d /\ x + y < b + c
         \/ w = a /\ x = b /\ y + z < c + d
  PROVE  w + x + y + z < a + b + c + d
  OBVIOUS

LEMMA RankStep ==
  ASSUME TypeOK, RoomInv, running, running', [Next]_vars
  PROVE  UserSends \/ Rank' < Rank \/ UNCHANGED vars
  <1>0. /\ CallWork \in Nat /\ LoopWork \in Nat /\ ChannelWork \in Nat /\ ScreenWork \in Nat
        /\ Rank = CallWork + LoopWork + ChannelWork + ScreenWork
        /\ Rank' = CallWork' + LoopWork' + ChannelWork' + ScreenWork'
    BY WorkIsNat, CallWorkIsNat DEF Rank
  <1>1. gate' = gate => CallWork' = CallWork
    BY DEF CallWork, Unbegun, Unasked, Unsettled
  <1>2. UNCHANGED <<stream, token, stopped, turn, segment>> => LoopWork' = LoopWork
    BY DEF LoopWork, SegmentsLeft, SegmentWeight
  <1>3. UNCHANGED <<bus, messages, requests>> => ChannelWork' = ChannelWork
    BY DEF ChannelWork
  <1>4. UNCHANGED <<active, queue, screen, cancelling>> => ScreenWork' = ScreenWork
    BY DEF ScreenWork
  <1> DEFINE Lower == CallWork' + LoopWork' + ChannelWork' + ScreenWork'
                        < CallWork + LoopWork + ChannelWork + ScreenWork
  <1>a. /\ CallWork \in Int /\ LoopWork \in Int /\ ChannelWork \in Int /\ ScreenWork \in Int
    BY <1>0
  <1>b. Lower => Rank' < Rank
    BY <1>0
  <1> HIDE DEF Lower
  <1>5. ASSUME NEW c \in Calls, GateNext(c)
        PROVE  Rank' < Rank
    <2>1. /\ CallWork' \in Nat
          /\ \/ CallWork' < CallWork /\ bus' = bus
             \/ CallWork' + 7 <= CallWork /\ bus' = Append(bus, c)
          /\ UNCHANGED <<loop, stream, requests, messages, ui, hist>>
      BY <1>5, GateWork
    <2>2. LoopWork' = LoopWork /\ ScreenWork' = ScreenWork
      BY <1>2, <1>4, <2>1 DEF loop, ui, cards, hist
    <2>3. bus \in Seq(Calls) /\ Len(bus) \in Nat /\ Len(messages) \in Nat /\ Len(requests) \in Nat
      BY DEF TypeOK
    <2>4. CASE CallWork' < CallWork /\ bus' = bus
      <3>1. ChannelWork' = ChannelWork
        BY <1>3, <2>1, <2>4
      <3>2. CallWork' \in Int /\ LoopWork' \in Int /\ ChannelWork' \in Int /\ ScreenWork' \in Int
        BY <1>a, <2>1, <2>2, <3>1
      <3>3. Lower
        BY <1>a, <2>2, <2>4, <3>1, <3>2, Sums DEF Lower
      <3> QED
        BY <1>b, <3>3
    <2>5. CASE CallWork' + 7 <= CallWork /\ bus' = Append(bus, c)
      <3>1. Len(bus') = Len(bus) + 1
        BY <2>3, <2>5, LengthFacts
      <3>2. /\ ChannelWork = 6 * Len(bus) + 5 * Len(messages) + Len(requests)
            /\ ChannelWork' = 6 * Len(bus') + 5 * Len(messages') + Len(requests')
        BY DEF ChannelWork
      <3>3. ChannelWork' = ChannelWork + 6
        BY <2>1, <2>3, <3>1, <3>2
      <3>4. CallWork' \in Int /\ LoopWork' \in Int /\ ChannelWork' \in Int /\ ScreenWork' \in Int
        BY <1>a, <2>1, <2>2, <3>3
      <3>5. Lower
        BY <1>a, <2>2, <2>5, <3>3, <3>4, Sums DEF Lower
      <3> QED
        BY <1>b, <3>5
    <2> QED
      BY <2>1, <2>4, <2>5
  <1>6. CASE LoopNext
    <2>1. CASE UNCHANGED vars
      BY <2>1
    <2>2. CASE /\ LoopWork' \in Int /\ LoopWork' < LoopWork
               /\ UNCHANGED <<gate, bus, messages, requests, active, queue, screen, cancelling>>
      <3>1. /\ CallWork' = CallWork /\ ChannelWork' = ChannelWork
            /\ ScreenWork' = ScreenWork
        BY <1>1, <1>3, <1>4, <2>2
      <3>2. CallWork' \in Int /\ LoopWork' \in Int /\ ChannelWork' \in Int /\ ScreenWork' \in Int
        BY <1>a, <2>2, <3>1
      <3>3. Lower
        BY <1>a, <2>2, <3>1, <3>2, Sums DEF Lower
      <3> QED
        BY <1>b, <3>3
    <2> QED
      BY <1>6, <2>1, <2>2, LoopRank
  <1>7. CASE WorkerNext
    <2>1. /\ LoopWork' \in Int /\ ChannelWork' \in Int
          /\ LoopWork' + ChannelWork' < LoopWork + ChannelWork
          /\ UNCHANGED <<gate, active, queue, screen, cancelling>>
      BY <1>7, WorkerRank
    <2>2. CallWork' = CallWork /\ ScreenWork' = ScreenWork
      BY <1>1, <1>4, <2>1
    <2>3. CallWork' \in Int /\ LoopWork' \in Int /\ ChannelWork' \in Int /\ ScreenWork' \in Int
      BY <1>a, <2>1, <2>2
    <2>4. Lower
      BY <1>a, <2>1, <2>2, <2>3, Sums DEF Lower
    <2> QED
      BY <1>b, <2>4
  <1>8. CASE Screen \/ \E d \in Decision : Press(d)
    <2>1. /\ ChannelWork' \in Int /\ ScreenWork' \in Int
          /\ ChannelWork' + ScreenWork' < ChannelWork + ScreenWork
          /\ UNCHANGED <<gate, stream, token, stopped, turn, segment>>
      BY <1>8, ScreenRank
    <2>2. CallWork' = CallWork /\ LoopWork' = LoopWork
      BY <1>1, <1>2, <2>1
    <2>3. CallWork' \in Int /\ LoopWork' \in Int /\ ChannelWork' \in Int /\ ScreenWork' \in Int
      BY <1>a, <2>1, <2>2
    <2>4. Lower
      BY <1>a, <2>1, <2>2, <2>3, Sums DEF Lower
    <2> QED
      BY <1>b, <2>4
  <1> QED
    BY <1>5, <1>6, <1>7, <1>8 DEF Next, User, UserSends

(* A running turn that the user leaves alone, but for answering its cards,  *)
(* runs down: every step of gates, loop, worker and screen, and every       *)
(* answer, lowers a rank in the naturals.  No card comes back, no question  *)
(* is asked twice (pass_gate, execute_batch, run_streaming_session, the UI  *)
(* loop).                                                                   *)
THEOREM TurnsRunDown ==
  Spec => [][running => ~running' \/ UserSends \/ (Rank' \in Nat /\ Rank' < Rank)]_vars
  <1> DEFINE RankIsNat == running => Rank \in Nat
  <1>1. Init => RoomInv
    BY DEF Init, RoomInv
  <1>2. Spec => []RoomInv
    BY <1>1, RoomStep, TypeCorrect, PTL DEF Spec
  <1>3. TypeOK /\ RoomInv => RankIsNat
    BY WorkIsNat
  <1>4. Spec => []RankIsNat
    BY <1>2, <1>3, TypeCorrect, PTL
  <1>5. TypeOK /\ RoomInv /\ RankIsNat' /\ [Next]_vars
          => [running => ~running' \/ UserSends \/ (Rank' \in Nat /\ Rank' < Rank)]_vars
    BY RankStep
  <1> QED
    BY <1>2, <1>4, <1>5, TypeCorrect, PTL DEF Spec
=============================================================================
