------------------------ MODULE RuntimeWorker_proofs ------------------------
(***************************************************************************)
(* Proofs about RuntimeWorker for every bound on requests and model calls, *)
(* and for every choice of the requests that are sent.                     *)
(***************************************************************************)
EXTENDS RuntimeWorker, SequenceTheorems, FiniteSetTheorems, TLAPS

(* Sequences: what Head, Tail, Append and \o do, and to increasing ones.   *)
LEMMA TailFacts ==
  ASSUME NEW S, NEW s \in Seq(S), s # <<>>
  PROVE  /\ Len(s) \in Nat \ {0}
         /\ Head(s) = s[1] /\ Head(s) \in S
         /\ Tail(s) \in Seq(S) /\ Len(Tail(s)) = Len(s) - 1
         /\ \A i \in 1..Len(Tail(s)) : Tail(s)[i] = s[i + 1]
<1>1. Len(s) \in Nat \ {0}
  BY EmptySeq
<1>2. Head(s) = s[1]
  OBVIOUS
<1>3. QED
  BY <1>1, <1>2, HeadTailProperties

LEMMA AppendFacts ==
  ASSUME NEW S, NEW s \in Seq(S), NEW x \in S
  PROVE  /\ Append(s, x) \in Seq(S)
         /\ Len(s) \in Nat /\ Len(Append(s, x)) = Len(s) + 1
         /\ \A i \in 1..Len(s) : Append(s, x)[i] = s[i]
         /\ Append(s, x)[Len(s) + 1] = x
OBVIOUS

LEMMA ConcatFacts ==
  ASSUME NEW S, NEW s \in Seq(S), NEW t \in Seq(S)
  PROVE  /\ s \o t \in Seq(S)
         /\ Len(s) \in Nat /\ Len(t) \in Nat
         /\ Len(s \o t) = Len(s) + Len(t)
         /\ \A i \in 1..Len(s) : (s \o t)[i] = s[i]
         /\ \A i \in 1..Len(t) : (s \o t)[Len(s) + i] = t[i]
OBVIOUS

LEMMA IdIsNat == Id \subseteq Nat \ {0} /\ None \notin Id
BY BoundAssumption DEF Id, None

(* What is new in the channel is numbered after all that was sent.         *)
LEMMA EnqueueFacts ==
  ASSUME NEW n \in 1..2, NEW kinds \in Seq(Kind), Len(kinds) = n,
         requests \in Seq(Id), log \in Seq(Kind), Len(log) <= MaxRequests + 2 - n,
         Enqueue(kinds)
  PROVE  /\ requests' \in Seq(Id) /\ log' \in Seq(Kind)
         /\ Len(log') = Len(log) + n
         /\ Len(requests') = Len(requests) + n
<1> DEFINE new == [j \in 1..Len(kinds) |-> Len(log) + j]
<1>1. Len(log) \in Nat /\ MaxRequests \in Nat
  BY BoundAssumption, LenProperties
<1>2. \A j \in 1..n : Len(log) + j \in Id
  BY <1>1 DEF Id
<1>3. new \in Seq(Id) /\ Len(new) = n
  BY <1>2
<1>4. log' = log \o kinds /\ requests' = requests \o new
  BY DEF Enqueue
<1> HIDE DEF new
<1>5. QED
  BY <1>3, <1>4, ConcatFacts
-----------------------------------------------------------------------------
(* Type correctness.  TypeOK is not inductive: the UI's two last requests  *)
(* fit because it sent at most MaxRequests before, and a turn has an id.   *)
TurnHasId == pc \in {"preflight", "turn"} => turn \in Id
RoomToExit == ~uiGone => Len(log) <= MaxRequests
TypeInv == TypeOK /\ TurnHasId /\ RoomToExit

LEMMA InitType == Init => TypeInv
<1> SUFFICES ASSUME Init
             PROVE  TypeInv
  OBVIOUS
<1>1. /\ requests \in Seq(Id) /\ steering \in Seq(Id) /\ deferred \in Seq(Id)
      /\ taken \in Seq(Id) /\ applied \in Seq(Id)
      /\ log \in Seq(Kind) /\ Len(log) = 0
  BY DEF Init
<1>2. slot \in [Operation -> Id \cup {None}]
  BY DEF Init
<1>3. Len(log) <= MaxRequests + 2 /\ rounds \in 0..MaxTurns
  BY <1>1, BoundAssumption, TurnAssumption DEF Init
<1>4. TurnHasId /\ RoomToExit
  BY <1>1, BoundAssumption DEF Init, TurnHasId, RoomToExit
<1>5. QED
  BY <1>1, <1>2, <1>3, <1>4 DEF Init, TypeInv, TypeOK

(* The requests of the UI.                                                 *)
LEMMA LastAreKinds ==
  ASSUME NEW last \in LastRequests
  PROVE  last \in Seq(Kind) /\ \E n \in 1..2 : Len(last) = n
<1>1. "save" \in Kind /\ "shutdown" \in Kind
  BY DEF Kind, Context
<1>2. CASE last = <<"save", "shutdown">>
  BY <1>1, <1>2
<1>3. CASE last = <<"shutdown">>
  BY <1>1, <1>3
<1>4. QED
  BY <1>2, <1>3 DEF LastRequests

LEMMA UiType == ASSUME TypeInv, UiNext PROVE TypeInv'
<1> USE DEF TypeInv, TypeOK, TurnHasId, RoomToExit
<1>1. ASSUME NEW kind \in SentKinds, Send(kind)
      PROVE  TypeInv'
  <2>1. <<kind>> \in Seq(Kind) /\ Len(<<kind>>) = 1
    BY KindAssumption
  <2>2. Len(log) <= MaxRequests + 2 - 1
    BY <1>1, BoundAssumption DEF Send
  <2>3. /\ requests' \in Seq(Id) /\ log' \in Seq(Kind)
        /\ Len(log') = Len(log) + 1
    <3>1. 1 \in 1..2 /\ Enqueue(<<kind>>)
      BY <1>1 DEF Send
    <3>2. QED
      BY <2>1, <2>2, <3>1, EnqueueFacts
  <2>4. Len(log') <= MaxRequests
    BY <1>1, <2>3, BoundAssumption DEF Send
  <2>5. QED
    BY <1>1, <2>3, <2>4, BoundAssumption DEF Send, run, know, told, past
<1>2. ASSUME NEW last \in LastRequests, UiExits(last)
      PROVE  TypeInv'
  <2>1. /\ last \in Seq(Kind)
        /\ \E n \in 1..2 : Len(last) = n
    BY LastAreKinds
  <2>2. PICK n \in 1..2 : Len(last) = n
    BY <2>1
  <2>3. Len(log) <= MaxRequests + 2 - n
    BY <1>2, BoundAssumption DEF UiExits
  <2>4. /\ requests' \in Seq(Id) /\ log' \in Seq(Kind)
        /\ Len(log') = Len(log) + n
    BY <1>2, <2>1, <2>2, <2>3, EnqueueFacts DEF UiExits
  <2>5. Len(log') <= MaxRequests + 2
    BY <1>2, <2>4, BoundAssumption DEF UiExits
  <2>6. QED
    BY <1>2, <2>4, <2>5 DEF UiExits, run, know, told, past
<1>3. CASE UiPanic
  BY <1>3 DEF UiPanic, run, know, told, past
<1>4. QED
  BY <1>1, <1>2, <1>3 DEF UiNext

LEMMA ContextType ==
  ASSUME TypeOK, NEW i \in Id, ApplyContext(i)
  PROVE  /\ history' \in SUBSET Id /\ local' \in SUBSET Id /\ live' \in SUBSET Id
         /\ applied' \in Seq(Id) /\ abortFlag' \in BOOLEAN
<1>1. applied' \in Seq(Id)
  BY AppendFacts DEF TypeOK, ApplyContext
<1>2. QED
  BY <1>1 DEF TypeOK, ApplyContext

(* Taking a request off the channel.                                       *)
LEMMA NextType ==
  ASSUME requests \in Seq(Id), requests # <<>>
  PROVE  Next1 \in Id /\ Tail(requests) \in Seq(Id)
BY TailFacts DEF Next1

LEMMA IdleType ==
  ASSUME TypeInv,
         \/ TakeMessage \/ IdleAbort \/ IdleContext \/ IdleOperation
         \/ IdleShutdown \/ IdleClosed
  PROVE  TypeInv'
<1> USE DEF TypeInv, TypeOK, TurnHasId, RoomToExit
<1>1. CASE TakeMessage
  <2>1. turn' \in Id /\ steering' \in Seq(Id) /\ requests' \in Seq(Id)
    <3>1. CASE steering # <<>>
      <4>1. Head(steering) \in Id /\ Tail(steering) \in Seq(Id)
        BY <3>1, TailFacts
      <4>2. turn' = Head(steering) /\ steering' = Tail(steering) /\ requests' = requests
        BY <1>1, <3>1 DEF TakeMessage
      <4>3. QED
        BY <4>1, <4>2
    <3>2. CASE steering = <<>>
      <4>1. /\ requests # <<>> /\ steering' = steering
            /\ turn' = Next1 /\ requests' = Tail(requests)
        BY <1>1, <3>2 DEF TakeMessage, HasRequest
      <4>2. QED
        BY <4>1, NextType
    <3>3. QED
      BY <3>1, <3>2
  <2>2. started' \in SUBSET Id
    BY <1>1, <2>1 DEF TakeMessage
  <2>3. QED
    BY <1>1, <2>1, <2>2 DEF TakeMessage, run, know, past
<1>2. ASSUME NEW kinds, IdleRequest(kinds)
      PROVE  /\ Next1 \in Id /\ requests' \in Seq(Id)
             /\ UNCHANGED <<log, uiGone, closed, steering, turn, run, deferred, slot, past>>
  BY <1>2, NextType DEF IdleRequest, HasRequest
<1>3. CASE IdleAbort
  BY <1>2, <1>3 DEF IdleAbort, run, know, told, past
<1>4. CASE IdleContext
  <2>1. Next1 \in Id /\ requests' \in Seq(Id)
    BY <1>2, <1>4 DEF IdleContext
  <2>2. /\ history' \in SUBSET Id /\ local' \in SUBSET Id /\ live' \in SUBSET Id
        /\ applied' \in Seq(Id) /\ abortFlag' \in BOOLEAN
    BY <1>4, <2>1, ContextType DEF IdleContext
  <2>3. QED
    BY <1>2, <1>4, <2>1, <2>2 DEF IdleContext, run, told, past
<1>5. CASE IdleOperation
  BY <1>2, <1>5 DEF IdleOperation, run, know, past
<1>6. CASE IdleShutdown
  BY <1>2, <1>6 DEF IdleShutdown, run, know, told, past
<1>7. CASE IdleClosed
  BY <1>7 DEF IdleClosed, link, run, know, told, past
<1>8. QED
  BY <1>1, <1>3, <1>4, <1>5, <1>6, <1>7

LEMMA LoopType ==
  ASSUME TypeInv,
         \/ \E blocked \in BOOLEAN : Preflight(blocked)
         \/ Prepare \/ LoopNext
  PROVE  TypeInv'
<1> USE DEF TypeInv, TypeOK, TurnHasId, RoomToExit
<1>1. ASSUME NEW blocked \in BOOLEAN, Preflight(blocked)
      PROVE  TypeInv'
  <2>1. turn \in Id
    BY <1>1 DEF Preflight
  <2>2. CASE blocked
    BY <1>1, <2>1, <2>2 DEF Preflight, link, know, past
  <2>3. CASE ~blocked
    BY <1>1, <2>1, <2>3 DEF Preflight, link, know, past
  <2>4. QED
    BY <2>2, <2>3
<1>2. CASE Prepare
  <2>1. turn \in Id
    BY <1>2 DEF Prepare, InTurn
  <2>2. taken' \in Seq(Id)
    BY <1>2, <2>1, AppendFacts DEF Prepare
  <2>3. rounds' \in 0..MaxTurns
    BY <1>2, TurnAssumption DEF Prepare
  <2>4. QED
    BY <1>2, <2>1, <2>2, <2>3 DEF Prepare, link, told
<1>3. CASE LoopTop
  <2>1. turn \in Id
    BY <1>3 DEF LoopTop, InTurn
  <2>2. ToSet(steering) \subseteq Id
    BY DEF ToSet
  <2>3. CASE HasRounds /\ ~abortFlag
    <3>1. taken' \in Seq(Id) /\ steering' \in Seq(Id)
      <4>1. taken' = taken \o steering /\ steering' = <<>>
        BY <1>3, <2>3 DEF LoopTop
      <4>2. QED
        BY <4>1, ConcatFacts
    <3>2. rounds' \in 0..MaxTurns
      BY <1>3, <2>3, TurnAssumption DEF LoopTop, HasRounds
    <3>3. QED
      BY <1>3, <2>2, <2>3, <3>1, <3>2 DEF LoopTop, link, told
  <2>4. CASE ~(HasRounds /\ ~abortFlag)
    BY <1>3, <2>1, <2>4 DEF LoopTop, link, told
  <2>5. QED
    BY <2>3, <2>4
<1>4. ASSUME NEW continue \in BOOLEAN, CallReturns(continue)
      PROVE  TypeInv'
  BY <1>4 DEF CallReturns, link, know, told, past
<1>5. CASE Watcher
  BY <1>5 DEF Watcher, link, know, told, past
<1>6. QED
  BY <1>1, <1>2, <1>3, <1>4, <1>5 DEF LoopNext

LEMMA TurnType == ASSUME TypeInv, TurnRequest PROVE TypeInv'
<1> USE DEF TypeInv, TypeOK, TurnHasId, RoomToExit
<1>1. ASSUME NEW kinds, Receive(kinds)
      PROVE  /\ Next1 \in Id /\ requests' \in Seq(Id) /\ turn \in Id
             /\ UNCHANGED <<log, uiGone, closed, pc, turn, loop, rounds, token,
                            dialog, know, responder, started, past>>
  BY <1>1, NextType DEF Receive, HasRequest, InTurn
<1>2. CASE TurnMessage
  <2>1. steering' \in Seq(Id)
    BY <1>1, <1>2, AppendFacts DEF TurnMessage
  <2>2. QED
    BY <1>1, <1>2, <2>1 DEF TurnMessage, know, past
<1>3. CASE TurnContext
  <2>1. deferred' \in Seq(Id)
    BY <1>1, <1>3, AppendFacts DEF TurnContext
  <2>2. QED
    BY <1>1, <1>3, <2>1 DEF TurnContext, know, past
<1>4. CASE TurnOperation
  <2>1. slot' \in [Operation -> Id \cup {None}]
    BY <1>1, <1>4 DEF TurnOperation
  <2>2. QED
    BY <1>1, <1>4, <2>1 DEF TurnOperation, know, past
<1>5. CASE TurnAbort
  BY <1>1, <1>5 DEF TurnAbort, know, past
<1>6. CASE TurnShutdown
  <2>1. deferred' \in Seq(Id)
    BY <1>1, <1>6, AppendFacts DEF TurnShutdown
  <2>2. QED
    BY <1>1, <1>6, <2>1 DEF TurnShutdown, know, past
<1>7. CASE TurnClosed
  BY <1>7 DEF TurnClosed, link, know, told, past
<1>8. QED
  BY <1>2, <1>3, <1>4, <1>5, <1>6, <1>7 DEF TurnRequest

LEMMA SettleType ==
  ASSUME TypeInv,
         StreamEnds \/ ApplyDeferred \/ DeferredShutdown \/ Settled \/ SessionEnd
  PROVE  TypeInv'
<1> USE DEF TypeInv, TypeOK, TurnHasId, RoomToExit
<1>1. CASE StreamEnds
  <2>1. abortFlag' \in BOOLEAN
    BY <1>1, Zenon DEF StreamEnds, FlagAfterTurn
  <2>2. turn \in Id /\ rounds' \in 0..MaxTurns
    BY <1>1, TurnAssumption DEF StreamEnds, InTurn
  <2>3. QED
    BY <1>1, <2>1, <2>2 DEF StreamEnds, Kept, link, past
<1>2. CASE ApplyDeferred
  <2>1. Head(deferred) \in Id /\ deferred' \in Seq(Id)
    BY <1>2, TailFacts DEF ApplyDeferred
  <2>2. /\ history' \in SUBSET Id /\ local' \in SUBSET Id /\ live' \in SUBSET Id
        /\ applied' \in Seq(Id) /\ abortFlag' \in BOOLEAN
    BY <1>2, <2>1, ContextType DEF ApplyDeferred
  <2>3. QED
    BY <1>2, <2>1, <2>2 DEF ApplyDeferred, link, run, told, past
<1>3. CASE DeferredShutdown
  <2>1. Head(deferred) \in Id /\ deferred' \in Seq(Id)
    BY <1>3, TailFacts DEF DeferredShutdown
  <2>2. QED
    BY <1>3, <2>1 DEF DeferredShutdown, link, run, know, told, past
<1>4. CASE Settled
  <2>1. {slot[o] : o \in Operation} \ {None} \subseteq Id
    OBVIOUS
  <2>2. started' \in SUBSET Id /\ ended' \in SUBSET Id
    BY <1>4, <2>1 DEF Settled
  <2>3. slot' \in [Operation -> Id \cup {None}]
    BY <1>4 DEF Settled
  <2>4. QED
    BY <1>4, <2>2, <2>3 DEF Settled, link, run, know, past
<1>5. CASE SessionEnd
  BY <1>5 DEF SessionEnd, link, run, know, told, past
<1>6. QED
  BY <1>1, <1>2, <1>3, <1>4, <1>5

LEMMA TypeStep ==
  ASSUME TypeInv, [Next]_vars
  PROVE  TypeInv'
<1>1. CASE UNCHANGED vars
  BY <1>1 DEF vars, link, run, know, told, past, TypeInv, TypeOK, TurnHasId, RoomToExit
<1>2. CASE Next
  BY <1>2, UiType, IdleType, LoopType, TurnType, SettleType DEF Next, WorkerNext
<1>3. QED
  BY <1>1, <1>2

LEMMA TypeInvariant == Spec => []TypeInv
<1>1. TypeInv /\ [Next]_vars => TypeInv'
  BY TypeStep
<1>2. QED
  BY <1>1, InitType, PTL DEF Spec

(* Every reachable state has the declared shape, for every bound: ids stay *)
(* ids through the channel, the queues and the slots, a turn always has    *)
(* its id, and the loop never counts past config.max_session_turns().      *)
THEOREM TypeCorrect == Spec => []TypeOK
<1>1. TypeInv => TypeOK
  BY DEF TypeInv
<1>2. QED
  BY <1>1, TypeInvariant, PTL
-----------------------------------------------------------------------------
(* Order.  Ids grow along the way a message takes: what the model got,     *)
(* then the message that starts a turn, then the steering queue, then the  *)
(* channel, which holds exactly the last ids sent.  The context requests   *)
(* go the same way through deferred to applied.                            *)
Read == Len(log) - Len(requests)
UpTo(s, n) == \A j \in DOMAIN s : s[j] <= n
Precedes(s, t) == \A j \in DOMAIN s, k \in DOMAIN t : s[j] < t[k]

ChannelInOrder ==
  /\ Len(requests) <= Len(log)
  /\ \A j \in 1..Len(requests) : requests[j] = Read + j

MessageOrder ==
  /\ Increasing(taken) /\ Increasing(steering)
  /\ UpTo(taken, Read) /\ UpTo(steering, Read)
  /\ Precedes(taken, steering)
  /\ Starting => /\ turn <= Read
                 /\ Precedes(taken, <<turn>>) /\ Precedes(<<turn>>, steering)

LEMMA IncreasingTail ==
  ASSUME NEW s \in Seq(Id), s # <<>>, Increasing(s)
  PROVE  Increasing(Tail(s)) /\ Precedes(<<Head(s)>>, Tail(s))
BY TailFacts, IdIsNat DEF Increasing, Precedes

LEMMA IncreasingAppend ==
  ASSUME NEW s \in Seq(Id), NEW x \in Id, Increasing(s), Precedes(s, <<x>>)
  PROVE  Increasing(Append(s, x))
BY AppendFacts, IdIsNat DEF Increasing, Precedes

LEMMA IncreasingConcat ==
  ASSUME NEW s \in Seq(Id), NEW t \in Seq(Id),
         Increasing(s), Increasing(t), Precedes(s, t)
  PROVE  Increasing(s \o t)
BY ConcatFacts, IdIsNat DEF Increasing, Precedes

LEMMA ReadIsNat ==
  ASSUME TypeOK, ChannelInOrder
  PROVE  Read \in Nat /\ Len(log) \in Nat /\ Len(requests) \in Nat
BY LenProperties DEF TypeOK, ChannelInOrder, Read

(* The request that is read next has the next number.                      *)
LEMMA ReadFacts ==
  ASSUME TypeOK, ChannelInOrder, requests # <<>>,
         requests' = Tail(requests), log' = log
  PROVE  /\ ChannelInOrder' /\ Next1 = Read + 1 /\ Read' = Read + 1
         /\ Next1 \in Id
<1>1. /\ Len(requests) \in Nat \ {0} /\ Head(requests) = requests[1]
      /\ Len(Tail(requests)) = Len(requests) - 1
      /\ \A i \in 1..Len(Tail(requests)) : Tail(requests)[i] = requests[i + 1]
      /\ Head(requests) \in Id
  BY TailFacts DEF TypeOK
<1>2. Len(log) \in Nat /\ Read \in Nat
  BY ReadIsNat
<1>3. Read' = Read + 1
  BY <1>1, <1>2 DEF Read
<1>4. Next1 = Read + 1 /\ Next1 \in Id
  BY <1>1 DEF ChannelInOrder, Next1
<1>5. ChannelInOrder'
  BY <1>1, <1>2, <1>3 DEF ChannelInOrder, Read
<1>6. QED
  BY <1>3, <1>4, <1>5

LEMMA RequestsAreNat == TypeOK => requests \in Seq(Nat)
BY IdIsNat, SeqMonotonic DEF TypeOK

LEMMA NatConcat ==
  \A s, t \in Seq(Nat) :
     /\ Len(s \o t) = Len(s) + Len(t)
     /\ \A i \in 1..Len(s) : (s \o t)[i] = s[i]
     /\ \A i \in 1..Len(t) : (s \o t)[Len(s) + i] = t[i]
BY ConcatFacts

LEMMA UiKeepsRead ==
  ASSUME TypeInv, ChannelInOrder, UiNext
  PROVE  ChannelInOrder' /\ Read' = Read
<1>1. ASSUME NEW kinds \in Seq(Kind), Enqueue(kinds)
      PROVE  ChannelInOrder' /\ Read' = Read
  <2> DEFINE new == [j \in 1..Len(kinds) |-> Len(log) + j]
  <2>1. Len(log) \in Nat /\ Len(requests) \in Nat /\ Len(kinds) \in Nat /\ Read \in Nat
    BY ReadIsNat, LenProperties DEF TypeInv
  <2>2. new \in Seq(Nat) /\ Len(new) = Len(kinds)
    <3>1. \A j \in 1..Len(kinds) : Len(log) + j \in Nat
      BY <2>1
    <3>2. QED
      BY <2>1, <3>1
  <2>3. log' = log \o kinds /\ requests' = requests \o new
    BY <1>1 DEF Enqueue
  <2>4. \A j \in 1..Len(new) : new[j] = Len(log) + j
    BY <2>2
  <2> HIDE DEF new
  <2>5. Len(log') = Len(log) + Len(kinds)
    BY <2>3, ConcatFacts DEF TypeInv, TypeOK
  <2>6. /\ Len(requests') = Len(requests) + Len(kinds)
        /\ \A i \in 1..Len(requests) : requests'[i] = requests[i]
        /\ \A i \in 1..Len(kinds) : requests'[Len(requests) + i] = Len(log) + i
    <3>1. requests \in Seq(Nat)
      BY IdIsNat, RequestsAreNat DEF TypeInv
    <3>2. /\ Len(requests \o new) = Len(requests) + Len(new)
          /\ \A i \in 1..Len(requests) : (requests \o new)[i] = requests[i]
          /\ \A i \in 1..Len(new) : (requests \o new)[Len(requests) + i] = new[i]
      BY <2>2, <3>1, NatConcat
    <3>3. QED
      BY <2>2, <2>3, <2>4, <3>2
  <2>7. Read' = Read
    BY <2>1, <2>5, <2>6 DEF Read
  <2>8. ASSUME NEW j \in 1..Len(requests')
        PROVE  requests'[j] = Read' + j
    <3>1. CASE j <= Len(requests)
      BY <2>1, <2>6, <2>7, <3>1 DEF ChannelInOrder
    <3>2. CASE ~(j <= Len(requests))
      <4>1. j - Len(requests) \in 1..Len(kinds)
        BY <2>1, <2>6, <3>2
      <4>2. requests'[Len(requests) + (j - Len(requests))] = Len(log) + (j - Len(requests))
        BY <2>6, <4>1
      <4>3. QED
        BY <2>1, <2>7, <4>2 DEF Read
    <3>3. QED
      BY <3>1, <3>2
  <2>9. QED
    BY <2>1, <2>5, <2>6, <2>7, <2>8 DEF ChannelInOrder
<1>2. ASSUME NEW kind \in SentKinds, Send(kind)
      PROVE  ChannelInOrder' /\ Read' = Read
  <2>1. <<kind>> \in Seq(Kind)
    BY KindAssumption
  <2>2. QED
    BY <1>1, <1>2, <2>1 DEF Send
<1>3. ASSUME NEW last \in LastRequests, UiExits(last)
      PROVE  ChannelInOrder' /\ Read' = Read
  <2>1. last \in Seq(Kind)
    BY LastAreKinds
  <2>2. QED
    BY <1>1, <1>3, <2>1 DEF UiExits
<1>4. CASE UiPanic
  BY <1>4 DEF UiPanic, ChannelInOrder, Read
<1>5. QED
  BY <1>2, <1>3, <1>4 DEF UiNext

LEMMA ChannelStep ==
  ASSUME TypeInv, ChannelInOrder, [Next]_vars
  PROVE  ChannelInOrder' /\ (Read' = Read \/ Read' = Read + 1)
<1>1. ASSUME UNCHANGED <<requests, log>>
      PROVE  ChannelInOrder' /\ Read' = Read
  BY <1>1 DEF ChannelInOrder, Read
<1>2. ASSUME requests # <<>>, requests' = Tail(requests), log' = log
      PROVE  ChannelInOrder' /\ Read' = Read + 1
  BY <1>2, ReadFacts DEF TypeInv
<1>3. CASE UiNext
  BY <1>3, UiKeepsRead
<1>4. CASE TakeMessage
  BY <1>1, <1>2, <1>4 DEF TakeMessage, HasRequest
<1>5. CASE IdleAbort \/ IdleContext \/ IdleOperation \/ IdleShutdown
  BY <1>2, <1>5 DEF IdleAbort, IdleContext, IdleOperation, IdleShutdown, IdleRequest,
                    HasRequest
<1>6. CASE TurnMessage \/ TurnContext \/ TurnOperation \/ TurnAbort \/ TurnShutdown
  BY <1>2, <1>6 DEF TurnMessage, TurnContext, TurnOperation, TurnAbort, TurnShutdown,
                    Receive, HasRequest
<1>7. CASE IdleClosed \/ TurnClosed \/ Prepare \/ StreamEnds \/ ApplyDeferred
           \/ DeferredShutdown \/ Settled \/ SessionEnd
  BY <1>1, <1>7 DEF IdleClosed, TurnClosed, Prepare, StreamEnds, ApplyDeferred,
                    DeferredShutdown, Settled, SessionEnd, link
<1>8. CASE LoopNext \/ \E blocked \in BOOLEAN : Preflight(blocked)
  BY <1>1, <1>8 DEF LoopNext, LoopTop, CallReturns, Watcher, Preflight, link
<1>9. CASE UNCHANGED vars
  BY <1>1, <1>9 DEF vars, link
<1>10. QED
  BY <1>3, <1>4, <1>5, <1>6, <1>7, <1>8, <1>9 DEF Next, WorkerNext, TurnRequest

LEMMA NatElements ==
  ASSUME TypeOK
  PROVE  /\ \A j \in DOMAIN taken : taken[j] \in Nat
         /\ \A j \in DOMAIN steering : steering[j] \in Nat
         /\ turn \in Nat
<1>1. \A s \in Seq(Id) : \A j \in DOMAIN s : s[j] \in Id
  OBVIOUS
<1>2. Id \subseteq Nat /\ None \in Nat
  BY IdIsNat DEF None
<1>3. taken \in Seq(Id) /\ steering \in Seq(Id) /\ turn \in Id \cup {None}
  BY DEF TypeOK
<1>4. QED
  BY <1>1, <1>2, <1>3

OrderInv == TypeInv /\ ChannelInOrder /\ MessageOrder

(* A step that moves no message and starts no turn keeps the order.        *)
LEMMA MessageFrame ==
  ASSUME OrderInv, UNCHANGED <<taken, steering>>,
         Read' = Read \/ Read' = Read + 1,
         Starting' => Starting /\ turn' = turn
  PROVE  MessageOrder'
<1>1. Read \in Nat
  BY ReadIsNat DEF OrderInv, TypeInv
<1>2. /\ \A j \in DOMAIN taken : taken[j] \in Nat
      /\ \A j \in DOMAIN steering : steering[j] \in Nat
  BY NatElements DEF OrderInv, TypeInv
<1>3. turn \in Nat
  BY NatElements DEF OrderInv, TypeInv
<1>4. UpTo(taken, Read)' /\ UpTo(steering, Read)'
  BY <1>1, <1>2 DEF OrderInv, MessageOrder, UpTo
<1>5. ASSUME Starting'
      PROVE  (turn <= Read)' /\ Precedes(taken, <<turn>>)' /\ Precedes(<<turn>>, steering)'
  BY <1>1, <1>3, <1>5 DEF OrderInv, MessageOrder, Precedes
<1>6. QED
  BY <1>4, <1>5 DEF OrderInv, MessageOrder, Increasing, Precedes

LEMMA OrderTakes ==
  ASSUME OrderInv, TakeMessage
  PROVE  MessageOrder'
<1> USE DEF OrderInv, TypeInv, MessageOrder
<1>1. UNCHANGED <<taken, log>>
  BY DEF TakeMessage, past
<1>2. Read \in Nat
  BY ReadIsNat
<1>3. \A j \in DOMAIN taken : taken[j] \in Nat
  BY NatElements
<1>4. CASE steering # <<>>
  <2>1. turn' = Head(steering) /\ steering' = Tail(steering) /\ Read' = Read
    BY <1>1, <1>4 DEF TakeMessage, Read
  <2>2. Increasing(steering') /\ Precedes(<<turn'>>, steering')
    BY <1>4, <2>1, IncreasingTail DEF TypeOK
  <2>3. /\ Head(steering) = steering[1] /\ 1 \in DOMAIN steering
        /\ \A j \in DOMAIN Tail(steering) :
             j + 1 \in DOMAIN steering /\ Tail(steering)[j] = steering[j + 1]
    BY <1>4, TailFacts DEF TypeOK
  <2>4. turn' <= Read /\ UpTo(steering', Read)
    BY <2>1, <2>3 DEF UpTo
  <2>5. Precedes(taken, <<turn'>>) /\ Precedes(taken, steering')
    BY <2>1, <2>3 DEF Precedes
  <2>6. QED
    BY <1>1, <2>1, <2>2, <2>4, <2>5
<1>5. CASE steering = <<>>
  <2>1. requests # <<>> /\ steering' = <<>> /\ turn' = Next1 /\ requests' = Tail(requests)
    BY <1>5 DEF TakeMessage, HasRequest
  <2>2. turn' = Read + 1 /\ Read' = Read + 1
    BY <1>1, <2>1, ReadFacts
  <2>3. UpTo(taken, Read + 1) /\ Precedes(taken, <<turn'>>)
    BY <1>2, <1>3, <2>2 DEF UpTo, Precedes
  <2>4. QED
    BY <1>1, <1>2, <2>1, <2>2, <2>3 DEF UpTo, Precedes, Increasing
<1>6. QED
  BY <1>4, <1>5

LEMMA OrderPrepares ==
  ASSUME OrderInv, Prepare
  PROVE  MessageOrder'
<1> USE DEF OrderInv, TypeInv, MessageOrder
<1>1. /\ taken' = Append(taken, turn) /\ steering' = steering /\ Read' = Read
      /\ Starting /\ ~Starting'
  BY DEF Prepare, link, InTurn, Starting, Read
<1>2. turn \in Id /\ Read \in Nat
  BY ReadIsNat DEF Prepare, InTurn, TurnHasId
<1>3. Increasing(taken')
  BY <1>1, <1>2, IncreasingAppend DEF TypeOK
<1>4. /\ Len(taken') = Len(taken) + 1 /\ Len(taken) \in Nat
      /\ taken' \in Seq(Id)
      /\ \A j \in 1..Len(taken) : taken'[j] = taken[j]
      /\ taken'[Len(taken) + 1] = turn
  BY <1>1, <1>2, AppendFacts DEF TypeOK
<1>5. \A j \in DOMAIN taken' : (j \in DOMAIN taken /\ taken'[j] = taken[j]) \/ taken'[j] = turn
  <2>1. DOMAIN taken = 1..Len(taken) /\ DOMAIN taken' = 1..(Len(taken) + 1)
    BY <1>4 DEF TypeOK
  <2>2. QED
    BY <1>4, <2>1
<1>6. UpTo(taken', Read)
  BY <1>1, <1>5 DEF UpTo
<1>7. Precedes(taken', steering)
  BY <1>1, <1>5 DEF Precedes
<1>8. QED
  BY <1>1, <1>3, <1>6, <1>7

LEMMA OrderSteers ==
  ASSUME OrderInv, LoopTop
  PROVE  MessageOrder'
<1> USE DEF OrderInv, TypeInv, MessageOrder
<1>1. Read' = Read /\ ~Starting'
  BY DEF LoopTop, link, Starting, Read, InTurn
<1>2. CASE taken' = taken /\ steering' = steering
  BY <1>1, <1>2, MessageFrame
<1>3. CASE taken' = taken \o steering /\ steering' = <<>>
  <2>1. Increasing(taken')
    BY <1>3, IncreasingConcat DEF TypeOK
  <2>2. /\ Len(taken') = Len(taken) + Len(steering)
        /\ Len(taken) \in Nat /\ Len(steering) \in Nat /\ taken' \in Seq(Id)
        /\ \A j \in 1..Len(taken) : taken'[j] = taken[j]
        /\ \A j \in 1..Len(steering) : taken'[Len(taken) + j] = steering[j]
    BY <1>3, ConcatFacts DEF TypeOK
  <2>3. ASSUME NEW j \in DOMAIN taken'
        PROVE  taken'[j] <= Read
    <3>1. j \in 1..(Len(taken) + Len(steering))
      BY <2>2, <2>3
    <3>2. CASE j <= Len(taken)
      <4>1. j \in 1..Len(taken) /\ j \in DOMAIN taken
        BY <2>2, <3>1, <3>2 DEF TypeOK
      <4>2. QED
        BY <2>2, <4>1 DEF UpTo
    <3>3. CASE ~(j <= Len(taken))
      <4>1. /\ j - Len(taken) \in 1..Len(steering) /\ j - Len(taken) \in DOMAIN steering
            /\ j = Len(taken) + (j - Len(taken))
        BY <2>2, <3>1, <3>3 DEF TypeOK
      <4>2. taken'[j] = steering[j - Len(taken)]
        BY <2>2, <4>1
      <4>3. QED
        BY <4>1, <4>2 DEF UpTo
    <3>4. QED
      BY <3>2, <3>3
  <2>4. UpTo(taken', Read)
    BY <2>3 DEF UpTo
  <2>5. QED
    BY <1>1, <1>3, <2>1, <2>4 DEF UpTo, Precedes, Increasing
<1>4. QED
  BY <1>2, <1>3 DEF LoopTop

LEMMA OrderQueues ==
  ASSUME OrderInv, TurnMessage
  PROVE  MessageOrder'
<1> USE DEF OrderInv, TypeInv, MessageOrder
<1>1. /\ requests # <<>> /\ requests' = Tail(requests)
      /\ UNCHANGED <<taken, turn, pc, loop, log>>
      /\ steering' = Append(steering, Next1)
  BY DEF TurnMessage, Receive, HasRequest, past
<1>2. Next1 = Read + 1 /\ Read' = Read + 1 /\ Next1 \in Id /\ Read \in Nat
  BY <1>1, ReadFacts, ReadIsNat
<1>3. /\ \A j \in DOMAIN taken : taken[j] \in Nat
      /\ \A j \in DOMAIN steering : steering[j] \in Nat
      /\ turn \in Nat
  BY NatElements
<1>4. Precedes(steering, <<Next1>>) /\ Precedes(taken, <<Next1>>)
  BY <1>2, <1>3 DEF UpTo, Precedes
<1>5. Increasing(steering')
  BY <1>1, <1>2, <1>4, IncreasingAppend DEF TypeOK
<1>6. \A j \in DOMAIN steering' :
         (j \in DOMAIN steering /\ steering'[j] = steering[j]) \/ steering'[j] = Next1
  <2>1. steering \in Seq(Id) /\ Next1 \in Id /\ steering' = Append(steering, Next1)
    BY <1>1, <1>2 DEF TypeOK
  <2> HIDE DEF OrderInv, TypeInv, MessageOrder, Next1
  <2>2. QED
    BY <2>1, AppendFacts
<1>7. UpTo(steering', Read + 1) /\ UpTo(taken, Read + 1)
  BY <1>2, <1>3, <1>6 DEF UpTo
<1>8. Precedes(taken, steering')
  BY <1>4, <1>6 DEF Precedes
<1>9. ASSUME Starting'
      PROVE  turn <= Read + 1 /\ Precedes(taken, <<turn>>) /\ Precedes(<<turn>>, steering')
  <2>1. Starting
    BY <1>1, <1>9 DEF Starting, InTurn
  <2>2. turn < Next1
    BY <1>2, <1>3, <2>1
  <2>3. QED
    BY <1>2, <1>3, <1>6, <2>1, <2>2 DEF Precedes
<1>10. QED
  BY <1>1, <1>2, <1>5, <1>7, <1>8, <1>9

LEMMA OrderStep ==
  ASSUME OrderInv, [Next]_vars
  PROVE  MessageOrder'
<1>1. Read' = Read \/ Read' = Read + 1
  BY ChannelStep DEF OrderInv
<1>2. ASSUME UNCHANGED <<taken, steering, turn, pc, loop>>
      PROVE  MessageOrder'
  BY <1>1, <1>2, MessageFrame DEF Starting, InTurn
<1>3. CASE UiNext
  BY <1>2, <1>3 DEF UiNext, Send, UiExits, UiPanic, run, past
<1>4. CASE IdleAbort \/ IdleContext \/ IdleOperation
  BY <1>2, <1>4 DEF IdleAbort, IdleContext, IdleOperation, IdleRequest, run, past
<1>5. CASE TurnContext \/ TurnOperation \/ TurnAbort \/ TurnShutdown
  BY <1>2, <1>5 DEF TurnContext, TurnOperation, TurnAbort, TurnShutdown, Receive, past
<1>6. CASE ApplyDeferred \/ Watcher
  BY <1>2, <1>6 DEF ApplyDeferred, Watcher, run, past
<1>7. ASSUME UNCHANGED <<taken, steering>>, ~Starting'
      PROVE  MessageOrder'
  BY <1>1, <1>7, MessageFrame
<1>8. CASE IdleShutdown \/ IdleClosed \/ TurnClosed
  BY <1>7, <1>8 DEF IdleShutdown, IdleRequest, IdleClosed, TurnClosed, past, Starting, InTurn
<1>9. CASE StreamEnds \/ DeferredShutdown \/ Settled \/ SessionEnd
  BY <1>7, <1>9 DEF StreamEnds, DeferredShutdown, Settled, SessionEnd, past, Starting, InTurn
<1>10. ASSUME NEW continue \in BOOLEAN, CallReturns(continue)
       PROVE  MessageOrder'
  BY <1>7, <1>10 DEF CallReturns, past, Starting, InTurn
<1>11. ASSUME NEW blocked \in BOOLEAN, Preflight(blocked)
       PROVE  MessageOrder'
  <2>1. CASE blocked
    BY <1>7, <1>11, <2>1 DEF Preflight, past, Starting, InTurn
  <2>2. CASE ~blocked
    BY <1>1, <1>11, <2>2, MessageFrame DEF Preflight, past, Starting
  <2>3. QED
    BY <2>1, <2>2
<1>12. CASE UNCHANGED vars
  BY <1>2, <1>12 DEF vars, run, past
<1>13. QED
  BY <1>3, <1>4, <1>5, <1>6, <1>8, <1>9, <1>10, <1>11, <1>12,
     OrderTakes, OrderPrepares, OrderSteers, OrderQueues
     DEF Next, WorkerNext, LoopNext, TurnRequest

LEMMA OrderInvariant == Spec => []OrderInv
<1>1. Init => OrderInv
  <2> SUFFICES ASSUME Init PROVE ChannelInOrder /\ MessageOrder
    BY InitType DEF OrderInv
  <2>1. /\ Len(requests) = 0 /\ Len(log) = 0 /\ ~Starting
        /\ DOMAIN taken = {} /\ DOMAIN steering = {}
    BY DEF Init, Starting, InTurn
  <2>2. QED
    BY <2>1 DEF ChannelInOrder, MessageOrder, Increasing, UpTo, Precedes
<1>2. OrderInv /\ [Next]_vars => OrderInv'
  BY TypeStep, ChannelStep, OrderStep DEF OrderInv
<1>3. QED
  BY <1>1, <1>2, PTL DEF Spec

(* Messages reach the model in the order they were sent, each at most once, *)
(* for any number of requests: what waits in the channel is younger than    *)
(* what was steered, and that is younger than what the model has.           *)
LEMMA MessagesStayInOrder == Spec => []MessagesInOrder
<1>1. OrderInv => MessagesInOrder
  BY DEF OrderInv, MessageOrder, MessagesInOrder
<1>2. QED
  BY <1>1, OrderInvariant, PTL
-----------------------------------------------------------------------------
(* What the session knows.  Nothing is applied to the session while a loop *)
(* runs, and what it had then is part of the loop's messages.              *)
LoopInTurn == (loop = "off") <=> ~InTurn
DialogFresh == loop \in {"off", "prepare"} => dialog = {}
DialogKeeps == loop \notin {"off", "prepare"} => history \subseteq dialog
KnowInv == LoopInTurn /\ DialogFresh /\ DialogKeeps /\ KnowsWhatWasSaid

LEMMA KnowContext ==
  ASSUME KnowInv, pc # "turn", NEW i, ApplyContext(i),
         UNCHANGED <<pc, loop, dialog, closed>>
  PROVE  KnowInv'
<1>1. loop = "off" /\ dialog = {}
  BY DEF KnowInv, LoopInTurn, DialogFresh, InTurn
<1>2. ~closed => live' = history' \cup local' \cup dialog'
  <2>1. CASE live' = live \cup {i} /\ local' = local \cup {i} /\ history' = history
    BY <2>1 DEF KnowInv, KnowsWhatWasSaid
  <2>2. CASE history' = {} /\ local' = {} /\ live' = {}
    BY <1>1, <2>2
  <2>3. CASE history' = {i} /\ local' = {} /\ live' = {i}
    BY <1>1, <2>3
  <2>4. CASE UNCHANGED <<history, local, live>>
    BY <2>4 DEF KnowInv, KnowsWhatWasSaid
  <2>5. QED
    BY <2>1, <2>2, <2>3, <2>4 DEF ApplyContext
<1>3. QED
  BY <1>1, <1>2 DEF KnowInv, LoopInTurn, DialogFresh, DialogKeeps, KnowsWhatWasSaid, InTurn

LEMMA KnowStep == ASSUME KnowInv, [Next]_vars PROVE KnowInv'
<1> USE DEF KnowInv, LoopInTurn, DialogFresh, DialogKeeps, KnowsWhatWasSaid, InTurn
<1>1. ASSUME UNCHANGED <<dialog, history, local, live>>,
             (loop = "off") <=> (loop' = "off"),
             loop \in {"off", "prepare"} <=> loop' \in {"off", "prepare"},
             (pc = "turn") <=> (pc' = "turn"),
             closed => closed'
      PROVE  KnowInv'
  BY <1>1
<1>2. CASE UiNext
  BY <1>1, <1>2 DEF UiNext, Send, UiExits, UiPanic, run, know
<1>3. CASE TakeMessage \/ IdleAbort \/ IdleOperation \/ IdleShutdown \/ IdleClosed
  BY <1>1, <1>3 DEF TakeMessage, IdleAbort, IdleOperation, IdleShutdown, IdleClosed,
                    IdleRequest, link, run, know
<1>4. CASE IdleContext
  BY <1>4, KnowContext DEF IdleContext, IdleRequest, run
<1>5. ASSUME NEW blocked \in BOOLEAN, Preflight(blocked)
      PROVE  KnowInv'
  <2>1. CASE blocked
    BY <1>1, <1>5, <2>1 DEF Preflight, link, know
  <2>2. CASE ~blocked
    BY <1>5, <2>2 DEF Preflight, link, know
  <2>3. QED
    BY <2>1, <2>2
<1>6. CASE Prepare
  BY <1>6 DEF Prepare, link
<1>7. CASE LoopTop
  BY <1>7 DEF LoopTop, link
<1>8. CASE TurnMessage \/ TurnContext \/ TurnOperation \/ TurnAbort \/ TurnShutdown
  BY <1>1, <1>8 DEF TurnMessage, TurnContext, TurnOperation, TurnAbort, TurnShutdown,
                    Receive, know
<1>9. CASE TurnClosed
  BY <1>9 DEF TurnClosed, link
<1>10. CASE StreamEnds
  BY <1>10 DEF StreamEnds, Kept, link
<1>11. CASE ApplyDeferred
  BY <1>11, KnowContext DEF ApplyDeferred, link, run
<1>12. CASE DeferredShutdown \/ Settled \/ SessionEnd
  BY <1>1, <1>12 DEF DeferredShutdown, Settled, SessionEnd, link, run, know
<1>13. CASE Watcher
  BY <1>1, <1>13 DEF Watcher, link, know
<1>14. ASSUME NEW continue \in BOOLEAN, CallReturns(continue)
       PROVE  KnowInv'
  BY <1>1, <1>14 DEF CallReturns, link, know
<1>15. CASE UNCHANGED vars
  BY <1>1, <1>15 DEF vars, link, run, know
<1>16. QED
  BY <1>2, <1>3, <1>4, <1>5, <1>6, <1>7, <1>8, <1>9, <1>10, <1>11, <1>12, <1>13,
     <1>14, <1>15 DEF Next, WorkerNext, LoopNext, TurnRequest

(* The session never loses what was said since the last reset, and a reset  *)
(* sent during a turn is not undone by that turn's result.                  *)
THEOREM SessionKnowsWhatWasSaid == Spec => []KnowsWhatWasSaid
<1>1. Init => KnowInv
  BY DEF Init, KnowInv, LoopInTurn, DialogFresh, DialogKeeps, KnowsWhatWasSaid, InTurn
<1>2. KnowInv => KnowsWhatWasSaid
  BY DEF KnowInv
<1>3. QED
  BY <1>1, <1>2, KnowStep, PTL DEF Spec
-----------------------------------------------------------------------------
(* What the UI is told: the only end it still waits for is that of the     *)
(* running turn.                                                           *)
Pending == IF pc \in {"preflight", "turn"} THEN {turn} ELSE {}
ReportInv == ~Over => started \subseteq ended \cup Pending

LEMMA ReportStep == ASSUME ReportInv, [Next]_vars PROVE ReportInv'
<1> USE DEF ReportInv, Pending, Over
<1>1. ASSUME UNCHANGED <<started, pc, turn>>, ended \subseteq ended'
      PROVE  ReportInv'
  BY <1>1
<1>2. CASE UiNext
  BY <1>1, <1>2 DEF UiNext, Send, UiExits, UiPanic, told
<1>3. CASE TakeMessage
  BY <1>3 DEF TakeMessage
<1>4. CASE IdleAbort \/ IdleContext
  BY <1>1, <1>4 DEF IdleAbort, IdleContext, IdleRequest, told
<1>5. CASE IdleOperation
  BY <1>5 DEF IdleOperation, IdleRequest
<1>6. CASE IdleShutdown \/ IdleClosed \/ TurnClosed \/ DeferredShutdown \/ SessionEnd
  BY <1>6 DEF IdleShutdown, IdleClosed, TurnClosed, DeferredShutdown, SessionEnd, told
<1>7. ASSUME NEW blocked \in BOOLEAN, Preflight(blocked)
      PROVE  ReportInv'
  BY <1>7 DEF Preflight
<1>8. CASE Prepare \/ LoopTop \/ Watcher
  BY <1>1, <1>8 DEF Prepare, LoopTop, Watcher, told
<1>9. ASSUME NEW continue \in BOOLEAN, CallReturns(continue)
      PROVE  ReportInv'
  BY <1>1, <1>9 DEF CallReturns, told
<1>10. CASE TurnMessage \/ TurnContext \/ TurnOperation \/ TurnAbort \/ TurnShutdown
  BY <1>1, <1>10 DEF TurnMessage, TurnContext, TurnOperation, TurnAbort, TurnShutdown,
                     Receive
<1>11. CASE StreamEnds
  BY <1>11 DEF StreamEnds, InTurn
<1>12. CASE ApplyDeferred
  BY <1>1, <1>12 DEF ApplyDeferred, told
<1>13. CASE Settled
  BY <1>13 DEF Settled
<1>14. CASE UNCHANGED vars
  BY <1>1, <1>14 DEF vars, told
<1>15. QED
  BY <1>2, <1>3, <1>4, <1>5, <1>6, <1>7, <1>8, <1>9, <1>10, <1>11, <1>12, <1>13,
     <1>14 DEF Next, WorkerNext, LoopNext, TurnRequest

(* No turn or operation is left without its end once the worker waits for   *)
(* the next request, on any path: refused, done, aborted or deferred.       *)
THEOREM EveryEndIsReported == Spec => []TurnsReportTheirEnd
<1>1. Init => ReportInv
  BY DEF Init, ReportInv
<1>2. ReportInv => TurnsReportTheirEnd
  BY DEF ReportInv, Pending, Over, TurnsReportTheirEnd
<1>3. QED
  BY <1>1, <1>2, ReportStep, PTL DEF Spec
-----------------------------------------------------------------------------
(* Requests about the context.  They wait in deferred while a turn runs,   *)
(* and all that were read are applied or deferred.                         *)
ContextOrder ==
  /\ Increasing(applied) /\ Increasing(deferred)
  /\ UpTo(applied, Read) /\ UpTo(deferred, Read)
  /\ Precedes(applied, deferred)
  /\ pc \in {"idle", "preflight"} => deferred = <<>>

ContextInv == TypeInv /\ ChannelInOrder /\ ContextOrder

LEMMA ContextElements ==
  ASSUME TypeOK
  PROVE  /\ \A j \in DOMAIN applied : applied[j] \in Nat
         /\ \A j \in DOMAIN deferred : deferred[j] \in Nat
<1>1. \A s \in Seq(Id) : \A j \in DOMAIN s : s[j] \in Id
  OBVIOUS
<1>2. applied \in Seq(Id) /\ deferred \in Seq(Id)
  BY DEF TypeOK
<1>3. QED
  BY <1>1, <1>2, IdIsNat

(* What an appended element adds to the elements of a sequence.            *)
LEMMA AppendElements ==
  ASSUME NEW s \in Seq(Id), NEW x \in Id
  PROVE  \A j \in DOMAIN Append(s, x) :
           (j \in DOMAIN s /\ Append(s, x)[j] = s[j]) \/ Append(s, x)[j] = x
<1>1. DOMAIN s = 1..Len(s) /\ DOMAIN Append(s, x) = 1..(Len(s) + 1)
  BY AppendFacts
<1>2. QED
  BY <1>1, AppendFacts

LEMMA TailElements ==
  ASSUME NEW s \in Seq(Id), s # <<>>
  PROVE  /\ 1 \in DOMAIN s /\ Head(s) = s[1]
         /\ \A j \in DOMAIN Tail(s) : j + 1 \in DOMAIN s /\ Tail(s)[j] = s[j + 1]
BY TailFacts

LEMMA ContextFrame ==
  ASSUME ContextInv, applied' = applied, deferred' = deferred \/ deferred' = <<>>,
         Read' = Read \/ Read' = Read + 1,
         pc' \in {"idle", "preflight"} => pc \in {"idle", "preflight"} \/ deferred' = <<>>
  PROVE  ContextOrder'
<1>1. Read \in Nat
  BY ReadIsNat DEF ContextInv, TypeInv
<1>2. /\ \A j \in DOMAIN applied : applied[j] \in Nat
      /\ \A j \in DOMAIN deferred : deferred[j] \in Nat
  BY ContextElements DEF ContextInv, TypeInv
<1>3. UpTo(applied, Read)' /\ UpTo(deferred, Read)'
  BY <1>1, <1>2 DEF ContextInv, ContextOrder, UpTo
<1>4. QED
  BY <1>3 DEF ContextInv, ContextOrder, Increasing, Precedes

LEMMA ContextIdle ==
  ASSUME ContextInv, IdleContext
  PROVE  ContextOrder'
<1> USE DEF ContextInv, TypeInv, ContextOrder
<1>1. /\ requests # <<>> /\ requests' = Tail(requests) /\ log' = log
      /\ deferred = <<>> /\ deferred' = <<>> /\ applied' = Append(applied, Next1)
  BY DEF IdleContext, IdleRequest, HasRequest, ApplyContext
<1>2. Next1 = Read + 1 /\ Read' = Read + 1 /\ Next1 \in Id /\ Read \in Nat
  BY <1>1, ReadFacts, ReadIsNat
<1>3. \A j \in DOMAIN applied : applied[j] \in Nat
  BY ContextElements
<1>4. Increasing(applied')
  <2>1. Precedes(applied, <<Next1>>)
    BY <1>2, <1>3 DEF UpTo, Precedes
  <2>2. QED
    BY <1>1, <1>2, <2>1, IncreasingAppend DEF TypeOK
<1>5. UpTo(applied', Read + 1)
  <2>1. \A j \in DOMAIN applied' :
           (j \in DOMAIN applied /\ applied'[j] = applied[j]) \/ applied'[j] = Next1
    BY <1>1, <1>2, AppendElements DEF TypeOK
  <2>2. QED
    BY <1>2, <1>3, <2>1 DEF UpTo
<1>6. QED
  BY <1>1, <1>2, <1>4, <1>5 DEF Increasing, UpTo, Precedes

LEMMA ContextDefers ==
  ASSUME ContextInv, TurnContext \/ TurnShutdown
  PROVE  ContextOrder'
<1> USE DEF ContextInv, TypeInv, ContextOrder
<1>1. /\ requests # <<>> /\ requests' = Tail(requests) /\ log' = log /\ pc' = "turn"
      /\ deferred' = Append(deferred, Next1) /\ applied' = applied
  BY DEF TurnContext, TurnShutdown, Receive, HasRequest, InTurn, know
<1>2. Next1 = Read + 1 /\ Read' = Read + 1 /\ Next1 \in Id /\ Read \in Nat
  BY <1>1, ReadFacts, ReadIsNat
<1>3. /\ \A j \in DOMAIN applied : applied[j] \in Nat
      /\ \A j \in DOMAIN deferred : deferred[j] \in Nat
  BY ContextElements
<1>4. Precedes(deferred, <<Next1>>) /\ Precedes(applied, <<Next1>>)
  BY <1>2, <1>3 DEF UpTo, Precedes
<1>5. Increasing(deferred')
  BY <1>1, <1>2, <1>4, IncreasingAppend DEF TypeOK
<1>6. \A j \in DOMAIN deferred' :
         (j \in DOMAIN deferred /\ deferred'[j] = deferred[j]) \/ deferred'[j] = Next1
  BY <1>1, <1>2, AppendElements DEF TypeOK
<1>7. UpTo(deferred', Read + 1) /\ UpTo(applied, Read + 1)
  BY <1>2, <1>3, <1>6 DEF UpTo
<1>8. Precedes(applied, deferred')
  BY <1>4, <1>6 DEF Precedes
<1>9. QED
  BY <1>1, <1>2, <1>5, <1>7, <1>8

LEMMA ContextApplies ==
  ASSUME ContextInv, ApplyDeferred
  PROVE  ContextOrder'
<1> USE DEF ContextInv, TypeInv, ContextOrder
<1>1. /\ deferred # <<>> /\ deferred' = Tail(deferred)
      /\ applied' = Append(applied, Head(deferred))
      /\ Read' = Read /\ pc' \notin {"idle", "preflight"}
  BY DEF ApplyDeferred, ApplyContext, link, Read
<1>2. /\ 1 \in DOMAIN deferred /\ Head(deferred) = deferred[1] /\ Head(deferred) \in Id
      /\ \A j \in DOMAIN deferred' :
           j + 1 \in DOMAIN deferred /\ deferred'[j] = deferred[j + 1]
  BY <1>1, TailElements, TailFacts DEF TypeOK
<1>3. Increasing(deferred') /\ Precedes(<<Head(deferred)>>, deferred')
  BY <1>1, IncreasingTail DEF TypeOK
<1>4. Increasing(applied')
  <2>1. Precedes(applied, <<Head(deferred)>>)
    BY <1>2 DEF Precedes
  <2>2. QED
    BY <1>1, <1>2, <2>1, IncreasingAppend DEF TypeOK
<1>5. \A j \in DOMAIN applied' :
         \/ j \in DOMAIN applied /\ applied'[j] = applied[j]
         \/ applied'[j] = Head(deferred)
  BY <1>1, <1>2, AppendElements DEF TypeOK
<1>6. UpTo(applied', Read) /\ UpTo(deferred', Read)
  BY <1>2, <1>5 DEF UpTo
<1>7. Precedes(applied', deferred')
  BY <1>2, <1>3, <1>5 DEF Precedes
<1>8. QED
  BY <1>1, <1>3, <1>4, <1>6, <1>7

LEMMA ContextStep ==
  ASSUME ContextInv, [Next]_vars
  PROVE  ContextOrder'
<1>1. Read' = Read \/ Read' = Read + 1
  BY ChannelStep DEF ContextInv
<1>2. ASSUME UNCHANGED <<applied, deferred>>,
             pc' \in {"idle", "preflight"} => pc \in {"idle", "preflight"}
      PROVE  ContextOrder'
  BY <1>1, <1>2, ContextFrame
<1>3. CASE UiNext
  BY <1>2, <1>3 DEF UiNext, Send, UiExits, UiPanic, know
<1>4. CASE TakeMessage \/ IdleAbort \/ IdleOperation \/ IdleShutdown \/ IdleClosed
  BY <1>2, <1>4 DEF TakeMessage, IdleAbort, IdleOperation, IdleShutdown, IdleClosed,
                    IdleRequest, know
<1>5. ASSUME NEW blocked \in BOOLEAN, Preflight(blocked)
      PROVE  ContextOrder'
  BY <1>2, <1>5 DEF Preflight, know
<1>6. CASE Prepare \/ LoopTop \/ Watcher
  BY <1>2, <1>6 DEF Prepare, LoopTop, Watcher, know
<1>7. ASSUME NEW continue \in BOOLEAN, CallReturns(continue)
      PROVE  ContextOrder'
  BY <1>2, <1>7 DEF CallReturns, know
<1>8. CASE TurnMessage \/ TurnOperation \/ TurnAbort
  BY <1>2, <1>8 DEF TurnMessage, TurnOperation, TurnAbort, Receive, know
<1>9. CASE TurnClosed \/ StreamEnds \/ SessionEnd
  BY <1>2, <1>9 DEF TurnClosed, StreamEnds, SessionEnd, know
<1>10. CASE DeferredShutdown \/ Settled
  BY <1>1, <1>10, ContextFrame DEF DeferredShutdown, Settled, know
<1>11. CASE UNCHANGED vars
  BY <1>2, <1>11 DEF vars, know
<1>12. QED
  BY <1>3, <1>4, <1>5, <1>6, <1>7, <1>8, <1>9, <1>10, <1>11, ContextIdle,
     ContextDefers, ContextApplies DEF Next, WorkerNext, LoopNext, TurnRequest

LEMMA ContextInit == Init => ContextInv
<1> SUFFICES ASSUME Init PROVE ChannelInOrder /\ ContextOrder
  BY InitType DEF ContextInv
<1>1. /\ Len(requests) = 0 /\ Len(log) = 0
      /\ DOMAIN applied = {} /\ DOMAIN deferred = {} /\ deferred = <<>>
  BY DEF Init
<1>2. QED
  BY <1>1 DEF ChannelInOrder, ContextOrder, Increasing, UpTo, Precedes

LEMMA ContextInvariant == Spec => []ContextInv
<1>1. Init => ContextInv
  BY ContextInit
<1>2. ContextInv /\ [Next]_vars => ContextInv'
  BY TypeStep, ChannelStep, ContextStep DEF ContextInv
<1>3. QED
  BY <1>1, <1>2, PTL DEF Spec

(* Requests about the context take effect in the order they were sent,      *)
(* however many of them a turn defers and whenever it ends.                 *)
LEMMA ContextStaysInOrder == Spec => []ContextInOrder
<1>1. ContextInv => ContextInOrder
  BY DEF ContextInv, ContextOrder, ContextInOrder
<1>2. QED
  BY <1>1, ContextInvariant, PTL

(* Both orders hold, for any number of requests and turns.                  *)
THEOREM RequestsStayInOrder == Spec => []RequestsInOrder
<1>1. MessagesInOrder /\ ContextInOrder => RequestsInOrder
  BY DEF RequestsInOrder
<1>2. QED
  BY <1>1, MessagesStayInOrder, ContextStaysInOrder, PTL
-----------------------------------------------------------------------------
(* The shutdown.  Until the worker ends, each context request it read is   *)
(* applied or deferred; what is deferred before the shutdown is older.     *)
Remembered == ToSet(applied) \cup ToSet(deferred)
NoneLost == ~Over => \A i \in Sent(Context) : i <= Read => i \in Remembered
RepliesLast ==
  responder # None =>
    /\ Over
    /\ responder <= Len(log)
    /\ \A i \in Sent(Context) : i < responder => i \in ToSet(applied)
ShutdownInv == ContextInv /\ NoneLost /\ RepliesLast

LEMMA ToSetAppend ==
  ASSUME NEW s \in Seq(Id), NEW x \in Id
  PROVE  ToSet(Append(s, x)) = ToSet(s) \cup {x}
<1>1. /\ DOMAIN s = 1..Len(s) /\ DOMAIN Append(s, x) = 1..(Len(s) + 1) /\ Len(s) \in Nat
      /\ \A j \in 1..Len(s) : Append(s, x)[j] = s[j]
      /\ Append(s, x)[Len(s) + 1] = x
  BY AppendFacts
<1>2. QED
  BY <1>1 DEF ToSet

LEMMA ToSetTail ==
  ASSUME NEW s \in Seq(Id), s # <<>>
  PROVE  ToSet(s) = {Head(s)} \cup ToSet(Tail(s))
<1>1. /\ Len(s) \in Nat \ {0} /\ DOMAIN s = 1..Len(s) /\ DOMAIN Tail(s) = 1..(Len(s) - 1)
      /\ Head(s) = s[1]
      /\ \A j \in 1..(Len(s) - 1) : Tail(s)[j] = s[j + 1]
  BY TailFacts
<1>2. ASSUME NEW j \in DOMAIN s
      PROVE  s[j] = Head(s) \/ (j - 1 \in DOMAIN Tail(s) /\ s[j] = Tail(s)[j - 1])
  BY <1>1, <1>2
<1>3. ASSUME NEW j \in DOMAIN Tail(s)
      PROVE  j + 1 \in DOMAIN s /\ Tail(s)[j] = s[j + 1]
  BY <1>1, <1>3
<1>4. 1 \in DOMAIN s
  BY <1>1
<1>5. ToSet(s) \subseteq {Head(s)} \cup ToSet(Tail(s))
  BY <1>2 DEF ToSet
<1>6. {Head(s)} \cup ToSet(Tail(s)) \subseteq ToSet(s)
  <2>1. Head(s) \in ToSet(s)
    BY <1>1, <1>4 DEF ToSet
  <2>2. ToSet(Tail(s)) \subseteq ToSet(s)
    BY <1>3 DEF ToSet
  <2>3. QED
    BY <2>1, <2>2
<1>7. QED
  BY <1>5, <1>6

(* The log only grows.                                                     *)
LogGrows ==
  /\ DOMAIN log' = 1..Len(log') /\ Len(log') \in Nat
  /\ Len(log) <= Len(log')
  /\ \A i \in DOMAIN log' : i <= Len(log) => i \in DOMAIN log /\ log'[i] = log[i]

LEMMA LogStep == ASSUME TypeInv, [Next]_vars PROVE LogGrows
<1>1. DOMAIN log = 1..Len(log) /\ Len(log) \in Nat
  BY DEF TypeInv, TypeOK
<1>2. ASSUME log' = log
      PROVE  LogGrows
  BY <1>1, <1>2 DEF LogGrows
<1>3. ASSUME NEW kinds \in Seq(Kind), Enqueue(kinds)
      PROVE  LogGrows
  <2>1. /\ log' \in Seq(Kind) /\ Len(log') = Len(log) + Len(kinds) /\ Len(kinds) \in Nat
        /\ \A i \in 1..Len(log) : log'[i] = log[i]
    BY <1>3, ConcatFacts DEF Enqueue, TypeInv, TypeOK
  <2>2. DOMAIN log' = 1..Len(log')
    BY <2>1
  <2>3. QED
    BY <1>1, <2>1, <2>2 DEF LogGrows
<1>4. CASE UiNext
  <2>1. ASSUME NEW kind \in SentKinds, Send(kind)
        PROVE  LogGrows
    <3>1. <<kind>> \in Seq(Kind)
      BY KindAssumption
    <3>2. QED
      BY <1>3, <2>1, <3>1 DEF Send
  <2>2. ASSUME NEW last \in LastRequests, UiExits(last)
        PROVE  LogGrows
    <3>1. last \in Seq(Kind)
      BY LastAreKinds
    <3>2. QED
      BY <1>3, <2>2, <3>1 DEF UiExits
  <2>3. CASE UiPanic
    BY <1>2, <2>3 DEF UiPanic
  <2>4. QED
    BY <1>4, <2>1, <2>2, <2>3 DEF UiNext
<1>5. CASE TakeMessage \/ IdleAbort \/ IdleContext \/ IdleOperation \/ IdleShutdown
           \/ IdleClosed
  BY <1>2, <1>5 DEF TakeMessage, IdleAbort, IdleContext, IdleOperation, IdleShutdown,
                    IdleClosed, IdleRequest, link
<1>6. CASE TurnRequest
  BY <1>2, <1>6 DEF TurnRequest, TurnMessage, TurnContext, TurnOperation, TurnAbort,
                    TurnShutdown, TurnClosed, Receive, link
<1>7. CASE Prepare \/ StreamEnds \/ ApplyDeferred \/ DeferredShutdown \/ Settled
           \/ SessionEnd
  BY <1>2, <1>7 DEF Prepare, StreamEnds, ApplyDeferred, DeferredShutdown, Settled,
                    SessionEnd, link
<1>8. CASE LoopNext \/ \E blocked \in BOOLEAN : Preflight(blocked)
  BY <1>2, <1>8 DEF LoopNext, LoopTop, CallReturns, Watcher, Preflight, link
<1>9. CASE UNCHANGED vars
  BY <1>2, <1>9 DEF vars, link
<1>10. QED
  BY <1>4, <1>5, <1>6, <1>7, <1>8, <1>9 DEF Next, WorkerNext

(* A step that reads no context request, or keeps the one it reads, loses  *)
(* none.                                                                   *)
LEMMA NoneLostFrame ==
  ASSUME ShutdownInv, LogGrows, ~Over' => ~Over, Remembered \subseteq Remembered',
         \/ Read' = Read
         \/ /\ Read' = Read + 1 /\ log' = log
            /\ log[Read + 1] \notin Context \/ Read + 1 \in Remembered'
  PROVE  NoneLost'
<1>1. Read \in Nat /\ Len(log) \in Nat /\ Len(requests) \in Nat /\ Read <= Len(log)
  BY ReadIsNat DEF ShutdownInv, ContextInv, TypeInv, ChannelInOrder, Read
<1>2. SUFFICES ASSUME ~Over', NEW i \in Sent(Context)', i <= Read'
               PROVE  i \in Remembered'
  BY DEF NoneLost
<1>3. CASE i <= Read
  <2>1. i \in Sent(Context)
    BY <1>1, <1>2, <1>3 DEF Sent, LogGrows, ShutdownInv, ContextInv, TypeInv, TypeOK
  <2>2. QED
    BY <1>2, <1>3, <2>1 DEF ShutdownInv, NoneLost
<1>4. CASE ~(i <= Read)
  <2>1. /\ i \in DOMAIN log' /\ log'[i] \in Context
        /\ Read' = Read + 1 /\ log' = log
    BY <1>2, <1>4 DEF Sent
  <2>2. DOMAIN log = 1..Len(log)
    BY DEF ShutdownInv, ContextInv, TypeInv, TypeOK
  <2>3. i = Read + 1
    BY <1>1, <1>2, <1>4, <2>1, <2>2
  <2>4. QED
    BY <2>1, <2>3
<1>5. QED
  BY <1>3, <1>4

LEMMA RepliesFrame ==
  ASSUME ShutdownInv, LogGrows, responder' = responder, Over => Over',
         ToSet(applied) \subseteq ToSet(applied)'
  PROVE  RepliesLast'
<1>1. SUFFICES ASSUME responder # None
               PROVE  /\ Over'
                      /\ responder <= Len(log')
                      /\ \A i \in Sent(Context)' : i < responder => i \in ToSet(applied)'
  BY DEF RepliesLast
<1>2. /\ Over /\ responder <= Len(log) /\ responder \in Nat
      /\ \A i \in Sent(Context) : i < responder => i \in ToSet(applied)
  BY <1>1, IdIsNat DEF ShutdownInv, RepliesLast, ContextInv, TypeInv, TypeOK
<1>3. Len(log) \in Nat /\ DOMAIN log = 1..Len(log) /\ Len(log) <= Len(log')
  BY DEF ShutdownInv, ContextInv, TypeInv, TypeOK, LogGrows
<1>4. responder <= Len(log')
  BY <1>2, <1>3 DEF LogGrows
<1>5. ASSUME NEW i \in Sent(Context)', i < responder
      PROVE  i \in ToSet(applied)'
  <2>1. i \in DOMAIN log' /\ log'[i] \in Context
    BY <1>5 DEF Sent
  <2>2. i \in DOMAIN log
    BY <1>2, <1>3, <1>5, <2>1 DEF LogGrows
  <2>3. QED
    BY <1>2, <1>5, <2>1, <2>2 DEF Sent, LogGrows
<1>6. QED
  BY <1>2, <1>4, <1>5

LEMMA ReadStep ==
  ASSUME TypeInv, ChannelInOrder, NEW kinds, HasRequest(kinds),
         requests' = Tail(requests), log' = log
  PROVE  /\ Next1 = Read + 1 /\ Read' = Read + 1 /\ Next1 \in Id
         /\ log[Read + 1] \in kinds
BY ReadFacts DEF TypeInv, HasRequest

(* The steps that read a request.                                          *)
LEMMA ShutdownReads ==
  ASSUME ShutdownInv, LogGrows,
         \/ TakeMessage \/ IdleAbort \/ IdleContext \/ IdleOperation \/ IdleShutdown
         \/ TurnMessage \/ TurnContext \/ TurnOperation \/ TurnAbort \/ TurnShutdown
  PROVE  NoneLost' /\ RepliesLast'
<1> USE DEF ShutdownInv, ContextInv
<1>1. /\ "message" \notin Context /\ "abort" \notin Context /\ "shutdown" \notin Context
      /\ Operation \cap Context = {}
  BY DEF Operation, Context
<1>2. ASSUME NEW kinds, HasRequest(kinds), kinds \cap Context = {}, log' = log,
             requests' = Tail(requests), ~Over, UNCHANGED <<applied, deferred>>
      PROVE  NoneLost'
  <2>1. Read' = Read + 1 /\ log[Read + 1] \notin Context
    BY <1>2, ReadStep
  <2>2. QED
    BY <1>2, <2>1, NoneLostFrame DEF Remembered
<1>3. ASSUME ~Over, responder' = responder
      PROVE  RepliesLast'
  BY <1>3 DEF RepliesLast
<1>4. CASE TakeMessage
  <2>1. CASE steering # <<>>
    <3>1. Read' = Read /\ Remembered' = Remembered /\ ~Over
      BY <1>4, <2>1 DEF TakeMessage, Read, Remembered, know, Over
    <3>2. QED
      BY <1>3, <1>4, <3>1, NoneLostFrame DEF TakeMessage
  <2>2. CASE steering = <<>>
    <3>1. /\ HasRequest({"message"}) /\ requests' = Tail(requests) /\ log' = log /\ ~Over
          /\ UNCHANGED <<applied, deferred, responder>>
      BY <1>4, <2>2 DEF TakeMessage, know, Over
    <3>2. QED
      BY <1>1, <1>2, <1>3, <3>1
  <2>3. QED
    BY <2>1, <2>2
<1>5. CASE IdleAbort
  BY <1>1, <1>2, <1>3, <1>5 DEF IdleAbort, IdleRequest, know, Over
<1>6. CASE IdleOperation
  BY <1>1, <1>2, <1>3, <1>6 DEF IdleOperation, IdleRequest, know, Over
<1>7. CASE IdleShutdown
  <2>1. /\ HasRequest({"shutdown"}) /\ requests' = Tail(requests) /\ log' = log
        /\ ~Over /\ UNCHANGED <<applied, deferred>> /\ deferred = <<>>
        /\ Over' /\ responder' = Next1
    BY <1>7 DEF IdleShutdown, IdleRequest, know, Over, ContextOrder
  <2>2. Next1 = Read + 1 /\ Read \in Nat /\ Read + 1 <= Len(log)
    <3>1. Next1 = Read + 1 /\ Read' = Read + 1
      BY <2>1, ReadStep
    <3>2. Read \in Nat /\ Len(log) \in Nat /\ Len(requests) \in Nat
      BY ReadIsNat DEF TypeInv
    <3>3. Len(requests) # 0
      BY <2>1, EmptySeq DEF HasRequest, TypeInv, TypeOK
    <3>4. QED
      BY <3>1, <3>2, <3>3 DEF Read
  <2>3. ASSUME NEW i \in Sent(Context), i < Read + 1
        PROVE  i \in ToSet(applied)
    <3>1. i \in Nat
      BY DEF Sent, TypeInv, TypeOK
    <3>2. i <= Read
      BY <2>2, <2>3, <3>1
    <3>3. i \in Remembered
      BY <2>1, <3>2 DEF NoneLost
    <3>4. QED
      BY <2>1, <3>3 DEF Remembered, ToSet
  <2>4. NoneLost'
    BY <2>1 DEF NoneLost
  <2>5. RepliesLast'
    BY <2>1, <2>2, <2>3 DEF RepliesLast, Sent
  <2>6. QED
    BY <2>4, <2>5
<1>8. CASE IdleContext
  <2>1. /\ HasRequest(Context) /\ requests' = Tail(requests) /\ log' = log /\ ~Over
        /\ applied' = Append(applied, Next1)
        /\ UNCHANGED <<deferred, responder>>
    BY <1>8 DEF IdleContext, IdleRequest, ApplyContext, Over
  <2>2. Next1 = Read + 1 /\ Read' = Read + 1 /\ Next1 \in Id
    BY <2>1, ReadStep
  <2>3. ToSet(applied') = ToSet(applied) \cup {Read + 1}
    BY <2>1, <2>2, ToSetAppend DEF TypeInv, TypeOK
  <2>4. Remembered \subseteq Remembered' /\ Read + 1 \in Remembered'
    BY <2>1, <2>3 DEF Remembered
  <2>5. QED
    BY <1>3, <2>1, <2>2, <2>4, NoneLostFrame
<1>9. CASE TurnMessage \/ TurnOperation \/ TurnAbort
  <2>1. /\ HasRequest({"message"}) \/ HasRequest(Operation) \/ HasRequest({"abort"})
        /\ requests' = Tail(requests) /\ log' = log /\ ~Over
        /\ UNCHANGED <<applied, deferred, responder>>
    BY <1>9 DEF TurnMessage, TurnOperation, TurnAbort, Receive, know, Over, InTurn
  <2>2. QED
    BY <1>1, <1>2, <1>3, <2>1
<1>10. CASE TurnContext \/ TurnShutdown
  <2>1. /\ HasRequest(Context) \/ HasRequest({"shutdown"})
        /\ requests' = Tail(requests) /\ log' = log /\ ~Over
        /\ deferred' = Append(deferred, Next1)
        /\ UNCHANGED <<applied, responder>>
    BY <1>10 DEF TurnContext, TurnShutdown, Receive, know, Over, InTurn
  <2>2. Next1 = Read + 1 /\ Read' = Read + 1 /\ Next1 \in Id
    BY <2>1, ReadStep
  <2>3. ToSet(deferred') = ToSet(deferred) \cup {Read + 1}
    BY <2>1, <2>2, ToSetAppend DEF TypeInv, TypeOK
  <2>4. Remembered \subseteq Remembered' /\ Read + 1 \in Remembered'
    BY <2>1, <2>3 DEF Remembered
  <2>5. QED
    BY <1>3, <2>1, <2>2, <2>4, NoneLostFrame
<1>11. QED
  BY <1>4, <1>5, <1>6, <1>7, <1>8, <1>9, <1>10

(* The steps after a turn.                                                 *)
LEMMA ShutdownSettles ==
  ASSUME ShutdownInv, LogGrows, ApplyDeferred \/ DeferredShutdown
  PROVE  NoneLost' /\ RepliesLast'
<1> USE DEF ShutdownInv, ContextInv
<1>1. CASE ApplyDeferred
  <2>1. /\ deferred # <<>> /\ deferred' = Tail(deferred)
        /\ applied' = Append(applied, Head(deferred))
        /\ Read' = Read /\ ~Over /\ responder' = responder
    BY <1>1 DEF ApplyDeferred, ApplyContext, link, Read, Over
  <2>2. Head(deferred) \in Id
    BY <2>1, TailFacts DEF TypeInv, TypeOK
  <2>3. ToSet(applied') = ToSet(applied) \cup {Head(deferred)}
    BY <2>1, <2>2, ToSetAppend DEF TypeInv, TypeOK
  <2>4. ToSet(deferred) = {Head(deferred)} \cup ToSet(deferred')
    BY <2>1, ToSetTail DEF TypeInv, TypeOK
  <2>5. Remembered \subseteq Remembered'
    BY <2>3, <2>4 DEF Remembered
  <2>6. NoneLost'
    BY <2>1, <2>5, NoneLostFrame
  <2>7. RepliesLast'
    BY <2>1 DEF RepliesLast
  <2>8. QED
    BY <2>6, <2>7
<1>2. CASE DeferredShutdown
  <2>1. /\ deferred # <<>> /\ ~Over /\ Over' /\ UNCHANGED <<log, applied>>
        /\ responder' = Head(deferred)
    BY <1>2 DEF DeferredShutdown, link, know, Over
  <2>2. 1 \in DOMAIN deferred /\ Head(deferred) = deferred[1]
    BY <2>1, TailElements DEF TypeInv, TypeOK
  <2>3. Head(deferred) <= Read
    BY <2>2 DEF ContextOrder, UpTo
  <2>4. Read \in Nat /\ Len(log) \in Nat /\ Read <= Len(log) /\ Head(deferred) \in Nat
    <3>1. Read \in Nat /\ Len(log) \in Nat /\ Len(requests) \in Nat
      BY ReadIsNat DEF TypeInv
    <3>2. Head(deferred) \in Nat
      BY <2>2, ContextElements DEF TypeInv
    <3>3. QED
      BY <3>1, <3>2 DEF Read
  <2>5. ASSUME NEW i \in Sent(Context), i < Head(deferred)
        PROVE  i \in ToSet(applied)
    <3>1. i \in Nat
      BY DEF Sent, TypeInv, TypeOK
    <3>2. i <= Read
      BY <2>3, <2>4, <2>5, <3>1
    <3>3. i \in ToSet(applied) \/ i \in ToSet(deferred)
      BY <2>1, <3>2 DEF NoneLost, Remembered
    <3>4. ASSUME i \in ToSet(deferred)
          PROVE  FALSE
      <4>1. PICK j \in DOMAIN deferred : deferred[j] = i
        BY <3>4 DEF ToSet
      <4>2. j \in Nat \ {0}
        BY <4>1 DEF TypeInv, TypeOK
      <4>3. j = 1 \/ 1 < j
        BY <4>2
      <4>4. CASE 1 < j
        BY <2>2, <2>4, <2>5, <3>1, <4>1, <4>4 DEF ContextOrder, Increasing
      <4>5. CASE j = 1
        BY <2>2, <2>4, <2>5, <4>1, <4>5
      <4>6. QED
        BY <4>3, <4>4, <4>5
    <3>5. QED
      BY <3>3, <3>4
  <2>6. NoneLost'
    BY <2>1 DEF NoneLost
  <2>7. RepliesLast'
    BY <2>1, <2>3, <2>4, <2>5 DEF RepliesLast, Sent
  <2>8. QED
    BY <2>6, <2>7
<1>3. QED
  BY <1>1, <1>2

LEMMA ShutdownStep ==
  ASSUME ShutdownInv, [Next]_vars
  PROVE  NoneLost' /\ RepliesLast'
<1>1. LogGrows
  BY LogStep DEF ShutdownInv, ContextInv
<1>2. ASSUME UNCHANGED <<applied, deferred, responder>>, Read' = Read, Over' <=> Over
      PROVE  NoneLost' /\ RepliesLast'
  <2>1. NoneLost'
    BY <1>1, <1>2, NoneLostFrame DEF Remembered
  <2>2. RepliesLast'
    BY <1>1, <1>2, RepliesFrame
  <2>3. QED
    BY <2>1, <2>2
<1>3. CASE UiNext
  <2>1. Read' = Read
    BY <1>3, UiKeepsRead DEF ShutdownInv, ContextInv
  <2>2. UNCHANGED <<applied, deferred, responder, pc>>
    BY <1>3 DEF UiNext, Send, UiExits, UiPanic, know
  <2>3. QED
    BY <1>2, <2>1, <2>2 DEF Over
<1>4. CASE IdleClosed \/ TurnClosed
  <2>1. /\ UNCHANGED <<applied, responder>> /\ ~Over /\ Over'
    BY <1>4 DEF IdleClosed, TurnClosed, know, Over, InTurn
  <2>2. QED
    BY <2>1 DEF ShutdownInv, NoneLost, RepliesLast
<1>5. ASSUME NEW blocked \in BOOLEAN, Preflight(blocked)
      PROVE  NoneLost' /\ RepliesLast'
  BY <1>2, <1>5 DEF Preflight, link, know, Read, Over
<1>6. CASE Prepare \/ LoopTop \/ Watcher
  BY <1>2, <1>6 DEF Prepare, LoopTop, Watcher, link, know, Read, Over
<1>7. ASSUME NEW continue \in BOOLEAN, CallReturns(continue)
      PROVE  NoneLost' /\ RepliesLast'
  BY <1>2, <1>7 DEF CallReturns, link, know, Read, Over
<1>8. CASE StreamEnds \/ Settled \/ SessionEnd
  BY <1>2, <1>8 DEF StreamEnds, Settled, SessionEnd, link, know, Read, Over, InTurn
<1>9. CASE UNCHANGED vars
  BY <1>2, <1>9 DEF vars, link, know, Read, Over
<1>10. QED
  BY <1>1, <1>3, <1>4, <1>5, <1>6, <1>7, <1>8, <1>9, ShutdownReads, ShutdownSettles
     DEF Next, WorkerNext, LoopNext, TurnRequest

(* Shutdown is acknowledged after everything that was asked of the session *)
(* before it, the final save included, for any number of requests and       *)
(* whether or not a turn was running when it came.                          *)
THEOREM ShutdownIsLast == Spec => []ShutdownComesLast
<1>1. Init => ShutdownInv
  <2> SUFFICES ASSUME Init PROVE NoneLost /\ RepliesLast
    BY ContextInit DEF ShutdownInv
  <2>1. DOMAIN log = {} /\ responder = None
    BY DEF Init
  <2>2. QED
    BY <2>1 DEF NoneLost, RepliesLast, Sent
<1>2. ShutdownInv /\ [Next]_vars => ShutdownInv'
  <2> SUFFICES ASSUME ShutdownInv, [Next]_vars PROVE ShutdownInv'
    OBVIOUS
  <2>1. ContextInv'
    BY TypeStep, ChannelStep, ContextStep DEF ShutdownInv, ContextInv
  <2>2. QED
    BY <2>1, ShutdownStep DEF ShutdownInv
<1>3. ShutdownInv => ShutdownComesLast
  BY DEF ShutdownInv, RepliesLast, ShutdownComesLast
<1>4. QED
  BY <1>1, <1>2, <1>3, PTL DEF Spec
-----------------------------------------------------------------------------
(* Aborts.  A set flag can end one more turn, which is paid for by an      *)
(* Abort or Shutdown that ended none: Loaded counts it.                    *)
Ending == {"abort", "shutdown"}
Handled == {i \in Sent(Ending) : i <= Read}
Loaded ==
  IF /\ abortFlag /\ pc \notin {"shutdown", "ending", "stopped"}
     /\ ~(loop = "returned" /\ turn \in killed)
  THEN 1 ELSE 0
AbortInv ==
  /\ TypeInv /\ ChannelInOrder /\ LoopInTurn
  /\ Cardinality(killed) + Loaded <= Cardinality(Handled)

LEMMA AbortSets ==
  ASSUME TypeInv
  PROVE  /\ IsFiniteSet(killed) /\ Cardinality(killed) \in Nat
         /\ IsFiniteSet(Handled) /\ Cardinality(Handled) \in Nat
         /\ IsFiniteSet(killed \cup {turn})
         /\ Cardinality(killed \cup {turn}) <= Cardinality(killed) + 1
<1>1. IsFiniteSet(Id)
  BY BoundAssumption, FS_Interval DEF Id
<1>2. IsFiniteSet(killed)
  BY <1>1, FS_Subset DEF TypeInv, TypeOK
<1>3. IsFiniteSet(Handled)
  <2>1. Len(log) \in Nat /\ DOMAIN log = 1..Len(log)
    BY DEF TypeInv, TypeOK
  <2>2. IsFiniteSet(1..Len(log))
    BY <2>1, FS_Interval
  <2>3. Handled \subseteq 1..Len(log)
    BY <2>1 DEF Handled, Sent
  <2>4. QED
    BY <2>2, <2>3, FS_Subset
<1>4. IsFiniteSet(killed \cup {turn})
  BY <1>2, FS_AddElement
<1>5. Cardinality(killed) \in Nat /\ Cardinality(Handled) \in Nat
  BY <1>2, <1>3, FS_CardinalityType
<1>6. Cardinality(killed \cup {turn}) <= Cardinality(killed) + 1
  <2>1. CASE turn \in killed
    <3>1. killed \cup {turn} = killed
      BY <2>1
    <3>2. QED
      BY <1>5, <3>1
  <2>2. CASE turn \notin killed
    <3>1. Cardinality(killed \cup {turn}) = Cardinality(killed) + 1
      BY <1>2, <2>2, FS_AddElement
    <3>2. QED
      BY <1>5, <3>1
  <2>3. QED
    BY <2>1, <2>2
<1>7. QED
  BY <1>2, <1>3, <1>4, <1>5, <1>6

LEMMA AbortSetsNext ==
  ASSUME TypeInv'
  PROVE  /\ IsFiniteSet(Handled') /\ Cardinality(Handled') \in Nat
         /\ Cardinality(killed') \in Nat
<1>1. IsFiniteSet(killed')
  <2>1. IsFiniteSet(Id)
    BY BoundAssumption, FS_Interval DEF Id
  <2>2. killed' \subseteq Id
    BY DEF TypeInv, TypeOK
  <2>3. QED
    BY <2>1, <2>2, FS_Subset
<1>2. Len(log') \in Nat /\ DOMAIN log' = 1..Len(log')
  BY DEF TypeInv, TypeOK
<1>3. IsFiniteSet(1..Len(log'))
  BY <1>2, FS_Interval
<1>4. Handled' \subseteq 1..Len(log')
  BY <1>2 DEF Handled, Sent
<1>5. QED
  BY <1>1, <1>3, <1>4, FS_Subset, FS_CardinalityType

(* The channel holds what is not read yet.                                 *)
LEMMA HandledAreRead ==
  ASSUME TypeInv, ChannelInOrder
  PROVE  Handled = Sent(Ending) \ ToSet(requests)
<1>1. Read \in Nat /\ Len(log) \in Nat /\ Len(requests) \in Nat /\ Len(log) = Read + Len(requests)
  BY ReadIsNat DEF TypeInv, Read
<1>2. /\ DOMAIN log = 1..Len(log) /\ DOMAIN requests = 1..Len(requests)
      /\ \A j \in 1..Len(requests) : requests[j] = Read + j
  BY DEF TypeInv, TypeOK, ChannelInOrder
<1>3. ASSUME NEW i \in 1..Len(log)
      PROVE  i <= Read <=> i \notin ToSet(requests)
  <2>1. CASE i <= Read
    BY <1>1, <1>2, <2>1 DEF ToSet
  <2>2. CASE ~(i <= Read)
    <3>1. i - Read \in 1..Len(requests)
      BY <1>1, <2>2
    <3>2. requests[i - Read] = Read + (i - Read)
      BY <1>2, <3>1
    <3>3. i \in ToSet(requests)
      BY <1>1, <1>2, <3>1, <3>2 DEF ToSet
    <3>4. QED
      BY <2>2, <3>3
  <2>3. QED
    BY <2>1, <2>2
<1>4. QED
  BY <1>2, <1>3 DEF Handled, Sent

(* What was handled stays handled.                                         *)
LEMMA HandledGrows ==
  ASSUME TypeInv, TypeInv', ChannelInOrder, LogGrows, Read' = Read \/ Read' = Read + 1
  PROVE  Cardinality(Handled) <= Cardinality(Handled')
<1>1. Read \in Nat /\ Len(log) \in Nat /\ Len(requests) \in Nat /\ Read <= Len(log)
  BY ReadIsNat DEF TypeInv, ChannelInOrder, Read
<1>2. DOMAIN log = 1..Len(log)
  BY DEF TypeInv, TypeOK
<1>3. ASSUME NEW i \in Handled
      PROVE  i \in Handled'
  <2>1. i \in 1..Len(log) /\ log[i] \in Ending /\ i <= Read
    BY <1>2, <1>3 DEF Handled, Sent
  <2>2. i \in DOMAIN log' /\ log'[i] = log[i]
    BY <1>1, <2>1 DEF LogGrows
  <2>3. QED
    BY <1>1, <2>1, <2>2 DEF Handled, Sent
<1>4. IsFiniteSet(Handled')
  BY AbortSetsNext
<1>5. QED
  BY <1>3, <1>4, FS_Subset

(* An Abort or a Shutdown that is read is one more.                        *)
LEMMA HandledMore ==
  ASSUME TypeInv, ChannelInOrder, NEW kinds, kinds \subseteq Ending, HasRequest(kinds),
         requests' = Tail(requests), log' = log
  PROVE  Cardinality(Handled') = Cardinality(Handled) + 1
<1>1. /\ Read' = Read + 1 /\ log[Read + 1] \in Ending /\ Read \in Nat
      /\ Len(log) \in Nat /\ Len(requests) \in Nat
  BY ReadStep, ReadIsNat DEF TypeInv
<1>2. Len(requests) # 0
  BY EmptySeq DEF HasRequest, TypeInv, TypeOK
<1>3. DOMAIN log = 1..Len(log) /\ Read + 1 \in DOMAIN log
  BY <1>1, <1>2 DEF TypeInv, TypeOK, Read
<1>4. Handled' = Handled \cup {Read + 1}
  BY <1>1, <1>3 DEF Handled, Sent
<1>5. Read + 1 \notin Handled
  BY <1>1 DEF Handled
<1>6. QED
  BY <1>4, <1>5, AbortSets, FS_AddElement

LEMMA AbortStep ==
  ASSUME AbortInv, [Next]_vars
  PROVE  Cardinality(killed') + Loaded' <= Cardinality(Handled')
<1> USE DEF AbortInv
<1>1. TypeInv'
  BY TypeStep
<1>2. Cardinality(Handled) <= Cardinality(Handled')
  BY <1>1, LogStep, ChannelStep, HandledGrows
<1>3. /\ Cardinality(killed) \in Nat /\ Cardinality(Handled) \in Nat
      /\ Cardinality(killed \cup {turn}) <= Cardinality(killed) + 1
      /\ Cardinality(Handled') \in Nat /\ Cardinality(killed') \in Nat
      /\ Cardinality(killed \cup {turn}) \in Nat
      /\ Loaded \in 0..1 /\ Loaded' \in 0..1
  <2>1. Cardinality(killed \cup {turn}) \in Nat
    BY AbortSets, FS_CardinalityType
  <2>2. Cardinality(Handled') \in Nat /\ Cardinality(killed') \in Nat
    BY <1>1, AbortSetsNext
  <2>3. QED
    BY <2>1, <2>2, AbortSets DEF Loaded
<1>4. ASSUME killed' = killed, Loaded' <= Loaded
      PROVE  Cardinality(killed') + Loaded' <= Cardinality(Handled')
  BY <1>2, <1>3, <1>4
<1>5. ASSUME NEW kinds, kinds \subseteq Ending, HasRequest(kinds),
             requests' = Tail(requests), log' = log, killed' = killed
      PROVE  Cardinality(killed') + Loaded' <= Cardinality(Handled')
  <2>1. Cardinality(Handled') = Cardinality(Handled) + 1
    BY <1>5, HandledMore
  <2>2. QED
    BY <1>3, <1>5, <2>1
<1>6. CASE UiNext
  <2>1. UNCHANGED <<killed, abortFlag, pc, loop, turn>>
    BY <1>6 DEF UiNext, Send, UiExits, UiPanic, run, past
  <2>2. QED
    BY <1>3, <1>4, <2>1 DEF Loaded
<1>7. CASE TakeMessage \/ IdleOperation \/ IdleClosed
  BY <1>4, <1>7, <1>3 DEF TakeMessage, IdleOperation, IdleClosed, IdleRequest, run, past,
                          Loaded, LoopInTurn, InTurn
<1>8. CASE IdleContext
  BY <1>4, <1>8, <1>3 DEF IdleContext, IdleRequest, ApplyContext, run, past, Loaded
<1>9. CASE IdleAbort \/ IdleShutdown
  <2>1. /\ HasRequest({"abort"}) \/ HasRequest({"shutdown"})
        /\ requests' = Tail(requests) /\ log' = log /\ killed' = killed
    BY <1>9 DEF IdleAbort, IdleShutdown, IdleRequest, past
  <2>2. QED
    BY <1>5, <2>1 DEF Ending
<1>10. ASSUME NEW blocked \in BOOLEAN, Preflight(blocked)
       PROVE  Cardinality(killed') + Loaded' <= Cardinality(Handled')
  <2>1. killed' = killed /\ abortFlag' = abortFlag /\ loop = "off"
    BY <1>10 DEF Preflight, past, LoopInTurn, InTurn
  <2>2. Loaded = IF abortFlag THEN 1 ELSE 0
    BY <1>10, <2>1 DEF Preflight, Loaded
  <2>3. QED
    BY <1>3, <1>4, <2>1, <2>2 DEF Loaded
<1>11. CASE Prepare \/ Watcher
  BY <1>4, <1>11, <1>3 DEF Prepare, Watcher, past, Loaded, InTurn
<1>12. ASSUME NEW continue \in BOOLEAN, CallReturns(continue)
       PROVE  Cardinality(killed') + Loaded' <= Cardinality(Handled')
  BY <1>4, <1>12, <1>3 DEF CallReturns, past, Loaded, InTurn
<1>13. CASE LoopTop
  <2>1. CASE killed' = killed
    BY <1>4, <1>13, <1>3, <2>1 DEF LoopTop, Loaded, InTurn
  <2>2. CASE killed' # killed
    <3>1. /\ killed' = killed \cup {turn} /\ loop' = "returned" /\ turn' = turn
          /\ abortFlag /\ pc = "turn" /\ loop = "top"
      BY <1>13, <2>2 DEF LoopTop, InTurn
    <3>2. Loaded = 1 /\ Loaded' = 0
      BY <3>1 DEF Loaded
    <3>3. QED
      BY <1>2, <1>3, <3>1, <3>2
  <2>3. QED
    BY <2>1, <2>2
<1>14. CASE TurnMessage \/ TurnContext \/ TurnOperation
  BY <1>4, <1>14, <1>3 DEF TurnMessage, TurnContext, TurnOperation, Receive, past, Loaded
<1>15. CASE TurnAbort \/ TurnShutdown
  <2>1. /\ HasRequest({"abort"}) \/ HasRequest({"shutdown"})
        /\ requests' = Tail(requests) /\ log' = log /\ killed' = killed
    BY <1>15 DEF TurnAbort, TurnShutdown, Receive, past
  <2>2. QED
    BY <1>5, <2>1 DEF Ending
<1>16. CASE TurnClosed
  BY <1>4, <1>16, <1>3 DEF TurnClosed, past, Loaded
<1>17. CASE StreamEnds
  <2>1. Loaded' = 0
    BY <1>17 DEF StreamEnds, FlagAfterTurn, Loaded
  <2>2. QED
    BY <1>3, <1>4, <1>17, <2>1 DEF StreamEnds, past
<1>18. CASE ApplyDeferred
  BY <1>4, <1>18, <1>3 DEF ApplyDeferred, ApplyContext, run, past, Loaded
<1>19. CASE DeferredShutdown \/ Settled \/ SessionEnd
  BY <1>4, <1>19, <1>3 DEF DeferredShutdown, Settled, SessionEnd, run, past, Loaded
<1>20. CASE UNCHANGED vars
  BY <1>4, <1>20, <1>3 DEF vars, run, past, Loaded
<1>21. QED
  BY <1>6, <1>7, <1>8, <1>9, <1>10, <1>11, <1>12, <1>13, <1>14, <1>15, <1>16, <1>17,
     <1>18, <1>19, <1>20 DEF Next, WorkerNext, LoopNext, TurnRequest

(* No more turns end on the abort check than aborts and shutdowns were     *)
(* handled, for any number of them: the flag of one never ends two turns.  *)
THEOREM EachAbortEndsOneTurn == Spec => []AbortsAreNotMultiplied
<1>1. Init => AbortInv
  <2> SUFFICES ASSUME Init PROVE AbortInv
    OBVIOUS
  <2>1. TypeInv /\ ChannelInOrder /\ LoopInTurn
    BY ContextInit DEF ContextInv, Init, LoopInTurn, InTurn
  <2>2. killed = {} /\ Loaded = 0
    BY DEF Init, Loaded
  <2>3. Cardinality(killed) = 0 /\ Cardinality(Handled) \in Nat
    BY <2>1, <2>2, FS_EmptySet, AbortSets
  <2>4. QED
    BY <2>1, <2>2, <2>3 DEF AbortInv
<1>2. AbortInv /\ KnowInv /\ [Next]_vars => AbortInv' /\ KnowInv'
  BY TypeStep, ChannelStep, KnowStep, AbortStep DEF AbortInv, KnowInv
<1>3. AbortInv => AbortsAreNotMultiplied
  <2> SUFFICES ASSUME AbortInv PROVE AbortsAreNotMultiplied
    OBVIOUS
  <2>1. Handled = Sent(Ending) \ ToSet(requests)
    BY HandledAreRead DEF AbortInv
  <2>2. Cardinality(killed) \in Nat /\ Cardinality(Handled) \in Nat /\ Loaded \in 0..1
    BY AbortSets DEF AbortInv, Loaded
  <2>3. QED
    BY <2>1, <2>2 DEF AbortInv, AbortsAreNotMultiplied, Ending
<1>4. Init => KnowInv
  BY DEF Init, KnowInv, LoopInTurn, DialogFresh, DialogKeeps, KnowsWhatWasSaid, InTurn
<1>5. QED
  BY <1>1, <1>2, <1>3, <1>4, PTL DEF Spec
-----------------------------------------------------------------------------
(* Induction over numbers, for a set: the provers know none with a         *)
(* property as a parameter.                                                *)
LEMMA LeastNat ==
  ASSUME NEW T, T \subseteq Nat, T # {}
  PROVE  \E x \in T : \A y \in T : x <= y
<1>1. \E R : IsWellFoundedOn(R, Nat) /\ \A x, y \in Nat : y < x => <<y, x>> \in R
  <2>1. IsWellFoundedOn(OpToRel(<, Nat), Nat)
    BY NatLessThanWellFounded
  <2>2. \A x, y \in Nat : y < x => <<y, x>> \in OpToRel(<, Nat)
    BY DEF OpToRel
  <2>3. QED
    BY <2>1, <2>2, Zenon
<1>2. PICK R : IsWellFoundedOn(R, Nat) /\ \A x, y \in Nat : y < x => <<y, x>> \in R
  BY <1>1, Zenon
<1>3. \E x \in T : \A y \in T : ~(<<y, x>> \in R)
  BY <1>2, WFMin, Zenon
<1>4. \A x, y \in Nat : y < x => <<y, x>> \in R
  BY <1>2, Zenon
<1>5. \A x, y \in T : ~(y < x) => x <= y
  OBVIOUS
<1>6. QED
  BY <1>3, <1>4, <1>5, Zenon
-----------------------------------------------------------------------------
Lists(s, ids) == s \in Seq(ids) /\ Increasing(s) /\ ToSet(s) = ids

LEMMA ListIsAsLong ==
  ASSUME NEW ids \in SUBSET Nat, NEW s, Lists(s, ids)
  PROVE  Cardinality(ids) = Len(s) /\ s \in [1..Len(s) -> ids] /\ Len(s) \in Nat
<1>1. Len(s) \in Nat /\ s \in [1..Len(s) -> ids]
  BY DEF Lists
<1>2. \A j, k \in 1..Len(s) : s[j] = s[k] => j = k
  <2>1. \A j, k \in 1..Len(s) : j < k => s[j] < s[k]
    BY <1>1 DEF Lists, Increasing
  <2>2. \A j \in 1..Len(s) : s[j] \in Nat
    BY <1>1
  <2>3. QED
    BY <1>1, <2>1, <2>2
<1>3. \A i \in ids : \E j \in 1..Len(s) : s[j] = i
  BY <1>1 DEF Lists, ToSet
<1>4. s \in Bijection(1..Len(s), ids)
  BY <1>1, <1>2, <1>3 DEF Bijection, Injection, Surjection, IsInjective
<1>5. ExistsBijection(1..Len(s), ids)
  BY <1>4 DEF ExistsBijection
<1>6. QED
  BY <1>1, <1>5, FS_CountingElements

(* Where two lists first differ, the smaller id of the two is missing in   *)
(* the other list.                                                         *)
LEMMA ListsAgree ==
  ASSUME NEW ids \in SUBSET Nat, NEW s, NEW t, Lists(s, ids), Lists(t, ids),
         NEW k \in 1..Len(s), Len(s) = Len(t),
         \A j \in 1..Len(s) : s[j] # t[j] => k <= j
  PROVE  ~(s[k] < t[k])
<1>1. s \in [1..Len(s) -> ids] /\ t \in [1..Len(s) -> ids] /\ Len(s) \in Nat
  BY ListIsAsLong
<1>2. \A j \in 1..Len(s) : s[j] \in Nat /\ t[j] \in Nat
  BY <1>1
<1>3. PICK j \in 1..Len(s) : t[j] = s[k]
  BY <1>1 DEF Lists, ToSet
<1>4. CASE j < k
  <2>1. s[j] < s[k]
    BY <1>1, <1>4 DEF Lists, Increasing
  <2>2. s[j] = t[j]
    BY <1>1, <1>4
  <2>3. QED
    BY <1>2, <1>3, <2>1, <2>2
<1>5. CASE j = k
  BY <1>2, <1>3, <1>5
<1>6. CASE k < j
  <2>1. t[k] < t[j]
    BY <1>1, <1>6 DEF Lists, Increasing
  <2>2. QED
    BY <1>2, <1>3, <2>1
<1>7. QED
  BY <1>1, <1>4, <1>5, <1>6

LEMMA OneList ==
  ASSUME NEW ids \in SUBSET Nat, NEW s, NEW t, Lists(s, ids), Lists(t, ids)
  PROVE  s = t
<1> DEFINE Differ == {j \in 1..Len(s) : s[j] # t[j]}
<1>1. /\ s \in [1..Len(s) -> ids] /\ t \in [1..Len(t) -> ids]
      /\ Len(s) \in Nat /\ Len(s) = Len(t)
  BY ListIsAsLong
<1>2. ASSUME Differ # {}
      PROVE  FALSE
  <2>1. PICK k \in Differ : \A j \in Differ : k <= j
    <3>1. Differ \subseteq Nat
      BY <1>1
    <3> HIDE DEF Differ
    <3>2. QED
      BY <1>2, <3>1, LeastNat
  <2>2. k \in 1..Len(s) /\ \A j \in 1..Len(s) : s[j] # t[j] => k <= j
    BY <2>1
  <2>3. ~(s[k] < t[k])
    BY <1>1, <2>2, ListsAgree
  <2>4. ~(t[k] < s[k])
    <3>1. \A j \in 1..Len(t) : t[j] # s[j] => k <= j
      BY <1>1, <2>2
    <3>2. k \in 1..Len(t)
      BY <1>1, <2>2
    <3>3. QED
      BY <1>1, <3>1, <3>2, ListsAgree
  <2>5. s[k] \in Nat /\ t[k] \in Nat /\ s[k] # t[k]
    BY <1>1, <2>1, <2>2
  <2>6. QED
    BY <2>3, <2>4, <2>5
<1>3. QED
  BY <1>1, <1>2

LEMMA OldestFirstIs ==
  ASSUME NEW ids \in SUBSET Nat, NEW s, Lists(s, ids)
  PROVE  OldestFirst(ids) = s
<1> DEFINE L(t) == t \in [1..Cardinality(ids) -> ids] /\ Increasing(t) /\ ToSet(t) = ids
<1>1. L(s)
  BY ListIsAsLong DEF Lists
<1>2. L(OldestFirst(ids))
  <2>1. \E t \in [1..Cardinality(ids) -> ids] : Increasing(t) /\ ToSet(t) = ids
    BY <1>1
  <2>2. QED
    BY <2>1 DEF OldestFirst
<1>3. \A t : L(t) => Lists(t, ids)
  <2>1. Cardinality(ids) \in Nat
    BY ListIsAsLong
  <2>2. \A t \in [1..Cardinality(ids) -> ids] : t \in Seq(ids)
    BY <2>1
  <2>3. QED
    BY <2>2 DEF Lists
<1>4. QED
  BY <1>2, <1>3, OneList

LEMMA ListsAppend ==
  ASSUME NEW ids \in SUBSET Nat, NEW s, Lists(s, ids),
         NEW i \in Nat, \A j \in ids : j < i
  PROVE  Lists(Append(s, i), ids \cup {i})
<1> DEFINE all == ids \cup {i}
           t == Append(s, i)
<1>1. s \in Seq(all) /\ i \in all
  BY SeqMonotonic DEF Lists
<1>2. /\ t \in Seq(all) /\ Len(s) \in Nat /\ Len(t) = Len(s) + 1
      /\ \A j \in 1..Len(s) : t[j] = s[j]
      /\ t[Len(s) + 1] = i
  BY <1>1, AppendFacts
<1>3. s \in [1..Len(s) -> ids] /\ DOMAIN t = 1..(Len(s) + 1)
  BY <1>2 DEF Lists
<1> HIDE DEF t
<1>4. Increasing(t)
  <2>1. \A j, k \in 1..Len(s) : j < k => s[j] < s[k]
    BY <1>3 DEF Lists, Increasing
  <2>2. \A j \in 1..Len(s) : s[j] < i
    BY <1>3
  <2>3. QED
    BY <1>2, <1>3, <2>1, <2>2 DEF Increasing
<1>5. ToSet(t) = all
  <2>1. \A j \in ids : \E k \in 1..Len(s) : s[k] = j
    BY <1>3 DEF Lists, ToSet
  <2>2. \A j \in all : \E k \in DOMAIN t : t[k] = j
    BY <1>2, <1>3, <2>1
  <2>3. \A k \in DOMAIN t : t[k] \in all
    BY <1>2
  <2>4. QED
    BY <2>2, <2>3 DEF ToSet
<1>6. QED
  BY <1>2, <1>4, <1>5 DEF Lists, t

LEMMA ListsTail ==
  ASSUME NEW ids \in SUBSET Nat, NEW s, Lists(s, ids),
         NEW i \in Nat, \A j \in ids : i < j
  PROVE  Lists(<<i>> \o s, ids \cup {i})
<1> DEFINE all == ids \cup {i}
           t == <<i>> \o s
<1>1. s \in Seq(all) /\ <<i>> \in Seq(all) /\ Len(<<i>>) = 1
  BY SeqMonotonic DEF Lists
<1>2. /\ t \in Seq(all) /\ Len(s) \in Nat /\ Len(t) = 1 + Len(s)
      /\ t[1] = i
      /\ \A j \in 1..Len(s) : t[1 + j] = s[j]
  BY <1>1, ConcatFacts
<1>3. s \in [1..Len(s) -> ids] /\ DOMAIN t = 1..(1 + Len(s))
  BY <1>2 DEF Lists
<1> HIDE DEF t
<1>4. \A k \in DOMAIN t : k = 1 \/ (k - 1 \in 1..Len(s) /\ t[k] = s[k - 1])
  <2>1. ASSUME NEW k \in DOMAIN t, k # 1
        PROVE  k - 1 \in 1..Len(s) /\ t[k] = s[k - 1]
    <3>1. k - 1 \in 1..Len(s) /\ 1 + (k - 1) = k
      BY <1>2, <1>3, <2>1
    <3>2. t[1 + (k - 1)] = s[k - 1]
      BY <1>2, <3>1
    <3>3. QED
      BY <3>1, <3>2
  <2>2. QED
    BY <2>1
<1>5. Increasing(t)
  <2>1. \A j, k \in 1..Len(s) : j < k => s[j] < s[k]
    BY <1>3 DEF Lists, Increasing
  <2>2. \A j \in 1..Len(s) : i < s[j]
    BY <1>3
  <2>3. ASSUME NEW j \in DOMAIN t, NEW k \in DOMAIN t, j < k
        PROVE  t[j] < t[k]
    <3>1. j \in Nat /\ k \in Nat /\ 1 <= j
      BY <1>2, <1>3
    <3>2. k - 1 \in 1..Len(s) /\ t[k] = s[k - 1]
      BY <1>4, <2>3, <3>1
    <3>3. CASE j = 1
      BY <1>2, <2>2, <3>2, <3>3
    <3>4. CASE j # 1
      <4>1. j - 1 \in 1..Len(s) /\ t[j] = s[j - 1]
        BY <1>4, <3>4
      <4>2. j - 1 < k - 1
        BY <2>3, <3>1
      <4>3. QED
        BY <2>1, <3>2, <4>1, <4>2
    <3>5. QED
      BY <3>3, <3>4
  <2>4. QED
    BY <2>3 DEF Increasing
<1>6. ToSet(t) = all
  <2>1. \A j \in ids : \E k \in 1..Len(s) : s[k] = j
    BY <1>3 DEF Lists, ToSet
  <2>2. \A j \in all : \E k \in DOMAIN t : t[k] = j
    BY <1>2, <1>3, <2>1
  <2>3. \A k \in DOMAIN t : t[k] \in all
    BY <1>2
  <2>4. QED
    BY <2>2, <2>3 DEF ToSet
<1>7. QED
  BY <1>2, <1>5, <1>6 DEF Lists, t

(* Every finite set of ids has its list: by induction on a bound.          *)
LEMMA EverySetIsListed ==
  ASSUME NEW n \in Nat, NEW ids \in SUBSET (1..n)
  PROVE  \E s : Lists(s, ids)
<1> DEFINE Bad == {m \in Nat : \E S \in SUBSET (1..m) : ~\E s : Lists(s, S)}
<1>1. ASSUME Bad # {}
      PROVE  FALSE
  <2>1. PICK m \in Bad : \A k \in Bad : m <= k
    <3>1. Bad \subseteq Nat
      OBVIOUS
    <3> HIDE DEF Bad
    <3>2. QED
      BY <1>1, <3>1, LeastNat
  <2>2. PICK S \in SUBSET (1..m) : ~\E s : Lists(s, S)
    BY <2>1
  <2>3. m \in Nat /\ m # 0
    <3>1. ASSUME m = 0
          PROVE  FALSE
      <4>1. S = {} /\ <<>> \in Seq({}) /\ DOMAIN <<>> = {}
        BY <2>2, <3>1
      <4>2. Lists(<<>>, S)
        BY <4>1 DEF Lists, Increasing, ToSet
      <4>3. QED
        BY <2>2, <4>2
    <3>2. QED
      BY <2>1, <3>1
  <2>4. m - 1 \in Nat /\ m - 1 \notin Bad /\ m \in Nat
    BY <2>1, <2>3
  <2>5. S \ {m} \in SUBSET (1..(m - 1))
    BY <2>2, <2>3
  <2>6. PICK s : Lists(s, S \ {m})
    BY <2>4, <2>5
  <2>7. CASE m \in S
    <3>1. \A j \in S \ {m} : j < m
      BY <2>2, <2>3
    <3>2. Lists(Append(s, m), (S \ {m}) \cup {m})
      <4>1. S \ {m} \in SUBSET Nat
        BY <2>2, <2>3
      <4> HIDE DEF Bad
      <4>2. QED
        BY <2>3, <2>6, <3>1, <4>1, ListsAppend
    <3>3. (S \ {m}) \cup {m} = S
      BY <2>7
    <3>4. QED
      BY <2>2, <3>2, <3>3
  <2>8. CASE m \notin S
    <3>1. S \ {m} = S
      BY <2>8
    <3>2. QED
      BY <2>2, <2>6, <3>1
  <2>9. QED
    BY <2>7, <2>8
<1>2. QED
  BY <1>1

LEMMA OldestFirstLists ==
  ASSUME NEW n \in Nat, NEW ids \in SUBSET (1..n)
  PROVE  Lists(OldestFirst(ids), ids)
<1>1. PICK s : Lists(s, ids)
  BY EverySetIsListed
<1>2. ids \in SUBSET Nat
  OBVIOUS
<1>3. QED
  BY <1>1, <1>2, OldestFirstIs

(* A younger id comes last, an older one first.                            *)
LEMMA OldestFirstGrows ==
  ASSUME NEW n \in Nat, NEW ids \in SUBSET (1..n), NEW i \in Nat
  PROVE  /\ (\A j \in ids : j < i) => OldestFirst(ids \cup {i}) = Append(OldestFirst(ids), i)
         /\ (\A j \in ids : i < j) => OldestFirst(ids \cup {i}) = <<i>> \o OldestFirst(ids)
<1>1. ids \in SUBSET Nat /\ ids \cup {i} \in SUBSET Nat
  OBVIOUS
<1>2. Lists(OldestFirst(ids), ids)
  BY OldestFirstLists
<1>3. QED
  BY <1>1, <1>2, ListsAppend, ListsTail, OldestFirstIs
-----------------------------------------------------------------------------
(* The worker as a service.  The messages not yet read are those numbered  *)
(* above Read; the service's queue is the turn that starts, the steering   *)
(* queue and these, oldest first.                                          *)
Coming == IF Starting THEN <<turn>> ELSE <<>>
Waiting == Coming \o steering \o OldestFirst(Unread)

LEMMA LastNumbers ==
  ASSUME NEW r \in Seq(Id), NEW g \in Seq(Kind), Len(r) <= Len(g),
         \A j \in 1..Len(r) : r[j] = (Len(g) - Len(r)) + j
  PROVE  ToSet(r) \cap {i \in DOMAIN g : g[i] \in {"message"}}
           = {i \in (Len(g) - Len(r) + 1)..Len(g) : g[i] = "message"}
<1>1. /\ Len(g) \in Nat /\ Len(r) \in Nat
      /\ DOMAIN g = 1..Len(g) /\ DOMAIN r = 1..Len(r)
  OBVIOUS
<1>2. ASSUME NEW i \in (Len(g) - Len(r) + 1)..Len(g)
      PROVE  i \in ToSet(r)
  <2>1. i - (Len(g) - Len(r)) \in 1..Len(r)
    BY <1>1
  <2>2. r[i - (Len(g) - Len(r))] = i
    BY <1>1, <2>1
  <2>3. QED
    BY <1>1, <2>1, <2>2 DEF ToSet
<1>3. ASSUME NEW i \in ToSet(r)
      PROVE  i \in (Len(g) - Len(r) + 1)..Len(g)
  <2>1. PICK j \in 1..Len(r) : r[j] = i
    BY <1>1 DEF ToSet
  <2>2. QED
    BY <1>1, <2>1
<1>4. QED
  BY <1>1, <1>2, <1>3

LEMMA UnreadIs ==
  ASSUME TypeInv, ChannelInOrder
  PROVE  /\ Unread = {i \in (Read + 1)..Len(log) : log[i] = "message"}
         /\ Len(log) \in Nat /\ Read \in Nat
         /\ Unread \in SUBSET (1..Len(log)) /\ Unread \in SUBSET Id
<1>1. Read \in Nat /\ Len(log) \in Nat /\ Len(requests) \in Nat
  BY ReadIsNat DEF TypeInv
<1>2. Unread = {i \in (Read + 1)..Len(log) : log[i] = "message"}
  BY LastNumbers DEF TypeInv, TypeOK, ChannelInOrder, Unread, Sent, Read
<1>3. Len(log) <= MaxRequests + 2 /\ MaxRequests \in Nat
  BY BoundAssumption DEF TypeInv, TypeOK
<1>4. QED
  BY <1>1, <1>2, <1>3 DEF Id

LEMMA UnreadNext ==
  ASSUME TypeInv', ChannelInOrder'
  PROVE  Unread' = {i \in (Read' + 1)..Len(log') : log'[i] = "message"}
BY LastNumbers DEF TypeInv, TypeOK, ChannelInOrder, Unread, Sent, Read

LEMMA WaitingType ==
  ASSUME TypeInv, ChannelInOrder
  PROVE  /\ OldestFirst(Unread) \in Seq(Id)
         /\ Coming \in Seq(Id) /\ steering \in Seq(Id) /\ Waiting \in Seq(Id)
<1>1. Lists(OldestFirst(Unread), Unread) /\ Unread \subseteq Id
  BY UnreadIs, OldestFirstLists
<1>2. OldestFirst(Unread) \in Seq(Id)
  BY <1>1, SeqMonotonic DEF Lists
<1>3. Starting => turn \in Id
  BY DEF Starting, InTurn, TypeInv, TurnHasId
<1>4. Coming \in Seq(Id) /\ steering \in Seq(Id)
  BY <1>3 DEF Coming, TypeInv, TypeOK
<1>5. QED
  BY <1>2, <1>4, ConcatFacts DEF Waiting

(* What the channel's messages are after the worker has read a request,    *)
(* and after the UI has sent some.                                         *)
LEMMA UnreadRead ==
  ASSUME TypeInv, ChannelInOrder, TypeInv', requests # <<>>,
         requests' = Tail(requests), log' = log
  PROVE  /\ log[Next1] # "message" => Unread' = Unread
         /\ log[Next1] = "message" =>
              OldestFirst(Unread) = <<Next1>> \o OldestFirst(Unread')
<1>1. ChannelInOrder' /\ Next1 = Read + 1 /\ Read' = Read + 1
  BY ReadFacts DEF TypeInv
<1>2. /\ Unread = {i \in (Read + 1)..Len(log) : log[i] = "message"}
      /\ Len(log) \in Nat /\ Read \in Nat
  BY UnreadIs
<1>3. Len(requests) \in Nat \ {0}
  BY TailFacts DEF TypeInv, TypeOK
<1>4. Read + 1 \in (Read + 1)..Len(log)
  BY <1>2, <1>3 DEF ChannelInOrder, Read
<1>5. Unread' = {i \in (Read + 1 + 1)..Len(log) : log[i] = "message"}
  BY <1>1, UnreadNext
<1> HIDE DEF Next1
<1>6. CASE log[Next1] # "message"
  <2>1. Unread' = Unread
    BY <1>1, <1>2, <1>5, <1>6
  <2>2. QED
    BY <1>6, <2>1
<1>7. CASE log[Next1] = "message"
  <2>1. Unread = Unread' \cup {Next1}
    BY <1>1, <1>2, <1>4, <1>5, <1>7
  <2>2. \A j \in Unread' : Next1 < j
    BY <1>1, <1>2, <1>5
  <2>3. Unread' \in SUBSET (1..Len(log)) /\ Next1 \in Nat
    BY <1>1, <1>2, <1>5
  <2>4. OldestFirst(Unread' \cup {Next1}) = <<Next1>> \o OldestFirst(Unread')
    BY <1>2, <2>2, <2>3, OldestFirstGrows
  <2>5. QED
    BY <1>7, <2>1, <2>4
<1>8. QED
  BY <1>6, <1>7

LEMMA UnreadSent ==
  ASSUME TypeInv, ChannelInOrder, TypeInv', UiNext
  PROVE  \/ Unread' = Unread
         \/ \E m \in Id : OldestFirst(Unread') = Append(OldestFirst(Unread), m)
<1>1. ChannelInOrder' /\ Read' = Read
  BY UiKeepsRead
<1>2. /\ Unread = {i \in (Read + 1)..Len(log) : log[i] = "message"}
      /\ Unread \in SUBSET (1..Len(log))
      /\ Len(log) \in Nat /\ Read \in Nat /\ Read <= Len(log)
  <2>1. Len(requests) \in Nat
    BY ReadIsNat DEF TypeInv
  <2>2. QED
    BY <2>1, UnreadIs DEF Read
<1>3. Unread' = {i \in (Read + 1)..Len(log') : log'[i] = "message"}
  BY <1>1, UnreadNext
<1>4. ASSUME NEW kinds \in Seq(Kind), Enqueue(kinds)
      PROVE  /\ Len(kinds) \in Nat /\ Len(log') = Len(log) + Len(kinds)
             /\ \A i \in 1..Len(log) : log'[i] = log[i]
             /\ \A i \in 1..Len(kinds) : log'[Len(log) + i] = kinds[i]
  BY <1>4, ConcatFacts DEF Enqueue, TypeInv, TypeOK
<1>5. ASSUME NEW kinds \in Seq(Kind), Enqueue(kinds),
             \A i \in 1..Len(kinds) : kinds[i] # "message"
      PROVE  Unread' = Unread
  <2>1. ASSUME NEW i \in (Read + 1)..Len(log'), ~(i <= Len(log))
        PROVE  log'[i] # "message"
    <3>1. i - Len(log) \in 1..Len(kinds) /\ Len(log) + (i - Len(log)) = i
      BY <1>2, <1>4, <1>5, <2>1
    <3>2. log'[Len(log) + (i - Len(log))] = kinds[i - Len(log)]
      BY <1>4, <1>5, <3>1
    <3>3. QED
      BY <1>5, <3>1, <3>2
  <2>2. ASSUME NEW i \in (Read + 1)..Len(log)
        PROVE  i \in (Read + 1)..Len(log') /\ log'[i] = log[i]
    BY <1>2, <1>4, <1>5, <2>2
  <2>3. QED
    BY <1>2, <1>3, <2>1, <2>2
<1>6. ASSUME NEW kind \in SentKinds, Send(kind)
      PROVE  \/ Unread' = Unread
             \/ \E m \in Id : OldestFirst(Unread') = Append(OldestFirst(Unread), m)
  <2>1. <<kind>> \in Seq(Kind) /\ Len(<<kind>>) = 1 /\ <<kind>>[1] = kind
    BY KindAssumption
  <2>2. Enqueue(<<kind>>)
    BY <1>6 DEF Send
  <2>3. CASE kind # "message"
    BY <1>5, <2>1, <2>2, <2>3
  <2>4. CASE kind = "message"
    <3> DEFINE m == Len(log) + 1
    <3>1. /\ Len(log') = m /\ log'[m] = "message"
          /\ \A i \in 1..Len(log) : log'[i] = log[i]
      <4>1. /\ Len(log') = Len(log) + Len(<<kind>>)
            /\ \A i \in 1..Len(log) : log'[i] = log[i]
            /\ \A i \in 1..Len(<<kind>>) : log'[Len(log) + i] = <<kind>>[i]
        BY <1>4, <2>1, <2>2
      <4>2. 1 \in 1..Len(<<kind>>)
        BY <2>1
      <4>3. log'[Len(log) + 1] = <<kind>>[1]
        BY <4>1, <4>2
      <4>4. QED
        BY <2>1, <2>4, <4>1, <4>3
    <3>2. Unread' = Unread \cup {m}
      BY <1>2, <1>3, <3>1
    <3>3. m \in Id
      <4>1. Len(log) < MaxRequests /\ MaxRequests \in Nat
        BY <1>6, BoundAssumption DEF Send
      <4>2. QED
        BY <1>2, <4>1 DEF Id
    <3>4. m \in Nat /\ \A j \in Unread : j < m
      BY <1>2
    <3> HIDE DEF m
    <3>5. OldestFirst(Unread \cup {m}) = Append(OldestFirst(Unread), m)
      BY <1>2, <3>4, OldestFirstGrows
    <3>6. QED
      BY <3>2, <3>3, <3>5
  <2>5. QED
    BY <2>3, <2>4
<1>7. ASSUME NEW last \in LastRequests, UiExits(last)
      PROVE  Unread' = Unread
  <2>1. last \in Seq(Kind) /\ \A i \in 1..Len(last) : last[i] # "message"
    <3>1. CASE last = <<"save", "shutdown">>
      BY <3>1, LastAreKinds
    <3>2. CASE last = <<"shutdown">>
      <4>1. Len(<<"shutdown">>) = 1 /\ <<"shutdown">>[1] = "shutdown"
        OBVIOUS
      <4>2. \A i \in 1..1 : <<"shutdown">>[i] # "message"
        BY <4>1
      <4>3. QED
        BY <3>2, <4>1, <4>2, LastAreKinds
    <3>3. QED
      BY <3>1, <3>2 DEF LastRequests
  <2>2. QED
    BY <1>5, <1>7, <2>1 DEF UiExits
<1>8. CASE UiPanic
  BY <1>8 DEF UiPanic, Unread, Sent
<1>9. QED
  BY <1>6, <1>7, <1>8 DEF UiNext

(* Sequences: a joined one comes apart again, and an element changes sides.*)
LEMMA Apart ==
  ASSUME NEW S, NEW s \in Seq(S), NEW t \in Seq(S)
  PROVE  /\ Len(s \o t) = Len(s) + Len(t) /\ Len(s) \in Nat /\ Len(t) \in Nat
         /\ SubSeq(s \o t, 1, Len(s)) = s
         /\ SubSeq(s \o t, Len(s) + 1, Len(s \o t)) = t
<1>1. /\ s \o t \in Seq(S) /\ Len(s \o t) = Len(s) + Len(t)
      /\ Len(s) \in Nat /\ Len(t) \in Nat
      /\ \A i \in 1..Len(s) : (s \o t)[i] = s[i]
      /\ \A i \in 1..Len(t) : (s \o t)[Len(s) + i] = t[i]
  BY ConcatFacts
<1>2. SubSeq(s \o t, 1, Len(s)) = s
  <2>1. CASE Len(s) = 0
    BY <2>1, <1>1, SubSeqEmpty, EmptySeq
  <2>2. CASE Len(s) # 0
    <3>1. SubSeq(s \o t, 1, Len(s)) = SubSeq(s, 1, Len(s))
      <4>1. 1 \in 1..Len(s) /\ Len(s) \in 1..Len(s)
        BY <1>1, <2>2
      <4>2. QED
        BY <4>1, SubSeqOfConcat1
    <3>2. QED
      BY <3>1, SubSeqFull
  <2>3. QED
    BY <2>1, <2>2
<1>3. SubSeq(s \o t, Len(s) + 1, Len(s) + Len(t)) = t
  <2>1. CASE Len(t) = 0
    <3>1. SubSeq(s \o t, Len(s) + 1, Len(s) + Len(t)) = <<>>
      BY <1>1, <2>1, SubSeqEmpty
    <3>2. QED
      BY <2>1, <3>1, EmptySeq
  <2>2. CASE Len(t) # 0
    <3>1. SubSeq(s \o t, Len(s) + 1, Len(s) + Len(t)) = SubSeq(t, 1, Len(t))
      <4>1. /\ Len(s) + 1 \in (Len(s) + 1)..(Len(s) + Len(t))
            /\ Len(s) + Len(t) \in (Len(s) + 1)..(Len(s) + Len(t))
            /\ (Len(s) + 1) - Len(s) = 1 /\ (Len(s) + Len(t)) - Len(s) = Len(t)
        BY <1>1, <2>2
      <4>2. SubSeq(s \o t, Len(s) + 1, Len(s) + Len(t))
              = SubSeq(t, (Len(s) + 1) - Len(s), (Len(s) + Len(t)) - Len(s))
        BY <4>1, SubSeqOfConcat2
      <4>3. QED
        BY <4>1, <4>2
    <3>2. QED
      BY <3>1, SubSeqFull
  <2>3. QED
    BY <2>1, <2>2
<1>4. QED
  BY <1>1, <1>2, <1>3

LEMMA HeadApart ==
  ASSUME NEW S, NEW x \in S, NEW s \in Seq(S)
  PROVE  /\ <<x>> \o s \in Seq(S) /\ <<x>> \o s # <<>> /\ Tail(<<x>> \o s) = s
         /\ Len(<<x>> \o s) \in Nat \ {0}
<1>1. <<x>> \in Seq(S) /\ Len(<<x>>) = 1
  OBVIOUS
<1>2. /\ <<x>> \o s \in Seq(S) /\ Len(<<x>> \o s) \in Nat \ {0}
      /\ SubSeq(<<x>> \o s, 2, Len(<<x>> \o s)) = s
  BY <1>1, Apart, ConcatFacts
<1>3. <<x>> \o s # <<>>
  BY <1>2, EmptySeq
<1>4. QED
  BY <1>2, <1>3, TailIsSubSeq

LEMMA HeadJoins ==
  ASSUME NEW S, NEW s \in Seq(S), s # <<>>
  PROVE  s = <<Head(s)>> \o Tail(s)
<1>1. /\ Len(s) \in Nat \ {0} /\ Head(s) = s[1] /\ Head(s) \in S
      /\ Tail(s) = SubSeq(s, 2, Len(s))
  BY TailFacts, TailIsSubSeq
<1>2. SubSeq(s, 1, Len(s)) = <<s[1]>> \o SubSeq(s, 2, Len(s))
  <2>1. 1 \in 1..Len(s) /\ Len(s) \in 1..Len(s)
    BY <1>1
  <2>2. QED
    BY <2>1, SubSeqRecursiveFirst
<1>3. QED
  BY <1>1, <1>2, SubSeqFull

LEMMA ChangeSides ==
  ASSUME NEW S, NEW s \in Seq(S), NEW x \in S, NEW t \in Seq(S)
  PROVE  /\ Append(s, x) \o t = s \o (<<x>> \o t)
         /\ s \o Append(t, x) = Append(s \o t, x)
<1>1. <<x>> \in Seq(S) /\ s \o t \in Seq(S)
  BY ConcatFacts
<1>2. Append(s, x) \o t = s \o (<<x>> \o t)
  BY <1>1, AppendIsConcat, ConcatAssociative
<1>3. s \o Append(t, x) = Append(s \o t, x)
  BY <1>1, AppendIsConcat, ConcatAssociative
<1>4. QED
  BY <1>2, <1>3
-----------------------------------------------------------------------------
(* The mapped state, and what a step of it is.                             *)
Queue == IF Over THEN <<>> ELSE Waiting
Mode == IF Over THEN "over"
        ELSE IF Starting THEN "starting" ELSE IF InTurn THEN "busy" ELSE "free"
Frame == UNCHANGED <<Queue, taken, Mode>>

LEMMA AsAccept ==
  ASSUME Mode # "over", NEW m \in Id, Queue' = Append(Queue, m), UNCHANGED <<taken, Mode>>
  PROVE  Service!Next
<1>1. Service!Accept(m)
  BY DEF Service!Accept, Queue, Waiting, Coming, Mode
<1>2. QED
  BY <1>1 DEF Service!Next

LEMMA AsBegin ==
  ASSUME Mode = "free", Mode' = "starting", Queue # <<>>, UNCHANGED <<Queue, taken>>
  PROVE  Service!Next
<1>1. Service!Begin
  BY DEF Service!Begin, Queue, Waiting, Coming, Mode
<1>2. QED
  BY <1>1 DEF Service!Next

LEMMA AsRefuse ==
  ASSUME Mode = "starting", Mode' = "free", Queue # <<>>, Queue' = Tail(Queue),
         UNCHANGED taken
  PROVE  Service!Next
<1>1. Service!Refuse
  BY DEF Service!Refuse, Queue, Waiting, Coming, Mode
<1>2. QED
  BY <1>1 DEF Service!Next

LEMMA AsDeliver ==
  ASSUME Mode \in {"starting", "busy"}, Mode' = "busy",
         NEW batch \in Seq(Id), NEW rest \in Seq(Id), batch # <<>>,
         Queue = batch \o rest, Queue' = rest, taken' = taken \o batch
  PROVE  Service!Next
<1>1. /\ Len(batch) \in 1..Len(Queue)
      /\ SubSeq(Queue, 1, Len(batch)) = batch
      /\ SubSeq(Queue, Len(batch) + 1, Len(Queue)) = rest
  BY Apart, EmptySeq
<1>2. Service!Deliver(Len(batch))
  BY <1>1 DEF Service!Deliver, Queue, Waiting, Coming, Mode
<1>3. Len(batch) \in 1..Len(Queue) => Service!Next
  BY <1>2 DEF Service!Next, Queue, Waiting, Coming
<1>4. QED
  BY <1>1, <1>3

LEMMA AsFinish ==
  ASSUME Mode = "busy", Mode' = "free", UNCHANGED <<Queue, taken>>
  PROVE  Service!Next
<1>1. Service!Finish
  BY DEF Service!Finish, Queue, Waiting, Coming, Mode
<1>2. QED
  BY <1>1 DEF Service!Next

LEMMA AsStop ==
  ASSUME ~Over, Over', UNCHANGED taken
  PROVE  Service!Next
<1>1. Service!Stop
  BY DEF Service!Stop, Starting, InTurn
<1>2. QED
  BY <1>1 DEF Service!Next
-----------------------------------------------------------------------------
(* A step that moves no message and changes no phase is none of the        *)
(* service.                                                                *)
LEMMA QuietFrame ==
  ASSUME UNCHANGED <<steering, taken>>, OldestFirst(Unread)' = OldestFirst(Unread),
         Starting' <=> Starting, Starting => turn' = turn,
         Over' <=> Over, InTurn' <=> InTurn
  PROVE  Frame
<1>1. Coming' = Coming
  BY DEF Coming
<1>2. Queue' = Queue
  BY <1>1 DEF Queue, Waiting
<1>3. Mode' = Mode
  BY DEF Mode
<1>4. QED
  BY <1>2, <1>3 DEF Frame

LEMMA StillUnread ==
  ASSUME UNCHANGED <<requests, log>>
  PROVE  OldestFirst(Unread)' = OldestFirst(Unread)
BY DEF Unread, Sent

LEMMA ServiceHears ==
  ASSUME OrderInv, TypeInv', UiNext
  PROVE  Service!Next \/ Frame
<1>1. UNCHANGED <<steering, taken, turn, pc, loop>>
  BY DEF UiNext, Send, UiExits, UiPanic, run, past
<1>2. CASE OldestFirst(Unread)' = OldestFirst(Unread)
  BY <1>1, <1>2, QuietFrame DEF Starting, InTurn, Over
<1>3. ASSUME NEW m \in Id, OldestFirst(Unread') = Append(OldestFirst(Unread), m)
      PROVE  Service!Next \/ Frame
  <2>1. Coming' = Coming /\ Mode' = Mode /\ Over' = Over
    BY <1>1 DEF Coming, Mode, Starting, InTurn, Over
  <2>2. CASE Over
    BY <1>1, <2>1, <2>2 DEF Frame, Queue
  <2>3. CASE ~Over
    <3>1. Waiting' = Coming \o steering \o Append(OldestFirst(Unread), m)
      BY <1>1, <1>3, <2>1 DEF Waiting
    <3>2. /\ Coming \o steering \in Seq(Id) /\ OldestFirst(Unread) \in Seq(Id)
      BY WaitingType, ConcatFacts DEF OrderInv
    <3>3. Waiting' = Append(Waiting, m)
      BY <3>1, <3>2, ChangeSides DEF Waiting
    <3>4. Mode # "over"
      BY <2>3 DEF Mode
    <3>5. QED
      BY <1>1, <2>1, <2>3, <3>3, <3>4, AsAccept DEF Queue
  <2>4. QED
    BY <2>2, <2>3
<1>4. Unread' = Unread => OldestFirst(Unread)' = OldestFirst(Unread)
  OBVIOUS
<1>5. QED
  BY <1>2, <1>3, <1>4, UnreadSent DEF OrderInv

(* A request that is no message, and a message for the steering queue.     *)
LEMMA ServiceReads ==
  ASSUME OrderInv, TypeInv', requests' = Tail(requests), log' = log,
         NEW kinds, HasRequest(kinds), "message" \notin kinds
  PROVE  OldestFirst(Unread)' = OldestFirst(Unread)
<1>1. requests # <<>> /\ log[Next1] # "message"
  BY DEF HasRequest
<1>2. Unread' = Unread
  BY <1>1, UnreadRead DEF OrderInv
<1>3. QED
  BY <1>2

LEMMA ServiceIdle ==
  ASSUME OrderInv, TypeInv',
         IdleAbort \/ IdleContext \/ IdleOperation \/ IdleShutdown \/ IdleClosed
  PROVE  Service!Next \/ Frame
<1>1. "message" \notin Context /\ "message" \notin Operation
  BY DEF Context, Operation
<1>2. CASE IdleAbort \/ IdleContext \/ IdleOperation
  <2>1. \E kinds : HasRequest(kinds) /\ "message" \notin kinds
    BY <1>1, <1>2 DEF IdleAbort, IdleContext, IdleOperation, IdleRequest
  <2>2. /\ requests' = Tail(requests) /\ log' = log
        /\ UNCHANGED <<steering, taken, turn, pc, loop>>
    BY <1>2 DEF IdleAbort, IdleContext, IdleOperation, IdleRequest, run, past
  <2>3. OldestFirst(Unread)' = OldestFirst(Unread)
    BY <2>1, <2>2, ServiceReads
  <2>4. QED
    BY <2>2, <2>3, QuietFrame DEF Starting, InTurn, Over
<1>3. CASE IdleShutdown \/ IdleClosed
  BY <1>3, AsStop DEF IdleShutdown, IdleRequest, IdleClosed, past, Over
<1>4. QED
  BY <1>2, <1>3

LEMMA ServiceTakes ==
  ASSUME OrderInv, TypeInv', TakeMessage
  PROVE  Service!Next \/ Frame
<1>1. pc = "idle" /\ taken' = taken /\ log' = log
  BY DEF TakeMessage, past
<1>2. CASE uiGone
  BY <1>1, <1>2, AsStop DEF TakeMessage, Over
<1>3. CASE ~uiGone
  <2>1. pc' = "preflight" /\ ~Over /\ ~Over' /\ ~Starting /\ Starting' /\ ~InTurn
    BY <1>1, <1>3 DEF TakeMessage, Over, Starting, InTurn
  <2>2. /\ Coming = <<>> /\ Coming' = <<turn'>> /\ Mode = "free" /\ Mode' = "starting"
        /\ steering \in Seq(Id) /\ OldestFirst(Unread) \in Seq(Id)
    BY <2>1, WaitingType DEF Coming, Mode, OrderInv
  <2>3. Waiting = steering \o OldestFirst(Unread)
    BY <2>2, ConcatEmptySeq DEF Waiting
  <2>4. turn' \in Id /\ steering' \in Seq(Id)
    BY <2>1 DEF TypeInv, TypeOK, TurnHasId
  <2>5. CASE steering # <<>>
    <3>1. turn' = Head(steering) /\ steering' = Tail(steering) /\ requests' = requests
      BY <2>5 DEF TakeMessage
    <3>2. OldestFirst(Unread)' = OldestFirst(Unread)
      BY <1>1, <3>1, StillUnread
    <3>3. <<turn'>> \o steering' = steering
      BY <2>2, <2>5, <3>1, HeadJoins
    <3>4. Waiting' = Waiting
      BY <2>2, <2>3, <3>2, <3>3 DEF Waiting
    <3>5. Waiting # <<>>
      BY <2>2, <2>3, <2>5, ConcatEqualIffEmpty
    <3>6. QED
      BY <1>1, <2>1, <2>2, <3>4, <3>5, AsBegin DEF Queue
  <2>6. CASE steering = <<>>
    <3>1. /\ requests # <<>> /\ turn' = Next1 /\ steering' = <<>>
          /\ requests' = Tail(requests) /\ log[Next1] = "message"
      BY <2>6 DEF TakeMessage, HasRequest
    <3>2. OldestFirst(Unread) = <<Next1>> \o OldestFirst(Unread')
      BY <1>1, <3>1, UnreadRead DEF OrderInv
    <3>3. Waiting = OldestFirst(Unread)
      BY <2>2, <2>3, <2>6, ConcatEmptySeq
    <3>4. Waiting' = <<turn'>> \o <<>> \o OldestFirst(Unread')
      BY <2>2, <3>1 DEF Waiting
    <3>5. <<turn'>> \in Seq(Id) /\ OldestFirst(Unread') \in Seq(Id)
      <4>1. ChannelInOrder'
        BY <1>1, <3>1, ReadFacts DEF OrderInv, TypeInv
      <4>2. (Len(log) \in Nat /\ Unread \in SUBSET (1..Len(log)) /\ Unread \in SUBSET Id)'
        <5>1. Unread' \subseteq Unread
          <6>1. ToSet(requests) = {Head(requests)} \cup ToSet(Tail(requests))
            BY <3>1, ToSetTail DEF OrderInv, TypeInv, TypeOK
          <6>2. QED
            BY <1>1, <3>1, <6>1 DEF Unread, Sent
        <5>2. QED
          BY <1>1, <5>1, UnreadIs DEF OrderInv
      <4>3. Lists(OldestFirst(Unread'), Unread')
        BY <4>2, OldestFirstLists
      <4>4. OldestFirst(Unread') \in Seq(Id)
        BY <4>2, <4>3, SeqMonotonic DEF Lists
      <4>5. QED
        BY <2>4, <4>4
    <3>6. Waiting' = Waiting
      BY <3>1, <3>2, <3>3, <3>4, <3>5, ConcatEmptySeq
    <3>7. Waiting # <<>>
      BY <2>4, <3>1, <3>2, <3>3, <3>5, HeadApart
    <3>8. QED
      BY <1>1, <2>1, <2>2, <3>6, <3>7, AsBegin DEF Queue
  <2>7. QED
    BY <2>5, <2>6
<1>4. QED
  BY <1>2, <1>3

LEMMA ServicePreflight ==
  ASSUME OrderInv, NEW blocked \in BOOLEAN, Preflight(blocked)
  PROVE  Service!Next \/ Frame
<1>1. /\ pc = "preflight" /\ UNCHANGED <<requests, log, steering, taken>>
      /\ OldestFirst(Unread)' = OldestFirst(Unread)
  BY StillUnread DEF Preflight, link, past
<1>2. CASE blocked
  <2>1. pc' = "idle" /\ ~Over /\ ~Over' /\ Starting /\ ~Starting' /\ ~InTurn'
    BY <1>1, <1>2 DEF Preflight, Over, Starting, InTurn
  <2>2. /\ Coming = <<turn>> /\ Coming' = <<>> /\ Mode = "starting" /\ Mode' = "free"
    BY <2>1 DEF Coming, Mode
  <2>3. turn \in Id /\ steering \in Seq(Id) /\ OldestFirst(Unread) \in Seq(Id)
    BY <1>1, WaitingType DEF OrderInv, TypeInv, TurnHasId
  <2> DEFINE rest == steering \o OldestFirst(Unread)
  <2>4. rest \in Seq(Id) /\ Waiting' = rest
    BY <1>1, <2>2, <2>3, ConcatFacts, ConcatEmptySeq DEF Waiting
  <2>5. Waiting = <<turn>> \o rest
    <3>1. <<turn>> \in Seq(Id)
      BY <2>3
    <3>2. QED
      BY <2>2, <2>3, <3>1, ConcatAssociative DEF Waiting
  <2> HIDE DEF rest
  <2>6. Waiting # <<>> /\ Tail(Waiting) = rest
    BY <2>3, <2>4, <2>5, HeadApart
  <2>7. QED
    BY <1>1, <2>1, <2>2, <2>4, <2>6, AsRefuse DEF Queue
<1>3. CASE ~blocked
  <2>1. pc' = "turn" /\ loop' = "prepare" /\ turn' = turn
    BY <1>3 DEF Preflight
  <2>2. Starting /\ Starting' /\ ~Over /\ ~Over'
    BY <1>1, <2>1 DEF Starting, InTurn, Over
  <2>3. Coming' = Coming /\ Mode' = Mode
    BY <2>1, <2>2 DEF Coming, Mode
  <2>4. QED
    BY <1>1, <2>2, <2>3 DEF Frame, Queue, Waiting
<1>4. QED
  BY <1>2, <1>3

LEMMA ServicePrepares ==
  ASSUME OrderInv, Prepare
  PROVE  Service!Next \/ Frame
<1>1. /\ pc = "turn" /\ pc' = "turn" /\ UNCHANGED <<requests, log, steering>>
      /\ taken' = Append(taken, turn) /\ loop = "prepare" /\ loop' = "top"
      /\ OldestFirst(Unread)' = OldestFirst(Unread)
  BY StillUnread DEF Prepare, InTurn, link
<1>2. /\ ~Over /\ ~Over' /\ Mode = "starting" /\ Mode' = "busy"
      /\ Coming = <<turn>> /\ Coming' = <<>>
  BY <1>1 DEF Over, Starting, InTurn, Mode, Coming
<1>3. turn \in Id /\ steering \in Seq(Id) /\ OldestFirst(Unread) \in Seq(Id)
  BY <1>1, WaitingType DEF OrderInv, TypeInv, TurnHasId
<1> DEFINE rest == steering \o OldestFirst(Unread)
           batch == <<turn>>
<1>4. batch \in Seq(Id) /\ rest \in Seq(Id) /\ batch # <<>>
  BY <1>3, ConcatFacts
<1>5. Waiting = batch \o rest
  BY <1>2, <1>3, <1>4, ConcatAssociative DEF Waiting
<1>6. Waiting' = rest
  BY <1>1, <1>2, <1>3, <1>4, ConcatEmptySeq DEF Waiting
<1>7. taken' = taken \o batch
  BY <1>1, <1>3, AppendIsConcat DEF OrderInv, TypeInv, TypeOK
<1> HIDE DEF rest, batch
<1>8. QED
  BY <1>2, <1>4, <1>5, <1>6, <1>7, AsDeliver DEF Queue

LEMMA ServiceSteers ==
  ASSUME OrderInv, LoopTop
  PROVE  Service!Next \/ Frame
<1>1. /\ pc = "turn" /\ loop = "top" /\ UNCHANGED <<requests, log, turn, pc>>
      /\ loop' \in {"call", "returned"}
      /\ OldestFirst(Unread)' = OldestFirst(Unread)
  BY StillUnread DEF LoopTop, InTurn, link
<1>2. /\ ~Over /\ ~Over' /\ ~Starting /\ ~Starting' /\ Mode = "busy" /\ Mode' = "busy"
      /\ Coming = <<>> /\ Coming' = <<>> /\ InTurn /\ InTurn'
  BY <1>1 DEF Over, Starting, InTurn, Mode, Coming
<1>3. steering \in Seq(Id) /\ OldestFirst(Unread) \in Seq(Id) /\ taken \in Seq(Id)
  BY WaitingType DEF OrderInv, TypeInv, TypeOK
<1>4. CASE UNCHANGED <<steering, taken>>
  BY <1>1, <1>2, <1>4, QuietFrame
<1>5. CASE taken' = taken \o steering /\ steering' = <<>>
  <2>1. CASE steering = <<>>
    BY <1>1, <1>2, <1>3, <1>5, <2>1, ConcatEmptySeq, QuietFrame
  <2>2. CASE steering # <<>>
    <3>1. Waiting = steering \o OldestFirst(Unread)
      BY <1>2, <1>3, ConcatEmptySeq DEF Waiting
    <3>2. Waiting' = OldestFirst(Unread)
      <4>1. Waiting' = <<>> \o <<>> \o OldestFirst(Unread)
        BY <1>1, <1>2, <1>5 DEF Waiting
      <4>2. <<>> \in Seq(Id)
        OBVIOUS
      <4>3. QED
        BY <1>3, <4>1, <4>2, ConcatEmptySeq
    <3>3. QED
      BY <1>2, <1>3, <1>5, <2>2, <3>1, <3>2, AsDeliver DEF Queue
  <2>3. QED
    BY <2>1, <2>2
<1>6. QED
  BY <1>4, <1>5 DEF LoopTop

LEMMA ServiceTurn ==
  ASSUME OrderInv, TypeInv', TurnRequest
  PROVE  Service!Next \/ Frame
<1>1. "message" \notin Context /\ "message" \notin Operation
  BY DEF Context, Operation
<1>2. CASE TurnContext \/ TurnOperation \/ TurnAbort \/ TurnShutdown
  <2>1. \E kinds : HasRequest(kinds) /\ "message" \notin kinds
    BY <1>1, <1>2 DEF TurnContext, TurnOperation, TurnAbort, TurnShutdown, Receive
  <2>2. /\ requests' = Tail(requests) /\ log' = log
        /\ UNCHANGED <<steering, taken, turn, pc, loop>>
    BY <1>2 DEF TurnContext, TurnOperation, TurnAbort, TurnShutdown, Receive, past
  <2>3. OldestFirst(Unread)' = OldestFirst(Unread)
    BY <2>1, <2>2, ServiceReads
  <2>4. QED
    BY <2>2, <2>3, QuietFrame DEF Starting, InTurn, Over
<1>3. CASE TurnMessage
  <2>1. /\ requests # <<>> /\ log[Next1] = "message"
        /\ requests' = Tail(requests) /\ log' = log
        /\ steering' = Append(steering, Next1)
        /\ UNCHANGED <<taken, turn, pc, loop>>
    BY <1>3 DEF TurnMessage, Receive, HasRequest, past
  <2>2. OldestFirst(Unread) = <<Next1>> \o OldestFirst(Unread')
    BY <2>1, UnreadRead DEF OrderInv
  <2>3. Coming' = Coming /\ Mode' = Mode /\ Over' = Over
    BY <2>1 DEF Coming, Mode, Starting, InTurn, Over
  <2>4. /\ Next1 \in Id /\ Coming \in Seq(Id) /\ steering \in Seq(Id)
        /\ OldestFirst(Unread') \in Seq(Id)
    <3>1. Next1 \in Id
      BY <2>1, TailFacts DEF OrderInv, TypeInv, TypeOK, Next1
    <3>2. Unread' \subseteq Unread
      <4>1. ToSet(requests) = {Head(requests)} \cup ToSet(Tail(requests))
        BY <2>1, ToSetTail DEF OrderInv, TypeInv, TypeOK
      <4>2. QED
        BY <2>1, <4>1 DEF Unread, Sent
    <3>3. Lists(OldestFirst(Unread'), Unread') /\ Unread' \subseteq Id
      BY <3>2, UnreadIs, OldestFirstLists DEF OrderInv
    <3>4. QED
      BY <3>1, <3>3, WaitingType, SeqMonotonic DEF OrderInv, Lists
  <2> HIDE DEF Next1
  <2>5. Waiting' = Waiting
    <3>1. Waiting' = Coming \o Append(steering, Next1) \o OldestFirst(Unread')
      BY <2>1, <2>3 DEF Waiting
    <3>2. Coming \o Append(steering, Next1) = Append(Coming \o steering, Next1)
      BY <2>4, ChangeSides
    <3>3. Append(Coming \o steering, Next1) \o OldestFirst(Unread')
            = (Coming \o steering) \o (<<Next1>> \o OldestFirst(Unread'))
      <4>1. Coming \o steering \in Seq(Id)
        BY <2>4, ConcatFacts
      <4>2. ASSUME NEW s \in Seq(Id), NEW x \in Id, NEW t \in Seq(Id)
            PROVE  Append(s, x) \o t = s \o (<<x>> \o t)
        BY ChangeSides
      <4>3. QED
        BY <2>4, <4>1, <4>2, Zenon
    <3>4. QED
      BY <2>2, <3>1, <3>2, <3>3 DEF Waiting
  <2>6. QED
    BY <2>1, <2>3, <2>5 DEF Frame, Queue
<1>4. CASE TurnClosed
  BY <1>4, AsStop DEF TurnClosed, InTurn, past, Over
<1>5. QED
  BY <1>2, <1>3, <1>4 DEF TurnRequest

LEMMA ServiceSettles ==
  ASSUME OrderInv,
         StreamEnds \/ ApplyDeferred \/ DeferredShutdown \/ Settled \/ SessionEnd
  PROVE  Service!Next \/ Frame
<1>1. UNCHANGED <<requests, log, steering, taken>>
  BY DEF StreamEnds, ApplyDeferred, DeferredShutdown, Settled, SessionEnd, link, past
<1>2. OldestFirst(Unread)' = OldestFirst(Unread)
  BY <1>1, StillUnread
<1>3. CASE StreamEnds
  <2>1. /\ pc = "turn" /\ loop = "returned" /\ pc' \in {"shutdown", "settle"}
    BY <1>3 DEF StreamEnds, InTurn
  <2>2. /\ ~Over /\ ~Over' /\ Mode = "busy" /\ Mode' = "free"
        /\ Coming = <<>> /\ Coming' = <<>>
    BY <2>1 DEF Over, Starting, InTurn, Mode, Coming
  <2>3. Queue' = Queue
    BY <1>1, <1>2, <2>2 DEF Queue, Waiting
  <2>4. QED
    BY <1>1, <2>2, <2>3, AsFinish
<1>4. CASE DeferredShutdown
  BY <1>1, <1>4, AsStop DEF DeferredShutdown, Over
<1>5. CASE ApplyDeferred \/ Settled \/ SessionEnd
  <2>1. (Starting' <=> Starting) /\ (Over' <=> Over) /\ (InTurn' <=> InTurn) /\ ~Starting
    BY <1>5 DEF ApplyDeferred, Settled, SessionEnd, Starting, InTurn, Over, run
  <2>2. QED
    BY <1>1, <1>2, <2>1, QuietFrame
<1>6. QED
  BY <1>3, <1>4, <1>5

(* Every step of the worker, the loop and the UI is one of the service, or *)
(* none.                                                                   *)
LEMMA ServiceStep ==
  ASSUME OrderInv, [Next]_vars
  PROVE  Service!Next \/ Frame
<1>1. TypeInv'
  BY TypeStep DEF OrderInv
<1>2. ASSUME UNCHANGED <<requests, log, steering, taken, turn, pc>>,
             loop' = loop \/ {loop, loop'} \cap {"off", "prepare"} = {}
      PROVE  Frame
  BY <1>2, StillUnread, QuietFrame DEF Starting, InTurn, Over
<1>3. CASE UNCHANGED vars
  BY <1>2, <1>3 DEF vars, link, run, past
<1>4. CASE Watcher
  BY <1>2, <1>4 DEF Watcher, link, past
<1>5. ASSUME NEW continue \in BOOLEAN, CallReturns(continue)
      PROVE  Frame
  BY <1>2, <1>5 DEF CallReturns, link, past
<1>6. QED
  BY <1>1, <1>3, <1>4, <1>5, ServiceHears, ServiceIdle, ServiceTakes, ServicePreflight,
     ServicePrepares, ServiceSteers, ServiceTurn, ServiceSettles
     DEF Next, WorkerNext, LoopNext

LEMMA ServiceStarts == Init => Service!Init
<1> SUFFICES ASSUME Init
             PROVE  Queue = <<>> /\ taken = <<>> /\ Mode = "free"
  BY DEF Service!Init, Queue, Waiting, Coming, Mode
<1>1. ~Over /\ ~Starting /\ ~InTurn /\ steering = <<>> /\ taken = <<>>
  BY DEF Init, Over, Starting, InTurn
<1>2. Unread = {}
  BY DEF Init, Unread, ToSet
<1>3. OldestFirst(Unread) = <<>>
  <2>1. Lists(<<>>, {})
    BY DEF Lists, Increasing, ToSet
  <2>2. QED
    BY <1>2, <2>1, OldestFirstIs
<1>4. QED
  BY <1>1, <1>3, ConcatEmptySeq, EmptySeq DEF Queue, Waiting, Coming, Mode

(* The worker is the service it seems to be, for any requests in any       *)
(* interleaving: channel, steering queue and starting turn are one queue   *)
(* from which each message reaches the model once and in order, is refused *)
(* with its turn, or is dropped when the worker stops.                     *)
THEOREM WorkerIsAService == Spec => ImplementsTurnService
<1>1. OrderInv /\ [Next]_vars => [Service!Next]_<<Queue, taken, Mode>>
  BY ServiceStep DEF Frame
<1>2. QED
  BY <1>1, OrderInvariant, ServiceStarts, PTL
     DEF Spec, ImplementsTurnService, Service!Spec, Queue, Waiting, Coming, Mode
-----------------------------------------------------------------------------
(* The worker never sticks.  The exit protocol's Shutdown is the last      *)
(* request there is; what is deferred can be applied in its order; an      *)
(* abort or a shutdown that was read has set the flag.                     *)
Leaving == pc = "shutdown" \/ draining = "shutdown"
ExitWaits == Read < Len(log) /\ log[Len(log)] = "shutdown"
ExitIsAhead == uiGone /\ ~closed => Leaving \/ Over \/ ExitWaits
GoneWhenClosed == closed => uiGone
FlagIsSet == draining # "no" => InTurn /\ abortFlag
DeferredFits ==
  /\ ~Over /\ ~Leaving => \A j \in DOMAIN deferred : log[deferred[j]] \in Context
  /\ Leaving => /\ deferred # <<>> /\ log[deferred[Len(deferred)]] = "shutdown"
                /\ \A j \in DOMAIN deferred :
                     j # Len(deferred) => log[deferred[j]] \in Context
AliveInv ==
  /\ ContextInv /\ LoopInTurn /\ GoneWhenClosed /\ FlagIsSet
  /\ ExitIsAhead /\ DeferredFits

(* What each step does to the flag, and that the channel closes last.      *)
LEMMA FlagStep ==
  ASSUME LoopInTurn, GoneWhenClosed, FlagIsSet, [Next]_vars
  PROVE  FlagIsSet' /\ GoneWhenClosed'
<1> USE DEF FlagIsSet, GoneWhenClosed, InTurn
<1>1. ASSUME UNCHANGED <<pc, draining, abortFlag>>, closed' = closed, uiGone => uiGone'
      PROVE  FlagIsSet' /\ GoneWhenClosed'
  BY <1>1
<1>2. CASE UiNext
  <2>1. ASSUME NEW kind \in SentKinds, Send(kind)
        PROVE  FlagIsSet' /\ GoneWhenClosed'
    BY <1>1, <2>1 DEF Send, run
  <2>2. ASSUME NEW last \in LastRequests, UiExits(last)
        PROVE  FlagIsSet' /\ GoneWhenClosed'
    BY <1>1, <2>2 DEF UiExits, run
  <2>3. CASE UiPanic
    BY <2>3 DEF UiPanic, run
  <2>4. QED
    BY <1>2, <2>1, <2>2, <2>3 DEF UiNext
<1>3. CASE TakeMessage \/ IdleAbort \/ IdleOperation \/ IdleShutdown \/ IdleClosed
  BY <1>3 DEF TakeMessage, IdleAbort, IdleOperation, IdleShutdown, IdleClosed,
              IdleRequest, link, run
<1>4. CASE IdleContext \/ ApplyDeferred
  BY <1>4 DEF IdleContext, ApplyDeferred, IdleRequest, ApplyContext, link, run
<1>5. ASSUME NEW blocked \in BOOLEAN, Preflight(blocked)
      PROVE  FlagIsSet' /\ GoneWhenClosed'
  BY <1>5 DEF Preflight, link
<1>6. CASE Prepare \/ LoopTop \/ Watcher \/ \E continue \in BOOLEAN : CallReturns(continue)
  BY <1>1, <1>6 DEF Prepare, LoopTop, Watcher, CallReturns, link
<1>7. CASE TurnMessage \/ TurnContext \/ TurnOperation
  BY <1>1, <1>7 DEF TurnMessage, TurnContext, TurnOperation, Receive
<1>8. CASE TurnAbort \/ TurnShutdown
  BY <1>8 DEF TurnAbort, TurnShutdown, Receive
<1>9. CASE TurnClosed \/ StreamEnds \/ DeferredShutdown \/ Settled \/ SessionEnd
  BY <1>9 DEF TurnClosed, StreamEnds, DeferredShutdown, Settled, SessionEnd, link, run
<1>10. CASE UNCHANGED vars
  BY <1>1, <1>10 DEF vars, link, run
<1>11. QED
  BY <1>2, <1>3, <1>4, <1>5, <1>6, <1>7, <1>8, <1>9, <1>10
     DEF Next, WorkerNext, LoopNext, TurnRequest

(* A request that is read and is no Shutdown was not the last one.         *)
LEMMA ExitStillWaits ==
  ASSUME TypeInv, ChannelInOrder, NEW kinds, HasRequest(kinds), "shutdown" \notin kinds,
         requests' = Tail(requests), log' = log, ExitWaits
  PROVE  ExitWaits'
<1>1. Read' = Read + 1 /\ log[Read + 1] \in kinds
  BY ReadStep
<1>2. Read \in Nat /\ Len(log) \in Nat
  BY ReadIsNat DEF TypeInv
<1>3. QED
  BY <1>1, <1>2 DEF ExitWaits

LEMMA ExitStep ==
  ASSUME AliveInv, [Next]_vars
  PROVE  ExitIsAhead'
<1> USE DEF AliveInv, ContextInv
<1>1. ASSUME UNCHANGED <<requests, log, uiGone, closed>>, Leaving \/ Over => Leaving' \/ Over'
      PROVE  ExitIsAhead'
  BY <1>1 DEF ExitIsAhead, ExitWaits, Read
<1>2. ASSUME NEW kinds, HasRequest(kinds), "shutdown" \notin kinds,
             requests' = Tail(requests), UNCHANGED <<log, uiGone, closed>>,
             ~Leaving, ~Over
      PROVE  ExitIsAhead'
  BY <1>2, ExitStillWaits DEF ExitIsAhead
<1>3. ~InTurn => draining = "no"
  BY DEF FlagIsSet
<1>4. CASE UiNext
  <2>1. ASSUME NEW kind \in SentKinds, Send(kind)
        PROVE  ExitIsAhead'
    BY <2>1 DEF Send, ExitIsAhead
  <2>2. ASSUME NEW last \in LastRequests, UiExits(last)
        PROVE  ExitIsAhead'
    <3>1. log \in Seq(Kind) /\ log' = log \o last /\ Len(log) \in Nat
      BY <2>2 DEF UiExits, Enqueue, TypeInv, TypeOK
    <3>2. last \in Seq(Kind) /\ Len(last) \in 1..2 /\ last[Len(last)] = "shutdown"
      <4>1. CASE last = <<"save", "shutdown">>
        BY <4>1 DEF Kind, Context
      <4>2. CASE last = <<"shutdown">>
        BY <4>2 DEF Kind, Context
      <4>3. QED
        BY <2>2, <4>1, <4>2 DEF LastRequests
    <3>5. Len(log') = Len(log) + Len(last) /\ log'[Len(log')] = "shutdown"
      <4>1. /\ Len(log \o last) = Len(log) + Len(last)
            /\ \A j \in 1..Len(last) : (log \o last)[Len(log) + j] = last[j]
        BY <3>1, <3>2, ConcatFacts
      <4>2. (log \o last)[Len(log) + Len(last)] = last[Len(last)]
        BY <3>2, <4>1
      <4>3. QED
        BY <3>1, <3>2, <4>1, <4>2
    <3>3. Read' = Read /\ Read \in Nat /\ Read <= Len(log)
      <4>1. Read' = Read
        BY <1>4, UiKeepsRead
      <4>2. Read \in Nat /\ Len(requests) \in Nat /\ Len(log) \in Nat
        BY ReadIsNat DEF TypeInv
      <4>3. QED
        BY <4>1, <4>2 DEF Read
    <3>4. QED
      <4>1. Read' < Len(log')
        <5>1. Len(log) \in Nat /\ Len(last) \in 1..2 /\ Len(log') = Len(log) + Len(last)
          BY <3>1, <3>2, <3>5
        <5>2. QED
          BY <3>3, <5>1
      <4>2. QED
        BY <3>5, <4>1 DEF ExitIsAhead, ExitWaits
  <2>3. CASE UiPanic
    BY <2>3 DEF UiPanic, ExitIsAhead
  <2>4. QED
    BY <1>4, <2>1, <2>2, <2>3 DEF UiNext
<1>5. CASE TakeMessage
  BY <1>5 DEF TakeMessage, ExitIsAhead, Over
<1>6. CASE IdleAbort \/ IdleContext \/ IdleOperation
  <2>1. /\ \/ HasRequest({"abort"}) \/ HasRequest(Context) \/ HasRequest(Operation)
        /\ requests' = Tail(requests) /\ UNCHANGED <<log, uiGone, closed>> /\ pc = "idle"
    BY <1>6 DEF IdleAbort, IdleContext, IdleOperation, IdleRequest
  <2>2. ~Leaving /\ ~Over
    BY <1>3, <2>1 DEF Leaving, Over, InTurn
  <2>3. "shutdown" \notin {"abort"} \cup Context \cup Operation
    BY DEF Context, Operation
  <2>4. QED
    BY <1>2, <2>1, <2>2, <2>3
<1>7. CASE IdleShutdown \/ IdleClosed \/ TurnClosed \/ DeferredShutdown \/ SessionEnd
  BY <1>7 DEF IdleShutdown, IdleClosed, TurnClosed, DeferredShutdown, SessionEnd,
              ExitIsAhead, Over
<1>8. CASE TurnMessage \/ TurnContext \/ TurnOperation \/ TurnAbort
  <2>1. /\ \/ HasRequest({"message"}) \/ HasRequest(Context) \/ HasRequest(Operation)
           \/ HasRequest({"abort"})
        /\ requests' = Tail(requests) /\ UNCHANGED <<log, uiGone, closed>>
        /\ pc = "turn" /\ draining = "no"
    BY <1>8 DEF TurnMessage, TurnContext, TurnOperation, TurnAbort, Receive, InTurn
  <2>2. ~Leaving /\ ~Over
    BY <2>1 DEF Leaving, Over
  <2>3. "shutdown" \notin {"message", "abort"} \cup Context \cup Operation
    BY DEF Context, Operation
  <2>4. QED
    BY <1>2, <2>1, <2>2, <2>3
<1>9. CASE TurnShutdown
  BY <1>9 DEF TurnShutdown, ExitIsAhead, Leaving
<1>10. ASSUME NEW blocked \in BOOLEAN, Preflight(blocked)
       PROVE  ExitIsAhead'
  BY <1>1, <1>10 DEF Preflight, link, Leaving, Over
<1>11. CASE Prepare \/ LoopTop \/ Watcher \/ ApplyDeferred
            \/ \E continue \in BOOLEAN : CallReturns(continue)
  BY <1>1, <1>11 DEF Prepare, LoopTop, Watcher, ApplyDeferred, CallReturns, link, run,
                     Leaving, Over
<1>12. CASE StreamEnds
  BY <1>1, <1>12 DEF StreamEnds, link, Leaving, Over, InTurn
<1>13. CASE Settled
  BY <1>1, <1>3, <1>13 DEF Settled, link, Leaving, Over, InTurn
<1>14. CASE UNCHANGED vars
  BY <1>1, <1>14 DEF vars, link, run, Leaving, Over
<1>15. QED
  BY <1>4, <1>5, <1>6, <1>7, <1>8, <1>9, <1>10, <1>11, <1>12, <1>13, <1>14
     DEF Next, WorkerNext, LoopNext, TurnRequest

(* What is deferred keeps its kind.                                        *)
LEMMA DeferredKinds ==
  ASSUME ContextInv, LogGrows
  PROVE  /\ deferred \in Seq(Id) /\ Len(deferred) \in Nat
         /\ DOMAIN deferred = 1..Len(deferred)
         /\ \A j \in DOMAIN deferred : log'[deferred[j]] = log[deferred[j]]
<1>1. /\ deferred \in Seq(Id) /\ Len(deferred) \in Nat /\ DOMAIN deferred = 1..Len(deferred)
      /\ DOMAIN log = 1..Len(log)
  BY LenProperties DEF ContextInv, TypeInv, TypeOK
<1>2. Read \in Nat /\ Len(log) \in Nat /\ Len(requests) \in Nat
  BY ReadIsNat DEF ContextInv, TypeInv
<1>3. ASSUME NEW j \in DOMAIN deferred
      PROVE  log'[deferred[j]] = log[deferred[j]]
  <2>1. deferred[j] \in Nat \ {0}
    <3>1. deferred[j] \in Id
      BY <1>1
    <3>2. QED
      BY <3>1, IdIsNat
  <2>2. deferred[j] <= Read
    BY DEF ContextInv, ContextOrder, UpTo
  <2>3. deferred[j] <= Len(log)
    BY <1>2, <2>1, <2>2 DEF Read
  <2>4. deferred[j] \in DOMAIN log'
    BY <1>2, <2>1, <2>3 DEF LogGrows
  <2>5. QED
    BY <2>3, <2>4 DEF LogGrows
<1>4. QED
  BY <1>1, <1>3

LEMMA DeferredFrame ==
  ASSUME AliveInv, LogGrows, deferred' = deferred, Leaving' <=> Leaving, Over => Over'
  PROVE  DeferredFits'
<1>1. /\ deferred \in Seq(Id) /\ Len(deferred) \in Nat /\ DOMAIN deferred = 1..Len(deferred)
      /\ \A j \in DOMAIN deferred : log'[deferred[j]] = log[deferred[j]]
  BY DeferredKinds DEF AliveInv
<1>2. Leaving' => log'[deferred[Len(deferred)]] = "shutdown"
  <2> SUFFICES ASSUME Leaving' PROVE log'[deferred[Len(deferred)]] = "shutdown"
    OBVIOUS
  <2>1. deferred # <<>> /\ log[deferred[Len(deferred)]] = "shutdown"
    BY DEF AliveInv, DeferredFits
  <2>2. Len(deferred) \in DOMAIN deferred
    BY <1>1, <2>1, EmptySeq
  <2>3. QED
    BY <1>1, <2>1, <2>2
<1>3. QED
  BY <1>1, <1>2 DEF AliveInv, DeferredFits

LEMMA DeferredAppends ==
  ASSUME AliveInv, TurnContext \/ TurnShutdown
  PROVE  DeferredFits'
<1> DEFINE d == Append(deferred, Next1)
<1>1. /\ requests # <<>> /\ requests' = Tail(requests) /\ log' = log /\ deferred' = d
      /\ pc' = pc /\ pc = "turn" /\ draining = "no"
  BY DEF TurnContext, TurnShutdown, Receive, InTurn, HasRequest
<1>2. Next1 \in Id
  BY <1>1, ReadFacts DEF AliveInv, ContextInv, TypeInv
<1>3. /\ Len(d) = Len(deferred) + 1 /\ Len(deferred) \in Nat
      /\ DOMAIN d = 1..(Len(deferred) + 1) /\ DOMAIN deferred = 1..Len(deferred)
      /\ \A j \in 1..Len(deferred) : d[j] = deferred[j]
      /\ d[Len(deferred) + 1] = Next1
  BY <1>2, AppendFacts DEF AliveInv, ContextInv, TypeInv, TypeOK
<1>4. \A j \in 1..Len(deferred) : log[d[j]] \in Context
  BY <1>1, <1>3 DEF AliveInv, DeferredFits, Leaving, Over
<1> HIDE DEF d
<1>5. CASE TurnContext
  <2>1. log[Next1] \in Context /\ draining' = "no"
    BY <1>1, <1>5 DEF TurnContext, Receive, HasRequest
  <2>2. \A j \in DOMAIN d : log[d[j]] \in Context
    BY <1>3, <1>4, <2>1
  <2>3. QED
    BY <1>1, <2>1, <2>2 DEF DeferredFits, Leaving
<1>6. CASE TurnShutdown
  <2>1. log[Next1] = "shutdown" /\ draining' = "shutdown"
    BY <1>6 DEF TurnShutdown, Receive, HasRequest
  <2>2. d # <<>> /\ \A j \in DOMAIN d : j # Len(d) => log[d[j]] \in Context
    BY <1>3, <1>4
  <2>3. QED
    BY <1>1, <1>3, <2>1, <2>2 DEF DeferredFits, Leaving
<1>7. QED
  BY <1>5, <1>6

LEMMA DeferredApplies ==
  ASSUME AliveInv, ApplyDeferred
  PROVE  DeferredFits'
<1> DEFINE d == Tail(deferred)
<1>1. /\ deferred # <<>> /\ log[Head(deferred)] \in Context /\ deferred' = d
      /\ UNCHANGED <<log, pc, draining>> /\ ~Over
  BY DEF ApplyDeferred, link, run, Over
<1>2. /\ Len(deferred) \in Nat \ {0} /\ Head(deferred) = deferred[1]
      /\ d \in Seq(Id) /\ Len(d) = Len(deferred) - 1
      /\ DOMAIN d = 1..Len(d) /\ DOMAIN deferred = 1..Len(deferred)
      /\ \A j \in 1..Len(d) : d[j] = deferred[j + 1]
  BY <1>1, TailFacts DEF AliveInv, ContextInv, TypeInv, TypeOK
<1>3. Leaving' = Leaving /\ Over' = Over
  BY <1>1 DEF Leaving, Over
<1> HIDE DEF d
<1>4. CASE ~Leaving
  <2>1. \A j \in DOMAIN d : log[d[j]] \in Context
    BY <1>1, <1>2, <1>4 DEF AliveInv, DeferredFits
  <2>2. QED
    BY <1>1, <1>3, <1>4, <2>1 DEF DeferredFits
<1>5. CASE Leaving
  <2>1. /\ log[deferred[Len(deferred)]] = "shutdown"
        /\ \A j \in DOMAIN deferred : j # Len(deferred) => log[deferred[j]] \in Context
    BY <1>5 DEF AliveInv, DeferredFits
  <2>2. Len(deferred) # 1
    BY <1>1, <1>2, <2>1 DEF Context
  <2>3. d # <<>> /\ d[Len(d)] = deferred[Len(deferred)]
    BY <1>2, <2>2
  <2>4. \A j \in DOMAIN d : j # Len(d) => log[d[j]] \in Context
    BY <1>2, <2>1
  <2>5. QED
    BY <1>1, <1>3, <1>5, <2>1, <2>3, <2>4 DEF DeferredFits
<1>6. QED
  BY <1>4, <1>5

LEMMA DeferredStep ==
  ASSUME AliveInv, [Next]_vars
  PROVE  DeferredFits'
<1> USE DEF InTurn
<1>1. LogGrows
  BY LogStep DEF AliveInv, ContextInv
<1>2. ~InTurn => draining = "no"
  BY DEF AliveInv, FlagIsSet
<1>3. ASSUME deferred' = deferred, Leaving' <=> Leaving, Over => Over'
      PROVE  DeferredFits'
  BY <1>1, <1>3, DeferredFrame
<1>4. CASE UiNext
  BY <1>3, <1>4 DEF UiNext, Send, UiExits, UiPanic, run, Leaving, Over
<1>5. CASE TakeMessage \/ IdleAbort \/ IdleContext \/ IdleOperation \/ IdleShutdown
           \/ IdleClosed
  <2>1. /\ pc = "idle" /\ pc' # "shutdown" /\ UNCHANGED <<draining, deferred>>
    BY <1>5 DEF TakeMessage, IdleAbort, IdleContext, IdleOperation, IdleShutdown,
                IdleClosed, IdleRequest, run
  <2>2. QED
    BY <1>3, <2>1 DEF Leaving, Over
<1>6. ASSUME NEW blocked \in BOOLEAN, Preflight(blocked)
      PROVE  DeferredFits'
  BY <1>3, <1>6 DEF Preflight, Leaving, Over
<1>7. CASE Prepare \/ LoopTop \/ Watcher \/ \E continue \in BOOLEAN : CallReturns(continue)
  BY <1>3, <1>7 DEF Prepare, LoopTop, Watcher, CallReturns, Leaving, Over
<1>8. CASE TurnMessage \/ TurnOperation
  BY <1>3, <1>8 DEF TurnMessage, TurnOperation, Receive, Leaving, Over
<1>9. CASE TurnAbort
  BY <1>3, <1>9 DEF TurnAbort, Receive, Leaving, Over
<1>10. CASE TurnClosed
  BY <1>3, <1>10 DEF TurnClosed, Leaving, Over
<1>11. CASE StreamEnds
  BY <1>3, <1>11 DEF StreamEnds, Leaving, Over
<1>12. CASE DeferredShutdown
  BY <1>2, <1>12 DEF DeferredShutdown, run, DeferredFits, Leaving, Over
<1>13. CASE Settled \/ SessionEnd
  BY <1>2, <1>3, <1>13 DEF Settled, SessionEnd, run, Leaving, Over
<1>14. CASE UNCHANGED vars
  BY <1>3, <1>14 DEF vars, run, Leaving, Over
<1>15. QED
  BY <1>4, <1>5, <1>6, <1>7, <1>8, <1>9, <1>10, <1>11, <1>12, <1>13, <1>14,
     DeferredAppends, DeferredApplies DEF Next, WorkerNext, LoopNext, TurnRequest

LEMMA AliveInvariant == Spec => []AliveInv
<1>1. Init => LoopInTurn /\ GoneWhenClosed /\ FlagIsSet /\ ExitIsAhead /\ DeferredFits
  BY DEF Init, LoopInTurn, InTurn, GoneWhenClosed, FlagIsSet, ExitIsAhead, DeferredFits,
         Leaving
<1>2. KnowInv => LoopInTurn
  BY DEF KnowInv
<1>3. ContextInv /\ LoopInTurn /\ LoopInTurn' /\ AliveInv /\ ContextInv' /\ [Next]_vars
        => AliveInv'
  BY FlagStep, ExitStep, DeferredStep DEF AliveInv
<1>4. Init => KnowInv
  BY DEF Init, KnowInv, LoopInTurn, DialogFresh, DialogKeeps, KnowsWhatWasSaid, InTurn
<1>5. Spec => []KnowInv
  BY <1>4, KnowStep, PTL DEF Spec
<1>6. ContextInv /\ KnowInv /\ GoneWhenClosed /\ FlagIsSet /\ ExitIsAhead /\ DeferredFits
        => AliveInv
  BY DEF AliveInv, KnowInv
<1>7. QED
  BY <1>1, <1>2, <1>3, <1>5, <1>6, ContextInvariant, PTL DEF Spec

(* The guards of the worker's steps, one line each.                        *)
CanMove ==
  \/ pc = "idle" /\ steering # <<>>
  \/ pc = "idle" /\ HasRequest({"message", "abort", "shutdown"} \cup Context \cup Operation)
  \/ pc = "idle" /\ requests = <<>> /\ closed
  \/ pc = "preflight"
  \/ InTurn /\ loop \in {"prepare", "returned"}
  \/ InTurn /\ draining = "no"
     /\ HasRequest({"message", "abort", "shutdown"} \cup Context \cup Operation)
  \/ InTurn /\ draining = "no" /\ requests = <<>> /\ closed
  \/ pc \in {"settle", "shutdown"} /\ deferred # <<>> /\ log[Head(deferred)] \in Context
  \/ pc = "shutdown" /\ deferred # <<>> /\ log[Head(deferred)] = "shutdown"
  \/ pc = "settle" /\ deferred = <<>>
  \/ pc = "ending"

(* Where it has nothing to do: it is over, or waits for a UI that is there, *)
(* or for a loop that runs and may, once it drains, be cancelled.          *)
Rests ==
  \/ pc = "stopped"
  \/ pc = "idle" /\ requests = <<>> /\ ~uiGone
  \/ InTurn /\ loop \in {"top", "call"} /\ requests = <<>> /\ ~uiGone
  \/ InTurn /\ loop \in {"top", "call"} /\ draining # "no" /\ abortFlag

NeverStuck == CanMove \/ Rests

LEMMA AliveMeansMoving == AliveInv => NeverStuck
<1> SUFFICES ASSUME AliveInv PROVE NeverStuck
  OBVIOUS
<1> USE DEF InTurn
<1>1. /\ TypeOK /\ log \in Seq(Kind) /\ DOMAIN log = 1..Len(log)
      /\ Len(log) \in Nat /\ Len(requests) \in Nat /\ Read \in Nat
  BY ReadIsNat DEF AliveInv, ContextInv, TypeInv, TypeOK
<1>2. requests # <<>> => HasRequest({"message", "abort", "shutdown"} \cup Context \cup Operation)
  <2> SUFFICES ASSUME requests # <<>> PROVE log[Next1] \in Kind
    BY DEF HasRequest, Kind
  <2>1. Len(requests) # 0 /\ Next1 = requests[1]
    BY <1>1, EmptySeq DEF TypeOK, Next1
  <2>2. Next1 = Read + 1
    BY <1>1, <2>1 DEF AliveInv, ContextInv, ChannelInOrder
  <2>3. Next1 \in DOMAIN log
    BY <1>1, <2>1, <2>2 DEF Read
  <2>4. QED
    BY <1>1, <2>3
<1>3. requests = <<>> /\ uiGone /\ ~closed /\ ~Leaving => Over
  BY <1>1 DEF AliveInv, ExitIsAhead, ExitWaits, Read
<1>4. ~InTurn => draining = "no"
  BY DEF AliveInv, FlagIsSet
<1>5. CASE pc = "idle"
  BY <1>2, <1>3, <1>4, <1>5 DEF NeverStuck, CanMove, Rests, Leaving, Over
<1>6. CASE InTurn
  <2>1. loop \in {"prepare", "returned", "top", "call"}
    BY <1>1, <1>6 DEF AliveInv, LoopInTurn, TypeOK
  <2>2. CASE draining # "no"
    BY <1>6, <2>1, <2>2 DEF AliveInv, FlagIsSet, NeverStuck, CanMove, Rests
  <2>3. CASE draining = "no"
    BY <1>2, <1>3, <1>6, <2>1, <2>3 DEF NeverStuck, CanMove, Rests, Leaving, Over
  <2>4. QED
    BY <2>2, <2>3
<1>7. /\ deferred \in Seq(Id) /\ Len(deferred) \in Nat /\ DOMAIN deferred = 1..Len(deferred)
      /\ deferred # <<>> => 1 \in DOMAIN deferred /\ Head(deferred) = deferred[1]
  BY <1>1, EmptySeq DEF TypeOK
<1>8. CASE pc = "settle"
  <2>1. \A j \in DOMAIN deferred : log[deferred[j]] \in Context
    BY <1>4, <1>8 DEF AliveInv, DeferredFits, Leaving, Over
  <2>2. QED
    BY <1>7, <1>8, <2>1 DEF NeverStuck, CanMove
<1>9. CASE pc = "shutdown"
  <2>1. /\ deferred # <<>> /\ log[deferred[Len(deferred)]] = "shutdown"
        /\ \A j \in DOMAIN deferred : j # Len(deferred) => log[deferred[j]] \in Context
    BY <1>9 DEF AliveInv, DeferredFits, Leaving
  <2>2. log[Head(deferred)] \in Context \cup {"shutdown"}
    BY <1>7, <2>1
  <2>3. QED
    BY <1>9, <2>1, <2>2 DEF NeverStuck, CanMove
<1>10. CASE pc \in {"preflight", "ending", "stopped"}
  BY <1>10 DEF NeverStuck, CanMove, Rests
<1>11. QED
  BY <1>1, <1>5, <1>6, <1>8, <1>9, <1>10 DEF TypeOK

(* The worker is never stuck: whatever was deferred, cancelled or sent at  *)
(* the exit, it has a step to take, or it waits for somebody who is there  *)
(* (agent_worker, handle_streaming_request).                               *)
THEOREM WorkerNeverSticks == Spec => []NeverStuck
<1>1. QED
  BY AliveInvariant, AliveMeansMoving, PTL
-----------------------------------------------------------------------------
(* What bounds the steps of a cancelled turn, and of the worker once the UI *)
(* is gone.                                                                 *)
Untold == IF token THEN 0 ELSE 1

Stage ==
  CASE loop = "prepare" -> 4
    [] loop = "call" -> 3
    [] loop = "top" -> 2
    [] loop = "returned" -> 1
    [] OTHER -> 0

Rank == 2 * Stage + Untold

Cancelling == InTurn /\ draining # "no"

LEMMA RankStep ==
  ASSUME TypeOK, FlagIsSet, LoopInTurn, Cancelling, Next
  PROVE  ~InTurn' \/ (/\ Cancelling' /\ Rank' \in Nat
                      /\ Rank' < Rank \/ (UiNext /\ Rank' = Rank))
<1> USE DEF Cancelling, InTurn
<1>1. /\ pc = "turn" /\ draining # "no" /\ abortFlag /\ token \in BOOLEAN
      /\ loop \in {"prepare", "top", "call", "returned"}
  BY DEF FlagIsSet, TypeOK, LoopInTurn
<1>2. Untold \in 0..1 /\ Untold' \in 0..1 /\ Stage \in 1..4
  BY <1>1 DEF Untold, Stage
<1>3. ASSUME Cancelling', Stage' \in 0..4, Stage' < Stage
      PROVE  Cancelling' /\ Rank' \in Nat /\ Rank' < Rank
  <2>1. \A s, t \in 0..4 : \A u, v \in 0..1 :
          t < s => 2 * t + v \in Nat /\ 2 * t + v < 2 * s + u
    OBVIOUS
  <2>2. /\ Stage \in 0..4 /\ Stage' \in 0..4 /\ Stage' < Stage
        /\ Untold \in 0..1 /\ Untold' \in 0..1
    BY <1>2, <1>3
  <2>3. 2 * Stage' + Untold' \in Nat /\ 2 * Stage' + Untold' < 2 * Stage + Untold
    BY <2>1, <2>2, ZenonT(30)
  <2>4. QED
    BY <1>3, <2>3 DEF Rank
<1>4. CASE UiNext
  <2>1. UNCHANGED <<pc, draining, loop, token>>
    BY <1>4 DEF UiNext, Send, UiExits, UiPanic, run
  <2>2. Rank' = Rank /\ Rank \in Nat
    <3>1. Stage' = Stage /\ Untold' = Untold
      BY <2>1 DEF Stage, Untold
    <3>2. QED
      BY <1>2, <3>1 DEF Rank
  <2>3. QED
    BY <1>1, <1>4, <2>1, <2>2
<1>5. CASE Prepare
  <2>1. Cancelling' /\ Stage = 4 /\ Stage' = 2
    BY <1>1, <1>5 DEF Prepare, Stage
  <2>2. QED
    BY <1>3, <2>1
<1>6. CASE LoopTop
  <2>1. Cancelling' /\ Stage = 2 /\ Stage' = 1
    BY <1>1, <1>6 DEF LoopTop, Stage
  <2>2. QED
    BY <1>3, <2>1
<1>7. CASE \E continue \in BOOLEAN : CallReturns(continue)
  <2>1. Cancelling' /\ Stage = 3 /\ Stage' \in 1..2
    BY <1>1, <1>7 DEF CallReturns, Stage
  <2>2. QED
    BY <1>3, <2>1
<1>8. CASE Watcher
  <2>1. Cancelling' /\ Stage' = Stage /\ Untold = 1 /\ Untold' = 0
    BY <1>1, <1>8 DEF Watcher, Stage, Untold
  <2>2. QED
    BY <1>2, <2>1 DEF Rank
<1>9. CASE StreamEnds
  BY <1>9 DEF StreamEnds
<1>10. CASE TurnRequest
  BY <1>1, <1>10 DEF TurnRequest, TurnMessage, TurnContext, TurnOperation, TurnAbort,
                     TurnShutdown, TurnClosed, Receive
<1>11. CASE TakeMessage \/ IdleAbort \/ IdleContext \/ IdleOperation \/ IdleShutdown
            \/ IdleClosed
  BY <1>1, <1>11 DEF TakeMessage, IdleAbort, IdleContext, IdleOperation, IdleShutdown,
                     IdleClosed, IdleRequest
<1>12. CASE \/ \E blocked \in BOOLEAN : Preflight(blocked)
            \/ ApplyDeferred \/ DeferredShutdown \/ Settled \/ SessionEnd
  BY <1>1, <1>12 DEF Preflight, ApplyDeferred, DeferredShutdown, Settled, SessionEnd
<1>13. QED
  BY <1>4, <1>5, <1>6, <1>7, <1>8, <1>9, <1>10, <1>11, <1>12 DEF Next, WorkerNext, LoopNext

(* A turn whose session drains has at most nine steps left: nobody but the *)
(* UI takes a step that does not bring it nearer to its end, and none puts *)
(* off the cancellation (run_agentic_loop, the abort watcher).             *)
THEOREM CancelledTurnsRunDown ==
  Spec => [][Cancelling =>
               \/ ~InTurn'
               \/ /\ Cancelling' /\ Rank' \in Nat
                  /\ Rank' < Rank \/ (UiNext /\ Rank' = Rank)]_vars
<1>1. AliveInv /\ [Next]_vars =>
        [Cancelling =>
           \/ ~InTurn'
           \/ /\ Cancelling' /\ Rank' \in Nat
              /\ Rank' < Rank \/ (UiNext /\ Rank' = Rank)]_vars
  BY RankStep DEF AliveInv, ContextInv, TypeInv
<1>2. QED
  BY <1>1, AliveInvariant, PTL DEF Spec

LoopSteps ==
  CASE loop = "prepare" -> 3 * MaxTurns + 3
    [] loop = "top" -> 3 * (MaxTurns - rounds) + 2
    [] loop = "call" -> 3 * (MaxTurns - rounds) + 3
    [] loop = "returned" -> 1
    [] OTHER -> 0

WorkerSteps ==
  CASE pc = "preflight" -> 6 * MaxTurns + 13
    [] pc = "turn" -> 4
    [] pc \in {"settle", "shutdown"} -> 3
    [] pc = "idle" -> 2
    [] pc = "ending" -> 1
    [] OTHER -> 0

Left == WorkerSteps + 2 * LoopSteps + Untold + 2 * Len(requests) + Len(deferred)

LEMMA LeftIsNat ==
  ASSUME TypeOK
  PROVE  /\ WorkerSteps \in Nat /\ LoopSteps \in Nat /\ Untold \in 0..1
         /\ Len(requests) \in Nat /\ Len(deferred) \in Nat /\ Left \in Nat
<1>1. /\ loop \in {"off", "prepare", "top", "call", "returned"} /\ token \in BOOLEAN
      /\ rounds \in 0..MaxTurns /\ MaxTurns \in Nat
      /\ pc \in {"idle", "preflight", "turn", "settle", "shutdown", "ending", "stopped"}
  BY TurnAssumption DEF TypeOK
<1>2. LoopSteps \in Nat
  BY <1>1 DEF LoopSteps
<1>3. WorkerSteps \in Nat
  BY <1>1 DEF WorkerSteps
<1>4. Untold \in 0..1
  BY <1>1 DEF Untold
<1>5. Len(requests) \in Nat /\ Len(deferred) \in Nat
  BY DEF TypeOK
<1>6. QED
  BY <1>2, <1>3, <1>4, <1>5 DEF Left

LEMMA LeftIsNatNext ==
  ASSUME TypeOK'
  PROVE  /\ WorkerSteps' \in Nat /\ LoopSteps' \in Nat /\ Untold' \in 0..1
         /\ Len(requests') \in Nat /\ Len(deferred') \in Nat /\ Left' \in Nat
<1>1. /\ loop' \in {"off", "prepare", "top", "call", "returned"} /\ token' \in BOOLEAN
      /\ rounds' \in 0..MaxTurns /\ MaxTurns \in Nat
      /\ pc' \in {"idle", "preflight", "turn", "settle", "shutdown", "ending", "stopped"}
  BY TurnAssumption DEF TypeOK
<1>2. LoopSteps' \in Nat
  BY <1>1 DEF LoopSteps
<1>3. WorkerSteps' \in Nat
  BY <1>1 DEF WorkerSteps
<1>4. Untold' \in 0..1
  BY <1>1 DEF Untold
<1>5. Len(requests') \in Nat /\ Len(deferred') \in Nat
  BY DEF TypeOK
<1>6. QED
  BY <1>2, <1>3, <1>4, <1>5 DEF Left

(* A request that is read is one less to read, whatever else it adds.      *)
LEMMA LeftReads ==
  ASSUME TypeOK, TypeOK', requests # <<>>, requests' = Tail(requests),
         WorkerSteps' <= WorkerSteps, UNCHANGED <<loop, rounds, token>>,
         Len(deferred') <= Len(deferred) + 1
  PROVE  Left' < Left
<1>1. Len(requests) \in Nat \ {0} /\ Len(requests') = Len(requests) - 1
  BY TailFacts DEF TypeOK
<1>2. LoopSteps' = LoopSteps /\ Untold' = Untold
  BY DEF LoopSteps, Untold
<1>3. /\ WorkerSteps \in Nat /\ LoopSteps \in Nat /\ Untold \in 0..1
      /\ Len(deferred) \in Nat /\ WorkerSteps' \in Nat /\ Len(deferred') \in Nat
  BY LeftIsNat, LeftIsNatNext
<1>4. QED
  BY <1>1, <1>2, <1>3 DEF Left

(* A step inside the turn leaves the requests alone.                       *)
LEMMA LeftLoops ==
  ASSUME TypeOK, TypeOK', UNCHANGED <<requests, deferred>>,
         WorkerSteps' + 2 * LoopSteps' + Untold' < WorkerSteps + 2 * LoopSteps + Untold
  PROVE  Left' < Left
<1>1. /\ WorkerSteps \in Nat /\ LoopSteps \in Nat /\ Untold \in 0..1
      /\ Len(requests) \in Nat /\ Len(deferred) \in Nat
  BY LeftIsNat
<1>2. WorkerSteps' \in Nat /\ LoopSteps' \in Nat /\ Untold' \in 0..1
  BY LeftIsNatNext
<1>3. Len(requests') = Len(requests) /\ Len(deferred') = Len(deferred)
  OBVIOUS
<1>4. \A a, b, m, n \in Nat : a < b => (a + 2 * m) + n < (b + 2 * m) + n
  OBVIOUS
<1>5. /\ WorkerSteps' + 2 * LoopSteps' + Untold' \in Nat
      /\ WorkerSteps + 2 * LoopSteps + Untold \in Nat
  <2>1. \A w, l \in Nat : \A u \in 0..1 : w + 2 * l + u \in Nat
    OBVIOUS
  <2>2. QED
    BY <1>1, <1>2, <2>1
<1>6. QED
  BY <1>1, <1>3, <1>4, <1>5 DEF Left

LEMMA LeftStep ==
  ASSUME TypeInv, TypeInv', LoopInTurn, LoopInTurn', uiGone, Next
  PROVE  Left' \in Nat /\ Left' < Left
<1> USE DEF InTurn
<1>1. /\ TypeOK /\ TypeOK' /\ Left' \in Nat
      /\ loop \in {"off", "prepare", "top", "call", "returned"} /\ token \in BOOLEAN
      /\ rounds \in 0..MaxTurns /\ rounds' \in 0..MaxTurns /\ MaxTurns \in Nat
      /\ pc = "turn" <=> loop # "off"
  BY LeftIsNatNext, TurnAssumption DEF TypeInv, TypeOK, LoopInTurn
<1>2. /\ WorkerSteps \in Nat /\ LoopSteps \in Nat /\ Untold \in 0..1
      /\ WorkerSteps' \in Nat /\ LoopSteps' \in Nat /\ Untold' \in 0..1
      /\ Len(requests) \in Nat /\ Len(deferred) \in Nat
      /\ Len(requests') \in Nat /\ Len(deferred') \in Nat
  BY <1>1, LeftIsNat, LeftIsNatNext
<1>3. ~UiNext
  BY DEF UiNext, Send, UiExits, UiPanic
<1>4. ASSUME UNCHANGED <<requests, deferred, loop, rounds, token>>, WorkerSteps' < WorkerSteps
      PROVE  Left' < Left
  <2>1. LoopSteps' = LoopSteps /\ Untold' = Untold
    BY <1>4 DEF LoopSteps, Untold
  <2>2. QED
    BY <1>2, <1>4, <2>1 DEF Left
<1>5. CASE TakeMessage
  <2>1. /\ pc = "idle" /\ pc' = "ending" /\ UNCHANGED <<deferred, loop, rounds, token>>
        /\ \/ requests' = requests
           \/ requests # <<>> /\ requests' = Tail(requests)
    BY <1>5 DEF TakeMessage, run, HasRequest
  <2>2. WorkerSteps = 2 /\ WorkerSteps' = 1
    BY <2>1 DEF WorkerSteps
  <2>3. QED
    BY <1>1, <1>2, <1>4, <2>1, <2>2, LeftReads
<1>6. CASE IdleAbort \/ IdleContext \/ IdleOperation \/ IdleShutdown
  <2>1. /\ pc = "idle" /\ pc' \in {"idle", "ending"}
        /\ UNCHANGED <<deferred, loop, rounds, token>>
        /\ requests # <<>> /\ requests' = Tail(requests)
    BY <1>6 DEF IdleAbort, IdleContext, IdleOperation, IdleShutdown, IdleRequest,
                HasRequest, run
  <2>2. WorkerSteps = 2 /\ WorkerSteps' \in 1..2
    BY <2>1 DEF WorkerSteps
  <2>3. QED
    BY <1>1, <1>2, <2>1, <2>2, LeftReads
<1>7. CASE IdleClosed \/ Settled \/ SessionEnd
  <2>1. UNCHANGED <<requests, deferred, loop, rounds, token>>
    BY <1>7 DEF IdleClosed, Settled, SessionEnd, link, run
  <2>2. \/ pc = "idle" /\ pc' = "ending"
        \/ pc = "settle" /\ pc' = "idle"
        \/ pc = "ending" /\ pc' = "stopped"
    BY <1>7 DEF IdleClosed, Settled, SessionEnd
  <2>3. CASE pc = "idle" /\ pc' = "ending"
    BY <1>1, <1>2, <1>4, <2>1, <2>3 DEF WorkerSteps
  <2>4. CASE pc = "settle" /\ pc' = "idle"
    BY <1>1, <1>2, <1>4, <2>1, <2>4 DEF WorkerSteps
  <2>5. CASE pc = "ending" /\ pc' = "stopped"
    BY <1>1, <1>2, <1>4, <2>1, <2>5 DEF WorkerSteps
  <2>6. QED
    BY <2>2, <2>3, <2>4, <2>5
<1>8. ASSUME NEW blocked \in BOOLEAN, Preflight(blocked)
      PROVE  Left' < Left
  <2>1. /\ pc = "preflight" /\ loop = "off" /\ Untold' = Untold
        /\ \/ UNCHANGED <<requests, deferred, loop, rounds, token>> /\ pc' = "idle"
           \/ UNCHANGED <<requests, deferred, token>> /\ pc' = "turn" /\ loop' = "prepare"
    BY <1>1, <1>8 DEF Preflight, link, Untold
  <2>2. WorkerSteps = 6 * MaxTurns + 13 /\ LoopSteps = 0
    BY <2>1 DEF WorkerSteps, LoopSteps
  <2>3. CASE pc' = "idle"
    <3>1. WorkerSteps' = 2 /\ UNCHANGED <<requests, deferred, loop, rounds, token>>
      BY <2>1, <2>3 DEF WorkerSteps
    <3>2. QED
      BY <1>1, <1>4, <2>2, <3>1
  <2>4. CASE pc' = "turn"
    <3>1. /\ WorkerSteps' = 4 /\ LoopSteps' = 3 * MaxTurns + 3
          /\ UNCHANGED <<requests, deferred>>
      BY <2>1, <2>4 DEF WorkerSteps, LoopSteps
    <3>2. WorkerSteps' + 2 * LoopSteps' + Untold' < WorkerSteps + 2 * LoopSteps + Untold
      BY <1>1, <1>2, <2>1, <2>2, <3>1
    <3>3. QED
      BY <1>1, <3>1, <3>2, LeftLoops
  <2>5. QED
    BY <2>1, <2>3, <2>4
<1>9. ASSUME UNCHANGED <<pc, requests, deferred>>, LoopSteps' < LoopSteps
      PROVE  Left' < Left
  <2>1. WorkerSteps' = WorkerSteps
    BY <1>9 DEF WorkerSteps
  <2>2. \A w, l, m \in Nat : \A u, v \in 0..1 :
          m < l => w + 2 * m + v < w + 2 * l + u
    OBVIOUS
  <2>3. WorkerSteps' + 2 * LoopSteps' + Untold' < WorkerSteps + 2 * LoopSteps + Untold
    BY <1>2, <1>9, <2>1, <2>2
  <2>4. QED
    BY <1>1, <1>9, <2>3, LeftLoops
<1>10. CASE Prepare
  <2>1. LoopSteps = 3 * MaxTurns + 3 /\ LoopSteps' = 3 * (MaxTurns - 0) + 2
    BY <1>10 DEF Prepare, LoopSteps
  <2>2. QED
    BY <1>1, <1>9, <1>10, <2>1 DEF Prepare, link
<1>11. CASE LoopTop
  <2>1. CASE HasRounds /\ ~abortFlag
    <3>1. /\ LoopSteps = 3 * (MaxTurns - rounds) + 2
          /\ LoopSteps' = 3 * (MaxTurns - (rounds + 1)) + 3
      BY <1>11, <2>1 DEF LoopTop, LoopSteps
    <3>2. QED
      BY <1>1, <1>9, <1>11, <3>1 DEF LoopTop, link
  <2>2. CASE ~(HasRounds /\ ~abortFlag)
    <3>1. LoopSteps = 3 * (MaxTurns - rounds) + 2 /\ LoopSteps' = 1
      BY <1>11, <2>2 DEF LoopTop, LoopSteps
    <3>2. QED
      BY <1>1, <1>9, <1>11, <3>1 DEF LoopTop, link
  <2>3. QED
    BY <2>1, <2>2
<1>12. ASSUME NEW continue \in BOOLEAN, CallReturns(continue)
       PROVE  Left' < Left
  <2>1. /\ LoopSteps = 3 * (MaxTurns - rounds) + 3
        /\ LoopSteps' \in {3 * (MaxTurns - rounds) + 2, 1}
    BY <1>12 DEF CallReturns, LoopSteps
  <2>2. QED
    BY <1>1, <1>9, <1>12, <2>1 DEF CallReturns, link
<1>13. CASE Watcher
  <2>1. /\ Untold = 1 /\ Untold' = 0 /\ UNCHANGED <<requests, deferred>>
        /\ WorkerSteps' = WorkerSteps /\ LoopSteps' = LoopSteps
    BY <1>13 DEF Watcher, Untold, WorkerSteps, LoopSteps, link
  <2>2. QED
    BY <1>2, <2>1 DEF Left
<1>14. CASE TurnMessage \/ TurnContext \/ TurnOperation \/ TurnAbort \/ TurnShutdown
  <2>1. /\ requests # <<>> /\ requests' = Tail(requests)
        /\ UNCHANGED <<pc, loop, rounds, token>>
        /\ deferred' \in {deferred, Append(deferred, Next1)}
    BY <1>14 DEF TurnMessage, TurnContext, TurnOperation, TurnAbort, TurnShutdown,
                 Receive, HasRequest
  <2>2. WorkerSteps' = WorkerSteps
    BY <2>1 DEF WorkerSteps
  <2>3. Len(deferred') <= Len(deferred) + 1
    <3>1. Next1 \in Id /\ deferred \in Seq(Id)
      <4>1. requests \in Seq(Id) /\ deferred \in Seq(Id)
        BY <1>1 DEF TypeOK
      <4>2. QED
        BY <2>1, <4>1, TailFacts DEF Next1
    <3>2. QED
      BY <1>2, <2>1, <3>1
  <2>4. QED
    BY <1>1, <1>2, <2>1, <2>2, <2>3, LeftReads
<1>15. CASE TurnClosed
  <2>1. /\ pc = "turn" /\ pc' = "ending" /\ loop' = "off"
        /\ UNCHANGED <<requests, deferred, token>>
    BY <1>15 DEF TurnClosed, link
  <2>2. WorkerSteps = 4 /\ WorkerSteps' = 1 /\ LoopSteps' = 0 /\ Untold' = Untold
    BY <2>1 DEF WorkerSteps, LoopSteps, Untold
  <2>3. QED
    BY <1>2, <2>1, <2>2 DEF Left
<1>16. CASE StreamEnds
  <2>1. /\ pc = "turn" /\ pc' \in {"settle", "shutdown"} /\ loop = "returned"
        /\ loop' = "off" /\ UNCHANGED <<requests, deferred>>
    BY <1>16 DEF StreamEnds, link
  <2>2. WorkerSteps = 4 /\ WorkerSteps' = 3 /\ LoopSteps = 1 /\ LoopSteps' = 0
    BY <2>1 DEF WorkerSteps, LoopSteps
  <2>3. QED
    BY <1>2, <2>1, <2>2 DEF Left
<1>17. CASE ApplyDeferred
  <2>1. /\ deferred # <<>> /\ deferred' = Tail(deferred) /\ deferred \in Seq(Id)
        /\ UNCHANGED <<pc, loop, rounds, token, requests>>
    BY <1>1, <1>17 DEF ApplyDeferred, link, run, TypeOK
  <2>2. Len(deferred') < Len(deferred)
    BY <1>2, <2>1, TailFacts
  <2>3. WorkerSteps' = WorkerSteps /\ LoopSteps' = LoopSteps /\ Untold' = Untold
    BY <2>1 DEF WorkerSteps, LoopSteps, Untold
  <2>4. QED
    BY <1>2, <2>1, <2>2, <2>3 DEF Left
<1>18. CASE DeferredShutdown
  <2>1. /\ pc = "shutdown" /\ pc' = "ending" /\ deferred' = <<>>
        /\ UNCHANGED <<loop, rounds, token, requests>>
    BY <1>18 DEF DeferredShutdown, link, run
  <2>2. /\ WorkerSteps = 3 /\ WorkerSteps' = 1 /\ LoopSteps' = LoopSteps
        /\ Untold' = Untold /\ Len(deferred') = 0
    BY <2>1 DEF WorkerSteps, LoopSteps, Untold
  <2>3. QED
    BY <1>2, <2>1, <2>2 DEF Left
<1>19. QED
  BY <1>1, <1>3, <1>5, <1>6, <1>7, <1>8, <1>10, <1>11, <1>12, <1>13, <1>14, <1>15, <1>16,
     <1>17, <1>18 DEF Next, WorkerNext, LoopNext, TurnRequest

(* Once the UI is gone every step there is brings the worker nearer to its *)
(* end: what is in the channel and in the steering queue starts no turn    *)
(* again, and what was deferred is done once (agent_worker).               *)
THEOREM ExitsRunDown == Spec => [][uiGone => Left' \in Nat /\ Left' < Left]_vars
<1>1. AliveInv /\ AliveInv' /\ [Next]_vars
        => [uiGone => Left' \in Nat /\ Left' < Left]_vars
  BY LeftStep DEF AliveInv, ContextInv
<1>2. QED
  BY <1>1, AliveInvariant, PTL DEF Spec
=============================================================================
