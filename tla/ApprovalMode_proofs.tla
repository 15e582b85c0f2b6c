------------------------- MODULE ApprovalMode_proofs -------------------------
(***************************************************************************)
(* Proofs about ApprovalMode for every initial mode and every bound.       *)
(***************************************************************************)
EXTENDS ApprovalMode, SequenceTheorems, TLAPS

LEMMA NoModeIsNoMode == NoMode \notin Mode
BY DEF Mode, NoMode

LEMMA NextModeIsMode == ASSUME NEW m \in Mode PROVE NextMode(m) \in Mode
BY DEF Mode, NextMode

LEMMA SafeModeIsMode == ASSUME NEW m \in Mode PROVE SafeMode(m) \in Mode
BY DEF Mode, SafeMode

LEMMA SafeModeIsNotYolo == ASSUME NEW m \in Mode, yoloDisabled PROVE SafeMode(m) # "yolo"
BY DEF SafeMode

LEMMA SafeModeIsIdentity == ASSUME NEW m \in Mode, ~yoloDisabled PROVE SafeMode(m) = m
BY DEF SafeMode

LEMMA TargetIsMode == ASSUME NEW tool \in PlanTool PROVE Target(tool) \in Mode
BY DEF Target, Mode

LEMMA EmptyIffNoMode ==
  ASSUME NEW s \in Seq(Mode)
  PROVE  Len(s) \in Nat /\ (s = <<>> <=> Len(s) = 0)
<1>1. CASE s = <<>>
  BY <1>1
<1>2. CASE s # <<>>
  <2>1. Len(s) \in Nat \ {0}
    BY <1>2, EmptySeq, Zenon
  <2>2. QED
    BY <1>2, <2>1
<1>3. QED
  BY <1>1, <1>2

LEMMA AppendIsNotEmpty ==
  ASSUME NEW s \in Seq(Mode), NEW m \in Mode
  PROVE  Append(s, m) # <<>>
BY AppendProperties

LEMMA AppendEndsWith ==
  ASSUME NEW S, NEW s \in Seq(S), NEW x \in S
  PROVE  LET t == Append(s, x) IN t # <<>> /\ t[Len(t)] = x
OBVIOUS

(* What a spawned write and an installed mode leave behind.                *)
LEMMA SpawnFacts ==
  ASSUME NEW m \in Mode, SpawnEngineWrite(m)
  PROVE  /\ tasks' = [tasks EXCEPT ![m] = @ + 1]
         /\ serial' \in BOOLEAN
         /\ serial' => NoTasks
<1>1. tasks' = [tasks EXCEPT ![m] = @ + 1]
  BY DEF SpawnEngineWrite
<1>2. serial' = NoTasks
  BY Zenon DEF SpawnEngineWrite
<1>3. NoTasks \in BOOLEAN
  BY Zenon DEF NoTasks
<1>4. QED
  BY <1>1, <1>2, <1>3, Zenon

LEMMA InstallFacts ==
  ASSUME NEW m \in Mode, Install(m)
  PROVE  /\ lock' = m /\ agentMode' = m
         /\ lock = m => tasks' = tasks /\ serial' = serial
         /\ lock # m => SpawnEngineWrite(m)
BY DEF Install

LEMMA InstallType ==
  ASSUME NEW m \in Mode, TypeOK, Install(m)
  PROVE  /\ lock' \in Mode /\ agentMode' \in Mode
         /\ tasks' \in [Mode -> Nat] /\ serial' \in BOOLEAN
<1>1. CASE lock = m
  BY <1>1, InstallFacts DEF TypeOK
<1>2. CASE lock # m
  <2>1. SpawnEngineWrite(m) /\ lock' = m /\ agentMode' = m
    BY <1>2, InstallFacts
  <2>2. tasks' = [tasks EXCEPT ![m] = @ + 1] /\ serial' \in BOOLEAN
    BY <2>1, SpawnFacts
  <2>3. tasks' \in [Mode -> Nat]
    BY <2>2 DEF TypeOK
  <2>4. QED
    BY <2>1, <2>2, <2>3
<1>3. QED
  BY <1>1, <1>2

(* SetApprovalMode(m) keeps the shape of what it writes.                   *)
LEMMA SetApprovalModeType ==
  ASSUME NEW m \in Mode, TypeOK, SetApprovalMode(m)
  PROVE  /\ lock' \in Mode /\ agentMode' \in Mode
         /\ tasks' \in [Mode -> Nat] /\ serial' \in BOOLEAN
         /\ replies' \in Seq(Mode)
<1>1. SafeMode(m) \in Mode /\ Install(SafeMode(m))
  BY SafeModeIsMode DEF SetApprovalMode
<1>2. replies' \in Seq(Mode)
  BY DEF SetApprovalMode, TypeOK
<1>3. QED
  BY <1>1, <1>2, InstallType

(* Every reachable state has the declared shape: the modes and messages    *)
(* ApprovalMode's actions pass around stay modes, also for every bound.    *)
THEOREM TypeCorrect == Spec => []TypeOK
<1>1. Init => TypeOK
  <2> SUFFICES ASSUME Init
               PROVE  TypeOK
    OBVIOUS
  <2>1. ui \in Mode
    BY DEF Init, Mode
  <2>2. /\ requests \in Seq(Mode) /\ replies \in Seq(Mode)
        /\ lock \in Mode /\ agentMode \in Mode /\ engine \in Mode
    BY InitialModeAssumption DEF Init
  <2>3. tasks \in [Mode -> Nat]
    BY DEF Init
  <2>4. made \in 0..MaxRequests /\ planned \in 0..MaxPlanTools
    BY BoundAssumption DEF Init
  <2>5. /\ deferred \in Mode \cup {NoMode} /\ streaming \in BOOLEAN
        /\ serial \in BOOLEAN
    BY DEF Init
  <2>6. yoloDisabled \in BOOLEAN
    BY DEF Init
  <2>7. QED
    BY <2>1, <2>2, <2>3, <2>4, <2>5, <2>6 DEF TypeOK
<1>2. TypeOK /\ [Next]_vars => TypeOK'
  <2> SUFFICES ASSUME TypeOK, [Next]_vars
               PROVE  TypeOK'
    OBVIOUS
  <2>0. yoloDisabled' \in BOOLEAN
    BY DEF TypeOK, Next, vars
  <2> USE <2>0 DEF TypeOK
  <2>1. ASSUME NEW m \in Mode, Request(m)
        PROVE  TypeOK'
    BY <2>1, BoundAssumption DEF Request
  <2>2. CASE ReceiveReply
    BY <2>2 DEF ReceiveReply
  <2>4. CASE HandleSetApprovalMode
    <3>1. Head(requests) \in Mode /\ SetApprovalMode(Head(requests))
      BY <2>4 DEF HandleSetApprovalMode
    <3>2. requests' \in Seq(Mode)
      BY <2>4 DEF HandleSetApprovalMode
    <3>3. UNCHANGED <<ui, streaming, deferred, engine, made, planned>>
      BY <2>4 DEF HandleSetApprovalMode
    <3>4. QED
      BY <3>1, <3>2, <3>3, SetApprovalModeType
  <2>5. CASE DeferSetApprovalMode
    BY <2>5 DEF DeferSetApprovalMode
  <2>6. CASE StartTurn
    BY <2>6 DEF StartTurn
  <2>7. CASE FinishTurn
    <3>1. CASE deferred = NoMode
      BY <2>7, <3>1, NoModeIsNoMode DEF FinishTurn, SetApprovalMode
    <3>2. CASE deferred # NoMode
      <4>1. deferred \in Mode /\ SetApprovalMode(deferred)
        BY <2>7, <3>2 DEF FinishTurn
      <4>2. /\ UNCHANGED <<ui, requests, engine, made, planned>>
            /\ streaming' = FALSE /\ deferred' = NoMode
        BY <2>7 DEF FinishTurn
      <4>3. QED
        BY <4>1, <4>2, SetApprovalModeType
    <3>3. QED
      BY <3>1, <3>2
  <2>8. ASSUME NEW tool \in PlanTool, CallPlanTool(tool)
        PROVE  TypeOK'
    <3>1. planned' \in 0..MaxPlanTools
      BY <2>8, BoundAssumption DEF CallPlanTool
    <3>2. UNCHANGED <<ui, requests, replies, streaming, deferred, lock, agentMode,
                      engine, made>>
      BY <2>8 DEF CallPlanTool
    <3>3. CASE ConfirmPlanTool(tool)
      <4>1. tasks' \in [Mode -> Nat] /\ serial' = FALSE
        BY <3>3, TargetIsMode DEF ConfirmPlanTool
      <4>2. QED
        BY <3>1, <3>2, <4>1
    <3>4. CASE RunPlanToolUnasked(tool)
      BY <3>1, <3>2, <3>4 DEF RunPlanToolUnasked
    <3>5. QED
      BY <2>8, <3>3, <3>4 DEF CallPlanTool
  <2>9. ASSUME NEW m \in Mode, EngineWrite(m)
        PROVE  TypeOK'
    BY <2>9 DEF EngineWrite
  <2>10. CASE UNCHANGED vars
    BY <2>10 DEF vars
  <2>11. QED
    BY <2>1, <2>2, <2>4, <2>5, <2>6, <2>7, <2>8, <2>9, <2>10, NextModeIsMode
       DEF Next, User, Worker, CycleApprovalMode, ChooseMode
<1>3. QED
  BY <1>1, <1>2, PTL DEF Spec

(* Where yolo is disabled neither the session, nor the engine, nor a write *)
(* on its way to the engine is ever yolo (star_agent.rs set_approval_mode).*)
THEOREM YoloStaysOff == Spec => []NeverYoloWhenDisabled
<1>1. Init => NeverYoloWhenDisabled
  BY DEF Init, NeverYoloWhenDisabled, Mode
<1>2. TypeOK /\ NeverYoloWhenDisabled /\ [Next]_vars => NeverYoloWhenDisabled'
  <2> SUFFICES ASSUME TypeOK, NeverYoloWhenDisabled, [Next]_vars, yoloDisabled'
               PROVE  lock' # "yolo" /\ engine' # "yolo" /\ tasks'["yolo"] = 0
    BY DEF NeverYoloWhenDisabled
  <2>0. yoloDisabled
    BY DEF Next, vars
  <2> USE <2>0
  <2> USE DEF TypeOK, NeverYoloWhenDisabled
  <2>1. ASSUME NEW m \in Mode, Install(SafeMode(m))
        PROVE  lock' # "yolo" /\ tasks'["yolo"] = 0
    <3>1. SafeMode(m) \in Mode /\ SafeMode(m) # "yolo"
      BY SafeModeIsMode, SafeModeIsNotYolo
    <3>2. lock' = SafeMode(m)
      BY <2>1, <3>1, InstallFacts
    <3>3. tasks'["yolo"] = tasks["yolo"]
      <4>1. CASE lock = SafeMode(m)
        BY <2>1, <3>1, <4>1, InstallFacts
      <4>2. CASE lock # SafeMode(m)
        <5>1. tasks' = [tasks EXCEPT ![SafeMode(m)] = @ + 1]
          BY <2>1, <3>1, <4>2, InstallFacts, SpawnFacts
        <5>2. "yolo" \in Mode
          BY DEF Mode
        <5>3. QED
          BY <3>1, <5>1, <5>2
      <4>3. QED
        BY <4>1, <4>2
    <3>4. QED
      BY <3>1, <3>2, <3>3
  <2>2. CASE User \/ ReceiveReply \/ DeferSetApprovalMode \/ StartTurn
    BY <2>2 DEF User, CycleApprovalMode, ChooseMode, Request, ReceiveReply,
                DeferSetApprovalMode, StartTurn
  <2>3. CASE HandleSetApprovalMode
    BY <2>1, <2>3 DEF HandleSetApprovalMode, SetApprovalMode
  <2>4. CASE FinishTurn
    BY <2>1, <2>4 DEF FinishTurn, SetApprovalMode
  <2>5. ASSUME NEW tool \in PlanTool, CallPlanTool(tool)
        PROVE  lock' # "yolo" /\ engine' # "yolo" /\ tasks'["yolo"] = 0
    BY <2>5 DEF CallPlanTool, ConfirmPlanTool, RunPlanToolUnasked, Target, Mode
  <2>6. ASSUME NEW m \in Mode, EngineWrite(m)
        PROVE  lock' # "yolo" /\ engine' # "yolo" /\ tasks'["yolo"] = 0
    BY <2>6 DEF EngineWrite, Mode
  <2>7. CASE UNCHANGED vars
    BY <2>7 DEF vars
  <2>8. QED
    BY <2>2, <2>3, <2>4, <2>5, <2>6, <2>7 DEF Next, Worker
<1>3. QED
  BY <1>1, <1>2, TypeCorrect, PTL DEF Spec
-----------------------------------------------------------------------------
(* SerialChangeReachesEngine is not inductive: it says nothing while the   *)
(* write is on its way.  Then there is exactly one write, and it is for    *)
(* the mode in the lock.                                                   *)
SerialInv ==
  serial => \/ NoTasks /\ engine = lock
            \/ tasks[lock] = 1 /\ \A m \in Mode \ {lock} : tasks[m] = 0

(* A mode change that overlaps no other one reaches the policy engine,     *)
(* whatever plan-mode tools and refused changes came before it.            *)
THEOREM SerialChangeIsNotLost == Spec => []SerialChangeReachesEngine
<1>1. Init => SerialInv
  BY DEF Init, SerialInv, NoTasks
<1>2. TypeOK /\ SerialInv /\ [Next]_vars => SerialInv'
  <2> SUFFICES ASSUME TypeOK, SerialInv, [Next]_vars
               PROVE  SerialInv'
    OBVIOUS
  <2> USE DEF TypeOK
  <2>1. ASSUME NEW m \in Mode, Install(m), UNCHANGED engine
        PROVE  SerialInv'
    <3>1. CASE lock = m
      BY <2>1, <3>1, InstallFacts DEF SerialInv, NoTasks
    <3>2. CASE lock # m
      <4>1. tasks' = [tasks EXCEPT ![m] = @ + 1] /\ lock' = m /\ (serial' => NoTasks)
        BY <2>1, <3>2, InstallFacts, SpawnFacts
      <4>2. NoTasks => tasks'[m] = 1 /\ \A n \in Mode \ {m} : tasks'[n] = 0
        BY <4>1 DEF NoTasks
      <4>3. QED
        BY <4>1, <4>2 DEF SerialInv
    <3>3. QED
      BY <3>1, <3>2
  <2>2. CASE User \/ ReceiveReply \/ DeferSetApprovalMode \/ StartTurn
    BY <2>2 DEF User, CycleApprovalMode, ChooseMode, Request, ReceiveReply,
                DeferSetApprovalMode, StartTurn, SerialInv, NoTasks
  <2>3. CASE HandleSetApprovalMode
    <3>1. Head(requests) \in Mode
      BY <2>3 DEF HandleSetApprovalMode
    <3>2. Install(SafeMode(Head(requests))) /\ UNCHANGED engine
      BY <2>3 DEF HandleSetApprovalMode, SetApprovalMode
    <3>3. QED
      BY <2>1, <3>1, <3>2, SafeModeIsMode
  <2>4. CASE FinishTurn
    <3>1. CASE deferred = NoMode
      BY <2>4, <3>1 DEF FinishTurn, SetApprovalMode, SerialInv, NoTasks
    <3>2. CASE deferred # NoMode
      <4>1. deferred \in Mode
        BY <3>2
      <4>2. Install(SafeMode(deferred)) /\ UNCHANGED engine
        BY <2>4, <3>2 DEF FinishTurn, SetApprovalMode
      <4>3. QED
        BY <2>1, <4>1, <4>2, SafeModeIsMode
    <3>3. QED
      BY <3>1, <3>2
  <2>5. ASSUME NEW tool \in PlanTool, CallPlanTool(tool)
        PROVE  SerialInv'
    BY <2>5 DEF CallPlanTool, ConfirmPlanTool, RunPlanToolUnasked, SerialInv, NoTasks
  <2>6. ASSUME NEW m \in Mode, EngineWrite(m)
        PROVE  SerialInv'
    BY <2>6 DEF EngineWrite, SerialInv, NoTasks
  <2>7. CASE UNCHANGED vars
    BY <2>7 DEF vars, SerialInv, NoTasks
  <2>8. QED
    BY <2>2, <2>3, <2>4, <2>5, <2>6, <2>7 DEF Next, Worker
<1>3. TypeOK /\ SerialInv => SerialChangeReachesEngine
  BY DEF TypeOK, SerialInv, SerialChangeReachesEngine, NoTasks
<1>4. QED
  BY <1>1, <1>2, <1>3, TypeCorrect, PTL DEF Spec
-----------------------------------------------------------------------------
(* What the UI will end up showing if nothing more is asked for: the last  *)
(* reply on its way, or what it shows already.                             *)
LastWord == IF replies = <<>> THEN ui ELSE replies[Len(replies)]

LastWordInv == ~yoloDisabled /\ requests = <<>> /\ deferred = NoMode => LastWord = lock

(* When no mode change and no reply is on its way, the UI shows the mode   *)
(* of the session: the last of the replies always carries it.              *)
THEOREM UiIsInSync == Spec => []UiShowsSessionMode
<1>1. Init => LastWordInv
  BY InitialModeAssumption DEF Init, LastWordInv, LastWord
<1>2. TypeOK /\ LastWordInv /\ [Next]_vars => LastWordInv'
  <2> SUFFICES ASSUME TypeOK, LastWordInv, [Next]_vars, ~yoloDisabled',
                      requests' = <<>>, deferred' = NoMode
               PROVE  LastWord' = lock'
    BY DEF LastWordInv
  <2>0. ~yoloDisabled
    BY DEF Next, vars
  <2> USE <2>0
  <2> USE DEF TypeOK
  <2>1. ASSUME NEW m \in Mode, Request(m)
        PROVE  FALSE
    <3>1. requests \in Seq(Mode) /\ requests' = Append(requests, m)
      BY <2>1 DEF Request
    <3>2. QED
      BY <3>1, AppendIsNotEmpty
  <2>2. CASE ReceiveReply
    <3>1. CASE Len(replies) = 1
      <4>1. replies' = <<>> /\ ui' = replies[1] /\ replies # <<>>
        <5>1. replies \in Seq(Mode) /\ Len(Tail(replies)) = 0
          BY <2>2, <3>1 DEF ReceiveReply
        <5>2. Tail(replies) \in Seq(Mode)
          BY <2>2 DEF ReceiveReply
        <5>3. QED
          <6>1. Tail(replies) = <<>>
            BY <5>1, <5>2, EmptyIffNoMode
          <6>2. replies' = Tail(replies) /\ ui' = Head(replies) /\ replies # <<>>
            BY <2>2 DEF ReceiveReply
          <6>3. QED
            BY <6>1, <6>2
      <4>2. lock' = lock /\ requests = <<>> /\ deferred = NoMode
        BY <2>2 DEF ReceiveReply
      <4>3. QED
        BY <3>1, <4>1, <4>2 DEF LastWordInv, LastWord
    <3>2. CASE Len(replies) # 1
      <4>1. replies \in Seq(Mode) /\ replies # <<>>
        BY <2>2 DEF ReceiveReply
      <4>2. Len(replies) \in Nat /\ Len(replies) > 1
        <5>1. Len(replies) \in Nat /\ Len(replies) # 0
          BY <4>1, EmptyIffNoMode
        <5>2. \A n \in Nat : n # 0 /\ n # 1 => n > 1
          OBVIOUS
        <5>3. QED
          BY <3>2, <5>1, <5>2, Zenon
      <4>3. /\ Len(Tail(replies)) = Len(replies) - 1
            /\ Tail(replies)[Len(replies) - 1] = replies[Len(replies)]
        BY <4>1, <4>2
      <4>4. Tail(replies) # <<>>
        <5>1. Tail(replies) \in Seq(Mode)
          BY <4>1
        <5>2. Len(Tail(replies)) # 0
          BY <4>2, <4>3
        <5>3. QED
          BY <5>1, <5>2, EmptyIffNoMode
      <4>5. /\ replies' = Tail(replies) /\ lock' = lock
            /\ requests = <<>> /\ deferred = NoMode
        BY <2>2 DEF ReceiveReply
      <4>6. LastWord' = replies[Len(replies)]
        BY <4>3, <4>4, <4>5 DEF LastWord
      <4>7. QED
        BY <4>1, <4>5, <4>6 DEF LastWordInv, LastWord
    <3>3. QED
      BY <3>1, <3>2
  <2>3. ASSUME NEW m \in Mode, SetApprovalMode(m)
        PROVE  LastWord' = lock'
    <3>1. lock' = m
      <4>1. Install(m)
        BY <2>3, SafeModeIsIdentity DEF SetApprovalMode
      <4>2. QED
        BY <4>1, InstallFacts
    <3>2. replies' # <<>> /\ replies'[Len(replies')] = m
      <4>1. replies' = Append(replies, m)
        BY <2>3 DEF SetApprovalMode
      <4>2. replies \in Seq(Mode)
        BY DEF TypeOK
      <4>3. QED
        BY <4>1, <4>2, AppendEndsWith
    <3>3. QED
      BY <3>1, <3>2 DEF LastWord
  <2>4. CASE HandleSetApprovalMode
    BY <2>3, <2>4 DEF HandleSetApprovalMode
  <2>5. CASE DeferSetApprovalMode
    <3>1. Head(requests) \in Mode /\ deferred' = Head(requests)
      BY <2>5 DEF DeferSetApprovalMode
    <3>2. QED
      BY <3>1, NoModeIsNoMode
  <2>6. CASE StartTurn
    BY <2>6 DEF StartTurn, LastWordInv, LastWord
  <2>7. CASE FinishTurn
    BY <2>3, <2>7 DEF FinishTurn, LastWordInv, LastWord
  <2>8. ASSUME NEW tool \in PlanTool, CallPlanTool(tool)
        PROVE  LastWord' = lock'
    BY <2>8 DEF CallPlanTool, LastWordInv, LastWord
  <2>9. ASSUME NEW m \in Mode, EngineWrite(m)
        PROVE  LastWord' = lock'
    BY <2>9 DEF EngineWrite, LastWordInv, LastWord
  <2>10. CASE UNCHANGED vars
    BY <2>10 DEF vars, LastWordInv, LastWord
  <2>11. QED
    BY <2>1, <2>2, <2>4, <2>5, <2>6, <2>7, <2>8, <2>9, <2>10, NextModeIsMode
       DEF Next, User, Worker, CycleApprovalMode, ChooseMode
<1>3. LastWordInv => UiShowsSessionMode
  BY DEF LastWordInv, LastWord, UiShowsSessionMode
<1>4. QED
  BY <1>1, <1>2, <1>3, TypeCorrect, PTL DEF Spec
=============================================================================
