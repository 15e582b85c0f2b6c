------------------------ MODULE RuntimeSettings_proofs ------------------------
(***************************************************************************)
(* What RuntimeSettings promises, for every number of requests and turns   *)
(* and every set of changes the UI may ask for.                            *)
(***************************************************************************)
EXTENDS RuntimeSettings, TLAPS

------------------------------------------------------------------------------
(* Sequences.                                                               *)

LEMMA AppendFacts ==
  ASSUME NEW S, NEW q \in Seq(S), NEW x \in S
  PROVE  /\ Append(q, x) \in Seq(S)
         /\ Len(Append(q, x)) = Len(q) + 1
         /\ \A i \in DOMAIN q : i \in DOMAIN Append(q, x) /\ Append(q, x)[i] = q[i]
         /\ Len(q) + 1 \in DOMAIN Append(q, x) /\ Append(q, x)[Len(q) + 1] = x
         /\ \A i \in DOMAIN Append(q, x) : i \in DOMAIN q \/ i = Len(q) + 1
OBVIOUS

LEMMA TailFacts ==
  ASSUME NEW S, NEW q \in Seq(S), q # <<>>
  PROVE  /\ Head(q) \in S /\ Head(q) = q[1] /\ 1 \in DOMAIN q
         /\ Tail(q) \in Seq(S) /\ Len(q) \in Nat /\ Len(q) >= 1 /\ Len(Tail(q)) = Len(q) - 1
         /\ \A i \in DOMAIN Tail(q) : i + 1 \in DOMAIN q /\ Tail(q)[i] = q[i + 1]
         /\ \A i \in DOMAIN q : i = 1 \/ (i - 1 \in DOMAIN Tail(q) /\ Tail(q)[i - 1] = q[i])
         /\ \A i \in DOMAIN q : i >= 1 /\ i \in Nat
OBVIOUS

(* Deciding a request changes its outcome and nothing else of the log.      *)
SetOutcome(l, s, o) == [l EXCEPT ![s].outcome = o]

LEMMA OutcomeFacts ==
  ASSUME NEW l \in Seq(Request), NEW s \in 1 .. Len(l), NEW o \in Outcomes
  PROVE  /\ SetOutcome(l, s, o) \in Seq(Request) /\ Len(SetOutcome(l, s, o)) = Len(l)
         /\ \A t \in 1 .. Len(l) :
              /\ SetOutcome(l, s, o)[t].numbered = l[t].numbered
              /\ SetOutcome(l, s, o)[t].fields = l[t].fields
              /\ SetOutcome(l, s, o)[t].keep = l[t].keep
              /\ SetOutcome(l, s, o)[t].outcome = IF t = s THEN o ELSE l[t].outcome
<1> DEFINE m == SetOutcome(l, s, o)
<1>1. DOMAIN m = 1 .. Len(l) /\ DOMAIN l = 1 .. Len(l) /\ Len(l) \in Nat
  BY DEF SetOutcome
<1>2. \A t \in 1 .. Len(l) : t # s => m[t] = l[t]
  BY DEF SetOutcome
<1>3. m[s] = [l[s] EXCEPT !.outcome = o] /\ l[s] \in Request
  BY DEF SetOutcome
<1>4. m[s] \in Request /\ m[s].numbered = l[s].numbered /\ m[s].fields = l[s].fields
      /\ m[s].keep = l[s].keep /\ m[s].outcome = o
  BY <1>3 DEF Request
<1>5. \A t \in 1 .. Len(l) : m[t] \in Request
  BY <1>2, <1>4
<1>6. m = [t \in 1 .. Len(l) |-> m[t]]
  BY <1>1 DEF SetOutcome
<1>7. m \in Seq(Request) /\ Len(m) = Len(l)
  BY <1>1, <1>5, <1>6
<1>8. QED
  BY <1>2, <1>4, <1>7

LEMMA WiderSeq ==
  ASSUME NEW S, NEW T, S \subseteq T, NEW q \in Seq(S)
  PROVE  q \in Seq(T)
OBVIOUS

------------------------------------------------------------------------------
(* Types.                                                                   *)

LEMMA OverlayType ==
  ASSUME NEW v \in Settings, NEW s \in 0 .. MaxRequests
  PROVE  Overlay(v, s) \in Settings
BY BoundsAssumption DEF Overlay, Settings

(* What the worker does with a request it decides.                          *)
Verdict(s) == Install(s) \/ Refuse(s) \/ Supersede(s)

LEMMA VerdictTypes ==
  ASSUME TypeOK, NEW s \in Sent, Verdict(s)
  PROVE  /\ log' \in Seq(Request) /\ Len(log') = Len(log)
         /\ installed' \in Settings /\ toUI' \in Seq(Message)
         /\ writers' \subseteq Writer /\ disk' \in Settings /\ overlap' \in BOOLEAN
<1> USE DEF TypeOK
<1>1. s \in 1 .. Len(log) /\ s \in 0 .. MaxRequests
  BY BoundsAssumption DEF Sent
<1>2. CASE Install(s)
  <2>1. log' \in Seq(Request) /\ Len(log') = Len(log)
    <3>1. "applied" \in Outcomes
      BY DEF Outcomes
    <3>2. log' = SetOutcome(log, s, "applied")
      BY <1>2 DEF Install, SetOutcome
    <3>3. QED
      BY <1>1, <3>1, <3>2, OutcomeFacts
  <2>2. installed' \in Settings
    BY <1>1, <1>2, OverlayType DEF Install
  <2>3. Ack(s, "applied", installed') \in Message
    BY <2>2 DEF Ack, Message, Outcomes
  <2>4. toUI' \in Seq(Message)
    BY <1>2, <2>3, AppendFacts DEF Install
  <2>5. [of |-> s, step |-> "load", read |-> Unread] \in Writer
    BY BoundsAssumption DEF Writer, Unread, Settings
  <2>6. writers' \subseteq Writer /\ disk' \in Settings /\ overlap' \in BOOLEAN
    BY <1>2, <2>5 DEF Install, Spawn, diskVars
  <2>7. QED
    BY <2>1, <2>2, <2>4, <2>6
<1>3. CASE Refuse(s) \/ Supersede(s)
  <2>1. PICK o \in {"refused", "superseded"} :
          log' = [log EXCEPT ![s].outcome = o] /\ toUI' = Append(toUI, Ack(s, o, installed))
    BY <1>3 DEF Refuse, Supersede
  <2>2. log' \in Seq(Request) /\ Len(log') = Len(log)
    <3>1. o \in Outcomes
      BY DEF Outcomes
    <3>2. log' = SetOutcome(log, s, o)
      BY <2>1 DEF SetOutcome
    <3>3. QED
      BY <1>1, <3>1, <3>2, OutcomeFacts
  <2>3. Ack(s, o, installed) \in Message
    BY DEF Ack, Message, Outcomes
  <2>4. toUI' \in Seq(Message)
    BY <2>1, <2>3, AppendFacts
  <2>5. UNCHANGED <<installed, writers, disk, overlap>>
    BY <1>3 DEF Refuse, Supersede, diskVars
  <2>6. QED
    BY <2>2, <2>4, <2>5
<1>4. QED
  BY <1>2, <1>3 DEF Verdict

LEMMA AskTypes ==
  ASSUME TypeOK, NEW r \in Request, log' = Append(log, r), Len(log) < MaxRequests,
         toWorker' = Append(toWorker, Len(log) + 1),
         UNCHANGED <<toUI, deferred, installed, cell, turnVars, diskVars, phase>>
  PROVE  /\ log' \in Seq(Request) /\ Len(log') = Len(log) + 1 /\ Len(log) \in Nat
         /\ Sent' = Sent \cup {Len(log) + 1} /\ Len(log) + 1 \in 1 .. MaxRequests
         /\ toWorker' \in Seq(Sent') /\ deferred' \in Seq(Sent') /\ toUI' \in Seq(Message')
         /\ writers' \subseteq Writer'
<1> USE DEF TypeOK
<1>1. log' \in Seq(Request) /\ Len(log') = Len(log) + 1 /\ Len(log) \in Nat
  BY AppendFacts
<1>2. Sent' = Sent \cup {Len(log) + 1} /\ Len(log) + 1 \in 1 .. MaxRequests
  BY <1>1, BoundsAssumption DEF Sent
<1>3. toWorker \in Seq(Sent') /\ deferred \in Seq(Sent')
  BY <1>2, WiderSeq
<1>4. toWorker' \in Seq(Sent')
  <2>1. Len(log) + 1 \in Sent'
    BY <1>2
  <2>2. QED
    BY <1>3, <2>1, AppendFacts
<1>5. Message \subseteq Message'
  BY <1>2 DEF Message
<1>6. toUI \in Seq(Message')
  BY <1>5, WiderSeq
<1>7. writers' \subseteq Writer'
  BY <1>2 DEF Writer, diskVars
<1>8. QED
  BY <1>1, <1>2, <1>3, <1>4, <1>6, <1>7

LEMMA TypeStep == TypeOK /\ [Next]_vars => TypeOK'
<1> SUFFICES ASSUME TypeOK, [Next]_vars PROVE TypeOK'
  OBVIOUS
<1>0. Len(log) \in Nat /\ Sent \subseteq 0 .. MaxRequests /\ Sent \subseteq 0 .. Skill
      /\ 0 \in 0 .. Skill /\ Skill \in 0 .. Skill /\ 0 \in 0 .. MaxRequests
      /\ \A n \in 0 .. MaxRequests : n \in 0 .. Skill
  BY BoundsAssumption DEF TypeOK, Sent, Skill
<1>1. CASE Ask
  <2>1. PICK c \in Changes :
          /\ log' = Append(log, [numbered |-> TRUE, fields |-> c.fields, keep |-> c.keep,
                                 outcome |-> "waiting"])
          /\ requested' = [f \in Fields |-> IF f \in c.fields THEN Len(log) + 1 ELSE requested[f]]
          /\ pending' = pending \cup {Len(log) + 1}
          /\ marker' = IF c.keep THEN Mark("pending", Len(log) + 1) ELSE marker
          /\ toWorker' = Append(toWorker, Len(log) + 1)
    BY <1>1 DEF Ask
  <2>2. [numbered |-> TRUE, fields |-> c.fields, keep |-> c.keep, outcome |-> "waiting"] \in Request
    BY ChangesAssumption DEF Request, Outcomes
  <2>3. /\ Len(log) < MaxRequests
        /\ UNCHANGED <<active, lastAck, toUI, phase, deferred, installed, cell, turnVars, diskVars>>
    BY <1>1 DEF Ask
  <2>4. /\ log' \in Seq(Request) /\ Len(log') = Len(log) + 1
        /\ Sent' = Sent \cup {Len(log) + 1} /\ Len(log) + 1 \in 1 .. MaxRequests
        /\ toWorker' \in Seq(Sent') /\ deferred' \in Seq(Sent') /\ toUI' \in Seq(Message')
        /\ writers' \subseteq Writer'
    BY <2>1, <2>2, <2>3, AskTypes
  <2>5. requested' \in Settings
    BY <2>1, <2>4 DEF TypeOK, Settings
  <2>6. marker' \in [state : {"none", "pending", "saved", "failed"}, rev : 0 .. MaxRequests]
    BY <2>1, <2>4 DEF TypeOK, Mark
  <2>7. pending' \subseteq Sent'
    BY <2>1, <2>4 DEF TypeOK
  <2>8. QED
    BY <2>3, <2>4, <2>5, <2>6, <2>7 DEF TypeOK, turnVars, diskVars
<1>2. CASE SaveProviderForm
  <2> DEFINE r == [numbered |-> FALSE, fields |-> {"model"}, keep |-> TRUE, outcome |-> "waiting"]
  <2>1. r \in Request
    BY DEF Request, Outcomes, Fields
  <2>2. /\ Len(log) < MaxRequests
        /\ log' = Append(log, r) /\ toWorker' = Append(toWorker, Len(log) + 1)
        /\ active' = [active EXCEPT !["model"] = Len(log) + 1]
        /\ UNCHANGED <<requested, pending, marker, lastAck, toUI, phase, deferred, installed,
                       cell, turnVars, diskVars>>
    BY <1>2 DEF SaveProviderForm
  <2> HIDE DEF r
  <2>3. /\ log' \in Seq(Request) /\ Len(log') = Len(log) + 1
        /\ Sent' = Sent \cup {Len(log) + 1} /\ Len(log) + 1 \in 1 .. MaxRequests
        /\ toWorker' \in Seq(Sent') /\ deferred' \in Seq(Sent') /\ toUI' \in Seq(Message')
        /\ writers' \subseteq Writer'
    BY <2>1, <2>2, AskTypes
  <2>4. active' \in Settings
    <3>1. Len(log) + 1 \in 0 .. MaxRequests
      BY <1>0, <2>2, BoundsAssumption
    <3>2. QED
      BY <2>2, <3>1 DEF TypeOK, Settings
  <2>5. QED
    BY <2>2, <2>3, <2>4 DEF TypeOK, turnVars, diskVars
<1>3. CASE ReceiveIdle
  <2>1. Head(toWorker) \in Sent /\ Verdict(Head(toWorker)) /\ Tail(toWorker) \in Seq(Sent)
    BY <1>3, TailFacts DEF ReceiveIdle, Verdict, TypeOK
  <2>2. /\ log' \in Seq(Request) /\ Len(log') = Len(log)
        /\ installed' \in Settings /\ toUI' \in Seq(Message)
        /\ writers' \subseteq Writer /\ disk' \in Settings /\ overlap' \in BOOLEAN
    BY <2>1, VerdictTypes
  <2>3. /\ toWorker' = Tail(toWorker)
        /\ UNCHANGED <<requested, active, pending, marker, lastAck, phase, deferred, cell,
                       turnModel, published, turns>>
    BY <1>3 DEF ReceiveIdle, uiVars, turnVars
  <2>4. Sent' = Sent /\ Message' = Message /\ Writer' = Writer
    BY <2>2 DEF Sent, Message, Writer
  <2>5. QED
    BY <2>1, <2>2, <2>3, <2>4 DEF TypeOK
<1>4. CASE Settle
  <2>1. Head(deferred) \in Sent /\ Verdict(Head(deferred)) /\ Tail(deferred) \in Seq(Sent)
    BY <1>4, TailFacts DEF Settle, Verdict, TypeOK
  <2>2. /\ log' \in Seq(Request) /\ Len(log') = Len(log)
        /\ installed' \in Settings /\ toUI' \in Seq(Message)
        /\ writers' \subseteq Writer /\ disk' \in Settings /\ overlap' \in BOOLEAN
    BY <2>1, VerdictTypes
  <2>3. /\ deferred' = Tail(deferred)
        /\ UNCHANGED <<requested, active, pending, marker, lastAck, phase, toWorker, cell,
                       turnModel, published, turns>>
    BY <1>4 DEF Settle, uiVars, turnVars
  <2>4. Sent' = Sent /\ Message' = Message /\ Writer' = Writer
    BY <2>2 DEF Sent, Message, Writer
  <2>5. QED
    BY <2>1, <2>2, <2>3, <2>4 DEF TypeOK
<1>5. CASE ReceiveInTurn
  <2>1. Head(toWorker) \in Sent /\ Tail(toWorker) \in Seq(Sent)
    BY <1>5, TailFacts DEF ReceiveInTurn, TypeOK
  <2>2. Append(deferred, Head(toWorker)) \in Seq(Sent)
    BY <2>1, AppendFacts DEF TypeOK
  <2>3. /\ deferred' = Append(deferred, Head(toWorker)) /\ toWorker' = Tail(toWorker)
        /\ UNCHANGED <<log, requested, active, pending, marker, lastAck, toUI, phase, installed,
                       turnModel, turns, writers, disk, overlap>>
    BY <1>5 DEF ReceiveInTurn, uiVars, diskVars
  <2>4. cell' \in {{}} \cup {{m} : m \in 0 .. Skill} /\ published' \in BOOLEAN
    <3>1. Head(toWorker) \in 0 .. Skill
      BY <1>0, <2>1
    <3>2. QED
      BY <1>5, <3>1 DEF ReceiveInTurn, Publish, TypeOK
  <2>5. Sent' = Sent /\ Message' = Message /\ Writer' = Writer
    BY <2>3 DEF Sent, Message, Writer
  <2>6. QED
    BY <2>1, <2>2, <2>3, <2>4, <2>5 DEF TypeOK
<1>6. CASE StartTurn \/ AdoptSwitch \/ SkillSwitches \/ SubAgentAdopts \/ EndTurn \/ Settled
  <2>1. UNCHANGED <<log, requested, active, pending, marker, lastAck, toWorker, toUI, deferred,
                    installed, writers, disk, overlap>>
    BY <1>6 DEF StartTurn, AdoptSwitch, SkillSwitches, SubAgentAdopts, EndTurn, Settled, uiVars,
                diskVars
  <2>2. Sent' = Sent /\ Message' = Message /\ Writer' = Writer
    BY <2>1 DEF Sent, Message, Writer
  <2>3. installed["model"] \in 0 .. Skill /\ \A m \in cell : m \in 0 .. Skill
    BY <1>0 DEF TypeOK, Settings, Fields
  <2>4. /\ cell' \in {{}} \cup {{m} : m \in 0 .. Skill} /\ turnModel' \in 0 .. Skill
        /\ published' \in BOOLEAN /\ turns' \in 0 .. MaxTurns /\ phase' \in {"idle", "turn", "settle"}
    <3>1. CASE StartTurn
      <4>1. turns' \in 0 .. MaxTurns
        BY <3>1, BoundsAssumption DEF StartTurn, TypeOK
      <4>2. QED
        BY <2>3, <3>1, <4>1 DEF StartTurn, TypeOK
    <3>2. CASE AdoptSwitch
      BY <2>3, <3>2 DEF AdoptSwitch, TypeOK
    <3>3. CASE SkillSwitches
      BY <1>0, <3>3 DEF SkillSwitches, Publish, TypeOK
    <3>4. CASE SubAgentAdopts
      BY <3>4 DEF SubAgentAdopts, TypeOK, turnVars
    <3>5. CASE EndTurn
      BY <1>0, <3>5 DEF EndTurn, TypeOK
    <3>6. CASE Settled
      BY <3>6 DEF Settled, TypeOK, turnVars
    <3>7. QED
      BY <1>6, <3>1, <3>2, <3>3, <3>4, <3>5, <3>6
  <2>5. QED
    BY <2>1, <2>2, <2>4 DEF TypeOK
<1>7. CASE TakeAck
  <2>1. Head(toUI) \in Message /\ Tail(toUI) \in Seq(Message) /\ Head(toUI).kind = "ack"
    BY <1>7, TailFacts DEF TakeAck, TypeOK
  <2>2. Head(toUI).of \in Sent /\ Head(toUI).snapshot \in Settings
    BY <2>1 DEF Message
  <2>3. Rev(Head(toUI).of) \in 0 .. MaxRequests
    BY <1>0, <2>2 DEF Rev
  <2>4. /\ requested' \in Settings /\ active' \in Settings /\ pending' \subseteq Sent
        /\ marker' \in [state : {"none", "pending", "saved", "failed"}, rev : 0 .. MaxRequests]
        /\ lastAck' \in 0 .. MaxRequests
    <3> DEFINE m == Head(toUI)
               r == Rev(m.of)
    <3>1. \/ UNCHANGED uiVars
          \/ /\ pending' = {s \in pending : s > r}
             /\ \/ UNCHANGED <<requested, active, marker, lastAck>>
                \/ /\ active' = m.snapshot
                   /\ requested' = IF m.outcome = "applied" THEN m.snapshot ELSE requested
                   /\ marker' = MarkerAfter(m.outcome, r)
                   /\ lastAck' = r
      BY <1>7 DEF TakeAck
    <3>2. r \in 0 .. MaxRequests /\ m.snapshot \in Settings
      BY <2>2, <2>3
    <3>3. MarkerAfter(m.outcome, r)
            \in [state : {"none", "pending", "saved", "failed"}, rev : 0 .. MaxRequests]
      BY <1>0 DEF MarkerAfter, NoMark, TypeOK
    <3> HIDE DEF m, r
    <3>4. QED
      BY <3>1, <3>2, <3>3 DEF TypeOK, uiVars
  <2>5. /\ toUI' = Tail(toUI)
        /\ UNCHANGED <<log, toWorker, phase, deferred, installed, cell, turnVars, diskVars>>
    BY <1>7 DEF TakeAck
  <2>6. Sent' = Sent /\ Message' = Message /\ Writer' = Writer
    BY <2>5 DEF Sent, Message, Writer
  <2>7. QED
    BY <2>1, <2>4, <2>5, <2>6 DEF TypeOK, turnVars, diskVars
<1>8. CASE TakeWriteResult
  <2>1. Head(toUI) \in Message /\ Tail(toUI) \in Seq(Message) /\ Head(toUI).kind = "written"
    BY <1>8, TailFacts DEF TakeWriteResult, TypeOK
  <2>2. Rev(Head(toUI).of) \in 0 .. MaxRequests
    BY <1>0, <2>1 DEF Rev, Message
  <2>3. marker' \in [state : {"none", "pending", "saved", "failed"}, rev : 0 .. MaxRequests]
    BY <1>8, <2>2 DEF TakeWriteResult, TypeOK, Mark
  <2>4. /\ toUI' = Tail(toUI)
        /\ UNCHANGED <<log, requested, active, pending, lastAck, toWorker, phase, deferred,
                       installed, cell, turnVars, diskVars>>
    BY <1>8 DEF TakeWriteResult
  <2>5. Sent' = Sent /\ Message' = Message /\ Writer' = Writer
    BY <2>4 DEF Sent, Message, Writer
  <2>6. QED
    BY <2>1, <2>3, <2>4, <2>5 DEF TypeOK, turnVars, diskVars
<1>9. CASE WriterStep
  <2>1. PICK w \in writers : WriterLoads(w) \/ WriterSaves(w) \/ WriterStores(w) \/ WriterFails(w)
    BY <1>9 DEF WriterStep
  <2>2. UNCHANGED <<log, requested, active, pending, marker, lastAck, toWorker, phase, deferred,
                    installed, cell, turnVars, overlap>>
    BY <1>9 DEF WriterStep, uiVars
  <2>3. w \in Writer /\ w.of \in Sent /\ w.of \in 0 .. MaxRequests /\ w.read \in Settings
    BY <1>0, <2>1 DEF TypeOK, Writer
  <2>4. \A ok \in BOOLEAN : Append(toUI, WriteResult(w.of, ok)) \in Seq(Message)
    <3>1. \A ok \in BOOLEAN : WriteResult(w.of, ok) \in Message
      BY <2>3 DEF WriteResult, Message
    <3>2. QED
      BY <3>1, AppendFacts DEF TypeOK
  <2>5. disk' \in Settings
    <3>1. \A s \in 0 .. MaxRequests : [disk EXCEPT !["model"] = s] \in Settings
      BY DEF TypeOK, Settings
    <3>2. CASE WriterSaves(w)
      BY <2>3, <3>2 DEF WriterSaves, TypeOK, Settings
    <3>3. QED
      BY <2>1, <2>3, <3>1, <3>2 DEF WriterLoads, WriterStores, WriterFails, TypeOK
  <2>6. writers' \subseteq Writer
    <3>1. [w EXCEPT !.step = "save", !.read = disk] \in Writer
      BY <2>3 DEF Writer, TypeOK
    <3>2. [w EXCEPT !.step = "store", !.read = Unread] \in Writer
      BY <1>0, <2>3 DEF Writer, Unread, Settings
    <3>3. QED
      BY <2>1, <3>1, <3>2 DEF WriterLoads, WriterSaves, WriterStores, WriterFails, Finish, TypeOK
  <2>7. toUI' \in Seq(Message)
    BY <2>1, <2>4 DEF WriterLoads, WriterSaves, WriterStores, WriterFails, Finish, TypeOK
  <2>8. Sent' = Sent /\ Message' = Message /\ Writer' = Writer
    BY <2>2 DEF Sent, Message, Writer
  <2>9. QED
    BY <2>2, <2>5, <2>6, <2>7, <2>8 DEF TypeOK, turnVars
<1>10. CASE UNCHANGED vars
  <2>1. Sent' = Sent /\ Message' = Message /\ Writer' = Writer
    BY <1>10 DEF vars, Sent, Message, Writer
  <2>2. QED
    BY <1>10, <2>1 DEF vars, uiVars, turnVars, diskVars, TypeOK
<1>11. QED
  BY <1>1, <1>2, <1>3, <1>4, <1>5, <1>6, <1>7, <1>8, <1>9, <1>10 DEF Next

LEMMA TypeInit == Init => TypeOK
<1> SUFFICES ASSUME Init PROVE TypeOK
  OBVIOUS
<1>1. Len(log) = 0 /\ log \in Seq(Request) /\ toWorker \in Seq(Sent) /\ deferred \in Seq(Sent)
      /\ toUI \in Seq(Message)
  BY DEF Init
<1>2. 0 \in 0 .. MaxRequests /\ 0 \in 0 .. MaxTurns /\ 0 \in 0 .. Skill /\ 0 <= MaxRequests
  BY BoundsAssumption DEF Skill
<1>3. [f \in Fields |-> 0] \in Settings
  BY <1>2 DEF Settings
<1>4. QED
  BY <1>1, <1>2, <1>3 DEF Init, TypeOK, NoMark

(* Every variable keeps its type: begin_runtime_settings_update_with_persistence,  *)
(* apply_runtime_settings and the acknowledgement handler between them never leave *)
(* a revision that was not sent, and the switch slot never holds two switches.     *)
THEOREM TypeCorrect == Spec => []TypeOK
BY TypeInit, TypeStep, PTL DEF Spec

------------------------------------------------------------------------------
(* The inductive invariant.                                                 *)

(* The requests 1 .. Decided are decided; the rest waits, in order, first   *)
(* in deferred and then in toWorker.                                        *)
Decided == Len(log) - Len(deferred) - Len(toWorker)

Order ==
  /\ Decided >= 0
  /\ \A i \in 1 .. Len(deferred) : deferred[i] = Decided + i
  /\ \A i \in 1 .. Len(toWorker) : toWorker[i] = Decided + Len(deferred) + i
  /\ \A s \in Sent : log[s].outcome = "waiting" <=> s > Decided
  /\ phase = "idle" => deferred = <<>>
  /\ \A s \in Sent : ~Numbered(s) => log[s].fields = {"model"}

AckAt(i)     == toUI[i].kind = "ack"
WrittenAt(i) == toUI[i].kind = "written"
InFlight(s)  == \E i \in DOMAIN toUI : AckAt(i) /\ toUI[i].of = s
Result(s)    == \E i \in DOMAIN toUI : WrittenAt(i) /\ toUI[i].of = s

(* Answers arrive in the order of the requests and none is skipped.         *)
AckIs(i) ==
  /\ toUI[i].of <= Decided
  /\ Numbered(toUI[i].of) => lastAck < toUI[i].of
  /\ toUI[i].outcome = log[toUI[i].of].outcome
  /\ \A j \in DOMAIN toUI : AckAt(j) /\ j < i => toUI[j].of < toUI[i].of
  /\ \A t \in Sent : Numbered(t) /\ t <= Decided /\ t > toUI[i].of => InFlight(t)

Acks ==
  /\ lastAck <= Decided
  /\ lastAck # 0 => Numbered(lastAck)
  /\ \A i \in DOMAIN toUI : AckAt(i) => AckIs(i)

(* A numbered request is pending exactly until its answer is taken.         *)
Known ==
  \A s \in Sent : s \in pending <=> Numbered(s) /\ (s > Decided \/ InFlight(s))

(* An answer with nothing numbered decided after it tells the worker's      *)
(* values, and with nothing pending the UI has them.                        *)
Good(f) == f = "model" => \A s \in Sent : Numbered(s)

Shown ==
  /\ \A i \in DOMAIN toUI :
       AckAt(i) /\ (\A t \in Sent : Numbered(t) /\ t <= Decided => t <= toUI[i].of) =>
         \A f \in Fields : Good(f) => toUI[i].snapshot[f] = installed[f]
  /\ pending = {} => \A f \in Fields : Good(f) => active[f] = installed[f]

Answered == Acks /\ Known /\ Shown

(* Writers and write results are of decided requests to be kept; a result   *)
(* comes after the answer, and an answer that a change is applied has its   *)
(* writer or its result behind it.                                          *)
Written(s) == Result(s) \/ \E w \in writers : w.of = s

WriterIs(w) == w.of <= Decided /\ Numbered(w.of) /\ log[w.of].keep

ResultIs(i) ==
  /\ toUI[i].of <= Decided /\ Numbered(toUI[i].of)
  /\ \A j \in DOMAIN toUI : AckAt(j) /\ toUI[j].of = toUI[i].of => j < i

ToBeWritten(i) ==
  AckAt(i) /\ toUI[i].outcome = "applied" /\ Numbered(toUI[i].of) /\ log[toUI[i].of].keep

Results ==
  /\ \A w \in writers : WriterIs(w)
  /\ \A i \in DOMAIN toUI : WrittenAt(i) => ResultIs(i)
  /\ \A i \in DOMAIN toUI, t \in Sent : ToBeWritten(i) /\ toUI[i].of = t => Written(t)

(* A write shown as pending, and not followed by a session-only change, is  *)
(* of the last numbered request and has still to be heard of.               *)
MarkerIsLast ==
  marker.state = "pending" /\ (\A s \in Sent : s > marker.rev /\ Numbered(s) => log[s].keep) =>
    /\ marker.rev \in Sent /\ Numbered(marker.rev) /\ log[marker.rev].keep
    /\ \A s \in Sent : Numbered(s) => s <= marker.rev
    /\ marker.rev > Decided \/ InFlight(marker.rev) \/ Written(marker.rev)

(* While writers have run one at a time, the one that runs read what is on  *)
(* disk, and what was written before it is of older requests.               *)
OnDisk(s) == \A f \in log[s].fields : disk[f] >= s

Disk ==
  ~overlap =>
    /\ \A v, w \in writers : v = w
    /\ \A w \in writers :
         /\ w.step = "save" => \A f \in Fields \ {"model"} : w.read[f] = disk[f]
         /\ w.step = "store" => \A f \in log[w.of].fields \ {"model"} : disk[f] >= w.of
         /\ \A i \in DOMAIN toUI : WrittenAt(i) => toUI[i].of < w.of
         /\ marker.state = "saved" => marker.rev < w.of
    /\ \A i \in DOMAIN toUI : WrittenAt(i) /\ toUI[i].ok => OnDisk(toUI[i].of)
    /\ marker.state = "saved" =>
         marker.rev \in Sent /\ marker.rev <= Decided /\ OnDisk(marker.rev)
------------------------------------------------------------------------------
(* Steps, and the order of the requests.                                    *)

(* A new request is the last one and waits.                                 *)
Asks(s) ==
  /\ s = Len(log) + 1 /\ s \notin Sent /\ s \in Nat /\ Sent' = Sent \cup {s}
  /\ \A t \in Sent : t < s /\ log'[t] = log[t]
  /\ log'[s].outcome = "waiting"
  /\ Decided' = Decided /\ Decided < s

(* The worker decides the first request that waits.                         *)
Decides(s, o) ==
  /\ s \in Sent /\ s = Decided + 1 /\ Decided' = Decided + 1
  /\ o \in {"applied", "refused", "superseded"}
  /\ Sent' = Sent
  /\ \A t \in Sent :
       /\ log'[t].numbered = log[t].numbered /\ log'[t].fields = log[t].fields
       /\ log'[t].keep = log[t].keep
       /\ log'[t].outcome = IF t = s THEN o ELSE log[t].outcome
  /\ Ack(s, o, installed') \in Message /\ toUI' = Append(toUI, Ack(s, o, installed'))
  /\ o = "applied" => installed' = Overlay(installed, s) /\ Spawn(s)
  /\ o # "applied" => UNCHANGED <<installed, writers, disk, overlap>>
  /\ o = "superseded" => \E L \in SUBSET {t \in Sent : t > s} : Covered(s, L)
  /\ UNCHANGED <<requested, active, pending, marker, lastAck>>

(* Requests move from one queue to the other, or the turn does something.   *)
Quiet ==
  /\ Decided' = Decided
  /\ UNCHANGED <<log, requested, active, pending, marker, lastAck, toUI, installed, writers, disk,
                 overlap>>

LEMMA VerdictShape ==
  ASSUME TypeOK, NEW s \in Sent, Verdict(s)
  PROVE  \E o \in {"applied", "refused", "superseded"} :
           /\ log' = SetOutcome(log, s, o)
           /\ Ack(s, o, installed') \in Message /\ toUI' = Append(toUI, Ack(s, o, installed'))
           /\ o = "applied" => installed' = Overlay(installed, s) /\ Spawn(s)
           /\ o # "applied" => UNCHANGED <<installed, writers, disk, overlap>>
           /\ o = "superseded" => Supersede(s)
           /\ Supersede(s) => o = "superseded"
<1>0. \A o \in Outcomes : Ack(s, o, installed') \in Message
  BY VerdictTypes DEF Ack, Message
<1>1. s \in DOMAIN log /\ s \in 1 .. Len(log) /\ log[s] \in Request
  BY DEF TypeOK, Sent
<1>2. \A o \in Outcomes : log' = SetOutcome(log, s, o) => log'[s].outcome = o
  BY <1>1, OutcomeFacts DEF TypeOK
<1>3. CASE Install(s)
  <2>1. log' = SetOutcome(log, s, "applied") /\ toUI' = Append(toUI, Ack(s, "applied", installed'))
        /\ installed' = Overlay(installed, s) /\ Spawn(s)
    BY <1>3 DEF Install, SetOutcome
  <2>2. ~Supersede(s)
    <3>1. SUFFICES ASSUME Supersede(s) PROVE FALSE
      OBVIOUS
    <3>2. log' = SetOutcome(log, s, "superseded")
      BY <3>1 DEF Supersede, SetOutcome
    <3>3. QED
      BY <1>2, <2>1, <3>2 DEF Outcomes
  <2>3. QED
    BY <1>0, <2>1, <2>2 DEF Outcomes
<1>4. CASE Refuse(s)
  <2>1. log' = SetOutcome(log, s, "refused") /\ toUI' = Append(toUI, Ack(s, "refused", installed'))
        /\ UNCHANGED <<installed, writers, disk, overlap>>
    BY <1>4 DEF Refuse, SetOutcome, Ack, diskVars
  <2>2. ~Supersede(s)
    <3>1. SUFFICES ASSUME Supersede(s) PROVE FALSE
      OBVIOUS
    <3>2. log' = SetOutcome(log, s, "superseded")
      BY <3>1 DEF Supersede, SetOutcome
    <3>3. QED
      BY <1>2, <2>1, <3>2 DEF Outcomes
  <2>3. QED
    BY <1>0, <2>1, <2>2 DEF Outcomes
<1>5. CASE Supersede(s)
  <2>1. log' = SetOutcome(log, s, "superseded")
        /\ toUI' = Append(toUI, Ack(s, "superseded", installed'))
        /\ UNCHANGED <<installed, writers, disk, overlap>>
    BY <1>5 DEF Supersede, SetOutcome, Ack, diskVars
  <2>2. QED
    BY <1>0, <1>5, <2>1 DEF Outcomes
<1>6. QED
  BY <1>3, <1>4, <1>5 DEF Verdict

(* A verdict on the first waiting request keeps the order, wherever that    *)
(* request was taken from.                                                  *)
LEMMA VerdictKeepsOrder ==
  ASSUME TypeOK, Order, NEW s \in Sent, s = Decided + 1, Decided' = Decided + 1, Verdict(s)
  PROVE  /\ \A t \in Sent' : log'[t].outcome = "waiting" <=> t > Decided'
         /\ \A t \in Sent' : ~log'[t].numbered => log'[t].fields = {"model"}
         /\ Len(log') = Len(log) /\ Sent' = Sent
<1>1. PICK o \in {"applied", "refused", "superseded"} : log' = SetOutcome(log, s, o)
  BY VerdictShape
<1>2. s \in 1 .. Len(log) /\ o \in Outcomes /\ log \in Seq(Request)
  BY DEF Sent, Outcomes, TypeOK
<1>3. /\ Len(log') = Len(log)
      /\ \A t \in 1 .. Len(log) :
           /\ log'[t].numbered = log[t].numbered /\ log'[t].fields = log[t].fields
           /\ log'[t].outcome = IF t = s THEN o ELSE log[t].outcome
  BY <1>1, <1>2, OutcomeFacts
<1>4. Decided \in Int
  BY DEF Decided, TypeOK
<1>5. \A t \in Sent : t \in Int /\ (t > s <=> t > Decided /\ t # s)
  BY <1>4 DEF Sent
<1>6. QED
  BY <1>3, <1>4, <1>5 DEF Order, Sent, Numbered

LEMMA DecideStep ==
  ASSUME TypeOK, Order, ReceiveIdle \/ Settle
  PROVE  Order' /\ \E s, o : Decides(s, o)
<1>1. PICK s \in Sent :
        /\ s = Decided + 1 /\ Decided' = Decided + 1 /\ Verdict(s)
        /\ Supersede(s) => \E L \in SUBSET {t \in Sent : t > s} : Covered(s, L)
        /\ \A i \in 1 .. Len(deferred') : deferred'[i] = Decided + 1 + i
        /\ \A i \in 1 .. Len(toWorker') : toWorker'[i] = Decided + 1 + Len(deferred') + i
        /\ phase' = "idle" => deferred' = <<>>
        /\ UNCHANGED <<requested, active, pending, marker, lastAck>>
  <2>1. CASE ReceiveIdle
    <3>1. /\ Head(toWorker) \in Sent /\ Head(toWorker) = toWorker[1] /\ Len(toWorker) >= 1
          /\ Len(toWorker) \in Nat /\ Len(Tail(toWorker)) = Len(toWorker) - 1
          /\ \A i \in 1 .. Len(Tail(toWorker)) : Tail(toWorker)[i] = toWorker[i + 1]
      BY <2>1, TailFacts DEF ReceiveIdle, TypeOK
    <3>2. deferred = <<>> /\ Len(deferred) = 0 /\ toWorker' = Tail(toWorker) /\ deferred' = deferred
          /\ phase' = phase /\ UNCHANGED <<requested, active, pending, marker, lastAck>>
      BY <2>1 DEF ReceiveIdle, Order, uiVars
    <3>3. Len(log) \in Nat /\ Len(deferred) \in Nat /\ Decided \in Int
          /\ Decided = Len(log) - Len(deferred) - Len(toWorker)
      BY <3>1 DEF Decided, TypeOK
    <3>4. Install(Head(toWorker)) \/ Refuse(Head(toWorker))
      BY <2>1 DEF ReceiveIdle
    <3>5. Verdict(Head(toWorker))
      BY <3>4 DEF Verdict
    <3>6. Len(log') = Len(log)
      BY <3>1, <3>5, VerdictTypes
    <3>7. Decided' = Decided + 1
      <4>1. Decided' = Len(log) - 0 - Len(Tail(toWorker))
        BY <3>2, <3>6 DEF Decided
      <4>2. Decided = Len(log) - 0 - Len(toWorker) /\ Len(Tail(toWorker)) = Len(toWorker) - 1
            /\ Len(log) \in Int /\ Len(toWorker) \in Int
        BY <3>1, <3>2, <3>3
      <4>3. ASSUME NEW l \in Int, NEW k \in Int PROVE l - 0 - (k - 1) = (l - 0 - k) + 1
        OBVIOUS
      <4>4. QED
        BY <4>1, <4>2, <4>3
    <3>8. /\ Head(toWorker) = Decided + 1
          /\ \A i \in 1 .. Len(toWorker') : toWorker'[i] = Decided + 1 + Len(deferred') + i
      <4>1. \A i \in 1 .. Len(toWorker) : toWorker[i] = Decided + i
        BY <3>1, <3>2, <3>3 DEF Order
      <4>2. toWorker[1] = Decided + 1
        BY <3>1, <4>1
      <4>3. \A i \in 1 .. Len(Tail(toWorker)) : Tail(toWorker)[i] = Decided + (i + 1)
        BY <3>1, <4>1
      <4>4. QED
        BY <3>1, <3>2, <3>3, <4>2, <4>3
    <3>9. ~Supersede(Head(toWorker))
      <4>1. PICK o \in {"applied", "refused", "superseded"} :
              /\ log' = SetOutcome(log, Head(toWorker), o)
              /\ Supersede(Head(toWorker)) => o = "superseded"
        BY <3>1, <3>5, VerdictShape
      <4>2. PICK p \in {"applied", "refused"} : log' = SetOutcome(log, Head(toWorker), p)
        BY <3>4 DEF Install, Refuse, SetOutcome
      <4>3. log'[Head(toWorker)].outcome = o /\ log'[Head(toWorker)].outcome = p
        BY <3>1, <4>1, <4>2, OutcomeFacts DEF TypeOK, Sent, Outcomes
      <4>4. QED
        BY <4>1, <4>3
    <3>10. QED
      BY <3>1, <3>2, <3>5, <3>7, <3>8, <3>9
  <2>2. CASE Settle
    <3>1. /\ Head(deferred) \in Sent /\ Head(deferred) = deferred[1] /\ Len(deferred) >= 1
          /\ Len(deferred) \in Nat /\ Len(Tail(deferred)) = Len(deferred) - 1
          /\ Tail(deferred) \in Seq(Sent)
          /\ \A i \in 1 .. Len(Tail(deferred)) :
               i + 1 \in 1 .. Len(deferred) /\ Tail(deferred)[i] = deferred[i + 1]
      BY <2>2, TailFacts DEF Settle, TypeOK
    <3>2. toWorker' = toWorker /\ deferred' = Tail(deferred) /\ phase' # "idle"
          /\ UNCHANGED <<requested, active, pending, marker, lastAck>>
      BY <2>2 DEF Settle, uiVars
    <3>3. Head(deferred) = Decided + 1 /\ Decided \in Int /\ Len(toWorker) \in Nat
      BY <3>1 DEF Order, Decided, TypeOK
    <3>4. Verdict(Head(deferred))
      BY <2>2 DEF Settle, Verdict
    <3>5. Len(log') = Len(log) /\ Len(log) \in Nat
      BY <3>1, <3>4, VerdictTypes DEF TypeOK
    <3>6. Decided' = Decided + 1
      BY <3>1, <3>2, <3>3, <3>5 DEF Decided
    <3>7. /\ \A i \in 1 .. Len(deferred') : deferred'[i] = Decided + 1 + i
          /\ \A i \in 1 .. Len(toWorker') : toWorker'[i] = Decided + 1 + Len(deferred') + i
      BY <3>1, <3>2, <3>3 DEF Order
    <3>8. Range(Tail(deferred)) \in SUBSET {t \in Sent : t > Head(deferred)}
      <4>1. SUFFICES ASSUME NEW i \in DOMAIN Tail(deferred)
                     PROVE  Tail(deferred)[i] \in Sent /\ Tail(deferred)[i] > Head(deferred)
        BY DEF Range
      <4>2. i \in 1 .. Len(Tail(deferred)) /\ i \in Int /\ i >= 1
        BY <3>1
      <4>3. Tail(deferred)[i] = Decided + (i + 1)
        BY <3>1, <4>2 DEF Order
      <4>4. QED
        BY <3>1, <3>3, <4>2, <4>3
    <3>9. ASSUME Supersede(Head(deferred))
          PROVE  Covered(Head(deferred), Range(Tail(deferred)))
      <4>1. SUFFICES ASSUME Install(Head(deferred)) \/ Refuse(Head(deferred)) PROVE FALSE
        BY <2>2 DEF Settle
      <4>2. log' = SetOutcome(log, Head(deferred), "superseded")
        BY <3>9 DEF Supersede, SetOutcome
      <4>3. PICK p \in {"applied", "refused"} : log' = SetOutcome(log, Head(deferred), p)
        BY <4>1 DEF Install, Refuse, SetOutcome
      <4>4. log'[Head(deferred)].outcome = "superseded" /\ log'[Head(deferred)].outcome = p
        BY <3>1, <4>2, <4>3, OutcomeFacts DEF TypeOK, Sent, Outcomes
      <4>5. QED
        BY <4>4
    <3>10. QED
      BY <3>1, <3>2, <3>3, <3>4, <3>6, <3>7, <3>8, <3>9
  <2>3. QED
    BY <2>1, <2>2
<1>2. PICK o \in {"applied", "refused", "superseded"} :
        /\ log' = SetOutcome(log, s, o)
        /\ Ack(s, o, installed') \in Message /\ toUI' = Append(toUI, Ack(s, o, installed'))
        /\ o = "applied" => installed' = Overlay(installed, s) /\ Spawn(s)
        /\ o # "applied" => UNCHANGED <<installed, writers, disk, overlap>>
        /\ o = "superseded" => Supersede(s)
  BY <1>1, VerdictShape
<1>3. /\ Len(log') = Len(log)
      /\ \A t \in Sent :
           /\ log'[t].numbered = log[t].numbered /\ log'[t].fields = log[t].fields
           /\ log'[t].keep = log[t].keep
           /\ log'[t].outcome = IF t = s THEN o ELSE log[t].outcome
  <2>1. log \in Seq(Request) /\ s \in 1 .. Len(log) /\ o \in Outcomes /\ Sent = 1 .. Len(log)
    BY DEF TypeOK, Sent, Outcomes
  <2>2. QED
    BY <1>2, <2>1, OutcomeFacts
<1>4. Sent' = Sent
  BY <1>3 DEF Sent
<1>5. Decides(s, o)
  BY <1>1, <1>2, <1>3, <1>4 DEF Decides
<1>6. Order'
  <2>1. /\ \A t \in Sent' : log'[t].outcome = "waiting" <=> t > Decided'
        /\ \A t \in Sent' : ~log'[t].numbered => log'[t].fields = {"model"}
    BY <1>1, VerdictKeepsOrder
  <2>2. Decided \in Int /\ Decided' >= 0
    BY <1>1 DEF Decided, Order, TypeOK
  <2>3. QED
    BY <1>1, <2>1, <2>2 DEF Order, Numbered
<1>7. QED
  BY <1>5, <1>6


LEMMA SameQueues ==
  ASSUME TypeOK, Order, UNCHANGED <<log, toWorker, deferred>>, phase' = "idle" => deferred = <<>>
  PROVE  Order' /\ Decided' = Decided /\ Sent' = Sent
BY DEF Order, Decided, Sent, Numbered

LEMMA AskStep ==
  ASSUME TypeOK, Order, Ask \/ SaveProviderForm
  PROVE  Order' /\ Asks(Len(log) + 1)
<1> DEFINE s == Len(log) + 1
<1>1. PICK r \in Request :
        /\ log' = Append(log, r) /\ r.outcome = "waiting" /\ (~r.numbered => r.fields = {"model"})
        /\ toWorker' = Append(toWorker, s)
        /\ Len(log) < MaxRequests
        /\ UNCHANGED <<toUI, deferred, installed, cell, turnVars, diskVars, phase>>
  <2>1. CASE Ask
    <3>1. PICK c \in Changes :
            /\ log' = Append(log, [numbered |-> TRUE, fields |-> c.fields, keep |-> c.keep,
                                   outcome |-> "waiting"])
            /\ toWorker' = Append(toWorker, s)
      BY <2>1 DEF Ask
    <3>2. [numbered |-> TRUE, fields |-> c.fields, keep |-> c.keep, outcome |-> "waiting"] \in Request
      BY ChangesAssumption DEF Request, Outcomes
    <3>3. QED
      BY <2>1, <3>1, <3>2 DEF Ask
  <2>2. CASE SaveProviderForm
    <3>1. [numbered |-> FALSE, fields |-> {"model"}, keep |-> TRUE, outcome |-> "waiting"] \in Request
      BY DEF Request, Outcomes, Fields
    <3>2. QED
      BY <2>2, <3>1 DEF SaveProviderForm
  <2>3. QED
    BY <2>1, <2>2
<1>2. /\ log' \in Seq(Request) /\ Len(log') = s /\ Len(log) \in Nat /\ Sent' = Sent \cup {s}
      /\ log'[s] = r /\ \A t \in Sent : log'[t] = log[t]
  <2>1. log \in Seq(Request) /\ DOMAIN log = Sent /\ Len(log) \in Nat
    BY DEF TypeOK, Sent
  <2>2. /\ s \in DOMAIN Append(log, r) /\ Append(log, r)[s] = r
        /\ \A t \in DOMAIN log : Append(log, r)[t] = log[t]
    BY <2>1, AppendFacts
  <2>3. log' \in Seq(Request) /\ Len(log') = s /\ Sent' = Sent \cup {s}
    BY <1>1, AskTypes
  <2>4. QED
    BY <1>1, <2>1, <2>2, <2>3
<1>3. /\ Len(toWorker) \in Nat /\ Len(toWorker') = Len(toWorker) + 1 /\ Len(deferred) \in Nat
      /\ toWorker'[Len(toWorker) + 1] = s
      /\ \A i \in 1 .. Len(toWorker) : toWorker'[i] = toWorker[i]
      /\ deferred' = deferred /\ phase' = phase
  BY <1>1 DEF TypeOK
<1>4. Decided' = s - Len(deferred) - (Len(toWorker) + 1)
  BY <1>2, <1>3 DEF Decided
<1>5. Decided' = Decided /\ Decided \in Int
      /\ Decided + Len(deferred) + (Len(toWorker) + 1) = s /\ Decided < s
  BY <1>2, <1>3, <1>4 DEF Decided
<1>6. \A t \in Sent : t < s /\ t # s /\ t \in Nat
  BY <1>2 DEF Sent
<1>7. Asks(s)
  <2>1. s \notin Sent /\ s \in Nat
    BY <1>2, <1>6
  <2>2. log'[s].outcome = "waiting"
    BY <1>1, <1>2
  <2>3. \A t \in Sent : t < s /\ log'[t] = log[t]
    BY <1>2, <1>6
  <2>4. QED
    BY <1>2, <1>5, <2>1, <2>2, <2>3 DEF Asks
<1>8. Order'
  <2>1. Decided' >= 0 /\ \A i \in 1 .. Len(deferred') : deferred'[i] = Decided' + i
    BY <1>3, <1>5 DEF Order
  <2>2. \A i \in 1 .. Len(toWorker') : toWorker'[i] = Decided' + Len(deferred') + i
    <3>1. SUFFICES ASSUME NEW i \in 1 .. Len(toWorker')
                   PROVE  toWorker'[i] = Decided + Len(deferred) + i
      BY <1>3, <1>5
    <3>2. CASE i \in 1 .. Len(toWorker)
      BY <1>3, <3>2 DEF Order
    <3>3. CASE i = Len(toWorker) + 1
      BY <1>3, <1>5, <3>3
    <3>4. QED
      BY <1>3, <3>2, <3>3
  <2>3. \A t \in Sent' : log'[t].outcome = "waiting" <=> t > Decided'
    BY <1>1, <1>2, <1>5 DEF Order
  <2>4. \A t \in Sent' : ~log'[t].numbered => log'[t].fields = {"model"}
    BY <1>1, <1>2 DEF Order, Numbered
  <2>5. phase' = "idle" => deferred' = <<>>
    BY <1>3 DEF Order
  <2>6. QED
    BY <2>1, <2>2, <2>3, <2>4, <2>5 DEF Order, Numbered
<1>9. QED
  BY <1>7, <1>8

LEMMA QuietStep ==
  ASSUME TypeOK, Order,
         ReceiveInTurn \/ StartTurn \/ AdoptSwitch \/ SkillSwitches \/ SubAgentAdopts \/ EndTurn
           \/ Settled \/ UNCHANGED vars
  PROVE  Order' /\ Quiet /\ Sent' = Sent
<1>1. UNCHANGED <<log, requested, active, pending, marker, lastAck, toUI, installed, writers, disk,
                  overlap>>
  BY DEF ReceiveInTurn, StartTurn, AdoptSwitch, SkillSwitches, SubAgentAdopts, EndTurn, Settled,
         vars, uiVars, diskVars
<1>2. CASE ReceiveInTurn
  <2>1. /\ Head(toWorker) \in Sent /\ Head(toWorker) = toWorker[1] /\ Len(toWorker) >= 1
        /\ Len(toWorker) \in Nat /\ Len(Tail(toWorker)) = Len(toWorker) - 1
        /\ \A i \in 1 .. Len(Tail(toWorker)) :
             i + 1 \in 1 .. Len(toWorker) /\ Tail(toWorker)[i] = toWorker[i + 1]
    BY <1>2, TailFacts DEF ReceiveInTurn, TypeOK
  <2>2. /\ toWorker' = Tail(toWorker) /\ deferred' = Append(deferred, Head(toWorker))
        /\ phase' # "idle"
    BY <1>2 DEF ReceiveInTurn
  <2>3. /\ Len(deferred) \in Nat /\ Len(deferred') = Len(deferred) + 1
        /\ deferred'[Len(deferred) + 1] = toWorker[1]
        /\ \A i \in 1 .. Len(deferred) : deferred'[i] = deferred[i]
    BY <2>1, <2>2, AppendFacts DEF TypeOK
  <2>4. Len(log') = Len(log) /\ Len(log) \in Nat /\ Sent' = Sent
    BY <1>1 DEF TypeOK, Sent
  <2>5. Decided \in Int /\ Decided = Len(log) - Len(deferred) - Len(toWorker)
    BY <2>1, <2>3, <2>4 DEF Decided
  <2>6. Decided' = Len(log) - (Len(deferred) + 1) - (Len(toWorker) - 1)
    BY <2>1, <2>2, <2>3, <2>4 DEF Decided
  <2>7. Decided' = Decided
    BY <2>1, <2>3, <2>4, <2>5, <2>6
  <2>8. \A i \in 1 .. Len(deferred') : deferred'[i] = Decided + i
    <3>1. SUFFICES ASSUME NEW i \in 1 .. Len(deferred') PROVE deferred'[i] = Decided + i
      OBVIOUS
    <3>2. CASE i \in 1 .. Len(deferred)
      BY <2>3, <3>2 DEF Order
    <3>3. CASE i = Len(deferred) + 1
      <4>1. toWorker[1] = Decided + Len(deferred) + 1
        BY <2>1 DEF Order
      <4>2. QED
        BY <2>3, <2>5, <3>3, <4>1
    <3>4. QED
      BY <2>3, <3>2, <3>3
  <2>9. \A i \in 1 .. Len(toWorker') : toWorker'[i] = Decided + Len(deferred') + i
    <3>1. SUFFICES ASSUME NEW i \in 1 .. Len(Tail(toWorker))
                   PROVE  Tail(toWorker)[i] = Decided + (Len(deferred) + 1) + i
      BY <2>2, <2>3
    <3>2. Tail(toWorker)[i] = Decided + Len(deferred) + (i + 1)
      BY <2>1 DEF Order
    <3>3. QED
      BY <2>3, <2>5, <3>2
  <2>10. Order'
    BY <1>1, <2>2, <2>4, <2>7, <2>8, <2>9 DEF Order, Numbered
  <2>11. QED
    BY <1>1, <2>4, <2>7, <2>10 DEF Quiet
<1>3. CASE StartTurn \/ AdoptSwitch \/ SkillSwitches \/ SubAgentAdopts \/ EndTurn \/ Settled
             \/ UNCHANGED vars
  <2>1. UNCHANGED <<log, toWorker, deferred>>
    BY <1>3 DEF StartTurn, AdoptSwitch, SkillSwitches, SubAgentAdopts, EndTurn, Settled, vars
  <2>2. phase' = "idle" => deferred = <<>>
    BY <1>3 DEF StartTurn, AdoptSwitch, SkillSwitches, SubAgentAdopts, EndTurn, Settled, vars, Order
  <2>3. QED
    BY <1>1, <2>1, <2>2, SameQueues DEF Quiet
<1>4. QED
  BY <1>2, <1>3

(* The steps of the UI and of the writers leave the requests alone.         *)
LEMMA HearStep ==
  ASSUME TypeOK, Order, TakeAck \/ TakeWriteResult \/ WriterStep
  PROVE  Order' /\ Decided' = Decided /\ Sent' = Sent /\ UNCHANGED <<log, installed>>
<1>1. UNCHANGED <<log, toWorker, deferred, phase, installed>>
  BY DEF TakeAck, TakeWriteResult, WriterStep
<1>2. QED
  BY <1>1, SameQueues DEF Order

LEMMA OrderInit == Init => Order
<1>1. SUFFICES ASSUME Init PROVE Order
  OBVIOUS
<1>2. Len(log) = 0 /\ Len(deferred) = 0 /\ Len(toWorker) = 0 /\ deferred = <<>>
  BY <1>1 DEF Init
<1>3. QED
  BY <1>2 DEF Order, Decided, Sent

(* Every step is of one of these classes.                                   *)
LEMMA Steps ==
  ASSUME TypeOK, Order, [Next]_vars
  PROVE  /\ Order'
         /\ \/ Asks(Len(log) + 1) /\ (Ask \/ SaveProviderForm)
            \/ (ReceiveIdle \/ Settle) /\ \E s, o : Decides(s, o)
            \/ Quiet /\ Sent' = Sent
            \/ (TakeAck \/ TakeWriteResult \/ WriterStep) /\ Decided' = Decided /\ Sent' = Sent
                 /\ UNCHANGED <<log, installed>>
<1>1. CASE Ask \/ SaveProviderForm
  BY <1>1, AskStep
<1>2. CASE ReceiveIdle \/ Settle
  BY <1>2, DecideStep
<1>3. CASE ReceiveInTurn \/ StartTurn \/ AdoptSwitch \/ SkillSwitches \/ SubAgentAdopts \/ EndTurn
             \/ Settled \/ UNCHANGED vars
  BY <1>3, QuietStep
<1>4. CASE TakeAck \/ TakeWriteResult \/ WriterStep
  BY <1>4, HearStep
<1>5. QED
  BY <1>1, <1>2, <1>3, <1>4 DEF Next

------------------------------------------------------------------------------
(* The worker's settings, the superseded requests, the shown intent.        *)

Wins ==
  /\ LastRequestWins
  /\ \A f \in Fields : installed[f] # 0 => installed[f] \in Sent

LEMMA LogTypes ==
  ASSUME TypeOK
  PROVE  /\ Decided \in Int
         /\ \A t \in Sent : /\ t \in Int /\ t \in Nat /\ t >= 1 /\ t # 0
                            /\ log[t] \in Request /\ log[t].fields \subseteq Fields
                            /\ log[t].keep \in BOOLEAN /\ log[t].numbered \in BOOLEAN
<1>1. Len(log) \in Int /\ Len(deferred) \in Int /\ Len(toWorker) \in Int
  BY DEF TypeOK
<1>2. \A t \in Sent : log[t] \in Request
  BY DEF TypeOK, Sent
<1>3. QED
  BY <1>1, <1>2 DEF Decided, Sent, Request

LEMMA DecidesFacts ==
  ASSUME TypeOK, Order, NEW s, NEW o, Decides(s, o)
  PROVE  /\ s \in Sent /\ s = Decided + 1 /\ Sent' = Sent /\ Decided' = Decided + 1
         /\ s \in Nat /\ s >= 1 /\ Decided \in Int
         /\ \A t \in Sent :
              /\ t \in Nat /\ t >= 1
              /\ log'[t].fields = log[t].fields /\ log'[t].keep = log[t].keep
              /\ log'[t].numbered = log[t].numbered /\ log[t].keep \in BOOLEAN
              /\ log'[t].outcome = IF t = s THEN o ELSE log[t].outcome
         /\ \A t \in Sent : log[t].outcome = "waiting" <=> t >= s
         /\ o # "waiting"
<1>1. /\ s \in Sent /\ s = Decided + 1 /\ Sent' = Sent /\ Decided' = Decided + 1
      /\ o # "waiting"
      /\ \A t \in Sent :
           /\ log'[t].fields = log[t].fields /\ log'[t].keep = log[t].keep
           /\ log'[t].numbered = log[t].numbered
           /\ log'[t].outcome = IF t = s THEN o ELSE log[t].outcome
  BY DEF Decides
<1>2. \A t \in Sent : log[t].outcome = "waiting" <=> t > Decided
  BY DEF Order
<1>3. QED
  BY <1>1, <1>2, LogTypes

LEMMA WinsStep ==
  ASSUME TypeOK, Order, Wins, [Next]_vars
  PROVE  Wins'
<1>1. CASE Asks(Len(log) + 1) /\ (Ask \/ SaveProviderForm)
  <2> DEFINE n == Len(log) + 1
  <2>1. installed' = installed
    BY <1>1 DEF Ask, SaveProviderForm
  <2>2. /\ \A t \in Sent : t < n /\ log'[t] = log[t]
        /\ log'[n].outcome = "waiting" /\ Sent' = Sent \cup {n}
    BY <1>1 DEF Asks
  <2>3. QED
    BY <2>1, <2>2 DEF Wins, LastRequestWins
<1>2. CASE \E s, o : Decides(s, o)
  <2>1. PICK s, o : Decides(s, o)
    BY <1>2
  <2>2. /\ s \in Sent /\ Sent' = Sent /\ s \in Nat /\ s >= 1
        /\ \A t \in Sent : t \in Nat /\ log'[t].fields = log[t].fields
                            /\ log'[t].outcome = IF t = s THEN o ELSE log[t].outcome
        /\ \A t \in Sent : log[t].outcome = "waiting" <=> t >= s
    BY <2>1, DecidesFacts
  <2>3. log[s].outcome = "waiting" /\ \A t \in Sent : log[t].outcome = "applied" => t < s
    BY <2>2
  <2>4. \A f \in Fields : installed[f] # s
    BY <2>2, <2>3 DEF Wins, LastRequestWins
  <2>5. CASE o = "applied"
    <3>1. \A f \in Fields : installed'[f] = IF f \in log[s].fields THEN s ELSE installed[f]
      BY <2>1, <2>5 DEF Decides, Overlay
    <3>2. ASSUME NEW f \in Fields
          PROVE  /\ installed'[f] # 0 =>
                      f \in log'[installed'[f]].fields /\ log'[installed'[f]].outcome = "applied"
                        /\ installed'[f] \in Sent
                 /\ \A t \in Sent : log'[t].outcome = "applied" /\ f \in log'[t].fields
                                      => t <= installed'[f]
      <4>1. CASE f \in log[s].fields
        BY <2>2, <2>3, <2>5, <3>1, <4>1
      <4>2. CASE f \notin log[s].fields
        <5>1. installed'[f] = installed[f] /\ installed[f] # s
          BY <2>4, <3>1, <4>2
        <5>2. installed[f] # 0 => f \in log[installed[f]].fields
                 /\ log[installed[f]].outcome = "applied" /\ installed[f] \in Sent
          BY DEF Wins, LastRequestWins
        <5>3. \A t \in Sent : log[t].outcome = "applied" /\ f \in log[t].fields => t <= installed[f]
          BY DEF Wins, LastRequestWins
        <5>4. QED
          BY <2>2, <4>2, <5>1, <5>2, <5>3
      <4>3. QED
        BY <4>1, <4>2
    <3>3. QED
      BY <2>2, <3>2 DEF Wins, LastRequestWins
  <2>6. CASE o # "applied"
    <3>1. installed' = installed
      BY <2>1, <2>6 DEF Decides
    <3>2. \A t \in Sent : log'[t].outcome = "applied" <=> log[t].outcome = "applied"
      BY <2>2, <2>3, <2>6
    <3>3. ASSUME NEW f \in Fields
          PROVE  /\ installed[f] # 0 =>
                      f \in log'[installed[f]].fields /\ log'[installed[f]].outcome = "applied"
                        /\ installed[f] \in Sent
                 /\ \A t \in Sent : log'[t].outcome = "applied" /\ f \in log'[t].fields
                                      => t <= installed[f]
      <4>1. installed[f] # 0 => f \in log[installed[f]].fields
               /\ log[installed[f]].outcome = "applied" /\ installed[f] \in Sent
        BY DEF Wins, LastRequestWins
      <4>2. \A t \in Sent : log[t].outcome = "applied" /\ f \in log[t].fields => t <= installed[f]
        BY DEF Wins, LastRequestWins
      <4>3. QED
        BY <2>2, <3>2, <4>1, <4>2
    <3>4. QED
      BY <2>2, <3>1, <3>3 DEF Wins, LastRequestWins
  <2>7. QED
    BY <2>5, <2>6
<1>3. CASE Sent' = Sent /\ UNCHANGED <<log, installed>>
  BY <1>3 DEF Wins, LastRequestWins
<1>4. QED
  BY <1>1, <1>2, <1>3, Steps DEF Quiet

LEMMA AnswersStep ==
  ASSUME TypeOK, Order, NoIntentIsLost, [Next]_vars
  PROVE  NoIntentIsLost'
<1>1. CASE Asks(Len(log) + 1)
  <2> DEFINE n == Len(log) + 1
  <2>1. /\ \A t \in Sent : t < n /\ log'[t] = log[t]
        /\ log'[n].outcome = "waiting" /\ Sent' = Sent \cup {n}
    BY <1>1 DEF Asks
  <2>2. QED
    BY <2>1 DEF NoIntentIsLost, Answers, Numbered
<1>2. CASE \E s, o : Decides(s, o)
  <2>1. PICK s, o : Decides(s, o)
    BY <1>2
  <2>2. /\ s \in Sent /\ Sent' = Sent /\ s \in Nat
        /\ \A t \in Sent :
             /\ t \in Nat /\ log'[t].fields = log[t].fields /\ log'[t].keep = log[t].keep
             /\ log'[t].numbered = log[t].numbered /\ log[t].keep \in BOOLEAN
             /\ log'[t].outcome = IF t = s THEN o ELSE log[t].outcome
        /\ \A t \in Sent : log[t].outcome = "waiting" <=> t >= s
    BY <2>1, DecidesFacts
  <2>3. \A t \in Sent : t >= s => log[t].outcome = "waiting"
    BY <2>2
  <2>4. ASSUME o = "superseded", NEW f \in log[s].fields
        PROVE  \E t \in Sent : t > s /\ log[t].numbered /\ f \in log[t].fields
                                 /\ log[t].outcome # "superseded" /\ (log[s].keep => log[t].keep)
    <3>1. PICK L \in SUBSET {t \in Sent : t > s} : Covered(s, L)
      BY <2>1, <2>4 DEF Decides
    <3>2. PICK t \in L : log[t].numbered /\ f \in log[t].fields /\ (log[s].keep => log[t].keep)
      BY <2>2, <2>4, <3>1 DEF Covered, FieldsOf, Numbered
    <3>3. QED
      BY <2>2, <2>3, <3>1, <3>2
  <2>5. SUFFICES ASSUME NEW u \in Sent, log'[u].outcome = "superseded", NEW f \in log[u].fields
                 PROVE  \E t \in Sent : t > u /\ log[t].numbered /\ f \in log[t].fields
                          /\ log'[t].outcome # "superseded" /\ (log[u].keep => log[t].keep)
    BY <2>2 DEF NoIntentIsLost, Answers, Numbered
  <2>6. CASE u = s
    <3>1. o = "superseded"
      BY <2>2, <2>5, <2>6
    <3>2. f \in log[s].fields
      BY <2>5, <2>6
    <3>3. PICK t \in Sent : t > s /\ log[t].numbered /\ f \in log[t].fields
                              /\ log[t].outcome # "superseded" /\ (log[s].keep => log[t].keep)
      BY <2>4, <3>1, <3>2
    <3>4. t # s
      BY <2>2, <3>3
    <3>5. QED
      BY <2>2, <2>6, <3>3, <3>4
  <2>7. CASE u # s
    <3>1. log[u].outcome = "superseded"
      BY <2>2, <2>5, <2>7
    <3>2. PICK t \in Sent : t > u /\ log[t].numbered /\ f \in log[t].fields
                              /\ log[t].outcome # "superseded" /\ (log[u].keep => log[t].keep)
      BY <2>5, <3>1 DEF NoIntentIsLost, Answers, Numbered
    <3>3. CASE t = s /\ o = "superseded"
      <4>1. PICK v \in Sent : v > s /\ log[v].numbered /\ f \in log[v].fields
                                /\ log[v].outcome # "superseded" /\ (log[s].keep => log[v].keep)
        BY <2>4, <3>2, <3>3
      <4>2. v # s /\ v > u
        BY <2>2, <3>2, <3>3, <4>1
      <4>3. QED
        BY <2>2, <3>2, <3>3, <4>1, <4>2
    <3>4. CASE ~(t = s /\ o = "superseded")
      BY <2>2, <3>2, <3>4
    <3>5. QED
      BY <3>3, <3>4
  <2>8. QED
    BY <2>6, <2>7
<1>3. CASE Sent' = Sent /\ UNCHANGED log
  BY <1>3 DEF NoIntentIsLost, Answers, Numbered
<1>4. QED
  BY <1>1, <1>2, <1>3, Steps DEF Quiet

LEMMA IntentStep ==
  ASSUME TypeOK, Order, IntentIsKept, [Next]_vars
  PROVE  IntentIsKept'
<1>0. \A s \in pending : s \in Sent /\ s \in Nat
  BY DEF TypeOK, Sent
<1>1. CASE Asks(Len(log) + 1) /\ (Ask \/ SaveProviderForm)
  <2> DEFINE n == Len(log) + 1
  <2>1. (\A t \in Sent : t < n /\ log'[t] = log[t]) /\ n \in Nat
    BY <1>1 DEF Asks
  <2>2. CASE Ask
    <3>1. PICK c \in Changes :
            /\ log' = Append(log, [numbered |-> TRUE, fields |-> c.fields, keep |-> c.keep,
                                   outcome |-> "waiting"])
            /\ requested' = [f \in Fields |-> IF f \in c.fields THEN n ELSE requested[f]]
            /\ pending' = pending \cup {n}
      BY <2>2 DEF Ask
    <3>2. c.fields \subseteq Fields /\ \A t \in Sent : log[t].fields \subseteq Fields
      BY ChangesAssumption, LogTypes
    <3>3. log'[n].fields = c.fields
      BY <3>1, <2>1 DEF TypeOK
    <3>4. ASSUME NEW s \in pending, NEW f \in log'[s].fields PROVE requested'[f] >= s
      <4>1. f \in log[s].fields /\ f \in Fields /\ s < n /\ s \in Nat /\ requested[f] >= s
        BY <1>0, <2>1, <3>2, <3>4 DEF IntentIsKept
      <4>2. QED
        BY <2>1, <3>1, <4>1
    <3>5. \A f \in log'[n].fields : requested'[f] >= n
      BY <2>1, <3>1, <3>2, <3>3
    <3>6. QED
      BY <3>1, <3>4, <3>5 DEF IntentIsKept
  <2>3. CASE SaveProviderForm
    BY <1>0, <2>1, <2>3 DEF SaveProviderForm, IntentIsKept
  <2>4. QED
    BY <1>1, <2>2, <2>3
<1>2. CASE \E s, o : Decides(s, o)
  BY <1>0, <1>2 DEF Decides, IntentIsKept
<1>3. CASE Quiet
  BY <1>3 DEF Quiet, IntentIsKept
<1>4. CASE TakeAck
  <2>1. \/ UNCHANGED <<pending, requested>>
        \/ \E r : pending' = {s \in pending : s > r} /\ (NewerPending(r) => UNCHANGED requested)
    BY <1>4 DEF TakeAck, uiVars
  <2>2. log' = log
    BY <1>4 DEF TakeAck
  <2>3. QED
    BY <2>1, <2>2 DEF IntentIsKept, NewerPending
<1>5. CASE TakeWriteResult \/ WriterStep
  BY <1>5 DEF TakeWriteResult, WriterStep, uiVars, IntentIsKept
<1>6. QED
  BY <1>1, <1>2, <1>3, <1>4, <1>5, Steps

------------------------------------------------------------------------------
(* What the UI is told.                                                     *)

LEMMA PostFacts ==
  ASSUME TypeOK, NEW x \in Message, toUI' = Append(toUI, x)
  PROVE  /\ \A i \in DOMAIN toUI : i \in DOMAIN toUI' /\ toUI'[i] = toUI[i] /\ i < Len(toUI) + 1
         /\ Len(toUI) + 1 \in DOMAIN toUI' /\ toUI'[Len(toUI) + 1] = x
         /\ \A i \in DOMAIN toUI' : i \in DOMAIN toUI \/ i = Len(toUI) + 1
         /\ \A s : InFlight(s)' <=> InFlight(s) \/ (x.kind = "ack" /\ x.of = s)
         /\ \A s : Result(s)' <=> Result(s) \/ (x.kind = "written" /\ x.of = s)
<1>1. toUI \in Seq(Message)
  BY DEF TypeOK
<1>2. /\ \A i \in DOMAIN toUI : i \in DOMAIN toUI' /\ toUI'[i] = toUI[i]
      /\ Len(toUI) + 1 \in DOMAIN toUI' /\ toUI'[Len(toUI) + 1] = x
      /\ \A i \in DOMAIN toUI' : i \in DOMAIN toUI \/ i = Len(toUI) + 1
  BY <1>1, AppendFacts
<1>3. \A i \in DOMAIN toUI : i < Len(toUI) + 1
  BY <1>1
<1>4. \A s : InFlight(s)' <=> InFlight(s) \/ (x.kind = "ack" /\ x.of = s)
  BY <1>2 DEF InFlight, AckAt
<1>5. \A s : Result(s)' <=> Result(s) \/ (x.kind = "written" /\ x.of = s)
  BY <1>2 DEF Result, WrittenAt
<1>6. QED
  BY <1>2, <1>3, <1>4, <1>5

LEMMA TakeFacts ==
  ASSUME TypeOK, toUI # <<>>, toUI' = Tail(toUI)
  PROVE  /\ 1 \in DOMAIN toUI /\ Head(toUI) = toUI[1] /\ Head(toUI) \in Message
         /\ \A i \in DOMAIN toUI' : i + 1 \in DOMAIN toUI /\ toUI'[i] = toUI[i + 1] /\ i + 1 > 1
         /\ \A i \in DOMAIN toUI : i >= 1 /\ i \in Nat
         /\ \A i \in DOMAIN toUI : i = 1 \/ (i - 1 \in DOMAIN toUI' /\ toUI'[i - 1] = toUI[i])
         /\ \A i, j \in DOMAIN toUI' : i \in Int /\ j \in Int /\ (j < i => j + 1 < i + 1)
         /\ \A s : InFlight(s) => InFlight(s)' \/ (AckAt(1) /\ toUI[1].of = s)
         /\ \A s : InFlight(s)' => InFlight(s)
         /\ \A s : Result(s) => Result(s)' \/ (WrittenAt(1) /\ toUI[1].of = s)
         /\ \A s : Result(s)' => Result(s)
<1>1. toUI \in Seq(Message)
  BY DEF TypeOK
<1>2. /\ Head(toUI) \in Message /\ Head(toUI) = toUI[1] /\ 1 \in DOMAIN toUI
      /\ toUI' \in Seq(Message)
      /\ \A i \in DOMAIN toUI' : i + 1 \in DOMAIN toUI /\ toUI'[i] = toUI[i + 1]
      /\ \A i \in DOMAIN toUI : i = 1 \/ (i - 1 \in DOMAIN toUI' /\ toUI'[i - 1] = toUI[i])
      /\ \A i \in DOMAIN toUI : i >= 1 /\ i \in Nat
  BY <1>1, TailFacts
<1>3. \A i \in DOMAIN toUI' : i \in Int /\ i + 1 > 1
  BY <1>2
<1>4. /\ \A s : InFlight(s) => InFlight(s)' \/ (AckAt(1) /\ toUI[1].of = s)
      /\ \A s : InFlight(s)' => InFlight(s)
  <2>1. ASSUME NEW s, InFlight(s), ~(AckAt(1) /\ toUI[1].of = s) PROVE InFlight(s)'
    <3>1. PICK i \in DOMAIN toUI : AckAt(i) /\ toUI[i].of = s
      BY <2>1 DEF InFlight
    <3>2. i # 1
      BY <2>1, <3>1
    <3>3. i - 1 \in DOMAIN toUI' /\ toUI'[i - 1] = toUI[i]
      BY <1>2, <3>2
    <3>4. QED
      BY <3>1, <3>3 DEF InFlight, AckAt
  <2>2. ASSUME NEW s, InFlight(s)' PROVE InFlight(s)
    <3>1. PICK i \in DOMAIN toUI' : AckAt(i)' /\ toUI'[i].of = s
      BY <2>2 DEF InFlight
    <3>2. i + 1 \in DOMAIN toUI /\ toUI'[i] = toUI[i + 1]
      BY <1>2
    <3>3. QED
      BY <3>1, <3>2 DEF InFlight, AckAt
  <2>3. QED
    BY <2>1, <2>2
<1>5. /\ \A s : Result(s) => Result(s)' \/ (WrittenAt(1) /\ toUI[1].of = s)
      /\ \A s : Result(s)' => Result(s)
  <2>1. ASSUME NEW s, Result(s), ~(WrittenAt(1) /\ toUI[1].of = s) PROVE Result(s)'
    <3>1. PICK i \in DOMAIN toUI : WrittenAt(i) /\ toUI[i].of = s
      BY <2>1 DEF Result
    <3>2. i # 1
      BY <2>1, <3>1
    <3>3. i - 1 \in DOMAIN toUI' /\ toUI'[i - 1] = toUI[i]
      BY <1>2, <3>2
    <3>4. QED
      BY <3>1, <3>3 DEF Result, WrittenAt
  <2>2. ASSUME NEW s, Result(s)' PROVE Result(s)
    <3>1. PICK i \in DOMAIN toUI' : WrittenAt(i)' /\ toUI'[i].of = s
      BY <2>2 DEF Result
    <3>2. i + 1 \in DOMAIN toUI /\ toUI'[i] = toUI[i + 1]
      BY <1>2
    <3>3. QED
      BY <3>1, <3>2 DEF Result, WrittenAt
  <2>3. QED
    BY <2>1, <2>2
<1>6. \A i, j \in DOMAIN toUI' : j < i => j + 1 < i + 1
  BY <1>3
<1>7. QED
  BY <1>2, <1>3, <1>4, <1>5, <1>6

LEMMA MessageFacts ==
  ASSUME TypeOK
  PROVE  /\ \A i \in DOMAIN toUI : /\ toUI[i] \in Message /\ toUI[i].of \in Sent
                                   /\ AckAt(i) \/ WrittenAt(i)
                                   /\ i \in Nat
         /\ lastAck \in Nat /\ pending \subseteq Sent
         /\ \A s : s # 0 /\ s \in Nat /\ s <= Decided => s \in Sent
         /\ Decided \in Int /\ Decided <= Len(log)
<1>1. \A i \in DOMAIN toUI : toUI[i] \in Message /\ i \in Nat
  BY DEF TypeOK
<1>2. \A m \in Message : m.of \in Sent /\ (m.kind = "ack" \/ m.kind = "written")
  BY DEF Message
<1>3. lastAck \in Nat /\ pending \subseteq Sent
  BY BoundsAssumption DEF TypeOK
<1>4. Len(log) \in Nat /\ Len(deferred) \in Nat /\ Len(toWorker) \in Nat
  BY DEF TypeOK
<1>5. Decided \in Int /\ Decided <= Len(log)
  BY <1>4 DEF Decided
<1>6. \A s : s # 0 /\ s \in Nat /\ s <= Decided => s \in Sent
  BY <1>4, <1>5 DEF Sent
<1>7. QED
  BY <1>1, <1>2, <1>3, <1>5, <1>6 DEF AckAt, WrittenAt

(* A writer's step tells the UI nothing or the result of a request.         *)
LEMMA WriterPosts ==
  ASSUME TypeOK, WriterStep
  PROVE  \/ toUI' = toUI
         \/ \E w \in writers, ok \in BOOLEAN :
              WriteResult(w.of, ok) \in Message /\ toUI' = Append(toUI, WriteResult(w.of, ok))
<1>1. \A w \in writers, ok \in BOOLEAN : WriteResult(w.of, ok) \in Message
  BY DEF TypeOK, Writer, WriteResult, Message
<1>2. QED
  BY <1>1 DEF WriterStep, WriterLoads, WriterSaves, WriterStores, WriterFails, Finish

LEMMA AnsweredAsk ==
  ASSUME TypeOK, Order, Answered, Asks(Len(log) + 1), Ask \/ SaveProviderForm
  PROVE  Answered'
<1>0. PICK n : n = Len(log) + 1
  OBVIOUS
<1>1. /\ \A t \in Sent : t < n /\ log'[t] = log[t]
      /\ Decided' = Decided /\ Decided < n /\ Sent' = Sent \cup {n} /\ n \notin Sent /\ n \in Nat
  BY <1>0 DEF Asks
<1>2. UNCHANGED <<toUI, lastAck, installed>>
  BY DEF Ask, SaveProviderForm
<1>3. /\ \A i \in DOMAIN toUI : toUI[i].of \in Sent
      /\ pending \subseteq Sent /\ lastAck \in Nat
      /\ \A s : s # 0 /\ s \in Nat /\ s <= Decided => s \in Sent
      /\ Decided \in Int
  BY MessageFacts
<1>4. \A t \in Sent' : t <= Decided => t \in Sent
  BY <1>1, <1>3
<1>5. Acks'
  <2>1. lastAck # 0 => Numbered(lastAck)'
    BY <1>1, <1>2, <1>3 DEF Answered, Acks, Numbered
  <2>2. ASSUME NEW i \in DOMAIN toUI, AckAt(i) PROVE AckIs(i)'
    <3>1. AckIs(i)
      BY <2>2 DEF Answered, Acks, AckIs
    <3>2. QED
      BY <1>1, <1>2, <1>3, <1>4, <3>1 DEF AckIs, AckAt, InFlight, Numbered
  <2>3. QED
    BY <1>1, <1>2, <2>1, <2>2 DEF Answered, Acks, AckIs, AckAt
<1>6. Known'
  <2>1. \A s \in Sent : s \in pending' <=> Numbered(s)' /\ (s > Decided' \/ InFlight(s)')
    <3>1. \A s \in Sent : s \in pending' <=> s \in pending
      BY <1>0, <1>1 DEF Ask, SaveProviderForm
    <3>2. QED
      BY <1>1, <1>2, <3>1 DEF Answered, Known, InFlight, AckAt, Numbered
  <2>2. n \in pending' <=> Numbered(n)'
    <3>1. CASE Ask
      <4>1. n \in pending' /\ log'[n].numbered
        BY <1>0, <3>1 DEF Ask, TypeOK
      <4>2. QED
        BY <4>1 DEF Numbered
    <3>2. CASE SaveProviderForm
      <4>1. pending' = pending /\ ~log'[n].numbered
        BY <1>0, <3>2 DEF SaveProviderForm, TypeOK
      <4>2. QED
        BY <1>1, <1>3, <4>1 DEF Numbered
    <3>3. QED
      BY <3>1, <3>2
  <2>3. QED
    BY <1>1, <2>1, <2>2 DEF Known
<1>7. Shown'
  <2>1. \A f : Good(f)' => Good(f)
    BY <1>1 DEF Good, Numbered
  <2>2. ASSUME NEW i \in DOMAIN toUI', AckAt(i)',
               \A t \in Sent' : Numbered(t)' /\ t <= Decided' => t <= toUI'[i].of,
               NEW f \in Fields, Good(f)'
        PROVE  toUI'[i].snapshot[f] = installed'[f]
    <3>1. \A t \in Sent : Numbered(t) /\ t <= Decided => t <= toUI[i].of
      BY <1>1, <1>2, <2>2 DEF Numbered
    <3>2. QED
      BY <1>2, <2>1, <2>2, <3>1 DEF Answered, Shown, AckAt
  <2>3. ASSUME pending' = {}, NEW f \in Fields, Good(f)' PROVE active'[f] = installed'[f]
    <3>1. SaveProviderForm
      BY <2>3 DEF Ask
    <3>2. ~log'[n].numbered
      BY <1>0, <3>1 DEF SaveProviderForm, TypeOK
    <3>3. f # "model"
      BY <1>1, <2>3, <3>2 DEF Good, Numbered
    <3>4. pending = {} /\ active'[f] = active[f]
      BY <2>3, <3>1, <3>3 DEF SaveProviderForm, TypeOK, Settings
    <3>5. QED
      BY <1>2, <2>1, <2>3, <3>4 DEF Answered, Shown
  <2>4. QED
    BY <2>2, <2>3 DEF Shown
<1>8. QED
  BY <1>5, <1>6, <1>7 DEF Answered

LEMMA AnsweredDecide ==
  ASSUME TypeOK, Order, Answered, NEW s, NEW o, Decides(s, o)
  PROVE  Answered'
<1> DEFINE k == Len(toUI) + 1
           x == Ack(s, o, installed')
<1>1. /\ s \in Sent /\ s = Decided + 1 /\ Sent' = Sent /\ Decided' = Decided + 1
      /\ s \in Nat /\ s >= 1 /\ Decided \in Int
      /\ \A t \in Sent : /\ t \in Nat /\ log'[t].fields = log[t].fields
                         /\ log'[t].numbered = log[t].numbered
                         /\ log'[t].outcome = IF t = s THEN o ELSE log[t].outcome
  BY DecidesFacts
<1>2. /\ x \in Message /\ toUI' = Append(toUI, x)
      /\ x.kind = "ack" /\ x.of = s /\ x.outcome = o /\ x.snapshot = installed'
      /\ UNCHANGED <<requested, active, pending, lastAck>>
  BY DEF Decides, Ack
<1>3. /\ \A i \in DOMAIN toUI : i \in DOMAIN toUI' /\ toUI'[i] = toUI[i] /\ i < k
      /\ k \in DOMAIN toUI' /\ toUI'[k] = x
      /\ \A i \in DOMAIN toUI' : i \in DOMAIN toUI \/ i = k
      /\ \A t : InFlight(t)' <=> InFlight(t) \/ t = s
  <2> HIDE DEF x
  <2>1. QED
    BY <1>2, PostFacts
<1>4. /\ \A i \in DOMAIN toUI : toUI[i].of \in Sent /\ i \in Nat
      /\ pending \subseteq Sent /\ lastAck \in Nat
      /\ \A t : t # 0 /\ t \in Nat /\ t <= Decided => t \in Sent
  BY MessageFacts
<1> HIDE DEF x, k
<1>5. k \in Int
  BY DEF TypeOK, k
<1>6. Acks'
  <2>1. lastAck' <= Decided' /\ (lastAck' # 0 => Numbered(lastAck)')
    BY <1>1, <1>2, <1>4 DEF Answered, Acks, Numbered
  <2>2. ASSUME NEW i \in DOMAIN toUI, AckAt(i)
        PROVE  /\ toUI[i].of <= Decided' /\ toUI[i].of < s
               /\ log'[toUI[i].of].numbered => lastAck < toUI[i].of
               /\ toUI[i].outcome = log'[toUI[i].of].outcome
               /\ \A j \in DOMAIN toUI : AckAt(j) /\ j < i => toUI[j].of < toUI[i].of
               /\ \A t \in Sent : log'[t].numbered /\ t <= Decided' /\ t > toUI[i].of
                                    => InFlight(t) \/ t = s
    <3>1. AckIs(i) /\ toUI[i].of \in Sent /\ toUI[i].of \in Nat
      BY <1>1, <1>4, <2>2 DEF Answered, Acks, AckIs
    <3>2. toUI[i].of < s /\ toUI[i].of <= Decided'
      BY <1>1, <3>1 DEF AckIs
    <3>3. \A t \in Sent : t <= Decided' => t <= Decided \/ t = s
      BY <1>1
    <3>4. QED
      BY <1>1, <3>1, <3>2, <3>3 DEF AckIs, Numbered
  <2>3. ASSUME NEW i \in DOMAIN toUI', AckAt(i)'
        PROVE  AckIs(i)'
    <3>1. CASE i \in DOMAIN toUI
      <4>1. AckAt(i) /\ toUI'[i] = toUI[i]
        BY <1>3, <2>3, <3>1 DEF AckAt
      <4>2. ASSUME NEW j \in DOMAIN toUI', AckAt(j)', j < i
            PROVE  toUI'[j].of < toUI'[i].of
        <5>1. j # k
          BY <1>3, <1>4, <1>5, <3>1, <4>2
        <5>2. j \in DOMAIN toUI /\ AckAt(j) /\ toUI'[j] = toUI[j]
          BY <1>3, <4>2, <5>1 DEF AckAt
        <5>3. QED
          BY <2>2, <3>1, <4>1, <4>2, <5>2
      <4>3. QED
        BY <1>1, <1>2, <1>3, <2>2, <3>1, <4>1, <4>2 DEF AckIs, Numbered
    <3>2. CASE i = k
      <4>1. ASSUME NEW j \in DOMAIN toUI', AckAt(j)', j < i
            PROVE  toUI'[j].of < s
        <5>1. j \in DOMAIN toUI /\ AckAt(j) /\ toUI'[j] = toUI[j]
          BY <1>3, <1>5, <3>2, <4>1 DEF AckAt
        <5>2. QED
          BY <2>2, <5>1
      <4>2. lastAck < s
        BY <1>1, <1>4 DEF Answered, Acks
      <4>3. \A t \in Sent : ~(t <= Decided' /\ t > s)
        BY <1>1
      <4>4. QED
        BY <1>1, <1>2, <1>3, <3>2, <4>1, <4>2, <4>3 DEF AckIs
    <3>3. QED
      BY <1>3, <3>1, <3>2
  <2>4. QED
    BY <2>1, <2>3 DEF Acks, AckIs
<1>7. Known'
  <2>1. \A t \in Sent : (t > Decided' \/ InFlight(t)') <=> (t > Decided \/ InFlight(t))
    <3>1. s > Decided /\ \A t \in Sent : t > Decided' <=> t > Decided /\ t # s
      BY <1>1
    <3>2. \A t : InFlight(t)' <=> InFlight(t) \/ t = s
      BY <1>3
    <3>3. QED
      BY <3>1, <3>2
  <2>2. QED
    BY <1>1, <1>2, <2>1 DEF Answered, Known, Numbered
<1>8. Shown'
  <2>1. \A f : Good(f)' <=> Good(f)
    BY <1>1 DEF Good, Numbered
  <2>2. ASSUME ~Numbered(s), NEW f \in Fields, Good(f)
        PROVE  installed'[f] = installed[f]
    <3>1. f # "model" /\ log[s].fields = {"model"}
      BY <1>1, <2>2 DEF Good, Order
    <3>2. CASE o = "applied"
      BY <3>1, <3>2 DEF Decides, Overlay
    <3>3. QED
      BY <3>2 DEF Decides
  <2>3. ASSUME NEW i \in DOMAIN toUI', AckAt(i)',
               \A t \in Sent' : Numbered(t)' /\ t <= Decided' => t <= toUI'[i].of,
               NEW f \in Fields, Good(f)'
        PROVE  toUI'[i].snapshot[f] = installed'[f]
    <3>1. CASE i \in DOMAIN toUI
      <4>1. toUI'[i] = toUI[i] /\ AckAt(i)
        BY <1>3, <2>3, <3>1 DEF AckAt
      <4>2. toUI[i].of < s
        <5>1. toUI[i].of <= Decided /\ toUI[i].of \in Sent
          BY <1>4, <3>1, <4>1 DEF Answered, Acks, AckIs
        <5>2. toUI[i].of \in Nat
          BY <1>1, <5>1
        <5>3. QED
          BY <1>1, <5>1, <5>2
      <4>3. ~Numbered(s)
        <5>1. Numbered(s) => s <= toUI[i].of
          BY <1>1, <2>3, <4>1 DEF Numbered
        <5>2. toUI[i].of \in Sent
          BY <1>4, <3>1
        <5>3. toUI[i].of \in Nat
          BY <1>1, <5>2
        <5>4. QED
          BY <1>1, <4>2, <5>1, <5>3
      <4>4. \A t \in Sent : Numbered(t) /\ t <= Decided => t <= toUI[i].of
        <5>1. \A t \in Sent : t <= Decided => t <= Decided'
          BY <1>1
        <5>2. QED
          BY <1>1, <2>3, <4>1, <5>1 DEF Numbered
      <4>5. toUI[i].snapshot[f] = installed[f]
        BY <2>1, <2>3, <3>1, <4>1, <4>4 DEF Answered, Shown
      <4>6. QED
        BY <2>1, <2>2, <2>3, <4>1, <4>3, <4>5
    <3>2. CASE i = k
      BY <1>2, <1>3, <3>2
    <3>3. QED
      BY <1>3, <3>1, <3>2
  <2>4. ASSUME pending' = {}, NEW f \in Fields, Good(f)' PROVE active'[f] = installed'[f]
    <3>1. pending = {} /\ active' = active
      BY <1>2, <2>4
    <3>2. s > Decided
      BY <1>1
    <3>3. ~Numbered(s)
      BY <1>1, <3>1, <3>2 DEF Answered, Known
    <3>4. QED
      BY <2>1, <2>2, <2>4, <3>1, <3>3 DEF Answered, Shown
  <2>5. QED
    BY <2>3, <2>4 DEF Shown
<1>9. QED
  BY <1>6, <1>7, <1>8 DEF Answered

LEMMA AnsweredTakeAck ==
  ASSUME TypeOK, Order, Answered, TakeAck
  PROVE  Answered'
<1> DEFINE a == toUI[1].of
           r == Rev(a)
<1>1. /\ Decided' = Decided /\ Sent' = Sent /\ log' = log /\ installed' = installed
  BY HearStep
<1>2. toUI # <<>> /\ toUI' = Tail(toUI) /\ Head(toUI).kind = "ack"
  BY DEF TakeAck
<1>3. /\ 1 \in DOMAIN toUI /\ Head(toUI) = toUI[1]
      /\ \A i \in DOMAIN toUI' : i + 1 \in DOMAIN toUI /\ toUI'[i] = toUI[i + 1] /\ i + 1 > 1
      /\ \A i \in DOMAIN toUI : i >= 1 /\ i \in Nat
      /\ \A i \in DOMAIN toUI : i = 1 \/ (i - 1 \in DOMAIN toUI' /\ toUI'[i - 1] = toUI[i])
      /\ \A i, j \in DOMAIN toUI' : i \in Int /\ j \in Int /\ (j < i => j + 1 < i + 1)
      /\ \A s : InFlight(s) => InFlight(s)' \/ a = s
      /\ \A s : InFlight(s)' => InFlight(s)
  BY <1>2, TakeFacts
<1>4. /\ \A i \in DOMAIN toUI : toUI[i].of \in Sent
      /\ lastAck \in Nat /\ pending \subseteq Sent /\ Decided \in Int
      /\ \A t \in Sent : t \in Nat /\ t >= 1
  BY MessageFacts, LogTypes
<1>5. AckAt(1) /\ AckIs(1) /\ a \in Sent /\ a \in Nat
  BY <1>2, <1>3, <1>4 DEF AckAt, Answered, Acks, AckIs
<1>6. \/ /\ UNCHANGED <<requested, active, pending, marker, lastAck>>
         /\ (r = 0 /\ AnyNumbered) \/ (r # 0 /\ r < lastAck)
      \/ /\ ~(r = 0 /\ AnyNumbered)
         /\ pending' = {s \in pending : s > r}
         /\ \/ NewerPending(r) /\ UNCHANGED <<requested, active, marker, lastAck>>
            \/ /\ ~NewerPending(r)
               /\ active' = toUI[1].snapshot
               /\ lastAck' = r
  BY <1>3 DEF TakeAck, uiVars
<1>7. /\ Numbered(a) => r = a
      /\ ~Numbered(a) => r = 0
  BY DEF Rev
<1>8. r \in Nat
  BY <1>4, <1>5, <1>7
<1> HIDE DEF r
<1>9. ~(r # 0 /\ r < lastAck)
  BY <1>4, <1>5, <1>7, <1>8 DEF AckIs
<1>10. \A i \in DOMAIN toUI' : AckAt(i)' => AckIs(i + 1) /\ AckAt(i + 1) /\ a < toUI'[i].of
                                             /\ toUI'[i].of \in Nat
  <2>1. SUFFICES ASSUME NEW i \in DOMAIN toUI', AckAt(i)'
                 PROVE  AckIs(i + 1) /\ AckAt(i + 1) /\ a < toUI'[i].of /\ toUI'[i].of \in Nat
    OBVIOUS
  <2>2. i + 1 \in DOMAIN toUI /\ toUI'[i] = toUI[i + 1] /\ 1 < i + 1
    BY <1>3
  <2>3. AckAt(i + 1)
    BY <2>1, <2>2 DEF AckAt
  <2>4. AckIs(i + 1)
    BY <2>2, <2>3 DEF Answered, Acks, AckIs
  <2>5. QED
    BY <1>3, <1>4, <1>5, <2>2, <2>3, <2>4 DEF AckIs
<1>11. \A s : InFlight(s)' => a < s
  <2>1. SUFFICES ASSUME NEW s, InFlight(s)' PROVE a < s
    OBVIOUS
  <2>2. PICK i \in DOMAIN toUI' : AckAt(i)' /\ toUI'[i].of = s
    BY <2>1 DEF InFlight
  <2>3. QED
    BY <1>10, <2>2
<1>12. Acks'
  <2>1. lastAck' <= Decided' /\ (lastAck' # 0 => Numbered(lastAck)')
    BY <1>1, <1>4, <1>5, <1>6, <1>7 DEF Answered, Acks, AckIs, Numbered
  <2>2. ASSUME NEW i \in DOMAIN toUI', AckAt(i)'
        PROVE  AckIs(i)'
    <3>1. /\ i + 1 \in DOMAIN toUI /\ toUI'[i] = toUI[i + 1] /\ AckIs(i + 1) /\ a < toUI'[i].of
          /\ toUI'[i].of \in Nat
      BY <1>3, <1>10, <2>2
    <3>2. log'[toUI'[i].of].numbered => lastAck' < toUI'[i].of
      <4>1. lastAck' = lastAck \/ lastAck' = r
        BY <1>6
      <4>2. r <= a
        BY <1>5, <1>7
      <4>3. r < toUI'[i].of
        BY <1>5, <1>8, <3>1, <4>2
      <4>4. QED
        BY <1>1, <3>1, <4>1, <4>3 DEF AckIs, Numbered
    <3>3. ASSUME NEW j \in DOMAIN toUI', AckAt(j)', j < i
          PROVE  toUI'[j].of < toUI'[i].of
      <4>1. j + 1 \in DOMAIN toUI /\ toUI'[j] = toUI[j + 1] /\ AckAt(j + 1) /\ j + 1 < i + 1
        BY <1>3, <1>10, <2>2, <3>3
      <4>2. QED
        BY <3>1, <4>1 DEF AckIs
    <3>4. ASSUME NEW t \in Sent', Numbered(t)', t <= Decided', t > toUI'[i].of
          PROVE  InFlight(t)'
      <4>1. InFlight(t)
        BY <1>1, <3>1, <3>4 DEF AckIs, Numbered
      <4>2. t # a
        BY <1>1, <1>4, <1>5, <3>1, <3>4
      <4>3. QED
        BY <1>3, <4>1, <4>2
    <3>5. /\ toUI'[i].of <= Decided'
          /\ toUI'[i].outcome = log'[toUI'[i].of].outcome
      BY <1>1, <3>1 DEF AckIs
    <3>6. QED
      BY <3>2, <3>3, <3>4, <3>5 DEF AckIs, Numbered
  <2>3. QED
    BY <2>1, <2>2 DEF Acks, AckIs
<1>13. Known'
  <2>1. SUFFICES ASSUME NEW s \in Sent
                 PROVE  s \in pending' <=> Numbered(s) /\ (s > Decided \/ InFlight(s)')
    BY <1>1 DEF Known, Numbered
  <2>2. s \in pending <=> Numbered(s) /\ (s > Decided \/ InFlight(s))
    BY DEF Answered, Known
  <2>3. CASE Numbered(a)
    <3>1. pending' = {t \in pending : t > a} /\ r = a
      BY <1>4, <1>5, <1>6, <1>7, <1>9, <2>3
    <3>2. s > Decided => s > a
      BY <1>4, <1>5 DEF AckIs
    <3>3. s \in Nat
      BY <1>4
    <3>4. InFlight(s)' <=> InFlight(s) /\ s > a
      BY <1>3, <1>5, <1>11, <3>3
    <3>5. QED
      BY <2>2, <3>1, <3>2, <3>4
  <2>4. CASE ~Numbered(a)
    <3>1. r = 0 /\ Numbered(s) => s # a
      BY <1>7, <2>4
    <3>2. Numbered(s) => (InFlight(s)' <=> InFlight(s))
      BY <1>3, <3>1, <2>4
    <3>3. s \in pending' <=> s \in pending
      BY <1>4, <1>6, <1>7, <1>9, <2>4
    <3>4. QED
      BY <2>2, <3>2, <3>3
  <2>5. QED
    BY <2>3, <2>4
<1>14. Shown'
  <2>1. \A f : Good(f)' <=> Good(f)
    BY <1>1 DEF Good, Numbered
  <2>2. ASSUME NEW i \in DOMAIN toUI', AckAt(i)',
               \A t \in Sent' : Numbered(t)' /\ t <= Decided' => t <= toUI'[i].of,
               NEW f \in Fields, Good(f)'
        PROVE  toUI'[i].snapshot[f] = installed'[f]
    <3>1. i + 1 \in DOMAIN toUI /\ toUI'[i] = toUI[i + 1] /\ AckAt(i + 1)
      BY <1>3, <1>10, <2>2
    <3>2. \A t \in Sent : Numbered(t) /\ t <= Decided => t <= toUI[i + 1].of
      BY <1>1, <2>2, <3>1 DEF Numbered
    <3>3. QED
      BY <1>1, <2>1, <2>2, <3>1, <3>2 DEF Answered, Shown
  <2>3. ASSUME pending' = {}, NEW f \in Fields, Good(f)' PROVE active'[f] = installed'[f]
    <3>1. CASE UNCHANGED <<active, pending>>
      BY <1>1, <2>1, <2>3, <3>1 DEF Answered, Shown
    <3>2. CASE pending' = {s \in pending : s > r} /\ NewerPending(r)
      BY <2>3, <3>2 DEF NewerPending
    <3>3. CASE ~(r = 0 /\ AnyNumbered) /\ ~NewerPending(r) /\ active' = toUI[1].snapshot
      <4>1. ASSUME NEW t \in Sent, Numbered(t), t <= Decided, ~(t <= a)
            PROVE  FALSE
        <5>1. t > a /\ t \in Nat
          BY <1>4, <1>5, <4>1
        <5>2. t \in pending
          BY <1>5, <4>1, <5>1 DEF AckIs, Answered, Known
        <5>3. t > r
          BY <1>5, <1>7, <5>1
        <5>4. QED
          BY <3>3, <5>2, <5>3 DEF NewerPending
      <4>2. toUI[1].snapshot[f] = installed[f]
        BY <1>3, <1>5, <2>1, <2>3, <4>1 DEF Answered, Shown
      <4>3. QED
        BY <1>1, <3>3, <4>2
    <3>4. QED
      BY <1>6, <3>1, <3>2, <3>3
  <2>4. QED
    BY <2>2, <2>3 DEF Shown
<1>15. QED
  BY <1>12, <1>13, <1>14 DEF Answered

LEMMA AnsweredOther ==
  ASSUME TypeOK, Order, Answered, TakeWriteResult \/ WriterStep \/ (Quiet /\ Sent' = Sent)
  PROVE  Answered'
<1>1. /\ Decided' = Decided /\ Sent' = Sent
      /\ UNCHANGED <<log, installed, requested, active, pending, lastAck>>
  BY HearStep DEF Quiet, TakeWriteResult, WriterStep, uiVars
<1>2. /\ \A i \in DOMAIN toUI' : AckAt(i)' =>
           /\ AckIs(i)'
           /\ \E k \in DOMAIN toUI : AckAt(k) /\ toUI'[i] = toUI[k]
      /\ \A s : InFlight(s)' <=> InFlight(s)
  <2>1. CASE TakeWriteResult
    <3>1. toUI # <<>> /\ toUI' = Tail(toUI) /\ Head(toUI).kind = "written"
      BY <2>1 DEF TakeWriteResult
    <3>2. /\ 1 \in DOMAIN toUI /\ Head(toUI) = toUI[1]
          /\ \A i \in DOMAIN toUI' : i + 1 \in DOMAIN toUI /\ toUI'[i] = toUI[i + 1]
          /\ \A i, j \in DOMAIN toUI' : j < i => j + 1 < i + 1
          /\ \A s : InFlight(s) => InFlight(s)' \/ (AckAt(1) /\ toUI[1].of = s)
          /\ \A s : InFlight(s)' => InFlight(s)
      BY <3>1, TakeFacts
    <3>3. \A s : InFlight(s)' <=> InFlight(s)
      BY <3>1, <3>2 DEF AckAt
    <3>4. ASSUME NEW i \in DOMAIN toUI', AckAt(i)'
          PROVE  AckIs(i)' /\ AckAt(i + 1)
      <4>1. AckAt(i + 1) /\ i + 1 \in DOMAIN toUI /\ toUI'[i] = toUI[i + 1]
        BY <3>2, <3>4 DEF AckAt
      <4>2. AckIs(i + 1)
        BY <4>1 DEF Answered, Acks, AckIs
      <4>3. \A j \in DOMAIN toUI' : AckAt(j)' /\ j < i => toUI'[j].of < toUI'[i].of
        BY <3>2, <4>1, <4>2 DEF AckIs, AckAt
      <4>4. \A t \in Sent' : Numbered(t)' /\ t <= Decided' /\ t > toUI'[i].of => InFlight(t)'
        BY <1>1, <3>3, <4>1, <4>2 DEF AckIs, Numbered
      <4>5. QED
        BY <1>1, <4>1, <4>2, <4>3, <4>4 DEF AckIs, Numbered
    <3>5. QED
      BY <3>2, <3>3, <3>4
  <2>2. CASE toUI' = toUI
    BY <1>1, <2>2 DEF Answered, Acks, AckIs, AckAt, InFlight, Numbered
  <2>3. CASE \E w \in writers, ok \in BOOLEAN :
               WriteResult(w.of, ok) \in Message /\ toUI' = Append(toUI, WriteResult(w.of, ok))
    <3> DEFINE k == Len(toUI) + 1
    <3>1. PICK x \in Message : x.kind = "written" /\ toUI' = Append(toUI, x)
      BY <2>3 DEF WriteResult
    <3>2. /\ \A i \in DOMAIN toUI : i \in DOMAIN toUI' /\ toUI'[i] = toUI[i]
          /\ toUI'[k] = x
          /\ \A i \in DOMAIN toUI' : i \in DOMAIN toUI \/ i = k
          /\ \A s : InFlight(s)' <=> InFlight(s)
      BY <3>1, PostFacts
    <3>3. ASSUME NEW i \in DOMAIN toUI', AckAt(i)'
          PROVE  AckIs(i)' /\ i \in DOMAIN toUI /\ AckAt(i) /\ toUI'[i] = toUI[i]
      <4>1. \A j \in DOMAIN toUI' : AckAt(j)' => j \in DOMAIN toUI /\ AckAt(j) /\ toUI'[j] = toUI[j]
        BY <3>1, <3>2 DEF AckAt
      <4>2. i \in DOMAIN toUI /\ AckAt(i) /\ toUI'[i] = toUI[i]
        BY <3>3, <4>1
      <4>3. AckIs(i)
        BY <4>2 DEF Answered, Acks, AckIs
      <4>4. \A j \in DOMAIN toUI' : AckAt(j)' /\ j < i => toUI'[j].of < toUI'[i].of
        BY <4>1, <4>2, <4>3 DEF AckIs
      <4>5. \A t \in Sent' : Numbered(t)' /\ t <= Decided' /\ t > toUI'[i].of => InFlight(t)'
        BY <1>1, <3>2, <4>2, <4>3 DEF AckIs, Numbered
      <4>6. QED
        BY <1>1, <4>2, <4>3, <4>4, <4>5 DEF AckIs, Numbered
    <3>4. QED
      BY <3>2, <3>3
  <2>4. QED
    BY <2>1, <2>2, <2>3, WriterPosts DEF Quiet
<1>3. Acks'
  BY <1>1, <1>2 DEF Answered, Acks, AckIs, Numbered
<1>4. Known'
  BY <1>1, <1>2 DEF Answered, Known, Numbered
<1>5. Shown'
  <2>1. \A f : Good(f)' <=> Good(f)
    BY <1>1 DEF Good, Numbered
  <2>2. ASSUME NEW i \in DOMAIN toUI', AckAt(i)',
               \A t \in Sent' : Numbered(t)' /\ t <= Decided' => t <= toUI'[i].of,
               NEW f \in Fields, Good(f)'
        PROVE  toUI'[i].snapshot[f] = installed'[f]
    <3>1. PICK k \in DOMAIN toUI : AckAt(k) /\ toUI'[i] = toUI[k]
      BY <1>2, <2>2
    <3>2. \A t \in Sent : Numbered(t) /\ t <= Decided => t <= toUI[k].of
      BY <1>1, <2>2, <3>1 DEF Numbered
    <3>3. QED
      BY <1>1, <2>1, <2>2, <3>1, <3>2 DEF Answered, Shown
  <2>3. QED
    BY <1>1, <2>1, <2>2 DEF Answered, Shown
<1>6. QED
  BY <1>3, <1>4, <1>5 DEF Answered

LEMMA AnsweredInit == Init => Answered
<1>1. SUFFICES ASSUME Init PROVE Answered
  OBVIOUS
<1>2. log = <<>> /\ Len(log) = 0 /\ Sent = {} /\ DOMAIN toUI = {} /\ Decided = 0
  <2>1. Len(log) = 0 /\ Len(deferred) = 0 /\ Len(toWorker) = 0 /\ log = <<>> /\ toUI = <<>>
    BY <1>1 DEF Init
  <2>2. QED
    BY <2>1 DEF Sent, Decided
<1>3. QED
  BY <1>1, <1>2 DEF Init, Answered, Acks, Known, Shown

LEMMA AnsweredStep ==
  ASSUME TypeOK, Order, Answered, [Next]_vars
  PROVE  Answered'
BY Steps, AnsweredAsk, AnsweredDecide, AnsweredTakeAck, AnsweredOther

LEMMA AtRestFacts ==
  ASSUME TypeOK, Order, Answered, AtRest
  PROVE  pending = {} /\ Decided = Len(log) /\ \A s : ~InFlight(s) /\ ~Result(s)
<1>1. DOMAIN toUI = {} /\ Len(toWorker) = 0 /\ Len(deferred) = 0 /\ Len(log) \in Nat
  BY DEF AtRest, Order, TypeOK
<1>2. Decided = Len(log) /\ \A s : ~InFlight(s) /\ ~Result(s)
  BY <1>1 DEF Decided, InFlight, Result
<1>3. \A s \in Sent : ~(s > Decided)
  BY <1>1, <1>2 DEF Sent
<1>4. pending = {}
  BY <1>2, <1>3, MessageFacts DEF Answered, Known
<1>5. QED
  BY <1>2, <1>4

LEMMA ShownAtRest == TypeOK /\ Order /\ Answered => UIShowsTheWorker
BY AtRestFacts DEF Answered, Shown, Good, UIShowsTheWorker

------------------------------------------------------------------------------
(* The writers and what the UI shows of the file.                           *)

LEMMA WriterShape ==
  ASSUME TypeOK, WriterStep
  PROVE  \E w \in writers :
           \/ /\ toUI' = toUI
              /\ \E v : v.of = w.of /\ writers' = (writers \ {w}) \cup {v}
           \/ \E ok \in BOOLEAN :
                /\ WriteResult(w.of, ok) \in Message /\ toUI' = Append(toUI, WriteResult(w.of, ok))
                /\ writers' = writers \ {w}
<1>1. PICK w \in writers : WriterLoads(w) \/ WriterSaves(w) \/ WriterStores(w) \/ WriterFails(w)
  BY DEF WriterStep
<1>2. \A ok \in BOOLEAN : WriteResult(w.of, ok) \in Message
  BY DEF TypeOK, Writer, WriteResult, Message
<1>3. /\ [w EXCEPT !.step = "save", !.read = disk].of = w.of
      /\ [w EXCEPT !.step = "store", !.read = Unread].of = w.of
  BY DEF TypeOK, Writer
<1>4. CASE WriterLoads(w)
  <2>1. toUI' = toUI /\ writers' = (writers \ {w}) \cup {[w EXCEPT !.step = "save", !.read = disk]}
    BY <1>4 DEF WriterLoads
  <2>2. QED
    BY <1>3, <2>1
<1>5. CASE WriterSaves(w) /\ "model" \in log[w.of].fields
  <2>1. toUI' = toUI
        /\ writers' = (writers \ {w}) \cup {[w EXCEPT !.step = "store", !.read = Unread]}
    BY <1>5 DEF WriterSaves
  <2>2. QED
    BY <1>3, <2>1
<1>6. CASE \E ok \in BOOLEAN : Finish(w, ok)
  BY <1>2, <1>6 DEF Finish
<1>7. QED
  BY <1>1, <1>4, <1>5, <1>6 DEF WriterSaves, WriterStores, WriterFails

(* A write that was under way is still, or its result is on the way.        *)
LEMMA WrittenStays ==
  ASSUME TypeOK, WriterStep, NEW s, Written(s)
  PROVE  Written(s)'
<1>1. PICK w \in writers :
           \/ /\ toUI' = toUI
              /\ \E v : v.of = w.of /\ writers' = (writers \ {w}) \cup {v}
           \/ \E ok \in BOOLEAN :
                /\ WriteResult(w.of, ok) \in Message /\ toUI' = Append(toUI, WriteResult(w.of, ok))
                /\ writers' = writers \ {w}
  BY WriterShape
<1>2. CASE toUI' = toUI /\ \E v : v.of = w.of /\ writers' = (writers \ {w}) \cup {v}
  <2>1. Result(s)' <=> Result(s)
    BY <1>2 DEF Result, WrittenAt
  <2>2. QED
    BY <1>2, <2>1 DEF Written
<1>3. CASE \E ok \in BOOLEAN :
             /\ WriteResult(w.of, ok) \in Message /\ toUI' = Append(toUI, WriteResult(w.of, ok))
             /\ writers' = writers \ {w}
  <2>1. PICK ok \in BOOLEAN :
          WriteResult(w.of, ok) \in Message /\ toUI' = Append(toUI, WriteResult(w.of, ok))
    BY <1>3
  <2>2. WriteResult(w.of, ok).kind = "written" /\ WriteResult(w.of, ok).of = w.of
    BY DEF WriteResult
  <2>3. \A t : Result(t)' <=> Result(t) \/ w.of = t
    BY <2>1, <2>2, PostFacts
  <2>4. QED
    BY <1>3, <2>3 DEF Written
<1>4. QED
  BY <1>1, <1>2, <1>3

LEMMA ResultsAsk ==
  ASSUME TypeOK, Order, Results, Asks(Len(log) + 1), Ask \/ SaveProviderForm
  PROVE  Results' /\ \A t : Written(t)' <=> Written(t)
<1>1. /\ \A t \in Sent : log'[t] = log[t]
      /\ Decided' = Decided
  BY DEF Asks
<1>2. UNCHANGED <<toUI, writers>>
  BY DEF Ask, SaveProviderForm, diskVars
<1>3. (\A i \in DOMAIN toUI : toUI[i].of \in Sent) /\ \A w \in writers : w.of \in Sent
  BY MessageFacts DEF TypeOK, Writer
<1>4. \A w \in writers : WriterIs(w)'
  BY <1>1, <1>3 DEF Results, WriterIs, Numbered
<1>5. \A i \in DOMAIN toUI : WrittenAt(i) => ResultIs(i)'
  BY <1>1, <1>2, <1>3 DEF Results, ResultIs, Numbered, AckAt
<1>6. \A i \in DOMAIN toUI : ToBeWritten(i)' => ToBeWritten(i)
  BY <1>1, <1>2, <1>3 DEF ToBeWritten, Numbered, AckAt
<1>7. \A t : Written(t)' <=> Written(t)
  BY <1>2 DEF Written, Result, WrittenAt
<1>8. \A i \in DOMAIN toUI', t \in Sent' : ToBeWritten(i)' /\ toUI'[i].of = t => Written(t)'
  BY <1>2, <1>3, <1>6, <1>7 DEF Results
<1>9. QED
  BY <1>2, <1>4, <1>5, <1>7, <1>8 DEF Results, WrittenAt

LEMMA ResultsDecide ==
  ASSUME TypeOK, Order, Results, NEW s, NEW o, Decides(s, o)
  PROVE  Results' /\ \A t : Written(t) => Written(t)'
<1> DEFINE k == Len(toUI) + 1
           x == Ack(s, o, installed')
<1>1. /\ s \in Sent /\ s = Decided + 1 /\ Sent' = Sent /\ Decided' = Decided + 1
      /\ s \in Nat /\ Decided \in Int
      /\ \A t \in Sent : /\ t \in Nat /\ log'[t].keep = log[t].keep
                         /\ log'[t].numbered = log[t].numbered
  BY DecidesFacts
<1>2. x \in Message /\ toUI' = Append(toUI, x) /\ x.kind = "ack" /\ x.of = s /\ x.outcome = o
  BY DEF Decides, Ack
<1>3. /\ \A i \in DOMAIN toUI : i \in DOMAIN toUI' /\ toUI'[i] = toUI[i] /\ i < k
      /\ k \in DOMAIN toUI' /\ toUI'[k] = x
      /\ \A i \in DOMAIN toUI' : i \in DOMAIN toUI \/ i = k
      /\ \A t : Result(t)' <=> Result(t)
  <2> HIDE DEF x
  <2>1. QED
    BY <1>2, PostFacts
<1>4. (\A i \in DOMAIN toUI : toUI[i].of \in Sent) /\ \A w \in writers : w.of \in Sent
  BY MessageFacts DEF TypeOK, Writer
<1> HIDE DEF x, k
<1>5. /\ \A w \in writers : w \in writers'
      /\ \A w \in writers' : w \in writers \/ (w.of = s /\ log[s].keep /\ Numbered(s))
      /\ o = "applied" /\ log[s].keep /\ Numbered(s) => \E w \in writers' : w.of = s
  <2>1. \/ writers' = writers /\ ~(o = "applied" /\ log[s].keep /\ Numbered(s))
        \/ /\ writers' = writers \cup {[of |-> s, step |-> "load", read |-> Unread]}
           /\ log[s].keep /\ Numbered(s)
    BY DEF Decides, Spawn, diskVars
  <2>2. [of |-> s, step |-> "load", read |-> Unread].of = s
    OBVIOUS
  <2>3. QED
    BY <2>1, <2>2
<1>6. \A w \in writers' : WriterIs(w)'
  <2>1. SUFFICES ASSUME NEW w \in writers' PROVE WriterIs(w)'
    OBVIOUS
  <2>2. CASE w \in writers
    <3>1. WriterIs(w) /\ w.of \in Sent /\ w.of \in Nat
      BY <1>1, <1>4, <2>2 DEF Results
    <3>2. QED
      BY <1>1, <3>1 DEF WriterIs, Numbered
  <2>3. CASE w.of = s /\ log[s].keep /\ Numbered(s)
    BY <1>1, <2>3 DEF WriterIs, Numbered
  <2>4. QED
    BY <1>5, <2>2, <2>3
<1>7. \A t : Written(t) => Written(t)'
  BY <1>3, <1>5 DEF Written
<1>8. \A i \in DOMAIN toUI' : WrittenAt(i)' => ResultIs(i)'
  <2>1. SUFFICES ASSUME NEW i \in DOMAIN toUI', WrittenAt(i)' PROVE ResultIs(i)'
    OBVIOUS
  <2>2. i \in DOMAIN toUI /\ WrittenAt(i) /\ toUI'[i] = toUI[i]
    BY <1>2, <1>3, <2>1 DEF WrittenAt
  <2>3. ResultIs(i) /\ toUI[i].of \in Sent /\ toUI[i].of \in Nat
    BY <1>1, <1>4, <2>2 DEF Results
  <2>4. toUI[i].of # s
    BY <1>1, <2>3 DEF ResultIs
  <2>5. \A j \in DOMAIN toUI' : AckAt(j)' /\ toUI'[j].of = toUI'[i].of => j < i
    BY <1>2, <1>3, <2>2, <2>3, <2>4 DEF ResultIs, AckAt
  <2>6. QED
    BY <1>1, <2>2, <2>3, <2>5 DEF ResultIs, Numbered
<1>9. \A i \in DOMAIN toUI', t \in Sent' : ToBeWritten(i)' /\ toUI'[i].of = t => Written(t)'
  <2>1. SUFFICES ASSUME NEW i \in DOMAIN toUI', NEW t \in Sent, ToBeWritten(i)', toUI'[i].of = t
                 PROVE  Written(t)'
    BY <1>1
  <2>2. CASE i \in DOMAIN toUI
    <3>1. ToBeWritten(i) /\ toUI[i].of = t
      BY <1>1, <1>3, <2>1, <2>2 DEF ToBeWritten, Numbered, AckAt
    <3>2. QED
      BY <1>7, <2>2, <3>1 DEF Results
  <2>3. CASE i = k
    <3>1. t = s /\ o = "applied" /\ log[s].keep /\ Numbered(s)
      BY <1>1, <1>2, <1>3, <2>1, <2>3 DEF ToBeWritten, Numbered
    <3>2. QED
      BY <1>5, <3>1 DEF Written
  <2>4. QED
    BY <1>3, <2>2, <2>3
<1>10. QED
  BY <1>6, <1>7, <1>8, <1>9 DEF Results

(* Taking a message loses no write result but the one taken.                *)
LEMMA ResultsTake ==
  ASSUME TypeOK, Order, Results, TakeAck \/ TakeWriteResult
  PROVE  /\ Results' /\ toUI # <<>> /\ toUI' = Tail(toUI) /\ writers' = writers
         /\ \A t : Written(t) => Written(t)' \/ (WrittenAt(1) /\ toUI[1].of = t)
<1>1. toUI # <<>> /\ toUI' = Tail(toUI) /\ writers' = writers
  BY DEF TakeAck, TakeWriteResult, diskVars
<1>2. Decided' = Decided /\ Sent' = Sent /\ log' = log
  BY HearStep
<1>3. /\ 1 \in DOMAIN toUI
      /\ \A i \in DOMAIN toUI' : i + 1 \in DOMAIN toUI /\ toUI'[i] = toUI[i + 1] /\ i + 1 > 1
      /\ \A i \in DOMAIN toUI : i >= 1 /\ i \in Nat
      /\ \A s : Result(s) => Result(s)' \/ (WrittenAt(1) /\ toUI[1].of = s)
  BY <1>1, TakeFacts
<1>4. \A t : Written(t) => Written(t)' \/ (WrittenAt(1) /\ toUI[1].of = t)
  BY <1>1, <1>3 DEF Written
<1>5. \A w \in writers' : WriterIs(w)'
  BY <1>1, <1>2 DEF Results, WriterIs, Numbered
<1>6. \A i \in DOMAIN toUI' : i \in Nat
  BY <1>1, TailFacts DEF TypeOK
<1>7. \A i \in DOMAIN toUI' : WrittenAt(i)' => ResultIs(i)'
  <2>1. SUFFICES ASSUME NEW i \in DOMAIN toUI', WrittenAt(i)' PROVE ResultIs(i)'
    OBVIOUS
  <2>2. i + 1 \in DOMAIN toUI /\ WrittenAt(i + 1) /\ toUI'[i] = toUI[i + 1]
    BY <1>3, <2>1 DEF WrittenAt
  <2>3. ResultIs(i + 1)
    BY <2>2 DEF Results
  <2>4. ASSUME NEW j \in DOMAIN toUI', AckAt(j)', toUI'[j].of = toUI'[i].of PROVE j < i
    <3>1. j + 1 \in DOMAIN toUI /\ AckAt(j + 1) /\ toUI[j + 1].of = toUI[i + 1].of
      BY <1>3, <2>2, <2>4 DEF AckAt
    <3>2. j + 1 < i + 1
      BY <2>3, <3>1 DEF ResultIs
    <3>3. QED
      BY <1>6, <3>2
  <2>5. QED
    BY <1>2, <2>2, <2>3, <2>4 DEF ResultIs, Numbered
<1>8. \A i \in DOMAIN toUI', t \in Sent' : ToBeWritten(i)' /\ toUI'[i].of = t => Written(t)'
  <2>1. SUFFICES ASSUME NEW i \in DOMAIN toUI', NEW t \in Sent, ToBeWritten(i)', toUI'[i].of = t
                 PROVE  Written(t)'
    BY <1>2
  <2>2. i + 1 \in DOMAIN toUI /\ ToBeWritten(i + 1) /\ toUI[i + 1].of = t /\ i + 1 > 1
    BY <1>2, <1>3, <2>1 DEF ToBeWritten, Numbered, AckAt
  <2>3. Written(t)
    BY <2>2 DEF Results
  <2>4. ~(WrittenAt(1) /\ toUI[1].of = t)
    <3>1. SUFFICES ASSUME WrittenAt(1), toUI[1].of = t PROVE FALSE
      OBVIOUS
    <3>2. i + 1 < 1
      BY <1>3, <2>2, <3>1 DEF Results, ResultIs, ToBeWritten
    <3>3. QED
      BY <1>6, <2>2, <3>2
  <2>5. QED
    BY <1>4, <2>3, <2>4
<1>9. QED
  BY <1>1, <1>4, <1>5, <1>7, <1>8 DEF Results

LEMMA ResultsWrite ==
  ASSUME TypeOK, Order, Results, WriterStep
  PROVE  Results'
<1>1. Decided' = Decided /\ Sent' = Sent /\ log' = log
  BY HearStep
<1>2. PICK w \in writers :
           \/ /\ toUI' = toUI
              /\ \E v : v.of = w.of /\ writers' = (writers \ {w}) \cup {v}
           \/ \E ok \in BOOLEAN :
                /\ WriteResult(w.of, ok) \in Message /\ toUI' = Append(toUI, WriteResult(w.of, ok))
                /\ writers' = writers \ {w}
  BY WriterShape
<1>3. \A v \in writers' : WriterIs(v)'
  BY <1>1, <1>2 DEF Results, WriterIs, Numbered
<1>4. \/ toUI' = toUI
      \/ \E x \in Message : x.kind = "written" /\ x.of = w.of /\ toUI' = Append(toUI, x)
  BY <1>2 DEF WriteResult
<1>5. \A i \in DOMAIN toUI' :
        /\ WrittenAt(i)' => ResultIs(i)'
        /\ ToBeWritten(i)' => i \in DOMAIN toUI /\ ToBeWritten(i) /\ toUI'[i] = toUI[i]
  <2>1. CASE toUI' = toUI
    BY <1>1, <2>1 DEF Results, ResultIs, ToBeWritten, Numbered, AckAt, WrittenAt
  <2>2. CASE \E x \in Message : x.kind = "written" /\ x.of = w.of /\ toUI' = Append(toUI, x)
    <3> DEFINE k == Len(toUI) + 1
    <3>1. PICK x \in Message : x.kind = "written" /\ x.of = w.of /\ toUI' = Append(toUI, x)
      BY <2>2
    <3>2. /\ \A i \in DOMAIN toUI : i \in DOMAIN toUI' /\ toUI'[i] = toUI[i] /\ i < k
          /\ toUI'[k] = x
          /\ \A i \in DOMAIN toUI' : i \in DOMAIN toUI \/ i = k
      BY <3>1, PostFacts
    <3> HIDE DEF k
    <3>3. \A j \in DOMAIN toUI' : AckAt(j)' => j \in DOMAIN toUI /\ AckAt(j) /\ toUI'[j] = toUI[j]
      BY <3>1, <3>2 DEF AckAt
    <3>4. ASSUME NEW i \in DOMAIN toUI', WrittenAt(i)'
          PROVE  ResultIs(i)'
      <4>1. CASE i \in DOMAIN toUI
        <5>1. ResultIs(i) /\ toUI'[i] = toUI[i]
          BY <3>2, <3>4, <4>1 DEF Results, WrittenAt
        <5>2. QED
          BY <1>1, <3>3, <5>1 DEF ResultIs, Numbered
      <4>2. CASE i = k
        <5>1. WriterIs(w)
          BY DEF Results
        <5>2. QED
          BY <1>1, <3>1, <3>2, <3>3, <4>2, <5>1 DEF ResultIs, WriterIs, Numbered
      <4>3. QED
        BY <3>2, <4>1, <4>2
    <3>5. QED
      BY <1>1, <3>3, <3>4 DEF ToBeWritten, Numbered
  <2>3. QED
    BY <1>4, <2>1, <2>2
<1>6. \A i \in DOMAIN toUI', t \in Sent' : ToBeWritten(i)' /\ toUI'[i].of = t => Written(t)'
  BY <1>1, <1>5, WrittenStays DEF Results
<1>7. QED
  BY <1>3, <1>5, <1>6 DEF Results

LEMMA MarkerStep ==
  ASSUME TypeOK, Order, Answered, Results, MarkerIsLast, [Next]_vars
  PROVE  MarkerIsLast'
<1> DEFINE OnlyKept == \A s \in Sent : s > marker.rev /\ Numbered(s) => log[s].keep
           IsLast(m) == m \in Sent /\ Numbered(m) /\ log[m].keep
                          /\ \A s \in Sent : Numbered(s) => s <= m
           Heard(m) == m > Decided \/ InFlight(m) \/ Written(m)
<1>0. /\ \A s \in Sent : s \in Nat /\ log[s].keep \in BOOLEAN
      /\ Decided \in Int /\ pending \subseteq Sent /\ lastAck \in Nat
      /\ \A s : s # 0 /\ s \in Nat /\ s <= Decided => s \in Sent
  BY LogTypes, MessageFacts
<1>1. CASE Asks(Len(log) + 1) /\ (Ask \/ SaveProviderForm)
  <2>0. PICK n : n = Len(log) + 1
    OBVIOUS
  <2>1. /\ \A t \in Sent : t < n /\ log'[t] = log[t]
        /\ Decided' = Decided /\ Decided < n /\ Sent' = Sent \cup {n} /\ n \in Nat
    BY <1>1, <2>0 DEF Asks
  <2>2. /\ toUI' = toUI /\ \A t : InFlight(t)' <=> InFlight(t)
        /\ \A t : Written(t)' <=> Written(t)
    <3>1. toUI' = toUI
      BY <1>1 DEF Ask, SaveProviderForm
    <3>2. \A t : Written(t)' <=> Written(t)
      BY <1>1, ResultsAsk
    <3>3. QED
      BY <3>1, <3>2 DEF InFlight, AckAt
  <2>3. CASE Ask
    <3>1. PICK c \in Changes :
            /\ log' = Append(log, [numbered |-> TRUE, fields |-> c.fields, keep |-> c.keep,
                                   outcome |-> "waiting"])
            /\ marker' = IF c.keep THEN Mark("pending", n) ELSE marker
      BY <2>0, <2>3 DEF Ask
    <3>2. log'[n].numbered /\ log'[n].keep = c.keep
      BY <2>0, <3>1 DEF TypeOK
    <3>3. CASE c.keep
      <4>1. marker'.rev = n
        BY <3>1, <3>3 DEF Mark
      <4>2. \A s \in Sent' : s <= n
        BY <1>0, <2>1
      <4>3. QED
        BY <2>1, <3>2, <3>3, <4>1, <4>2 DEF MarkerIsLast, Numbered
    <3>4. CASE ~c.keep
      <4>1. SUFFICES ASSUME marker.state = "pending",
                            \A s \in Sent' : s > marker.rev /\ Numbered(s)' => log'[s].keep
                     PROVE  FALSE
        BY <3>1, <3>4 DEF MarkerIsLast
      <4>2. OnlyKept
        BY <2>1, <4>1 DEF Numbered
      <4>3. marker.rev \in Sent
        BY <4>1, <4>2 DEF MarkerIsLast
      <4>4. n > marker.rev
        BY <1>0, <2>1, <4>3
      <4>5. QED
        BY <2>1, <3>2, <3>4, <4>1, <4>4 DEF Numbered
    <3>5. QED
      BY <3>3, <3>4
  <2>4. CASE SaveProviderForm
    <3>1. marker' = marker /\ ~log'[n].numbered
      BY <2>0, <2>4 DEF SaveProviderForm, TypeOK
    <3>2. SUFFICES ASSUME marker.state = "pending", OnlyKept
                   PROVE  /\ IsLast(marker.rev) /\ Heard(marker.rev)
      BY <2>1, <2>2, <3>1 DEF MarkerIsLast, Numbered
    <3>3. QED
      BY <3>2 DEF MarkerIsLast
  <2>5. QED
    BY <1>1, <2>3, <2>4
<1>2. CASE \E s, o : Decides(s, o)
  <2>1. PICK s, o : Decides(s, o)
    BY <1>2
  <2>2. /\ s \in Sent /\ s = Decided + 1 /\ Sent' = Sent /\ Decided' = Decided + 1
        /\ \A t \in Sent : log'[t].keep = log[t].keep /\ log'[t].numbered = log[t].numbered
    BY <2>1, DecidesFacts
  <2>3. Ack(s, o, installed') \in Message /\ toUI' = Append(toUI, Ack(s, o, installed'))
        /\ marker' = marker
    BY <2>1 DEF Decides
  <2>4. \A t : InFlight(t)' <=> InFlight(t) \/ t = s
    <3>1. PICK x \in Message : x.kind = "ack" /\ x.of = s /\ toUI' = Append(toUI, x)
      BY <2>3 DEF Ack
    <3>2. QED
      BY <3>1, PostFacts
  <2>5. \A t : Written(t) => Written(t)'
    BY <2>1, ResultsDecide
  <2>6. \A t \in Sent : Heard(t) => t > Decided' \/ InFlight(t)' \/ Written(t)'
    <3>1. \A t \in Sent : t > Decided => t > Decided' \/ t = s
      BY <1>0, <2>2
    <3>2. QED
      BY <2>4, <2>5, <3>1
  <2>7. SUFFICES ASSUME marker.state = "pending", OnlyKept
                 PROVE  IsLast(marker.rev) /\ Heard(marker.rev)
    BY <2>2, <2>3, <2>6 DEF MarkerIsLast, Numbered
  <2>8. QED
    BY <2>7 DEF MarkerIsLast
<1>3. CASE Quiet /\ Sent' = Sent
  BY <1>3 DEF Quiet, MarkerIsLast, Numbered, InFlight, AckAt, Written, Result, WrittenAt
<1>4. CASE (TakeAck \/ TakeWriteResult \/ WriterStep) /\ Decided' = Decided /\ Sent' = Sent
             /\ UNCHANGED log
  <2>1. SUFFICES ASSUME marker'.state = "pending",
                        \A s \in Sent : s > marker'.rev /\ Numbered(s) => log[s].keep
                 PROVE  /\ marker' = marker
                        /\ OnlyKept /\ IsLast(marker.rev) /\ Heard(marker.rev) =>
                             InFlight(marker.rev)' \/ Written(marker.rev)' \/ marker.rev > Decided
    BY <1>4, <2>1 DEF MarkerIsLast, Numbered, InFlight, AckAt, Written, Result, WrittenAt
  <2>2. PICK m : m = marker.rev
    OBVIOUS
  <2>3. SUFFICES /\ marker' = marker
                 /\ IsLast(m) /\ (InFlight(m) \/ Written(m)) => InFlight(m)' \/ Written(m)'
    <3>1. marker' = marker => (marker'.rev = m)
      BY <2>2
    <3>2. QED
      BY <2>1, <2>2, <3>1 DEF InFlight, AckAt, Written, Result, WrittenAt
  <2>4. ASSUME IsLast(m) PROVE \A s \in pending : ~(s > m)
    BY <1>0, <2>4 DEF Answered, Known
  <2>5. CASE TakeAck
    <3> DEFINE r == Rev(toUI[1].of)
    <3>1. /\ toUI # <<>> /\ toUI' = Tail(toUI) /\ Head(toUI).kind = "ack"
          /\ \/ UNCHANGED marker /\ ((r = 0 /\ AnyNumbered) \/ (r # 0 /\ r < lastAck))
             \/ UNCHANGED marker /\ NewerPending(r)
             \/ marker' = MarkerAfter(toUI[1].outcome, r)
      BY <2>5, TakeFacts DEF TakeAck, uiVars
    <3>2. /\ 1 \in DOMAIN toUI /\ Head(toUI) = toUI[1]
          /\ \A s : InFlight(s) => InFlight(s)' \/ toUI[1].of = s
      BY <3>1, TakeFacts
    <3>3. marker' = marker
      BY <2>1, <3>1 DEF MarkerAfter, NoMark
    <3>4. AckAt(1) /\ ~WrittenAt(1) /\ AckIs(1)
      BY <3>1, <3>2 DEF Answered, Acks, AckAt, WrittenAt
    <3>5. \A t : Written(t) => Written(t)'
      BY <2>5, <3>4, ResultsTake
    <3>6. ASSUME IsLast(m), toUI[1].of = m PROVE Written(m)
      <4>1. r = m /\ m \in Nat /\ m # 0 /\ lastAck < m
        BY <1>0, <3>4, <3>6, LogTypes DEF Rev, AckIs
      <4>2. ~NewerPending(r) /\ ~(r < lastAck)
        BY <1>0, <2>4, <3>6, <4>1 DEF NewerPending
      <4>3. marker' = MarkerAfter(toUI[1].outcome, r)
        BY <3>1, <4>1, <4>2
      <4>4. marker = Mark("pending", r)
        BY <2>1, <2>2, <3>3, <4>1 DEF TypeOK, Mark
      <4>5. toUI[1].outcome = "applied"
        BY <2>1, <4>3, <4>4 DEF MarkerAfter, NoMark
      <4>6. ToBeWritten(1)
        BY <3>4, <3>6, <4>5 DEF ToBeWritten
      <4>7. QED
        BY <3>2, <3>6, <4>6 DEF Results
    <3>7. QED
      BY <3>2, <3>3, <3>5, <3>6
  <2>6. CASE TakeWriteResult
    <3> DEFINE r == Rev(toUI[1].of)
    <3>1. /\ toUI # <<>> /\ toUI' = Tail(toUI) /\ Head(toUI).kind = "written"
          /\ \/ UNCHANGED marker /\ (r < lastAck \/ NewerPending(r))
             \/ marker'.state \in {"saved", "failed"}
      BY <2>6, TakeFacts DEF TakeWriteResult, Mark
    <3>2. /\ 1 \in DOMAIN toUI /\ Head(toUI) = toUI[1]
          /\ \A s : InFlight(s) => InFlight(s)' \/ (AckAt(1) /\ toUI[1].of = s)
      BY <3>1, TakeFacts
    <3>3. marker' = marker /\ (r < lastAck \/ NewerPending(r))
      BY <2>1, <3>1
    <3>4. \A s : InFlight(s) => InFlight(s)'
      BY <3>1, <3>2 DEF AckAt
    <3>5. ASSUME IsLast(m) PROVE toUI[1].of # m
      <4>1. SUFFICES ASSUME toUI[1].of = m PROVE FALSE
        OBVIOUS
      <4>2. r = m /\ m \in Nat /\ m # 0
        BY <1>0, <3>5, <4>1, LogTypes DEF Rev
      <4>3. ~NewerPending(r)
        BY <2>4, <3>5, <4>2 DEF NewerPending
      <4>4. lastAck # 0 => lastAck \in Sent /\ Numbered(lastAck)
        BY <1>0 DEF Answered, Acks
      <4>5. lastAck <= m
        BY <1>0, <3>5, <4>2, <4>4
      <4>6. QED
        BY <1>0, <3>3, <4>2, <4>3, <4>5
    <3>6. ASSUME IsLast(m), Written(m) PROVE Written(m)'
      BY <2>6, <3>5, <3>6, ResultsTake
    <3>7. QED
      BY <3>3, <3>4, <3>6
  <2>7. CASE WriterStep
    <3>1. marker' = marker
      BY <2>7 DEF WriterStep, uiVars
    <3>2. \A t : Written(t) => Written(t)'
      BY <2>7, WrittenStays
    <3>3. InFlight(m) => InFlight(m)'
      <4>1. CASE toUI' = toUI
        BY <4>1 DEF InFlight, AckAt
      <4>2. CASE toUI' # toUI
        <5>1. PICK x \in Message : toUI' = Append(toUI, x)
          BY <2>7, <4>2, WriterPosts
        <5>2. QED
          BY <5>1, PostFacts
      <4>3. QED
        BY <4>1, <4>2
    <3>4. QED
      BY <3>1, <3>2, <3>3
  <2>8. QED
    BY <1>4, <2>5, <2>6, <2>7
<1>5. QED
  BY <1>1, <1>2, <1>3, <1>4, Steps

LEMMA MarkerAtRest == TypeOK /\ Order /\ Answered /\ MarkerIsLast => MarkerSettles
<1>1. SUFFICES ASSUME TypeOK, Order, Answered, MarkerIsLast, AtRest, marker.state = "pending",
                      \A s \in Sent : s > marker.rev /\ Numbered(s) => log[s].keep
               PROVE  FALSE
  BY LogTypes DEF MarkerSettles
<1>2. marker.rev \in Sent
        /\ (marker.rev > Decided \/ InFlight(marker.rev) \/ Written(marker.rev))
  BY <1>1 DEF MarkerIsLast
<1>3. Decided = Len(log) /\ (\A s : ~InFlight(s) /\ ~Result(s)) /\ writers = {}
  BY <1>1, AtRestFacts DEF AtRest
<1>4. ~(marker.rev > Decided)
  BY <1>1, <1>2, <1>3 DEF Sent, TypeOK
<1>5. QED
  BY <1>2, <1>3, <1>4 DEF Written

------------------------------------------------------------------------------
(* The settings file.                                                       *)

LEMMA DiskTypes ==
  ASSUME TypeOK
  PROVE  /\ \A w \in writers : w \in Writer /\ w.of \in Sent /\ w.of \in Nat
         /\ \A i \in DOMAIN toUI : toUI[i].of \in Sent /\ toUI[i].of \in Nat
         /\ marker.rev \in Nat
         /\ disk \in Settings /\ \A f \in Fields : disk[f] \in Nat
         /\ \A s \in Sent : log[s].fields \subseteq Fields
<1>1. /\ \A w \in writers : w \in Writer /\ w.of \in Sent
      /\ marker.rev \in Nat
      /\ disk \in Settings /\ \A f \in Fields : disk[f] \in Nat
  BY BoundsAssumption DEF TypeOK, Writer, Settings
<1>2. QED
  BY <1>1, MessageFacts, LogTypes

(* Nothing else than a writer touches the file.                             *)
LEMMA DiskAsk ==
  ASSUME TypeOK, Order, Disk, Asks(Len(log) + 1), Ask \/ SaveProviderForm
  PROVE  Disk'
<1>1. /\ \A t \in Sent : log'[t] = log[t]
      /\ Decided' = Decided /\ Sent \subseteq Sent'
  BY DEF Asks
<1>2. UNCHANGED <<toUI, writers, disk, overlap>>
  BY DEF Ask, SaveProviderForm, diskVars
<1>3. marker' = marker \/ marker'.state = "pending"
  <2>1. CASE Ask
    <3>1. PICK c \in Changes : marker' = IF c.keep THEN Mark("pending", Len(log) + 1) ELSE marker
      BY <2>1 DEF Ask
    <3>2. QED
      BY <3>1 DEF Mark
  <2>2. CASE SaveProviderForm
    BY <2>2 DEF SaveProviderForm
  <2>3. QED
    BY <2>1, <2>2
<1>4. \A s \in Sent : OnDisk(s)' <=> OnDisk(s)
  BY <1>1, <1>2 DEF OnDisk
<1>5. SUFFICES ASSUME ~overlap PROVE Disk'
  BY <1>2 DEF Disk
<1>6. \A w \in writers : /\ w.step = "save" => \A f \in Fields \ {"model"} : w.read[f] = disk'[f]
                         /\ w.step = "store" => \A f \in log'[w.of].fields \ {"model"} : disk'[f] >= w.of
                         /\ \A i \in DOMAIN toUI' : WrittenAt(i)' => toUI'[i].of < w.of
                         /\ marker'.state = "saved" => marker'.rev < w.of
  BY <1>1, <1>2, <1>3, <1>5, DiskTypes DEF Disk, WrittenAt
<1>7. ASSUME marker'.state = "saved"
      PROVE  marker'.rev \in Sent' /\ marker'.rev <= Decided' /\ OnDisk(marker.rev)'
  <2>1. marker' = marker /\ marker.rev \in Sent /\ marker.rev <= Decided /\ OnDisk(marker.rev)
    BY <1>3, <1>5, <1>7 DEF Disk
  <2>2. QED
    BY <1>1, <1>2, <2>1 DEF OnDisk
<1>8. \A i \in DOMAIN toUI' : WrittenAt(i)' /\ toUI'[i].ok => OnDisk(toUI[i].of)'
  BY <1>1, <1>2, <1>5, DiskTypes DEF Disk, OnDisk, WrittenAt
<1>9. QED
  BY <1>2, <1>5, <1>6, <1>7, <1>8 DEF Disk

LEMMA DiskDecide ==
  ASSUME TypeOK, Order, Results, Disk, NEW s, NEW o, Decides(s, o)
  PROVE  Disk'
<1> DEFINE k == Len(toUI) + 1
<1>1. /\ s \in Sent /\ s = Decided + 1 /\ Sent' = Sent /\ Decided' = Decided + 1
      /\ s \in Nat /\ Decided \in Int
      /\ \A t \in Sent : t \in Nat /\ log'[t].fields = log[t].fields
  BY DecidesFacts
<1>2. marker' = marker /\ disk' = disk
  BY DEF Decides, Spawn, diskVars
<1>3. PICK x \in Message : x.kind = "ack" /\ toUI' = Append(toUI, x)
  BY DEF Decides, Ack
<1>4. /\ \A i \in DOMAIN toUI : i \in DOMAIN toUI' /\ toUI'[i] = toUI[i]
      /\ toUI'[k] = x
      /\ \A i \in DOMAIN toUI' : i \in DOMAIN toUI \/ i = k
  BY <1>3, PostFacts
<1>5. \A i \in DOMAIN toUI' : WrittenAt(i)' => i \in DOMAIN toUI /\ WrittenAt(i) /\ toUI'[i] = toUI[i]
  BY <1>3, <1>4 DEF WrittenAt
<1>6. \A t \in Sent : OnDisk(t)' <=> OnDisk(t)
  BY <1>1, <1>2 DEF OnDisk
<1>7. SUFFICES ASSUME ~overlap' PROVE Disk'
  BY DEF Disk
<1>8. ~overlap
  BY <1>7 DEF Decides, Spawn, diskVars
<1>9. marker.state = "saved" => marker.rev \in Sent /\ marker.rev <= Decided /\ OnDisk(marker.rev)
  BY <1>8 DEF Disk
<1>10. \/ writers' = writers
       \/ /\ writers = {} /\ writers' = {[of |-> s, step |-> "load", read |-> Unread]}
  <2>1. CASE UNCHANGED writers
    BY <2>1
  <2>2. CASE ~UNCHANGED writers
    <3>1. o = "applied" /\ Spawn(s)
      BY <2>2 DEF Decides
    <3>2. /\ writers' = writers \cup {[of |-> s, step |-> "load", read |-> Unread]}
          /\ overlap' = (overlap \/ writers # {})
      BY <2>2, <3>1 DEF Spawn, diskVars
    <3>3. writers = {}
      BY <1>7, <3>2
    <3>4. QED
      BY <3>2, <3>3
  <2>3. QED
    BY <2>1, <2>2
<1>11. \A v, w \in writers' : v = w
  BY <1>8, <1>10 DEF Disk
<1>12. ASSUME NEW w \in writers'
       PROVE  /\ w.step = "save" => \A f \in Fields \ {"model"} : w.read[f] = disk'[f]
              /\ w.step = "store" => \A f \in log'[w.of].fields \ {"model"} : disk'[f] >= w.of
              /\ \A i \in DOMAIN toUI' : WrittenAt(i)' => toUI'[i].of < w.of
              /\ marker'.state = "saved" => marker'.rev < w.of
  <2>1. CASE w \in writers
    BY <1>1, <1>2, <1>5, <1>8, <2>1, DiskTypes DEF Disk
  <2>2. CASE w = [of |-> s, step |-> "load", read |-> Unread]
    <3>1. w.of = s /\ w.step = "load"
      BY <2>2
    <3>2. \A i \in DOMAIN toUI' : WrittenAt(i)' => toUI'[i].of < s
      <4>1. \A i \in DOMAIN toUI : WrittenAt(i) => toUI[i].of <= Decided /\ toUI[i].of \in Nat
        BY DiskTypes DEF Results, ResultIs
      <4>2. QED
        BY <1>1, <1>5, <4>1
    <3>3. marker.state = "saved" => marker.rev < s
      BY <1>1, <1>9, DiskTypes
    <3>4. QED
      BY <1>2, <3>1, <3>2, <3>3
  <2>3. QED
    BY <1>10, <2>1, <2>2
<1>13. \A i \in DOMAIN toUI' : WrittenAt(i)' /\ toUI'[i].ok => OnDisk(toUI[i].of)'
  <2>1. SUFFICES ASSUME NEW i \in DOMAIN toUI', WrittenAt(i)', toUI'[i].ok
                 PROVE  OnDisk(toUI[i].of)'
    OBVIOUS
  <2>2. i \in DOMAIN toUI /\ WrittenAt(i) /\ toUI'[i] = toUI[i] /\ toUI[i].of \in Sent
    BY <1>5, <2>1, DiskTypes
  <2>3. OnDisk(toUI[i].of)
    BY <1>8, <2>1, <2>2 DEF Disk
  <2>4. QED
    BY <1>1, <1>2, <2>2, <2>3 DEF OnDisk
<1>14. ASSUME marker'.state = "saved"
       PROVE  marker'.rev \in Sent' /\ marker'.rev <= Decided' /\ OnDisk(marker.rev)'
  BY <1>1, <1>2, <1>9, <1>14, DiskTypes DEF OnDisk
<1>15. QED
  BY <1>11, <1>12, <1>13, <1>14 DEF Disk

LEMMA DiskTake ==
  ASSUME TypeOK, Order, Results, Disk, TakeAck \/ TakeWriteResult
  PROVE  Disk'
<1>1. Decided' = Decided /\ Sent' = Sent /\ log' = log
  BY HearStep
<1>2. toUI # <<>> /\ toUI' = Tail(toUI) /\ UNCHANGED <<writers, disk, overlap>>
  BY DEF TakeAck, TakeWriteResult, diskVars
<1>3. /\ 1 \in DOMAIN toUI /\ Head(toUI) = toUI[1]
      /\ \A i \in DOMAIN toUI' : i + 1 \in DOMAIN toUI /\ toUI'[i] = toUI[i + 1]
  BY <1>2, TakeFacts
<1>4. SUFFICES ASSUME ~overlap PROVE Disk'
  BY <1>2 DEF Disk
<1>5. ASSUME marker'.state = "saved"
      PROVE  \/ marker' = marker
             \/ WrittenAt(1) /\ toUI[1].ok /\ marker'.rev = toUI[1].of
  <2>1. CASE TakeAck
    BY <1>5, <2>1 DEF TakeAck, MarkerAfter, NoMark, uiVars
  <2>2. CASE TakeWriteResult
    <3>1. WrittenAt(1)
      BY <1>3, <2>2 DEF TakeWriteResult, WrittenAt
    <3>2. Rev(toUI[1].of) = toUI[1].of
      BY <1>3, <3>1 DEF Results, ResultIs, Rev
    <3>3. \/ marker' = marker
          \/ marker' = Mark(IF toUI[1].ok THEN "saved" ELSE "failed", Rev(toUI[1].of))
      BY <1>3, <2>2 DEF TakeWriteResult
    <3>4. QED
      BY <1>5, <3>1, <3>2, <3>3 DEF Mark
  <2>3. QED
    BY <2>1, <2>2
<1>6. ASSUME marker'.state = "saved"
      PROVE  /\ marker'.rev \in Sent /\ marker'.rev <= Decided
             /\ \A f \in log[marker'.rev].fields : disk[f] >= marker'.rev
             /\ \A w \in writers : marker'.rev < w.of
  <2>1. CASE marker' = marker
    BY <1>4, <1>6, <2>1 DEF Disk, OnDisk
  <2>2. CASE WrittenAt(1) /\ toUI[1].ok /\ marker'.rev = toUI[1].of
    BY <1>3, <1>4, <2>2, DiskTypes DEF Disk, OnDisk, Results, ResultIs
  <2>3. QED
    BY <1>5, <1>6, <2>1, <2>2
<1>7. \A i \in DOMAIN toUI' : WrittenAt(i)' => WrittenAt(i + 1) /\ toUI'[i] = toUI[i + 1]
                                                /\ i + 1 \in DOMAIN toUI
  BY <1>3 DEF WrittenAt
<1>8. QED
  <2>1. \A w \in writers : /\ w.step = "save" => \A f \in Fields \ {"model"} : w.read[f] = disk[f]
                           /\ w.step = "store" => \A f \in log[w.of].fields \ {"model"} : disk[f] >= w.of
                           /\ \A i \in DOMAIN toUI' : WrittenAt(i)' => toUI'[i].of < w.of
    BY <1>4, <1>7 DEF Disk
  <2>2. \A i \in DOMAIN toUI' : WrittenAt(i)' /\ toUI'[i].ok =>
          \A f \in log[toUI'[i].of].fields : disk[f] >= toUI'[i].of
    BY <1>4, <1>7 DEF Disk, OnDisk
  <2>3. \A v, w \in writers : v = w
    BY <1>4 DEF Disk
  <2>4. QED
    BY <1>1, <1>2, <1>6, <2>1, <2>2, <2>3 DEF Disk, OnDisk

LEMMA DiskWrite ==
  ASSUME TypeOK, Order, Results, Disk, WriterStep
  PROVE  Disk'
<1>1. Decided' = Decided /\ Sent' = Sent /\ log' = log /\ marker' = marker /\ overlap' = overlap
  BY HearStep DEF WriterStep, uiVars
<1>2. SUFFICES ASSUME ~overlap PROVE Disk'
  BY <1>1 DEF Disk
<1>3. PICK w \in writers : WriterLoads(w) \/ WriterSaves(w) \/ WriterStores(w) \/ WriterFails(w)
  BY DEF WriterStep
<1>4. /\ writers = {w} /\ w \in Writer /\ w.of \in Sent /\ w.of \in Nat /\ w.of <= Decided
      /\ \A f \in Fields : disk[f] \in Nat
      /\ \A s \in Sent : s \in Nat /\ log[s].fields \subseteq Fields
      /\ disk \in Settings
  BY <1>2, DiskTypes, LogTypes DEF Disk, Results, WriterIs
<1>5. /\ w.step = "save" => \A f \in Fields \ {"model"} : w.read[f] = disk[f]
      /\ w.step = "store" => \A f \in log[w.of].fields \ {"model"} : disk[f] >= w.of
      /\ \A i \in DOMAIN toUI : WrittenAt(i) => toUI[i].of < w.of /\ toUI[i].of \in Sent
      /\ marker.state = "saved" => marker.rev < w.of
  BY <1>2, DiskTypes DEF Disk
<1>6. /\ \A i \in DOMAIN toUI : WrittenAt(i) /\ toUI[i].ok => OnDisk(toUI[i].of)
      /\ marker.state = "saved" => marker.rev \in Sent /\ marker.rev <= Decided /\ OnDisk(marker.rev)
  BY <1>2 DEF Disk
<1>7. \A f \in Fields : disk'[f] = disk[f] \/ disk'[f] = w.of
  <2>1. CASE WriterSaves(w)
    BY <1>4, <1>5, <2>1 DEF WriterSaves
  <2>2. CASE WriterStores(w)
    BY <1>4, <2>2 DEF WriterStores, Settings
  <2>3. QED
    BY <1>3, <2>1, <2>2 DEF WriterLoads, WriterFails
(* What was written before is of older requests, so it stays.               *)
<1>8. \A s \in Sent : OnDisk(s) /\ s < w.of => OnDisk(s)'
  BY <1>1, <1>4, <1>7 DEF OnDisk
<1>9. \/ /\ toUI' = toUI
         /\ \E v : /\ writers' = {v} /\ v.of = w.of
                   /\ v.step = "save" => \A f \in Fields \ {"model"} : v.read[f] = disk'[f]
                   /\ v.step = "store" => \A f \in log[v.of].fields \ {"model"} : disk'[f] >= v.of
      \/ \E x \in Message : /\ x.kind = "written" /\ x.of = w.of /\ toUI' = Append(toUI, x)
                            /\ writers' = {} /\ (x.ok => OnDisk(w.of)')
  <2>1. \A ok \in BOOLEAN : WriteResult(w.of, ok) \in Message
                            /\ WriteResult(w.of, ok).kind = "written"
                            /\ WriteResult(w.of, ok).of = w.of /\ WriteResult(w.of, ok).ok = ok
    BY <1>4 DEF WriteResult, Message
  <2>2. CASE WriterLoads(w)
    <3> DEFINE v == [w EXCEPT !.step = "save", !.read = disk]
    <3>1. v.of = w.of /\ v.step = "save" /\ v.read = disk
      BY <1>4 DEF Writer
    <3>2. writers' = {v} /\ toUI' = toUI /\ disk' = disk
      BY <1>4, <2>2 DEF WriterLoads
    <3> HIDE DEF v
    <3>3. QED
      BY <3>1, <3>2
  <2>3. CASE WriterSaves(w)
    <3>1. /\ w.step = "save"
          /\ disk' = [f \in Fields |-> IF f = "model" THEN disk[f]
                                       ELSE IF f \in log[w.of].fields THEN w.of ELSE w.read[f]]
      BY <2>3 DEF WriterSaves
    <3>2. \A f \in log[w.of].fields \ {"model"} : disk'[f] >= w.of
      BY <1>4, <3>1
    <3>3. CASE "model" \in log[w.of].fields
      <4> DEFINE v == [w EXCEPT !.step = "store", !.read = Unread]
      <4>1. v.of = w.of /\ v.step = "store"
        BY <1>4 DEF Writer
      <4>2. writers' = {v} /\ toUI' = toUI
        BY <1>4, <2>3, <3>3 DEF WriterSaves
      <4> HIDE DEF v
      <4>3. QED
        BY <3>2, <4>1, <4>2
    <3>4. CASE "model" \notin log[w.of].fields
      <4>1. OnDisk(w.of)'
        BY <1>1, <3>2, <3>4 DEF OnDisk
      <4>2. writers' = {} /\ toUI' = Append(toUI, WriteResult(w.of, TRUE))
        BY <1>4, <2>3, <3>4 DEF WriterSaves, Finish
      <4>3. QED
        BY <4>1, <4>2, <2>1
    <3>5. QED
      BY <3>3, <3>4
  <2>4. CASE WriterStores(w)
    <3>1. /\ w.step = "store" /\ disk' = [disk EXCEPT !["model"] = w.of]
          /\ writers' = {} /\ toUI' = Append(toUI, WriteResult(w.of, TRUE))
      BY <1>4, <2>4 DEF WriterStores, Finish
    <3>2. \A f \in Fields : disk'[f] = IF f = "model" THEN w.of ELSE disk[f]
      BY <1>4, <3>1 DEF Settings
    <3>3. \A f \in log[w.of].fields : disk'[f] >= w.of
      BY <1>4, <1>5, <3>1, <3>2
    <3>4. OnDisk(w.of)'
      BY <1>1, <3>3 DEF OnDisk
    <3>5. QED
      BY <2>1, <3>1, <3>4
  <2>5. CASE WriterFails(w)
    <3>1. writers' = {} /\ toUI' = Append(toUI, WriteResult(w.of, FALSE))
      BY <1>4, <2>5 DEF WriterFails, Finish
    <3>2. QED
      BY <2>1, <3>1
  <2>6. QED
    BY <1>3, <2>2, <2>3, <2>4, <2>5
<1>10. CASE /\ toUI' = toUI
            /\ \E v : /\ writers' = {v} /\ v.of = w.of
                      /\ v.step = "save" => \A f \in Fields \ {"model"} : v.read[f] = disk'[f]
                      /\ v.step = "store" => \A f \in log[v.of].fields \ {"model"} : disk'[f] >= v.of
  <2>1. \A i \in DOMAIN toUI' : WrittenAt(i)' /\ toUI'[i].ok => OnDisk(toUI[i].of)'
    <3>1. SUFFICES ASSUME NEW i \in DOMAIN toUI, WrittenAt(i), toUI[i].ok
                   PROVE  \A f \in log[toUI[i].of].fields : disk'[f] >= toUI[i].of
      BY <1>1, <1>10 DEF WrittenAt, OnDisk
    <3>2. OnDisk(toUI[i].of)' => \A f \in log[toUI[i].of].fields : disk'[f] >= toUI[i].of
      BY <1>1, <1>10 DEF OnDisk
    <3>3. PICK t : t = toUI[i].of
      OBVIOUS
    <3>4. OnDisk(t)'
      BY <1>5, <1>6, <1>8, <3>1, <3>3
    <3>5. QED
      BY <1>1, <3>3, <3>4 DEF OnDisk
  <2>2. marker'.state = "saved" => marker'.rev \in Sent' /\ marker'.rev <= Decided' /\ OnDisk(marker.rev)'
    BY <1>1, <1>5, <1>6, <1>8 DEF OnDisk
  <2>3. QED
    BY <1>1, <1>5, <1>10, <2>1, <2>2 DEF Disk, WrittenAt
<1>11. CASE \E x \in Message : /\ x.kind = "written" /\ x.of = w.of /\ toUI' = Append(toUI, x)
                               /\ writers' = {} /\ (x.ok => OnDisk(w.of)')
  <2>1. PICK x \in Message : /\ x.kind = "written" /\ x.of = w.of /\ toUI' = Append(toUI, x)
                             /\ writers' = {} /\ (x.ok => OnDisk(w.of)')
    BY <1>11
  <2>2. /\ \A i \in DOMAIN toUI : toUI'[i] = toUI[i]
        /\ toUI'[Len(toUI) + 1] = x
        /\ \A i \in DOMAIN toUI' : i \in DOMAIN toUI \/ i = Len(toUI) + 1
    BY <2>1, PostFacts
  <2>3. ASSUME NEW i \in DOMAIN toUI', WrittenAt(i)', toUI'[i].ok, NEW t, t = toUI'[i].of
        PROVE  OnDisk(t)'
    <3>1. CASE i \in DOMAIN toUI
      <4>1. WrittenAt(i) /\ toUI[i].ok /\ t = toUI[i].of
        BY <2>2, <2>3, <3>1 DEF WrittenAt
      <4>2. QED
        BY <1>5, <1>6, <1>8, <3>1, <4>1
    <3>2. CASE i = Len(toUI) + 1
      BY <2>1, <2>2, <2>3, <3>2
    <3>3. QED
      BY <2>2, <3>1, <3>2
  <2>4. marker'.state = "saved" => marker'.rev \in Sent' /\ marker'.rev <= Decided' /\ OnDisk(marker.rev)'
    BY <1>1, <1>5, <1>6, <1>8 DEF OnDisk
  <2>5. \A i \in DOMAIN toUI' : WrittenAt(i)' /\ toUI'[i].ok => OnDisk(toUI[i].of)'
    BY <2>3 DEF OnDisk
  <2>6. QED
    BY <2>1, <2>4, <2>5 DEF Disk
<1>12. QED
  BY <1>9, <1>10, <1>11

LEMMA DiskStep ==
  ASSUME TypeOK, Order, Results, Disk, [Next]_vars
  PROVE  Disk'
<1>1. CASE Quiet /\ Sent' = Sent
  BY <1>1 DEF Quiet, Disk, OnDisk, WrittenAt
<1>2. QED
  BY <1>1, Steps, DiskAsk, DiskDecide, DiskTake, DiskWrite

------------------------------------------------------------------------------
(* The theorems.                                                            *)

Settlement ==
  /\ TypeOK /\ Order /\ Wins /\ NoIntentIsLost /\ IntentIsKept
  /\ Answered /\ Results /\ MarkerIsLast /\ Disk

LEMMA SettlementInit == Init => Settlement
<1>1. SUFFICES ASSUME Init PROVE Settlement
  OBVIOUS
<1>2. TypeOK /\ Order /\ Answered
  BY <1>1, TypeInit, OrderInit, AnsweredInit
<1>3. Sent = {} /\ DOMAIN toUI = {} /\ writers = {} /\ pending = {}
  <2>1. Len(log) = 0 /\ toUI = <<>> /\ writers = {} /\ pending = {}
    BY <1>1 DEF Init
  <2>2. QED
    BY <2>1 DEF Sent
<1>4. Wins /\ NoIntentIsLost /\ IntentIsKept
  BY <1>1, <1>3 DEF Init, Wins, LastRequestWins, NoIntentIsLost, IntentIsKept
<1>5. Results /\ MarkerIsLast /\ Disk
  BY <1>1, <1>3 DEF Init, Results, MarkerIsLast, Disk, NoMark
<1>6. QED
  BY <1>2, <1>4, <1>5 DEF Settlement

LEMMA SettlementStep == Settlement /\ [Next]_vars => Settlement'
<1>1. SUFFICES ASSUME Settlement, [Next]_vars PROVE Settlement'
  OBVIOUS
<1>2. Results'
  <2>1. CASE Quiet /\ Sent' = Sent
    BY <1>1, <2>1 DEF Settlement, Quiet, Results, WriterIs, ResultIs, ToBeWritten, Written, Result,
                      Numbered, AckAt, WrittenAt
  <2>2. QED
    BY <1>1, <2>1, Steps, ResultsAsk, ResultsDecide, ResultsTake, ResultsWrite DEF Settlement
<1>3. TypeOK' /\ Order' /\ Wins' /\ NoIntentIsLost' /\ IntentIsKept'
  BY <1>1, TypeStep, Steps, WinsStep, AnswersStep, IntentStep DEF Settlement
<1>4. Answered' /\ MarkerIsLast' /\ Disk'
  BY <1>1, AnsweredStep, MarkerStep, DiskStep DEF Settlement
<1>5. QED
  BY <1>2, <1>3, <1>4 DEF Settlement

LEMMA Settlements == Spec => []Settlement
BY SettlementInit, SettlementStep, PTL DEF Spec

(* is_fully_superseded, asked for each request of the deferred queue in turn,  *)
(* loses no field of what the user asked for: some later request that is not   *)
(* superseded itself sets it, and keeps it when the lost one was to be kept.   *)
THEOREM NoIntentLost == Spec => []NoIntentIsLost
<1>1. Settlement => NoIntentIsLost
  BY DEF Settlement
<1>2. QED
  BY <1>1, Settlements, PTL

(* However many turns put requests off, the worker holds for each field the    *)
(* last value asked for that it did not refuse or supersede.                   *)
THEOREM TheLastRequestWins == Spec => []LastRequestWins
<1>1. Settlement => LastRequestWins
  BY DEF Settlement, Wins
<1>2. QED
  BY <1>1, Settlements, PTL

(* on_runtime_settings_ack never puts back a requested value while a newer     *)
(* request for the field has no answer.                                        *)
THEOREM ShownIntentIsKept == Spec => []IntentIsKept
<1>1. Settlement => IntentIsKept
  BY DEF Settlement
<1>2. QED
  BY <1>1, Settlements, PTL

(* When all has been answered the UI shows the worker's values and no request  *)
(* as pending, the model excepted once a provider form was saved.              *)
THEOREM TheUIAgrees == Spec => []UIShowsTheWorker
<1>1. Settlement => UIShowsTheWorker
  BY ShownAtRest DEF Settlement
<1>2. QED
  BY <1>1, Settlements, PTL

(* When nothing is under way no write is shown as pending, unless a            *)
(* session-only change followed the request to be written.                     *)
THEOREM TheMarkerSettles == Spec => []MarkerSettles
<1>1. Settlement => MarkerSettles
  BY MarkerAtRest DEF Settlement
<1>2. QED
  BY <1>1, Settlements, PTL

(* What the UI calls saved is on disk as long as spawn_runtime_settings_       *)
(* persistence never had two writers at once.                                  *)
THEOREM SavedOnDisk == Spec => []SavedIsOnDisk
<1>1. Settlement => SavedIsOnDisk
  BY DEF Settlement, Disk, OnDisk, SavedIsOnDisk
<1>2. QED
  BY <1>1, Settlements, PTL
=============================================================================
