--------------------------- MODULE RuntimeSettings ---------------------------
(***************************************************************************)
(* Model, context window and thinking effort, from the key press in the UI *)
(* to the worker, the running turn, the UI's picture of it and the disk.   *)
(*                                                                         *)
(* The UI numbers every change (a revision) and shows it as requested; the *)
(* worker installs it at once when idle and after the turn otherwise, and  *)
(* answers with the snapshot it then holds; a running turn learns of a new *)
(* model through a slot it empties before each model call; an installed    *)
(* change is written to the settings file by a task of its own, whose      *)
(* result is a further message to the UI.                                  *)
(*                                                                         *)
(* A value is the number of the request that asked for it (0: the value at *)
(* the start), so two requests never ask for the same one.  What the worker*)
(* keeps as requested and as active differs only in detail that is not     *)
(* modelled (the provider a model resolves to, the tokens a window really  *)
(* has): one variable, installed, stands for both.  Revisions are only ever*)
(* compared, so the number of a request is its revision too.               *)
(***************************************************************************)
EXTENDS Integers, Sequences, FiniteSets

CONSTANTS MaxRequests,  \* bound: changes the user makes
          MaxTurns,     \* bound: turns the worker runs
          Changes       \* what the UI's callers ask for, see ChangesAssumption

VARIABLES
  log,        \* the requests in the order the user made them
  requested,  \* UI: the values shown as asked for
  active,     \* UI: the values shown as in force
  pending,    \* UI: requests without an answer
  marker,     \* UI: what is shown about the settings file
  lastAck,    \* UI: the revision of the last answer taken
  toWorker,   \* requests on their way to the worker
  toUI,       \* answers and write results on their way to the UI
  phase,      \* the worker: idle, in a turn, or applying what a turn deferred
  deferred,   \* requests received during the turn
  installed,  \* the worker's settings
  cell,       \* the model switch slot: at most one value
  turnModel,  \* the model the running turn calls
  published,  \* history: the slot was filled during the running turn
  turns,      \* the number of turns so far
  writers,    \* tasks writing an installed change to disk
  disk,       \* the settings file and the provider store
  overlap     \* history: two writers ran at the same time

uiVars     == <<requested, active, pending, marker, lastAck>>
turnVars   == <<turnModel, published, turns>>
diskVars   == <<writers, disk, overlap>>
vars == <<log, uiVars, toWorker, toUI, phase, deferred, installed, cell, turnVars, diskVars>>

------------------------------------------------------------------------------
Fields   == {"model", "context", "effort"}
Settings == [Fields -> 0 .. MaxRequests]
Skill    == MaxRequests + 1     \* the model a skill's front matter names

(* What the UI's callers ask for: a model (/model to be kept, /fast for the *)
(* session only), a window, an effort, or both of these at once (/config).  *)
ASSUME BoundsAssumption  == MaxRequests \in Nat /\ MaxTurns \in Nat
ASSUME ChangesAssumption ==
  Changes \subseteq [fields : (SUBSET Fields) \ {{}}, keep : BOOLEAN]

Outcomes == {"waiting", "applied", "refused", "superseded"}

Unread == [f \in Fields |-> 0]

NoMark == [state |-> "none", rev |-> 0]
Mark(state, rev) == [state |-> state, rev |-> rev]

Numbered(s) == log[s].numbered
Rev(s)      == IF Numbered(s) THEN s ELSE 0
Overlay(values, s) == [f \in Fields |-> IF f \in log[s].fields THEN s ELSE values[f]]

Ack(s, outcome, snapshot) ==
  [kind |-> "ack", of |-> s, outcome |-> outcome, snapshot |-> snapshot]
WriteResult(s, ok) == [kind |-> "written", of |-> s, ok |-> ok]

------------------------------------------------------------------------------
(* The UI asks.                                                             *)

(* A change takes the next revision, is shown as requested and sent; one    *)
(* that is to be kept also says that a write is under way.                  *)
Ask ==
  /\ Len(log) < MaxRequests
  /\ \E c \in Changes :
       LET s == Len(log) + 1 IN
       /\ log' = Append(log, [numbered |-> TRUE, fields |-> c.fields, keep |-> c.keep,
                              outcome |-> "waiting"])
       /\ requested' = [f \in Fields |-> IF f \in c.fields THEN s ELSE requested[f]]
       /\ pending' = pending \cup {s}
       /\ marker' = IF c.keep THEN Mark("pending", s) ELSE marker
       /\ toWorker' = Append(toWorker, s)
  /\ UNCHANGED <<active, lastAck, toUI, phase, deferred, installed, cell, turnVars, diskVars>>

(* Saving a provider form switches the model through the old message, which *)
(* has no revision, and shows the model as active at once.                  *)
SaveProviderForm ==
  /\ Len(log) < MaxRequests
  /\ LET s == Len(log) + 1 IN
       /\ log' = Append(log, [numbered |-> FALSE, fields |-> {"model"}, keep |-> TRUE,
                              outcome |-> "waiting"])
       /\ active' = [active EXCEPT !["model"] = s]
       /\ toWorker' = Append(toWorker, s)
  /\ UNCHANGED <<requested, pending, marker, lastAck, toUI, phase, deferred, installed, cell,
                 turnVars, diskVars>>

------------------------------------------------------------------------------
(* The worker installs and answers.                                         *)

(* A model whose provider is not configured, or a window of zero, installs  *)
(* nothing of the request; an effort is never refused.                      *)
MayBeRefused(s) == log[s].fields # {"effort"}

(* Mutant: the fields are set before the request is validated.              *)
RefuseLate(s) ==
  /\ MayBeRefused(s)
  /\ log' = [log EXCEPT ![s].outcome = "refused"]
  /\ installed' = Overlay(installed, s)
  /\ toUI' = Append(toUI, Ack(s, "refused", installed))
  /\ UNCHANGED diskVars

Refuse(s) ==
  /\ MayBeRefused(s)
  /\ log' = [log EXCEPT ![s].outcome = "refused"]
  /\ toUI' = Append(toUI, Ack(s, "refused", installed))
  /\ UNCHANGED <<installed, diskVars>>

(* A numbered change that is to be kept gets a writer of its own.           *)
Spawn(s) ==
  IF log[s].keep /\ Numbered(s)
    THEN /\ writers' = writers \cup {[of |-> s, step |-> "load", read |-> Unread]}
         /\ overlap' = (overlap \/ writers # {})
         /\ UNCHANGED disk
    ELSE UNCHANGED diskVars

(* Mutant: the snapshot is taken before the change is installed.            *)
InstallSnapshotFirst(s) ==
  /\ log' = [log EXCEPT ![s].outcome = "applied"]
  /\ installed' = Overlay(installed, s)
  /\ toUI' = Append(toUI, Ack(s, "applied", installed))
  /\ Spawn(s)

(* The values are installed, the answer goes out, then the write starts.    *)
Install(s) ==
  /\ log' = [log EXCEPT ![s].outcome = "applied"]
  /\ installed' = Overlay(installed, s)
  /\ toUI' = Append(toUI, Ack(s, "applied", installed'))
  /\ Spawn(s)

ReceiveIdle ==
  /\ phase = "idle"
  /\ toWorker # <<>>
  /\ Install(Head(toWorker)) \/ Refuse(Head(toWorker))
  /\ toWorker' = Tail(toWorker)
  /\ UNCHANGED <<uiVars, phase, deferred, cell, turnVars>>

(* A switch put in the slot replaces the one that is there.                 *)
Publish(m) == cell' = {m} /\ published' = TRUE

(* During a turn everything is put off; a numbered model change is also put *)
(* in the slot.                                                             *)
ReceiveInTurn ==
  /\ phase = "turn"
  /\ toWorker # <<>>
  /\ LET s == Head(toWorker) IN
       /\ deferred' = Append(deferred, s)
       /\ IF "model" \in log[s].fields /\ Numbered(s)
            THEN Publish(s)
            ELSE UNCHANGED <<cell, published>>
  /\ toWorker' = Tail(toWorker)
  /\ UNCHANGED <<log, uiVars, toUI, phase, installed, turnModel, turns, diskVars>>

FieldsOf(set) == UNION {log[t].fields : t \in set}

(* Mutant: what is to be kept may be covered by what is not.                *)
CoveredByAny(s, later) ==
  /\ Numbered(s)
  /\ log[s].fields \subseteq FieldsOf({t \in later : Numbered(t)})

(* A later request covers s when the numbered ones behind it in the queue,  *)
(* taken together, set each of its fields, and when s is to be kept those   *)
(* that are to be kept do.                                                  *)
Covered(s, later) ==
  LET numbered == {t \in later : Numbered(t)}
      kept     == {t \in numbered : log[t].keep}
  IN  /\ Numbered(s)
      /\ log[s].fields \subseteq FieldsOf(numbered)
      /\ log[s].keep => log[s].fields \subseteq FieldsOf(kept)

Range(seq) == {seq[i] : i \in DOMAIN seq}

Supersede(s) ==
  /\ log' = [log EXCEPT ![s].outcome = "superseded"]
  /\ toUI' = Append(toUI, Ack(s, "superseded", installed))
  /\ UNCHANGED <<installed, diskVars>>

(* After the turn the deferred requests are answered first to last.         *)
Settle ==
  /\ phase = "settle"
  /\ deferred # <<>>
  /\ LET s == Head(deferred) IN
       IF Covered(s, Range(Tail(deferred))) THEN Supersede(s) ELSE Install(s) \/ Refuse(s)
  /\ deferred' = Tail(deferred)
  /\ UNCHANGED <<uiVars, toWorker, phase, cell, turnVars>>

------------------------------------------------------------------------------
(* The turn.                                                                *)

(* A user message, a queued one or a notification starts a turn, on a fresh *)
(* agent with the model installed at that moment.                           *)
StartTurn ==
  /\ phase = "idle"
  /\ turns < MaxTurns
  /\ phase' = "turn"
  /\ turnModel' = installed["model"]
  /\ published' = FALSE
  /\ turns' = turns + 1
  /\ UNCHANGED <<log, uiVars, toWorker, toUI, deferred, installed, cell, diskVars>>

(* Before a model call the turn empties the slot; a selection that does not *)
(* resolve leaves it on its model (a skill's names no provider: it does).   *)
AdoptSwitch ==
  /\ phase = "turn"
  /\ \E m \in cell : turnModel' = m \/ (m # Skill /\ UNCHANGED turnModel)
  /\ cell' = {}
  /\ UNCHANGED <<log, uiVars, toWorker, toUI, phase, deferred, installed, published, turns,
                 diskVars>>

(* A skill with a model in its front matter fills the same slot.            *)
SkillSwitches ==
  /\ phase = "turn"
  /\ Publish(Skill)
  /\ UNCHANGED <<log, uiVars, toWorker, toUI, phase, deferred, installed, turnModel, turns,
                 diskVars>>

(* Sub-agents run the same loop on the same slot, also when no turn runs.   *)
SubAgentAdopts ==
  /\ cell # {}
  /\ cell' = {}
  /\ UNCHANGED <<log, uiVars, toWorker, toUI, phase, deferred, installed, turnVars, diskVars>>

(* The fresh agent is dropped; what the slot holds stays there.             *)
EndTurn ==
  /\ phase = "turn"
  /\ phase' = "settle"
  /\ turnModel' = 0
  /\ published' = FALSE
  /\ UNCHANGED <<log, uiVars, toWorker, toUI, deferred, installed, cell, turns, diskVars>>

Settled ==
  /\ phase = "settle"
  /\ deferred = <<>>
  /\ phase' = "idle"
  /\ UNCHANGED <<log, uiVars, toWorker, toUI, deferred, installed, cell, turnVars, diskVars>>

------------------------------------------------------------------------------
(* The UI hears.                                                            *)

(* Mutant: only changes to be kept count as requests without an answer.     *)
NewerKept(r) == \E s \in pending : s > r /\ log[s].keep

NewerPending(r) == \E s \in pending : s > r

AnyNumbered == \E s \in DOMAIN log : Numbered(s)

(* Mutant: a refusal leaves what is shown about the file.                   *)
MarkerStays(outcome, r) == marker

(* A request that was not applied is not written either.                    *)
MarkerAfter(outcome, r) ==
  IF outcome # "applied" /\ marker = Mark("pending", r) THEN NoMark ELSE marker

(* An answer without a revision counts only before the first numbered       *)
(* request, one older than the last taken never.  While a newer request is  *)
(* pending an answer only leaves the queue of pending ones.                 *)
TakeAck ==
  /\ toUI # <<>>
  /\ Head(toUI).kind = "ack"
  /\ toUI' = Tail(toUI)
  /\ LET m == Head(toUI)
         r == Rev(m.of)
     IN  IF (r = 0 /\ AnyNumbered) \/ (r # 0 /\ r < lastAck)
           THEN UNCHANGED uiVars
           ELSE /\ pending' = {s \in pending : s > r}
                /\ IF NewerPending(r)
                     THEN UNCHANGED <<requested, active, marker, lastAck>>
                     ELSE /\ active' = m.snapshot
                          /\ requested' = IF m.outcome = "applied" THEN m.snapshot ELSE requested
                          /\ marker' = MarkerAfter(m.outcome, r)
                          /\ lastAck' = r
  /\ UNCHANGED <<log, toWorker, phase, deferred, installed, cell, turnVars, diskVars>>

(* The result of a write counts unless a newer request was answered or is   *)
(* pending.                                                                 *)
TakeWriteResult ==
  /\ toUI # <<>>
  /\ Head(toUI).kind = "written"
  /\ toUI' = Tail(toUI)
  /\ LET m == Head(toUI)
         r == Rev(m.of)
     IN  marker' = IF r < lastAck \/ NewerPending(r) THEN marker
                   ELSE Mark(IF m.ok THEN "saved" ELSE "failed", r)
  /\ UNCHANGED <<log, requested, active, pending, lastAck, toWorker, phase, deferred, installed,
                 cell, turnVars, diskVars>>

------------------------------------------------------------------------------
(* The writers: load the settings file, write all of it back, then set the  *)
(* model in the provider store.                                             *)

Finish(w, ok) ==
  /\ writers' = writers \ {w}
  /\ toUI' = Append(toUI, WriteResult(w.of, ok))

WriterLoads(w) ==
  /\ w.step = "load"
  /\ writers' = (writers \ {w}) \cup {[w EXCEPT !.step = "save", !.read = disk]}
  /\ UNCHANGED <<disk, toUI>>

WriterSaves(w) ==
  /\ w.step = "save"
  /\ disk' = [f \in Fields |-> IF f = "model" THEN disk[f]
                               ELSE IF f \in log[w.of].fields THEN w.of ELSE w.read[f]]
  /\ IF "model" \in log[w.of].fields
       THEN /\ writers' = (writers \ {w}) \cup {[w EXCEPT !.step = "store", !.read = Unread]}
            /\ UNCHANGED toUI
       ELSE Finish(w, TRUE)

WriterStores(w) ==
  /\ w.step = "store"
  /\ disk' = [disk EXCEPT !["model"] = w.of]
  /\ Finish(w, TRUE)

(* Mutant: the error of a step is dropped.                                  *)
WriterFailsQuietly(w) ==
  /\ UNCHANGED disk
  /\ Finish(w, TRUE)

(* Each of the three steps can fail; the rest is then not done.             *)
WriterFails(w) ==
  /\ UNCHANGED disk
  /\ Finish(w, FALSE)

WriterStep ==
  /\ \E w \in writers : WriterLoads(w) \/ WriterSaves(w) \/ WriterStores(w) \/ WriterFails(w)
  /\ UNCHANGED <<log, uiVars, toWorker, phase, deferred, installed, cell, turnVars, overlap>>

------------------------------------------------------------------------------
(* The first answer, which tells the UI the values at the start, has been   *)
(* taken: it changes nothing here.                                          *)
Init ==
  /\ log = <<>> /\ pending = {} /\ toWorker = <<>> /\ toUI = <<>> /\ deferred = <<>>
  /\ requested = [f \in Fields |-> 0]
  /\ active    = [f \in Fields |-> 0]
  /\ installed = [f \in Fields |-> 0]
  /\ disk      = [f \in Fields |-> 0]
  /\ marker = NoMark /\ lastAck = 0
  /\ phase = "idle" /\ cell = {} /\ turnModel = 0 /\ published = FALSE /\ turns = 0
  /\ writers = {} /\ overlap = FALSE

Next ==
  \/ Ask \/ SaveProviderForm
  \/ ReceiveIdle \/ ReceiveInTurn \/ Settle
  \/ StartTurn \/ AdoptSwitch \/ SkillSwitches \/ SubAgentAdopts \/ EndTurn \/ Settled
  \/ TakeAck \/ TakeWriteResult \/ WriterStep

Spec == Init /\ [][Next]_vars

------------------------------------------------------------------------------
(* Properties.                                                              *)

Sent == 1 .. Len(log)

Request == [numbered : BOOLEAN, fields : SUBSET Fields, keep : BOOLEAN, outcome : Outcomes]
Writer  == [of : Sent, step : {"load", "save", "store"}, read : Settings]
Message == [kind : {"ack"}, of : Sent, outcome : Outcomes, snapshot : Settings]
             \cup [kind : {"written"}, of : Sent, ok : BOOLEAN]

TypeOK ==
  /\ log \in Seq(Request)
  /\ Len(log) <= MaxRequests
  /\ requested \in Settings /\ active \in Settings /\ installed \in Settings
  /\ disk \in Settings
  /\ pending \subseteq Sent
  /\ marker \in [state : {"none", "pending", "saved", "failed"}, rev : 0 .. MaxRequests]
  /\ lastAck \in 0 .. MaxRequests
  /\ toWorker \in Seq(Sent) /\ deferred \in Seq(Sent)
  /\ toUI \in Seq(Message)
  /\ phase \in {"idle", "turn", "settle"}
  /\ cell \in {{}} \cup {{m} : m \in 0 .. Skill} /\ turnModel \in 0 .. Skill
  /\ published \in BOOLEAN /\ turns \in 0 .. MaxTurns
  /\ writers \subseteq Writer
  /\ overlap \in BOOLEAN

(* A superseded request is one whose every field a later request that was   *)
(* not itself superseded answers for, and a request to be kept is answered  *)
(* for by ones to be kept: is_fully_superseded, chained over the queue,     *)
(* loses no field of what the user last asked for.                          *)
Answers(t, s, f) ==
  /\ t > s /\ Numbered(t) /\ f \in log[t].fields
  /\ log[t].outcome # "superseded"
  /\ log[s].keep => log[t].keep

NoIntentIsLost ==
  \A s \in Sent : log[s].outcome = "superseded" =>
    \A f \in log[s].fields : \E t \in Sent : Answers(t, s, f)

(* The worker holds, for each field, the last value asked for that was not  *)
(* refused or superseded.                                                   *)
LastRequestWins ==
  \A f \in Fields :
    /\ installed[f] # 0 =>
         f \in log[installed[f]].fields /\ log[installed[f]].outcome = "applied"
    /\ \A s \in Sent : log[s].outcome = "applied" /\ f \in log[s].fields => s <= installed[f]

(* A late answer does not put back the value shown as requested while a     *)
(* newer request for that field is without an answer.                       *)
IntentIsKept == \A s \in pending : \A f \in log[s].fields : requested[f] >= s

AtRest == toWorker = <<>> /\ toUI = <<>> /\ phase = "idle" /\ writers = {}

(* Once everything has been answered the UI shows what the worker holds and *)
(* no request as pending; only the model can differ, and only after a       *)
(* provider form was saved.                                                 *)
UIShowsTheWorker ==
  AtRest =>
    /\ pending = {}
    /\ \A f \in Fields : (f = "model" => \A s \in Sent : Numbered(s)) => active[f] = installed[f]

(* When nothing is under way the UI does not show a write as pending, unless*)
(* a session-only change followed the one to be written.                    *)
MarkerSettles ==
  AtRest /\ marker.state = "pending" =>
    \E s \in Sent : s > marker.rev /\ Numbered(s) /\ ~log[s].keep

(* What the UI calls saved is on disk, unless two writers ran at once.      *)
SavedIsOnDisk ==
  marker.state = "saved" /\ ~overlap =>
    \A f \in log[marker.rev].fields : disk[f] >= marker.rev

(* Stated at StarAgent::apply_runtime_settings: a change is installed for   *)
(* the next user turn.  So a turn during which nobody switched the model    *)
(* runs on the installed one.                                               *)
TurnRunsOnTheSetting == phase = "turn" /\ ~published => turnModel = installed["model"]
=============================================================================
