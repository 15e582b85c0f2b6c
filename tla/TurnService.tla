---------------------------- MODULE TurnService ----------------------------
(***************************************************************************)
(* What the agent worker promises a user who types messages while it works *)
(* (the behaviour that RuntimeWorker implements with a channel, a steering *)
(* queue, a session and a loop): messages wait in one queue; a turn begins *)
(* with the oldest, later ones may join it, and what joins keeps the order *)
(* and leaves nothing behind.  A message reaches the model once, or is     *)
(* refused before its turn, or is dropped when the service stops.          *)
(***************************************************************************)
EXTENDS Sequences, Naturals

CONSTANT Message

VARIABLES
  waiting,   \* messages accepted and not yet seen by the model, oldest first
  seen,      \* messages the model got, in order
  state      \* "free", "starting" or "busy" with a turn, or "over"

Init == waiting = <<>> /\ seen = <<>> /\ state = "free"

Accept(m) ==
  /\ state # "over"
  /\ waiting' = Append(waiting, m)
  /\ UNCHANGED <<seen, state>>

Begin ==
  /\ state = "free" /\ waiting # <<>>
  /\ state' = "starting"
  /\ UNCHANGED <<waiting, seen>>

(* The message the turn began with is turned down. *)
Refuse ==
  /\ state = "starting" /\ waiting # <<>>
  /\ waiting' = Tail(waiting)
  /\ state' = "free"
  /\ UNCHANGED seen

(* The n oldest messages reach the model together. *)
Deliver(n) ==
  /\ state \in {"starting", "busy"}
  /\ state' = "busy"
  /\ seen' = seen \o SubSeq(waiting, 1, n)
  /\ waiting' = SubSeq(waiting, n + 1, Len(waiting))

Finish == state = "busy" /\ state' = "free" /\ UNCHANGED <<waiting, seen>>

Stop == state # "over" /\ state' = "over" /\ waiting' = <<>> /\ UNCHANGED seen

Next ==
  \/ \E m \in Message : Accept(m)
  \/ Begin \/ Refuse \/ Finish \/ Stop
  \/ \E n \in 1..Len(waiting) : Deliver(n)

Spec == Init /\ [][Next]_<<waiting, seen, state>>
=============================================================================
