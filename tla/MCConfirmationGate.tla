------------------------- MODULE MCConfirmationGate -------------------------
(* A first turn with a shell command on a sensitive file, which runs alone *)
(* and has the abort token; a second turn with two calls side by side of   *)
(* one tool, which asks about every invocation but accepts lasting answers.*)
EXTENDS ConfirmationGate, TLC

CONSTANTS k, l, m

TwoTurns == << <<{k}>>, <<{l, m}>> >>
Tools == k :> "Bash" @@ l :> "Fetch" @@ m :> "Fetch"
=============================================================================
