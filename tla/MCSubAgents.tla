---------------------------- MODULE MCSubAgents ----------------------------
(* Instances of SubAgents for TLC.                                         *)
EXTENDS SubAgents

CONSTANTS a1, a2

OneAgent == {a1}
TwoAgents == {a1, a2}
=============================================================================
