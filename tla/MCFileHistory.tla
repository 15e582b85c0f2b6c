--------------------------- MODULE MCFileHistory ---------------------------
(* Two files that are alike, for TLC. *)
EXTENDS FileHistory, TLC

AlikeFiles == Permutations(Files)
=============================================================================
