---------------------------- MODULE MCTaskList ----------------------------
(* Instances of TaskList for TLC.                                          *)
EXTENDS TaskList, TLC

CONSTANTS t1, t2, t3

ThreeTasks == {t1, t2, t3}
TwoOfThem  == {t1, t2}
Alike      == Permutations(TwoOfThem)
=============================================================================
