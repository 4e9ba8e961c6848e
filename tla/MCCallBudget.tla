---------------------------- MODULE MCCallBudget ----------------------------
(* Small instances of CallBudget for TLC.                                  *)
EXTENDS CallBudget, TLC

TaskSymmetry == Permutations(Tasks)
=============================================================================
