---------------------------- MODULE MCGoalRunner -----------------------------
(* The symmetries of the goal runner: runs, files and, where all goals are  *)
(* alike, goals.                                                            *)
EXTENDS GoalRunner, TLC

Symm == Permutations(ActionId) \cup Permutations(File)
==============================================================================
