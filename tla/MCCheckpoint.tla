---------------------------- MODULE MCCheckpoint -----------------------------
(* Threads of one kind are alike; the configurations name them.             *)
EXTENDS Checkpoint, TLC

Symm == Permutations(Decision)
==============================================================================
