------------------------------ MODULE MCEdgeQueue ------------------------------
(* Small instances of EdgeQueue for TLC.                                   *)
EXTENDS EdgeQueue, TLC
Symm == Permutations(Producer) \cup Permutations(Intent)
==============================================================================
