--------------------------- MODULE MCEvidenceLedger ----------------------------
(* Small instances of EvidenceLedger for TLC.                              *)
EXTENDS EvidenceLedger, TLC
Symm == Permutations(Proc)
==============================================================================
