-------------------------- MODULE MCMobileApproval ---------------------------
(* Two processes of the tool, two handler threads and two pages.  The      *)
(* liveness property rules symmetry out.                                   *)
EXTENDS MobileApproval
==============================================================================
