---------------------------- MODULE MCWorkLedger -----------------------------
(* Updates like those of apply_conversation_event: a new state, a whole new *)
(* evidence list, or a seal the caller gives on top of the rest.            *)
EXTENDS WorkLedger, TLC

(* An open task, a sealed one that is not DONE, and one born DONE.          *)
MCNewTasks ==
  {TaskIn("TODO"), TaskGiven("HOLD", "given", {}), TaskGiven("DONE", "none", Evidence)}

Arg(s, c, e) == [state |-> s, sealing |-> c, evidence |-> e, blockers |-> Keep]

MCTaskChanges ==
  {Arg("DONE", FALSE, Keep), Arg("DOING", FALSE, {}), Arg(Keep, TRUE, Keep)}

Symm == Permutations(Task)
==============================================================================
