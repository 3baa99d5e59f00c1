--------------------------- MODULE MCActionLedger ----------------------------
(* Two threads, the argument sets of the wrappers of update_action and of   *)
(* the bare updates the goal runner makes.                                  *)
EXTENDS ActionLedger, TLC

CONSTANT r1

Arg(s, k, r) == [state |-> s, key |-> k, resume_from |-> r]

MCChanges ==
  { Arg("WAITING", Keep, Keep),       \* mark_waiting
    Arg("INTERRUPTED", Keep, r1),     \* mark_interrupted
    Arg("RESUMED", Keep, r1),         \* resume_action
    Arg("DONE", Keep, None),          \* complete_action
    Arg("FAILED", Keep, None),        \* fail_action
    Arg("DONE", Keep, Keep),          \* update_action(STATE="DONE")
    Arg("HOLD", Keep, r1) }           \* update_action(STATE="HOLD", ...)
  \cup {Arg(Keep, k, Keep) : k \in Key}  \* update_action(IDEMPOTENCY_KEY=k)

Symm == Permutations(ActionId) \cup Permutations(Proc) \cup Permutations(Key)
==============================================================================
