-------------------------- MODULE ActionLedgerSpec ---------------------------
(***************************************************************************)
(* What the action ledger promises, with no file, lock or cached copy: one *)
(* register whose actions are born once, move one at a time and never      *)
(* leave a terminal state, and which holds at most one action per          *)
(* idempotency key that has not failed.                                    *)
(***************************************************************************)
EXTENDS ActionRecords

VARIABLE actions

Init == actions = EmptyLedger

(* A record as begin_action writes it, for a key nothing else claims.      *)
Born(i) ==
  /\ actions[i] = Absent
  /\ actions'[i].state = "RUNNING"
  /\ actions'[i].key \in Key
  /\ actions'[i].resume_from = None
  /\ \A j \in ActionId \ {i} :
        actions[j].key = actions'[i].key => actions[j].state = "FAILED"

(* An unfinished action moves: its key stays, and it is RESUMED only after *)
(* it was INTERRUPTED or put on HOLD.                                      *)
Moved(i) ==
  /\ Active(actions, i)
  /\ actions'[i].state \in ACTION_STATES
  /\ actions'[i].key = actions[i].key
  /\ Valid(actions'[i])
  /\ (actions'[i].state = "RESUMED" /\ actions[i].state # "RESUMED")
       => actions[i].state \in RESUMABLE_ACTION_STATES

Next ==
  \E i \in ActionId :
    /\ actions' \in Ledger
    /\ \A j \in ActionId \ {i} : actions'[j] = actions[j]
    /\ Born(i) \/ Moved(i)

Spec == Init /\ [][Next]_actions

(* At most one action of a key has not failed, so an effect is claimed     *)
(* once.                                                                   *)
ClaimedOnce ==
  \A i, j \in ActionId :
    /\ Present(actions, i) /\ Present(actions, j)
    /\ actions[i].key = actions[j].key
    /\ actions[i].state # "FAILED" /\ actions[j].state # "FAILED"
    => i = j
==============================================================================
