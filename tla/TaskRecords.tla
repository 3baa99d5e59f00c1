----------------------------- MODULE TaskRecords -----------------------------
(***************************************************************************)
(* The tasks of state/WORK_LEDGER.json and the operations of               *)
(* core/work_ledger.py on one of them.  Kept of a task: STATE, D4_EVIDENCE *)
(* and BLOCKERS as sets, and the COMPLETION_SEAL: none, one complete_task  *)
(* made, or one a caller gave, which may be anything.  sealed_evidence is  *)
(* what EVIDENCE_SHA256 of complete_task's seal is the hash of.  reopened  *)
(* is history: the number of reopen_task calls the task went through, also *)
(* when a caller overwrites REOPEN_HISTORY.  A task that does not exist is *)
(* NoTask.  Callers pass lists where the ledger wants lists.               *)
(***************************************************************************)
EXTENDS Naturals

CONSTANTS
  Evidence,       (* items of D4_EVIDENCE                                  *)
  Blocker,        (* items of BLOCKERS                                     *)
  Keep            (* a field the caller's **changes does not name          *)

ALLOWED_STATES == {"TODO", "DOING", "BLOCKED", "HOLD", "DONE", "CANCELLED"}

TaskRecord ==
  [state    : ALLOWED_STATES \cup {"ABSENT"},
   seal     : {"none", "completed", "given"},
   sealed_evidence : SUBSET Evidence,
   evidence : SUBSET Evidence,
   blockers : SUBSET Blocker,
   reopened : Nat]

TaskGiven(s, seal, items) ==
  [state |-> s, seal |-> seal, sealed_evidence |-> {}, evidence |-> items,
   blockers |-> {}, reopened |-> 0]
TaskIn(s) == TaskGiven(s, "none", {})
NoTask == TaskIn("ABSENT")

(* What create_task takes as it is: any STATE, with a seal or without.     *)
GivenTask ==
  {TaskGiven(s, seal, items) :
     s \in ALLOWED_STATES, seal \in {"none", "given"}, items \in SUBSET Evidence}

(* The keyword arguments of update_task; sealing says that COMPLETION_SEAL *)
(* is among them.                                                          *)
TaskChange ==
  [state    : ALLOWED_STATES \cup {Keep},
   sealing  : BOOLEAN,
   evidence : {Keep} \cup SUBSET Evidence,
   blockers : {Keep} \cup SUBSET Blocker]

Exists(t) == t.state # "ABSENT"
Sealed(t) == t.seal # "none"
Closed(t) == t.state = "DONE" \/ Sealed(t)

(* dict.update on the task.                                                *)
Merged(t, c) ==
  [t EXCEPT !.state = IF c.state = Keep THEN @ ELSE c.state,
            !.seal = IF c.sealing THEN "given" ELSE @,
            !.evidence = IF c.evidence = Keep THEN @ ELSE c.evidence,
            !.blockers = IF c.blockers = Keep THEN @ ELSE c.blockers]

(* Faulty variant: only a seal closes a task.                              *)
CanUpdateTask_SealOnly(t) == Exists(t) /\ ~Sealed(t)

(* update_task leaves a closed task alone, and raises if it would change.  *)
CanUpdateTask(t) == Exists(t) /\ ~Closed(t)

(* complete_task: the evidence is appended and the scope is sealed.        *)
Completed(t, items) ==
  [t EXCEPT !.state = "DONE", !.seal = "completed",
            !.sealed_evidence = t.evidence \cup items,
            !.evidence = @ \cup items, !.blockers = {}]

CanReopen(t) == t.state = "DONE"

(* Faulty variant: the seal stays on the reopened task.                    *)
Reopened_KeepsSeal(t) ==
  [t EXCEPT !.state = "TODO", !.blockers = {}, !.reopened = @ + 1]

(* reopen_task: the old seal moves to REOPEN_HISTORY.                      *)
Reopened(t) ==
  [state |-> "TODO", seal |-> "none", sealed_evidence |-> {},
   evidence |-> t.evidence, blockers |-> {}, reopened |-> t.reopened + 1]

(* block_task.                                                             *)
Blocked(t, b) == [t EXCEPT !.state = "BLOCKED", !.blockers = @ \cup {b}]

(* _append_work_evidence: a protected task gets no evidence.               *)
Protected(t) == t.state \in {"DONE", "CANCELLED", "HOLD"} \/ Sealed(t)
WithEvidence(t, e) == [t EXCEPT !.evidence = @ \cup {e}]
==============================================================================
