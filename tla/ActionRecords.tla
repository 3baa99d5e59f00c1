---------------------------- MODULE ActionRecords ----------------------------
(***************************************************************************)
(* The records of state/ACTION_LEDGER.json and the decisions               *)
(* core/execution_continuity.py takes about them.  A ledger maps every     *)
(* ACTION_ID to its record; an id that was never begun has the record      *)
(* Absent.  Of a record only STATE, IDEMPOTENCY_KEY and RESUME_FROM are    *)
(* kept: no decision of the code reads another field.                      *)
(***************************************************************************)
CONSTANTS
  ActionId,       (* ACTION_ID values                                      *)
  Key,            (* IDEMPOTENCY_KEY values                                *)
  ResumePoint,    (* RESUME_FROM values other than null                    *)
  NoKey,          (* the key of an id that was never begun                 *)
  None,           (* RESUME_FROM = null                                    *)
  Keep            (* a field the caller's **changes does not name          *)

ACTION_STATES ==
  {"RUNNING", "WAITING", "INTERRUPTED", "RESUMED", "DONE", "FAILED", "HOLD"}
TERMINAL_ACTION_STATES == {"DONE", "FAILED"}
RESUMABLE_ACTION_STATES == {"INTERRUPTED", "HOLD"}

ASSUME RecordAssumption ==
  /\ NoKey \notin Key
  /\ None \notin ResumePoint
  /\ Keep \notin Key \cup {NoKey} \cup ResumePoint \cup {None} \cup ACTION_STATES

Action ==
  [state       : ACTION_STATES \cup {"ABSENT"},
   key         : Key \cup {NoKey},
   resume_from : ResumePoint \cup {None}]

Absent == [state |-> "ABSENT", key |-> NoKey, resume_from |-> None]

Ledger == [ActionId -> Action]
EmptyLedger == [i \in ActionId |-> Absent]

(* The keyword arguments of update_action that the decisions depend on.    *)
Change ==
  [state       : ACTION_STATES \cup {Keep},
   key         : Key \cup {Keep},
   resume_from : ResumePoint \cup {None, Keep}]

Present(l, i)  == l[i].state # "ABSENT"
Terminal(l, i) == l[i].state \in TERMINAL_ACTION_STATES
Active(l, i)   == Present(l, i) /\ ~Terminal(l, i)

(* _validate_action: a terminal action cannot retain RESUME_FROM.          *)
Valid(a) == a.state \in TERMINAL_ACTION_STATES => a.resume_from = None

(* _load_or_init accepts the file.                                         *)
Loadable(l) == \A i \in ActionId : Valid(l[i])

(* Faulty variant: only running actions of the key are looked for.         *)
CanBegin_IgnoresDone(l, i, k) ==
  ~Present(l, i) /\ \A j \in ActionId : l[j].key = k => ~Active(l, j)

(* begin_action: the id is new, and every action of the key has failed.    *)
CanBegin(l, i, k) ==
  /\ ~Present(l, i)
  /\ \A j \in ActionId : l[j].key = k => l[j].state = "FAILED"

Begun(l, i, k) ==
  [l EXCEPT ![i] = [state |-> "RUNNING", key |-> k, resume_from |-> None]]

(* dict.update on the record.                                              *)
Changed(a, c) ==
  [state       |-> IF c.state = Keep THEN a.state ELSE c.state,
   key         |-> IF c.key = Keep THEN a.key ELSE c.key,
   resume_from |-> IF c.resume_from = Keep THEN a.resume_from ELSE c.resume_from]

Updated(l, i, c) == [l EXCEPT ![i] = Changed(l[i], c)]

(* Faulty variant: resume_action's own look at the copy is trusted.        *)
CanUpdate_TrustsCopy(l, i, c) == Active(l, i) /\ c.key \in {Keep, l[i].key}

(* update_action, up to the point where the record in memory is changed.   *)
CanUpdate(l, i, c) ==
  /\ Active(l, i)
  /\ c.key \in {Keep, l[i].key}
  /\ c.state = "RESUMED" => l[i].state \in RESUMABLE_ACTION_STATES
==============================================================================
