----------------------------- MODULE WorkLedger ------------------------------
(***************************************************************************)
(* core/work_ledger.py: the task ledger as its file, the instances that    *)
(* cache it, and the drift check by which a save refuses to overwrite a    *)
(* file it did not load.                                                   *)
(*                                                                         *)
(* An instance is built by two reads of the file, first the tasks and then *)
(* the hash, without the lock; only _save takes the lock.  Threads in      *)
(* Scoped hold continuity_effect_scope around everything they do, as the   *)
(* goal runner does; the others do not, as apply_conversation_event and    *)
(* the module functions do not.  The hash of the file is its version       *)
(* number: UPDATED_AT makes every saved content differ.                    *)
(***************************************************************************)
EXTENDS TaskRecords

CONSTANTS
  Task,           (* TASK_ID values                                        *)
  Proc,           (* threads                                               *)
  Scoped,         (* those that work inside continuity_effect_scope        *)
  NoProc,         (* the lock is free                                      *)
  NewTasks,       (* the tasks callers pass to create_task                 *)
  TaskChanges,    (* the **changes callers pass to update_task             *)
  MaxCalls        (* bound on the operations started                       *)

ASSUME WorkAssumption ==
  /\ NoProc \notin Proc
  /\ Scoped \subseteq Proc
  /\ NewTasks \subseteq GivenTask
  /\ TaskChanges \subseteq TaskChange
  /\ Keep \notin ALLOWED_STATES
  /\ \A S \in (SUBSET Evidence) \cup (SUBSET Blocker) : S # Keep
  /\ MaxCalls \in Nat

VARIABLES
  file,           (* the tasks of WORK_LEDGER.json                         *)
  ver,            (* its hash                                              *)
  lock,           (* the thread that holds the flock, or NoProc            *)
  scope,          (* whether a thread holds it for more than one save      *)
  data,           (* self.data of every thread's instance                  *)
  sha,            (* self._loaded_sha256                                   *)
  own,            (* history: the tasks its operations changed since it    *)
                  (* was read or saved                                     *)
  pc,             (* where every thread is                                 *)
  calls           (* number of operations started, for the bound           *)

vars == <<file, ver, lock, scope, data, sha, own, pc, calls>>

Tasks == [Task -> TaskRecord]
NoTasks == [t \in Task |-> NoTask]
Places == {"down", "opening", "ready", "locking", "check", "replace", "leave"}

(* The ledger must exist; old ones hold DONE tasks that were never sealed. *)
Init ==
  /\ file \in [Task -> {NoTask, TaskIn("TODO"), TaskIn("DONE")}]
  /\ ver = 0
  /\ lock = NoProc
  /\ scope = [p \in Proc |-> FALSE]
  /\ data = [p \in Proc |-> NoTasks]
  /\ sha = [p \in Proc |-> 0]
  /\ own = [p \in Proc |-> {}]
  /\ pc = [p \in Proc |-> "down"]
  /\ calls = 0

-----------------------------------------------------------------------------
OpenScope(p) ==
  /\ p \in Scoped /\ pc[p] = "down" /\ lock = NoProc
  /\ lock' = p
  /\ scope' = [scope EXCEPT ![p] = TRUE]
  /\ UNCHANGED <<file, ver, data, sha, own, pc, calls>>

(* The instance does not outlive the scope.                                *)
CloseScope(p) ==
  /\ scope[p] /\ pc[p] = "ready"
  /\ lock' = NoProc
  /\ scope' = [scope EXCEPT ![p] = FALSE]
  /\ pc' = [pc EXCEPT ![p] = "down"]
  /\ UNCHANGED <<file, ver, data, sha, own, calls>>

(* WorkLedger(): first the tasks ...                                       *)
ReadTasks(p) ==
  /\ pc[p] \in {"down", "ready"}
  /\ p \in Scoped => scope[p]
  /\ data' = [data EXCEPT ![p] = file]
  /\ own' = [own EXCEPT ![p] = {}]
  /\ pc' = [pc EXCEPT ![p] = "opening"]
  /\ UNCHANGED <<file, ver, lock, scope, sha, calls>>

(* ... then the bytes again, for the hash.                                 *)
ReadHash(p) ==
  /\ pc[p] = "opening"
  /\ sha' = [sha EXCEPT ![p] = ver]
  /\ pc' = [pc EXCEPT ![p] = "ready"]
  /\ UNCHANGED <<file, ver, lock, scope, data, own, calls>>

-----------------------------------------------------------------------------
(* An accepted operation changes the data in memory and goes on to _save.  *)
(* A failed save does not undo it.                                         *)
Accept(p, t, rec) ==
  /\ pc[p] = "ready" /\ calls < MaxCalls
  /\ data' = [data EXCEPT ![p][t] = rec]
  /\ pc' = [pc EXCEPT ![p] = "locking"]
  /\ own' = [own EXCEPT ![p] = @ \cup {t}]
  /\ calls' = calls + 1
  /\ UNCHANGED <<file, ver, lock, scope, sha>>

CreateTask(p, t) ==
  \E new \in NewTasks :
    /\ ~Exists(data[p][t])
    /\ Accept(p, t, new)

UpdateTask(p, t) ==
  \E c \in TaskChanges :
    /\ CanUpdateTask(data[p][t])
    /\ Accept(p, t, Merged(data[p][t], c))

CompleteTask(p, t) ==
  \E items \in {{}} \cup {{e} : e \in Evidence} :
    /\ CanUpdateTask(data[p][t])
    /\ Accept(p, t, Completed(data[p][t], items))

ReopenTask(p, t) ==
  /\ CanReopen(data[p][t])
  /\ Accept(p, t, Reopened(data[p][t]))

BlockTask(p, t) ==
  \E b \in Blocker :
    /\ CanUpdateTask(data[p][t])
    /\ Accept(p, t, Blocked(data[p][t], b))

(* The goal runner's record of what a run did.                             *)
AppendEvidence(p, t) ==
  \E e \in Evidence :
    /\ Exists(data[p][t]) /\ ~Protected(data[p][t])
    /\ e \notin data[p][t].evidence
    /\ Accept(p, t, WithEvidence(data[p][t], e))

Operation(p) ==
  \E t \in Task :
    \/ CreateTask(p, t) \/ UpdateTask(p, t) \/ CompleteTask(p, t)
    \/ ReopenTask(p, t) \/ BlockTask(p, t) \/ AppendEvidence(p, t)

-----------------------------------------------------------------------------
(* Faulty variant: the hash is compared before the lock is taken.          *)
SaveEnter_NoLock(p) ==
  /\ pc[p] = "locking"
  /\ pc' = [pc EXCEPT ![p] = "check"]
  /\ UNCHANGED <<file, ver, lock, scope, data, sha, own, calls>>

SaveEnter(p) ==
  /\ pc[p] = "locking"
  /\ scope[p] \/ lock = NoProc
  /\ lock' = p
  /\ pc' = [pc EXCEPT ![p] = "check"]
  /\ UNCHANGED <<file, ver, scope, data, sha, own, calls>>

(* WORK_LEDGER_PREIMAGE_DRIFT.                                             *)
SaveCheck(p) ==
  /\ pc[p] = "check"
  /\ pc' = [pc EXCEPT ![p] = IF sha[p] = ver THEN "replace" ELSE "leave"]
  /\ UNCHANGED <<file, ver, lock, scope, data, sha, own, calls>>

(* os.replace and the hash of what was written.                            *)
SaveReplace(p) ==
  /\ pc[p] = "replace"
  /\ file' = data[p]
  /\ ver' = ver + 1
  /\ sha' = [sha EXCEPT ![p] = ver + 1]
  /\ own' = [own EXCEPT ![p] = {}]
  /\ pc' = [pc EXCEPT ![p] = "leave"]
  /\ UNCHANGED <<lock, scope, data, calls>>

SaveFails(p) ==
  /\ pc[p] = "replace"
  /\ pc' = [pc EXCEPT ![p] = "leave"]
  /\ UNCHANGED <<file, ver, lock, scope, data, sha, own, calls>>

SaveLeave(p) ==
  /\ pc[p] = "leave"
  /\ lock' = IF scope[p] THEN lock ELSE NoProc
  /\ pc' = [pc EXCEPT ![p] = "ready"]
  /\ UNCHANGED <<file, ver, scope, data, sha, own, calls>>

Crash(p) ==
  /\ pc[p] # "down" \/ scope[p]
  /\ lock' = IF lock = p THEN NoProc ELSE lock
  /\ scope' = [scope EXCEPT ![p] = FALSE]
  /\ data' = [data EXCEPT ![p] = NoTasks]
  /\ own' = [own EXCEPT ![p] = {}]
  /\ pc' = [pc EXCEPT ![p] = "down"]
  /\ UNCHANGED <<file, ver, sha, calls>>

Next ==
  \E p \in Proc :
    \/ OpenScope(p) \/ CloseScope(p) \/ ReadTasks(p) \/ ReadHash(p) \/ Operation(p)
    \/ SaveEnter(p) \/ SaveCheck(p) \/ SaveReplace(p) \/ SaveFails(p) \/ SaveLeave(p)
    \/ Crash(p)

Spec == Init /\ [][Next]_vars

-----------------------------------------------------------------------------
TypeOK ==
  /\ file \in Tasks
  /\ ver \in Nat
  /\ lock \in Proc \cup {NoProc}
  /\ scope \in [Proc -> BOOLEAN]
  /\ data \in [Proc -> Tasks]
  /\ sha \in [Proc -> Nat]
  /\ own \in [Proc -> SUBSET Task]
  /\ pc \in [Proc -> Places]
  /\ calls \in Nat

(* The file cannot change between the drift check and os.replace: the      *)
(* version a thread is about to replace is the one its hash names.         *)
ReplacesCheckedFile == \A p \in Proc : pc[p] = "replace" => sha[p] = ver

(* A thread that holds continuity_effect_scope from the construction of    *)
(* the ledger to the save never undoes another thread's save: what it      *)
(* writes is the file, except for the tasks its own operations changed     *)
(* since it read or saved them, failed saves included.                     *)
ScopedLosesNothing ==
  \A p \in Scoped : pc[p] = "replace" =>
    \A t \in Task \ own[p] : data[p][t] = file[t]

(* Nothing that complete_task sealed goes on changing: until a reopening   *)
(* removes the seal the task stays DONE, with the evidence EVIDENCE_SHA256 *)
(* covers, although a caller may seal any open task without completing it. *)
SealCoversEvidence ==
  \A t \in Task : file[t].seal = "completed" =>
    file[t].state = "DONE" /\ file[t].evidence = file[t].sealed_evidence

ReopenedOrKept(t) ==
  Closed(file[t]) => \/ file'[t] = file[t]
                     \/ file'[t].reopened > file[t].reopened

(* "closed task requires explicit reopen_task": a closed task of the file  *)
(* changes only by a reopening.                                            *)
ClosedNeedsReopen == [][\A t \in Task : ReopenedOrKept(t)]_vars

(* The same of the saves of threads that hold the scope from construction  *)
(* on, whatever those that do not are doing.                               *)
ScopedNeedsReopen ==
  [][\A p \in Scoped :
        SaveReplace(p) => \A t \in Task : ReopenedOrKept(t)]_vars
==============================================================================
