-------------------------- MODULE WorkLedger_proofs --------------------------
(***************************************************************************)
(* Proofs about WorkLedger, for any tasks, evidence, blockers, threads,    *)
(* callers' changes and bounds.  What a scoped thread holds in memory is   *)
(* the file with legal operations applied, because nobody else can save    *)
(* while it holds the scope; ScopeInv states it.                           *)
(***************************************************************************)
EXTENDS WorkLedger, TLAPS

(* A thread inside a save holds the flock, and so does an open scope; a    *)
(* scoped thread has its instance only inside its scope.                   *)
LockInv ==
  /\ \A p \in Proc : pc[p] \in {"check", "replace", "leave"} => lock = p
  /\ \A p \in Proc : scope[p] => lock = p
  /\ \A p \in Scoped : pc[p] # "down" => scope[p]

(* The seal of complete_task is on a DONE task whose evidence it covers.   *)
SealHolds(r) ==
  /\ r.seal = "completed" => r.state = "DONE" /\ r.evidence = r.sealed_evidence
  /\ ~Exists(r) => ~Sealed(r)

SealInv ==
  /\ \A t \in Task : SealHolds(file[t])
  /\ \A p \in Proc, t \in Task : SealHolds(data[p][t])

(* The task of a copy is that of the file, or reopened since.              *)
KeptOrReopened(p, t) ==
  Closed(file[t]) =>
    \/ data[p][t] = file[t]
    \/ Exists(data[p][t]) /\ data[p][t].reopened > file[t].reopened

ScopeInv ==
  \A p \in Scoped : pc[p] # "down" =>
    /\ \A t \in Task \ own[p] : data[p][t] = file[t]
    /\ \A t \in Task : KeptOrReopened(p, t)

IInv == TypeOK /\ LockInv /\ ReplacesCheckedFile /\ SealInv /\ ScopeInv

-----------------------------------------------------------------------------
(* What an operation may make of a task: it exists, complete_task's seal   *)
(* holds on it, and it counts one more reopening if it was closed.         *)
Legal(old, new) ==
  /\ new \in TaskRecord /\ Exists(new)
  /\ SealHolds(new)
  /\ Exists(old) => new.reopened >= old.reopened
  /\ Closed(old) => new.reopened > old.reopened

(* The records the operations of core/work_ledger.py build are legal.      *)
LEMMA MergedLegal ==
  ASSUME NEW r \in TaskRecord, CanUpdateTask(r), NEW c \in TaskChange
  PROVE  Legal(r, Merged(r, c))
  <1>1. Merged(r, c) \in TaskRecord
    BY WorkAssumption DEF TaskRecord, TaskChange, Merged, ALLOWED_STATES, Exists
  <1>2. Exists(Merged(r, c))
    BY WorkAssumption DEF TaskRecord, TaskChange, Merged, Exists, ALLOWED_STATES, CanUpdateTask
  <1>3. SealHolds(Merged(r, c))
    BY <1>2 DEF TaskRecord, Merged, SealHolds, Sealed, CanUpdateTask, Closed
  <1>4. Merged(r, c).reopened >= r.reopened
    BY DEF TaskRecord, Merged
  <1>5. Closed(r) => Merged(r, c).reopened > r.reopened
    BY DEF TaskRecord, Closed, Merged, CanUpdateTask
  <1> QED BY <1>1, <1>2, <1>3, <1>4, <1>5 DEF Legal

(* complete_task is a legal change of the tasks.                           *)
LEMMA CompletedLegal ==
  ASSUME NEW r \in TaskRecord, CanUpdateTask(r), NEW items \in SUBSET Evidence
  PROVE  Legal(r, Completed(r, items))
  <1>1. Completed(r, items) \in TaskRecord
    BY WorkAssumption DEF TaskRecord, TaskChange, Completed, ALLOWED_STATES
  <1>2. Exists(Completed(r, items))
    BY WorkAssumption DEF TaskRecord, TaskChange, Completed, Exists, ALLOWED_STATES, CanUpdateTask
  <1>3. SealHolds(Completed(r, items))
    BY <1>2 DEF TaskRecord, Completed, SealHolds, Sealed, CanUpdateTask, Closed
  <1>4. Completed(r, items).reopened >= r.reopened
    BY DEF TaskRecord, Completed
  <1>5. Closed(r) => Completed(r, items).reopened > r.reopened
    BY DEF TaskRecord, Closed, Completed, CanUpdateTask
  <1> QED BY <1>1, <1>2, <1>3, <1>4, <1>5 DEF Legal

(* reopen_task is a legal change of the tasks.                             *)
LEMMA ReopenedLegal ==
  ASSUME NEW r \in TaskRecord, CanReopen(r)
  PROVE  Legal(r, Reopened(r))
  <1>1. Reopened(r) \in TaskRecord
    BY DEF TaskRecord, Reopened, ALLOWED_STATES
  <1>2. Exists(Reopened(r))
    BY WorkAssumption DEF TaskRecord, TaskChange, Reopened, Exists, ALLOWED_STATES
  <1>3. SealHolds(Reopened(r))
    BY <1>2 DEF TaskRecord, Reopened, SealHolds, Sealed
  <1>4. Reopened(r).reopened >= r.reopened
    BY DEF TaskRecord, Reopened
  <1>5. Closed(r) => Reopened(r).reopened > r.reopened
    BY DEF TaskRecord, Closed, Reopened
  <1> QED BY <1>1, <1>2, <1>3, <1>4, <1>5 DEF Legal

(* block_task is a legal change of the tasks.                              *)
LEMMA BlockedLegal ==
  ASSUME NEW r \in TaskRecord, CanUpdateTask(r), NEW b \in Blocker
  PROVE  Legal(r, Blocked(r, b))
  <1>1. Blocked(r, b) \in TaskRecord
    BY WorkAssumption DEF TaskRecord, TaskChange, Blocked, ALLOWED_STATES
  <1>2. Exists(Blocked(r, b))
    BY WorkAssumption DEF TaskRecord, TaskChange, Blocked, Exists, ALLOWED_STATES, CanUpdateTask
  <1>3. SealHolds(Blocked(r, b))
    BY <1>2 DEF TaskRecord, Blocked, SealHolds, Sealed, CanUpdateTask, Closed
  <1>4. Blocked(r, b).reopened >= r.reopened
    BY DEF TaskRecord, Blocked
  <1>5. Closed(r) => Blocked(r, b).reopened > r.reopened
    BY DEF TaskRecord, Closed, Blocked, CanUpdateTask
  <1> QED BY <1>1, <1>2, <1>3, <1>4, <1>5 DEF Legal

(* Appending evidence is a legal change of the tasks.                      *)
LEMMA EvidenceLegal ==
  ASSUME NEW r \in TaskRecord, Exists(r), ~Protected(r), NEW e \in Evidence
  PROVE  Legal(r, WithEvidence(r, e))
  <1>1. WithEvidence(r, e) \in TaskRecord
    BY WorkAssumption DEF TaskRecord, TaskChange, WithEvidence, ALLOWED_STATES
  <1>2. Exists(WithEvidence(r, e))
    BY WorkAssumption DEF TaskRecord, TaskChange, WithEvidence, Exists, ALLOWED_STATES, Protected
  <1>3. SealHolds(WithEvidence(r, e))
    BY <1>2 DEF TaskRecord, WithEvidence, SealHolds, Sealed, Protected
  <1>4. WithEvidence(r, e).reopened >= r.reopened
    BY DEF TaskRecord, WithEvidence
  <1>5. Closed(r) => WithEvidence(r, e).reopened > r.reopened
    BY DEF TaskRecord, Closed, WithEvidence, Protected
  <1> QED BY <1>1, <1>2, <1>3, <1>4, <1>5 DEF Legal

(* create_task is a legal change of the tasks.                             *)
LEMMA CreatedLegal ==
  ASSUME NEW r \in TaskRecord, ~Exists(r), SealHolds(r), NEW new \in GivenTask
  PROVE  Legal(r, new)
  BY DEF TaskRecord, Closed, Sealed, SealHolds, Exists, GivenTask, TaskGiven, Legal,
         ALLOWED_STATES

(* Every operation accepts one legal record.                               *)
LEMMA OperationIsLegal ==
  ASSUME TypeOK, SealInv, NEW p \in Proc, Operation(p)
  PROVE  \E t \in Task : \E rec \in TaskRecord :
           Accept(p, t, rec) /\ Legal(data[p][t], rec)
  <1>0. PICK t \in Task :
          \/ CreateTask(p, t) \/ UpdateTask(p, t) \/ CompleteTask(p, t)
          \/ ReopenTask(p, t) \/ BlockTask(p, t) \/ AppendEvidence(p, t)
    BY DEF Operation
  <1> DEFINE r == data[p][t]
  <1>r. r \in TaskRecord /\ SealHolds(r)
    BY DEF TypeOK, Tasks, SealInv
  <1> SUFFICES \E rec : Accept(p, t, rec) /\ Legal(r, rec)
    BY DEF Legal
  <1> HIDE DEF r
  <1>1. CASE CreateTask(p, t)
    BY <1>1, <1>r, CreatedLegal, WorkAssumption DEF CreateTask, r
  <1>2. CASE UpdateTask(p, t)
    BY <1>2, <1>r, MergedLegal, WorkAssumption DEF UpdateTask, r
  <1>3. CASE CompleteTask(p, t)
    BY <1>3, <1>r, CompletedLegal DEF CompleteTask, r
  <1>4. CASE ReopenTask(p, t)
    BY <1>4, <1>r, ReopenedLegal DEF ReopenTask, r
  <1>5. CASE BlockTask(p, t)
    BY <1>5, <1>r, BlockedLegal DEF BlockTask, r
  <1>6. CASE AppendEvidence(p, t)
    BY <1>6, <1>r, EvidenceLegal DEF AppendEvidence, r
  <1> QED BY <1>0, <1>1, <1>2, <1>3, <1>4, <1>5, <1>6

-----------------------------------------------------------------------------
(* The empty ledger is a ledger.                                           *)
LEMMA NoTaskType == NoTasks \in Tasks
  BY DEF NoTasks, NoTask, TaskIn, TaskGiven, Tasks, TaskRecord

(* One step keeps the types and the invariants, action by action.          *)
LEMMA StepIInv == IInv /\ [Next]_vars => IInv'
  <1> SUFFICES ASSUME IInv, [Next]_vars PROVE IInv'
    OBVIOUS
  <1> USE WorkAssumption DEF IInv, TypeOK, Places, LockInv, ReplacesCheckedFile,
                             SealInv, ScopeInv, KeptOrReopened
  <1>1. ASSUME NEW p \in Proc, OpenScope(p) PROVE IInv'
    BY <1>1 DEF OpenScope
  <1>2. ASSUME NEW p \in Proc, CloseScope(p) PROVE IInv'
    BY <1>2 DEF CloseScope
  <1>3. ASSUME NEW p \in Proc, ReadTasks(p) PROVE IInv'
    BY <1>3 DEF ReadTasks
  <1>4. ASSUME NEW p \in Proc, ReadHash(p) PROVE IInv'
    BY <1>4 DEF ReadHash
  <1>5. ASSUME NEW p \in Proc, Operation(p) PROVE IInv'
    <2>1. PICK t \in Task : \E rec \in TaskRecord :
            Accept(p, t, rec) /\ Legal(data[p][t], rec)
      BY <1>5, OperationIsLegal
    <2>2. PICK rec \in TaskRecord : Accept(p, t, rec) /\ Legal(data[p][t], rec)
      BY <2>1
    <2>3. TypeOK' /\ LockInv' /\ ReplacesCheckedFile'
      BY <2>2 DEF Accept, Tasks
    <2>4. SealInv'
      BY <2>2 DEF Accept, Legal, Tasks
    <2>5. ASSUME NEW q \in Scoped, pc'[q] # "down" PROVE \A u \in Task \ own'[q] : data'[q][u] = file'[u]
      BY <2>2, <2>5 DEF Accept, Tasks
    <2>6. ASSUME NEW q \in Scoped, pc'[q] # "down", NEW u \in Task
          PROVE  KeptOrReopened(q, u)'
      <3>1. pc[q] # "down" /\ KeptOrReopened(q, u)
        BY <2>2, <2>6 DEF Accept
      <3>2. file' = file
        BY <2>2 DEF Accept
      <3>3. CASE q # p \/ u # t
        <4>1. data'[q][u] = data[q][u]
          BY <2>2, <3>3 DEF Accept, Tasks
        <4> QED BY <3>1, <3>2, <4>1
      <3>4. CASE q = p /\ u = t
        <4>1. data'[q][u] = rec
          BY <2>2, <3>4 DEF Accept, Tasks
        <4>2. data[q][u] \in TaskRecord /\ file[u] \in TaskRecord
          BY DEF Tasks
        <4>3. Closed(file[u]) => rec.reopened > file[u].reopened
          BY <3>1, <2>2, <3>4, <4>2 DEF Legal, TaskRecord
        <4> QED BY <2>2, <3>2, <4>1, <4>3 DEF Legal
      <3> QED BY <3>3, <3>4
    <2> QED BY <2>3, <2>4, <2>5, <2>6
  <1>6. ASSUME NEW p \in Proc, SaveEnter(p) PROVE IInv'
    BY <1>6 DEF SaveEnter
  <1>7. ASSUME NEW p \in Proc, SaveCheck(p) PROVE IInv'
    BY <1>7 DEF SaveCheck
  <1>8. ASSUME NEW p \in Proc, SaveReplace(p) PROVE IInv'
    <2>1. \A q \in Proc : q # p => pc[q] \notin {"check", "replace", "leave"} /\ ~scope[q]
      BY <1>8 DEF SaveReplace
    <2>2. TypeOK' /\ LockInv' /\ ReplacesCheckedFile' /\ SealInv'
      BY <1>8, <2>1 DEF SaveReplace
    <2>3. \A q \in Scoped : pc'[q] # "down" => q = p
      BY <1>8, <2>1 DEF SaveReplace
    <2>4. ScopeInv'
      BY <1>8, <2>3 DEF SaveReplace
    <2> QED BY <2>2, <2>4
  <1>9. ASSUME NEW p \in Proc, SaveFails(p) PROVE IInv'
    BY <1>9 DEF SaveFails
  <1>10. ASSUME NEW p \in Proc, SaveLeave(p) PROVE IInv'
    BY <1>10 DEF SaveLeave
  <1>11. ASSUME NEW p \in Proc, Crash(p) PROVE IInv'
    BY <1>11, NoTaskType DEF Crash, NoTasks, NoTask, TaskIn, TaskGiven, SealHolds, Exists, Sealed
  <1>12. CASE UNCHANGED vars
    BY <1>12 DEF vars
  <1> QED
    BY <1>1, <1>2, <1>3, <1>4, <1>5, <1>6, <1>7, <1>8, <1>9, <1>10, <1>11, <1>12
    DEF Next

(* The initial states satisfy the invariant.                               *)
LEMMA InitIInv == Init => IInv
  <1> SUFFICES ASSUME Init PROVE IInv
    OBVIOUS
  <1> USE DEF Init
  <1>1. \A t \in Task : file[t] \in {NoTask, TaskIn("TODO"), TaskIn("DONE")}
    OBVIOUS
  <1>2. file \in Tasks
    <2>1. {NoTask, TaskIn("TODO"), TaskIn("DONE")} \subseteq TaskRecord
      BY DEF NoTask, TaskIn, TaskGiven, TaskRecord, ALLOWED_STATES
    <2> QED BY <2>1 DEF Tasks
  <1>3. TypeOK
    BY <1>2, NoTaskType DEF TypeOK, Places
  <1>4. SealInv
    BY <1>1 DEF SealInv, SealHolds, Exists, Sealed, NoTasks, NoTask, TaskIn, TaskGiven
  <1>5. LockInv /\ ReplacesCheckedFile /\ ScopeInv
    BY WorkAssumption DEF LockInv, ReplacesCheckedFile, ScopeInv
  <1> QED BY <1>3, <1>4, <1>5 DEF IInv

(* The invariant holds in every reachable state.                           *)
LEMMA Inductive == Spec => []IInv
  BY InitIInv, StepIInv, PTL DEF Spec

-----------------------------------------------------------------------------
(* The file, the instances and their hashes keep their types through every *)
(* operation, failed save and death.                                       *)
THEOREM TypeCorrect == Spec => []TypeOK
  <1>1. IInv => TypeOK
    BY DEF IInv
  <1> QED BY <1>1, Inductive, PTL

(* The drift check and os.replace are one critical section.                *)
THEOREM CheckedIsReplaced == Spec => []ReplacesCheckedFile
  <1>1. IInv => ReplacesCheckedFile
    BY DEF IInv
  <1> QED BY <1>1, Inductive, PTL

(* What a thread that keeps the scope from construction to save writes is  *)
(* the file, except for the tasks its own operations changed since it read *)
(* or saved them, those of failed saves included.                          *)
THEOREM ScopedSavesOwnTasks == Spec => []ScopedLosesNothing
  <1>1. IInv => ScopedLosesNothing
    BY WorkAssumption DEF IInv, ScopeInv, ScopedLosesNothing
  <1> QED BY <1>1, Inductive, PTL

(* A task of the file that complete_task sealed is DONE and has the        *)
(* evidence the seal covers.                                               *)
THEOREM SealsCover == Spec => []SealCoversEvidence
  <1>1. IInv => SealCoversEvidence
    BY DEF IInv, SealInv, SealHolds, SealCoversEvidence
  <1> QED BY <1>1, Inductive, PTL

(* What a scoped thread saves keeps every closed task or counts a          *)
(* reopening of it, whatever unscoped threads do.                          *)
THEOREM ScopedReopensExplicitly == Spec => ScopedNeedsReopen
  <1>1. IInv /\ [Next]_vars =>
          [\A p \in Scoped : SaveReplace(p) => \A t \in Task : ReopenedOrKept(t)]_vars
    <2> SUFFICES ASSUME IInv, NEW p \in Scoped, SaveReplace(p), NEW t \in Task
                 PROVE  ReopenedOrKept(t)
      OBVIOUS
    <2>1. KeptOrReopened(p, t) /\ file' = data[p]
      BY DEF IInv, ScopeInv, SaveReplace
    <2> QED BY <2>1 DEF KeptOrReopened, ReopenedOrKept
  <1> QED BY <1>1, Inductive, PTL DEF Spec, ScopedNeedsReopen
==============================================================================
