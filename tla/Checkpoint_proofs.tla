-------------------------- MODULE Checkpoint_proofs ---------------------------
(***************************************************************************)
(* Theorems about Checkpoint, for any number of threads and of saves.      *)
(*                                                                         *)
(* None of the properties is inductive.  What a sync writes is consistent  *)
(* because neither a ledger nor the checkpoint changes while it holds the  *)
(* lock, which every thread past its entry does (LockInv); so at every     *)
(* place of a sync its draft agrees with the ledgers and the checkpoint as *)
(* they still are (DraftInv).                                              *)
(***************************************************************************)
EXTENDS Checkpoint, TLAPS

Inside == {"read", "actions", "load", "hash_work", "hash_action", "write", "leave"}

LockInv == \A p \in Proc : pc[p] \in Inside => lock = p

(* What a draft is known to hold, by the place its thread is at.           *)
WorkRead(p) == draft[p].open_tasks = work /\ draft[p].evidence.work_at = work
ActionsRead(p) == draft[p].evidence.action_at = action
Loaded(p) == draft[p].decision = ckpt.decision

DraftInv ==
  \A p \in Proc :
    /\ pc[p] \in {"enter", "write"} => draft[p].open_tasks <= work
    /\ pc[p] = "enter" => draft[p].evidence = None
    /\ pc[p] \in {"actions", "load", "hash_work", "hash_action"} => WorkRead(p)
    /\ pc[p] \in {"load", "hash_work", "hash_action"} => ActionsRead(p)
    /\ pc[p] \in {"hash_work", "hash_action"} => Loaded(p)
    /\ pc[p] = "hash_action" => draft[p].evidence.work_sha = work
    /\ pc[p] = "write" /\ draft[p].evidence # None =>
         /\ WorkRead(p) /\ ActionsRead(p) /\ Loaded(p)
         /\ draft[p].evidence.work_sha = work
         /\ draft[p].evidence.action_sha = action

(* A checkpoint never shows a work ledger that is still to be saved.       *)
ShownWasSaved == ckpt.open_tasks <= work

IInv == TypeOK /\ LockInv /\ DraftInv /\ ShownWasSaved /\ EvidenceIsConsistent

-----------------------------------------------------------------------------
(* The initial state: one version of each ledger and no evidence.          *)
LEMMA InitInv == Init => IInv
  <1> SUFFICES ASSUME Init PROVE IInv
    OBVIOUS
  <1>1. None \in Evidence
    BY DEF None, Evidence
  <1>2. TypeOK
    BY <1>1 DEF Init, TypeOK, Payload, Places
  <1>3. LockInv /\ DraftInv
    BY DEF Init, LockInv, DraftInv, Inside
  <1>4. ShownWasSaved /\ EvidenceIsConsistent
    BY DEF Init, ShownWasSaved, EvidenceIsConsistent
  <1> QED
    BY <1>2, <1>3, <1>4 DEF IInv

(* Every step of every thread keeps the state well typed.                  *)
LEMMA TypeStep == TypeOK /\ [Next]_vars => TypeOK'
  <1> SUFFICES ASSUME TypeOK, [Next]_vars PROVE TypeOK'
    OBVIOUS
  <1> USE CheckpointAssumption DEF TypeOK, Payload, Evidence, None, Go, Places
  <1>1. CASE SaveWork
    BY <1>1 DEF SaveWork
  <1>2. CASE SaveAction
    BY <1>2 DEF SaveAction
  <1>3. ASSUME NEW p \in Proc, Converse(p) PROVE TypeOK'
    <2>1. PICK d \in Decision, seen \in 1..work : Prepared(p, d, seen)
      BY <1>3 DEF Converse
    <2> QED
      BY <2>1 DEF Prepared
  <1>4. ASSUME NEW p \in Proc, Refresh(p) PROVE TypeOK'
    <2>1. PICK d \in Decision : Prepared(p, d, work)
      BY <1>4 DEF Refresh
    <2> QED
      BY <2>1 DEF Prepared
  <1>5. ASSUME NEW p \in Proc, EnterCheckpoint(p) PROVE TypeOK'
    BY <1>5 DEF EnterCheckpoint
  <1>6. ASSUME NEW p \in Proc, StartSync(p) PROVE TypeOK'
    BY <1>6 DEF StartSync
  <1>7. ASSUME NEW p \in Proc, EnterSync(p) PROVE TypeOK'
    BY <1>7 DEF EnterSync
  <1>8. ASSUME NEW p \in Proc, ReadWork(p) PROVE TypeOK'
    BY <1>8 DEF ReadWork
  <1>9. ASSUME NEW p \in Proc, ReadActions(p) PROVE TypeOK'
    BY <1>9 DEF ReadActions
  <1>10. ASSUME NEW p \in Proc, LoadCheckpoint(p) PROVE TypeOK'
    BY <1>10 DEF LoadCheckpoint
  <1>11. ASSUME NEW p \in Proc, HashWork(p) PROVE TypeOK'
    BY <1>11 DEF HashWork
  <1>12. ASSUME NEW p \in Proc, HashAction(p) PROVE TypeOK'
    BY <1>12 DEF HashAction
  <1>13. ASSUME NEW p \in Proc, Write(p) PROVE TypeOK'
    BY <1>13 DEF Write
  <1>14. ASSUME NEW p \in Proc, Fail(p) PROVE TypeOK'
    BY <1>14 DEF Fail
  <1>15. ASSUME NEW p \in Proc, Leave(p) \/ Crash(p) PROVE TypeOK'
    BY <1>15 DEF Leave, Crash
  <1>16. CASE UNCHANGED vars
    BY <1>16 DEF vars
  <1> QED
    BY <1>1, <1>2, <1>3, <1>4, <1>5, <1>6, <1>7, <1>8, <1>9, <1>10, <1>11,
       <1>12, <1>13, <1>14, <1>15, <1>16 DEF Next, Sync

(* Only the holder of the lock is past its entry.                          *)
LEMMA LockStep == TypeOK /\ LockInv /\ [Next]_vars => LockInv'
  <1> SUFFICES ASSUME TypeOK, LockInv, [Next]_vars PROVE LockInv'
    OBVIOUS
  <1> USE CheckpointAssumption DEF TypeOK, LockInv, Inside, Go
  <1>1. CASE SaveWork \/ SaveAction
    BY <1>1 DEF SaveWork, SaveAction
  <1>2. ASSUME NEW p \in Proc, Converse(p) \/ Refresh(p) PROVE LockInv'
    BY <1>2 DEF Converse, Refresh, Prepared
  <1>3. ASSUME NEW p \in Proc, EnterCheckpoint(p) \/ EnterSync(p) PROVE LockInv'
    BY <1>3 DEF EnterCheckpoint, EnterSync
  <1>4. ASSUME NEW p \in Proc, StartSync(p) PROVE LockInv'
    BY <1>4 DEF StartSync
  <1>5. ASSUME NEW p \in Proc, ReadWork(p) \/ ReadActions(p) PROVE LockInv'
    BY <1>5 DEF ReadWork, ReadActions
  <1>6. ASSUME NEW p \in Proc, LoadCheckpoint(p) \/ HashWork(p) PROVE LockInv'
    BY <1>6 DEF LoadCheckpoint, HashWork
  <1>7. ASSUME NEW p \in Proc, HashAction(p) PROVE LockInv'
    BY <1>7 DEF HashAction
  <1>8. ASSUME NEW p \in Proc, Write(p) \/ Fail(p) PROVE LockInv'
    BY <1>8 DEF Write, Fail
  <1>9. ASSUME NEW p \in Proc, Leave(p) \/ Crash(p) PROVE LockInv'
    BY <1>9 DEF Leave, Crash
  <1>10. CASE UNCHANGED vars
    BY <1>10 DEF vars
  <1> QED
    BY <1>1, <1>2, <1>3, <1>4, <1>5, <1>6, <1>7, <1>8, <1>9, <1>10
       DEF Next, Sync

(* A step of another thread than p leaves a draft of p as it is, and while *)
(* p holds the lock, the ledgers and the checkpoint too.                   *)
LEMMA OtherKeepsDraft ==
  ASSUME TypeOK, LockInv, DraftInv, NEW p \in Proc,
         draft'[p] = draft[p], pc'[p] = pc[p], work <= work', work' \in Nat,
         pc[p] \in Inside =>
           work' = work /\ action' = action /\ ckpt' = ckpt
  PROVE  /\ pc'[p] \in {"enter", "write"} => draft'[p].open_tasks <= work'
         /\ pc'[p] = "enter" => draft'[p].evidence = None
         /\ pc'[p] \in {"actions", "load", "hash_work", "hash_action"} => WorkRead(p)'
         /\ pc'[p] \in {"load", "hash_work", "hash_action"} => ActionsRead(p)'
         /\ pc'[p] \in {"hash_work", "hash_action"} => Loaded(p)'
         /\ pc'[p] = "hash_action" => draft'[p].evidence.work_sha = work'
         /\ pc'[p] = "write" /\ draft'[p].evidence # None =>
              /\ WorkRead(p)' /\ ActionsRead(p)' /\ Loaded(p)'
              /\ draft'[p].evidence.work_sha = work'
              /\ draft'[p].evidence.action_sha = action'
  BY DEF TypeOK, Payload, DraftInv, WorkRead, ActionsRead, Loaded, Inside

(* At every place of a thread its draft stays what DraftInv says of it.    *)
LEMMA DraftStep ==
  TypeOK /\ LockInv /\ DraftInv /\ [Next]_vars => DraftInv'
  <1> SUFFICES ASSUME TypeOK, LockInv, DraftInv, [Next]_vars,
                      NEW p \in Proc
               PROVE  /\ pc'[p] \in {"enter", "write"} => draft'[p].open_tasks <= work'
                      /\ pc'[p] = "enter" => draft'[p].evidence = None
                      /\ pc'[p] \in {"actions", "load", "hash_work", "hash_action"}
                           => WorkRead(p)'
                      /\ pc'[p] \in {"load", "hash_work", "hash_action"} => ActionsRead(p)'
                      /\ pc'[p] \in {"hash_work", "hash_action"} => Loaded(p)'
                      /\ pc'[p] = "hash_action" => draft'[p].evidence.work_sha = work'
                      /\ pc'[p] = "write" /\ draft'[p].evidence # None =>
                           /\ WorkRead(p)' /\ ActionsRead(p)' /\ Loaded(p)'
                           /\ draft'[p].evidence.work_sha = work'
                           /\ draft'[p].evidence.action_sha = action'
    BY DEF DraftInv
  <1> DEFINE Goal ==
         /\ pc'[p] \in {"enter", "write"} => draft'[p].open_tasks <= work'
         /\ pc'[p] = "enter" => draft'[p].evidence = None
         /\ pc'[p] \in {"actions", "load", "hash_work", "hash_action"} => WorkRead(p)'
         /\ pc'[p] \in {"load", "hash_work", "hash_action"} => ActionsRead(p)'
         /\ pc'[p] \in {"hash_work", "hash_action"} => Loaded(p)'
         /\ pc'[p] = "hash_action" => draft'[p].evidence.work_sha = work'
         /\ pc'[p] = "write" /\ draft'[p].evidence # None =>
              /\ WorkRead(p)' /\ ActionsRead(p)' /\ Loaded(p)'
              /\ draft'[p].evidence.work_sha = work'
              /\ draft'[p].evidence.action_sha = action'
  <1> SUFFICES Goal
    OBVIOUS
  <1>a. work' \in Nat /\ work \in Nat
    BY TypeStep DEF TypeOK
  <1>1. CASE UNCHANGED <<draft, pc>> /\ work <= work'
             /\ (pc[p] \in Inside => UNCHANGED <<work, action, ckpt>>)
    BY <1>1, <1>a, OtherKeepsDraft
  <1>2. CASE SaveWork \/ SaveAction
    <2>1. pc[p] \notin Inside
      BY <1>2, CheckpointAssumption DEF SaveWork, SaveAction, LockInv
    <2> QED
      BY <1>1, <1>2, <2>1, <1>a DEF SaveWork, SaveAction
  <1>3. CASE UNCHANGED vars
    BY <1>1, <1>3, <1>a DEF vars
  <1>4. ASSUME NEW q \in Proc, q # p,
               \/ Converse(q) \/ Refresh(q) \/ EnterCheckpoint(q) \/ Sync(q)
               \/ Write(q) \/ Fail(q) \/ Leave(q) \/ Crash(q)
        PROVE  Goal
    <2>1. draft'[p] = draft[p] /\ pc'[p] = pc[p]
      BY <1>4 DEF TypeOK, Converse, Refresh, Prepared, EnterCheckpoint, Sync,
        StartSync, EnterSync, ReadWork, ReadActions, LoadCheckpoint, HashWork,
        HashAction, Write, Fail, Leave, Crash, Go
    <2>2. work' = work /\ action' = action
      BY <1>4 DEF Converse, Refresh, Prepared, EnterCheckpoint, Sync,
        StartSync, EnterSync, ReadWork, ReadActions, LoadCheckpoint, HashWork,
        HashAction, Write, Fail, Leave, Crash
    <2>3. pc[p] \in Inside => ckpt' = ckpt
      <3>1. CASE Write(q)
        BY <1>4, <3>1 DEF Write, LockInv, Inside
      <3> QED
        BY <1>4, <3>1 DEF Converse, Refresh, Prepared, EnterCheckpoint, Sync,
          StartSync, EnterSync, ReadWork, ReadActions, LoadCheckpoint, HashWork,
          HashAction, Fail, Leave, Crash
    <2>4. work <= work'
      BY <2>2, <1>a
    <2> QED
      BY <1>a, <2>1, <2>2, <2>3, <2>4, OtherKeepsDraft
  <1> USE DEF Go, TypeOK, Payload, Evidence, None, WorkRead, ActionsRead, Loaded
  <1>5. CASE Converse(p)
    <2>1. PICK d \in Decision, seen \in 1..work : Prepared(p, d, seen)
      BY <1>5 DEF Converse
    <2> QED
      BY <1>a, <2>1 DEF Prepared
  <1>6. CASE Refresh(p)
    <2>1. PICK d \in Decision : Prepared(p, d, work)
      BY <1>6 DEF Refresh
    <2> QED
      BY <1>a, <2>1 DEF Prepared
  <1>7. CASE EnterCheckpoint(p)
    BY <1>7 DEF EnterCheckpoint, DraftInv
  <1>8. CASE StartSync(p) \/ EnterSync(p)
    BY <1>8 DEF StartSync, EnterSync
  <1>9. CASE ReadWork(p)
    BY <1>9 DEF ReadWork
  <1>10. CASE ReadActions(p)
    BY <1>10 DEF ReadActions, DraftInv
  <1>11. CASE LoadCheckpoint(p)
    BY <1>11 DEF LoadCheckpoint, DraftInv
  <1>12. CASE HashWork(p)
    BY <1>12 DEF HashWork, DraftInv
  <1>13. CASE HashAction(p)
    BY <1>13, <1>a DEF HashAction, DraftInv
  <1>14. CASE Write(p) \/ Fail(p)
    BY <1>14 DEF Write, Fail
  <1>15. CASE Leave(p) \/ Crash(p)
    BY <1>15 DEF Leave, Crash
  <1> QED
    BY <1>2, <1>3, <1>4, <1>5, <1>6, <1>7, <1>8, <1>9, <1>10, <1>11, <1>12,
       <1>13, <1>14, <1>15 DEF Next, Sync

(* The checkpoint changes by a Write only, and becomes its draft.          *)
LEMMA OnlyWriteChanges ==
  ASSUME [Next]_vars
  PROVE  \/ ckpt' = ckpt
         \/ \E p \in Proc : Write(p)
  BY DEF Next, Sync, vars, SaveWork, SaveAction, Converse, Refresh, Prepared,
    EnterCheckpoint, StartSync, EnterSync, ReadWork, ReadActions,
    LoadCheckpoint, HashWork, HashAction, Fail, Leave, Crash

(* No step takes a ledger back.                                            *)
LEMMA LedgersGrow ==
  ASSUME TypeOK, [Next]_vars PROVE work <= work'
  <1>1. work' = work \/ work' = work + 1
    BY DEF Next, Sync, vars, SaveWork, SaveAction, Converse, Refresh, Prepared,
      EnterCheckpoint, StartSync, EnterSync, ReadWork, ReadActions,
      LoadCheckpoint, HashWork, HashAction, Write, Fail, Leave, Crash
  <1> QED
    BY <1>1 DEF TypeOK

(* A checkpoint that is written shows one state of both ledgers.           *)
LEMMA CheckpointStep ==
  IInv /\ [Next]_vars => ShownWasSaved' /\ EvidenceIsConsistent'
  <1> SUFFICES ASSUME IInv, [Next]_vars
               PROVE  ShownWasSaved' /\ EvidenceIsConsistent'
    OBVIOUS
  <1>1. work <= work' /\ work \in Nat /\ work' \in Nat
    BY LedgersGrow, TypeStep DEF IInv, TypeOK
  <1>2. CASE ckpt' = ckpt
    BY <1>1, <1>2 DEF IInv, ShownWasSaved, EvidenceIsConsistent, TypeOK, Payload
  <1>3. ASSUME NEW p \in Proc, Write(p)
        PROVE  ShownWasSaved' /\ EvidenceIsConsistent'
    <2>1. ckpt' = draft[p] /\ work' = work /\ pc[p] = "write"
      BY <1>3 DEF Write
    <2>2. draft[p].open_tasks <= work
      BY <2>1 DEF IInv, DraftInv
    <2>3. draft[p].evidence # None =>
            /\ draft[p].evidence.work_sha = draft[p].evidence.work_at
            /\ draft[p].evidence.work_at = draft[p].open_tasks
            /\ draft[p].evidence.action_sha = draft[p].evidence.action_at
      BY <2>1 DEF IInv, DraftInv, WorkRead, ActionsRead
    <2> QED
      BY <2>1, <2>2, <2>3 DEF ShownWasSaved, EvidenceIsConsistent
  <1> QED
    BY <1>2, <1>3, OnlyWriteChanges

(* IInv is inductive.                                                      *)
LEMMA InvStep == IInv /\ [Next]_vars => IInv'
  BY TypeStep, LockStep, DraftStep, CheckpointStep DEF IInv

(* Every reachable state satisfies IInv.                                   *)
LEMMA Inv == Spec => []IInv
  <1>1. Init => IInv
    BY InitInv
  <1>2. IInv /\ [Next]_vars => IInv'
    BY InvStep
  <1> QED
    BY <1>1, <1>2, PTL DEF Spec

-----------------------------------------------------------------------------
(* The state of ledgers, checkpoint and threads is always well typed.      *)
THEOREM TypeCorrect == Spec => []TypeOK
  <1>1. IInv => TypeOK
    BY DEF IInv
  <1> QED
    BY <1>1, Inv, PTL

(* sync_checkpoint_evidence: the hashes of a checkpoint are those of the   *)
(* very ledgers it summarises.                                             *)
THEOREM HashesMatch == Spec => []EvidenceIsConsistent
  <1>1. IInv => EvidenceIsConsistent
    BY DEF IInv
  <1> QED
    BY <1>1, Inv, PTL

(* sync_checkpoint_evidence writes back the decision that is in force.     *)
THEOREM DecisionKept == Spec => SyncKeepsDecision
  <1>1. IInv /\ [Next]_vars =>
          [\A p \in Proc :
             Write(p) /\ draft[p].evidence # None
             => ckpt'.decision = ckpt.decision]_vars
    BY DEF IInv, DraftInv, Write, Loaded
  <1> QED
    BY <1>1, Inv, PTL DEF Spec, SyncKeepsDecision

(* sync_checkpoint_evidence never takes the list of open tasks back.       *)
THEOREM SyncMovesForward == Spec => SyncFollowsLedger
  <1>1. IInv /\ [Next]_vars =>
          [\A p \in Proc :
             Write(p) /\ draft[p].evidence # None
             => ckpt'.open_tasks >= ckpt.open_tasks]_vars
    BY DEF IInv, DraftInv, Write, WorkRead, ShownWasSaved, TypeOK, Payload
  <1> QED
    BY <1>1, Inv, PTL DEF Spec, SyncFollowsLedger
==============================================================================
