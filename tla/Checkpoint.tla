----------------------------- MODULE Checkpoint ------------------------------
(***************************************************************************)
(* core/intent_continuity.py: state/CURRENT_CONVERSATION_CHECKPOINT.json   *)
(* and the three functions that write it while other processes save the    *)
(* work ledger and the action ledger.                                      *)
(*                                                                         *)
(* Every save of a ledger takes the continuity lock (WorkLedger and        *)
(* ActionLedger model how) and gives it a new hash; here a ledger is only  *)
(* its version number, and a list of open tasks or an UPDATED_AT is the    *)
(* version it was read from.  mainline, goal, state, decision, d8 and      *)
(* hold_reason are one value, the decision.                                *)
(***************************************************************************)
EXTENDS Naturals

CONSTANTS
  Proc,           (* threads                                               *)
  Syncer,         (* those that call sync_checkpoint_evidence              *)
  Refresher,      (* those that call refresh_checkpoint_from_ledger        *)
  Talker,         (* those that call checkpoint_conversation               *)
  Decision,       (* what a conversation may decide                        *)
  NoProc,         (* the lock is free                                      *)
  MaxSaves        (* bound on the saves of each ledger                     *)

ASSUME CheckpointAssumption ==
  /\ Syncer \cup Refresher \cup Talker \subseteq Proc
  /\ NoProc \notin Proc
  /\ MaxSaves \in Nat

VARIABLES
  work,           (* version of WORK_LEDGER.json                           *)
  action,         (* version of ACTION_LEDGER.json                         *)
  ckpt,           (* the checkpoint                                        *)
  lock,           (* the thread in continuity_effect_scope                 *)
  pc,             (* where every thread is                                 *)
  draft           (* the payload every thread is preparing                 *)

vars == <<work, action, ckpt, lock, pc, draft>>

(* evidence is continuity_evidence; refresh writes a checkpoint without.   *)
None == [work_at |-> 0, action_at |-> 0, work_sha |-> 0, action_sha |-> 0]
Evidence ==
  [work_at : Nat, action_at : Nat, work_sha : Nat, action_sha : Nat]
Payload == [decision : Decision, open_tasks : Nat, evidence : Evidence]

Places == {"idle", "read", "enter_sync", "enter", "actions", "load",
           "hash_work", "hash_action", "write", "leave"}

Init ==
  /\ work = 1 /\ action = 1
  /\ ckpt \in [decision : Decision, open_tasks : {1}, evidence : {None}]
  /\ lock = NoProc
  /\ pc = [p \in Proc |-> "idle"]
  /\ draft = [p \in Proc |-> ckpt]

Go(p, place) == pc' = [pc EXCEPT ![p] = place]

-----------------------------------------------------------------------------
(* Another process saves a ledger: the lock is free and stays so after.    *)
SaveWork ==
  /\ lock = NoProc /\ work <= MaxSaves
  /\ work' = work + 1
  /\ UNCHANGED <<action, ckpt, lock, pc, draft>>

SaveAction ==
  /\ lock = NoProc /\ action <= MaxSaves
  /\ action' = action + 1
  /\ UNCHANGED <<work, ckpt, lock, pc, draft>>

Prepared(p, d, seen) ==
  /\ draft' = [draft EXCEPT ![p] =
       [decision |-> d, open_tasks |-> seen, evidence |-> None]]
  /\ Go(p, "enter")
  /\ UNCHANGED <<work, action, ckpt, lock>>

(* checkpoint_conversation: the payload is the caller's, its open tasks    *)
(* are those of some version of the ledger.                                *)
Converse(p) ==
  /\ pc[p] = "idle" /\ p \in Talker
  /\ \E d \in Decision, seen \in 1..work : Prepared(p, d, seen)

(* refresh_checkpoint_from_ledger: the decision is the caller's, the work  *)
(* ledger is read outside the lock.                                        *)
Refresh(p) ==
  /\ pc[p] = "idle" /\ p \in Refresher
  /\ \E d \in Decision : Prepared(p, d, work)

EnterCheckpoint(p) ==
  /\ pc[p] = "enter" /\ lock = NoProc
  /\ lock' = p
  /\ Go(p, "write")
  /\ UNCHANGED <<work, action, ckpt, draft>>

-----------------------------------------------------------------------------
StartSync(p) ==
  /\ pc[p] = "idle" /\ p \in Syncer
  /\ Go(p, "enter_sync")
  /\ UNCHANGED <<work, action, ckpt, lock, draft>>

(* Faulty variant: only the write at the end is inside a scope.            *)
EnterSync_NoLock(p) ==
  /\ pc[p] = "enter_sync"
  /\ Go(p, "read")
  /\ UNCHANGED <<work, action, ckpt, lock, draft>>

EnterSync(p) ==
  /\ pc[p] = "enter_sync" /\ lock = NoProc
  /\ lock' = p
  /\ Go(p, "read")
  /\ UNCHANGED <<work, action, ckpt, draft>>

(* _sync_checkpoint_evidence_locked: both ledgers, the checkpoint, and the *)
(* bytes of both ledgers once more for their hashes.                       *)
ReadWork(p) ==
  /\ pc[p] = "read"
  /\ draft' = [draft EXCEPT ![p].open_tasks = work,
                            ![p].evidence = [None EXCEPT !.work_at = work]]
  /\ Go(p, "actions")
  /\ UNCHANGED <<work, action, ckpt, lock>>

ReadActions(p) ==
  /\ pc[p] = "actions"
  /\ draft' = [draft EXCEPT ![p].evidence.action_at = action]
  /\ Go(p, "load")
  /\ UNCHANGED <<work, action, ckpt, lock>>

LoadCheckpoint(p) ==
  /\ pc[p] = "load"
  /\ draft' = [draft EXCEPT ![p].decision = ckpt.decision]
  /\ Go(p, "hash_work")
  /\ UNCHANGED <<work, action, ckpt, lock>>

HashWork(p) ==
  /\ pc[p] = "hash_work"
  /\ draft' = [draft EXCEPT ![p].evidence.work_sha = work]
  /\ Go(p, "hash_action")
  /\ UNCHANGED <<work, action, ckpt, lock>>

(* The checkpoint_conversation at the end re-enters the scope.             *)
HashAction(p) ==
  /\ pc[p] = "hash_action"
  /\ lock \in {p, NoProc}
  /\ lock' = p
  /\ draft' = [draft EXCEPT ![p].evidence.action_sha = action]
  /\ Go(p, "write")
  /\ UNCHANGED <<work, action, ckpt>>

-----------------------------------------------------------------------------
(* _checkpoint_conversation_unlocked: a temporary file and os.replace.     *)
Write(p) ==
  /\ pc[p] = "write"
  /\ ckpt' = draft[p]
  /\ Go(p, "leave")
  /\ UNCHANGED <<work, action, lock, draft>>

(* A file that cannot be read or written: the scope is left.               *)
Fail(p) ==
  /\ pc[p] \in {"read", "actions", "load", "hash_work", "hash_action", "write"}
  /\ Go(p, "leave")
  /\ UNCHANGED <<work, action, ckpt, lock, draft>>

Leave(p) ==
  /\ pc[p] = "leave"
  /\ lock' = IF lock = p THEN NoProc ELSE lock
  /\ Go(p, "idle")
  /\ UNCHANGED <<work, action, ckpt, draft>>

Crash(p) ==
  /\ pc[p] # "idle"
  /\ lock' = IF lock = p THEN NoProc ELSE lock
  /\ Go(p, "idle")
  /\ UNCHANGED <<work, action, ckpt, draft>>

Sync(p) ==
  \/ StartSync(p) \/ EnterSync(p) \/ ReadWork(p) \/ ReadActions(p)
  \/ LoadCheckpoint(p) \/ HashWork(p) \/ HashAction(p)

Next ==
  \/ SaveWork \/ SaveAction
  \/ \E p \in Proc :
       \/ Converse(p) \/ Refresh(p) \/ EnterCheckpoint(p) \/ Sync(p)
       \/ Write(p) \/ Fail(p) \/ Leave(p) \/ Crash(p)

Spec == Init /\ [][Next]_vars

-----------------------------------------------------------------------------
TypeOK ==
  /\ work \in Nat /\ action \in Nat
  /\ ckpt \in Payload
  /\ lock \in Proc \cup {NoProc}
  /\ pc \in [Proc -> Places]
  /\ draft \in [Proc -> Payload]

(* "preserve goal, decisions and D8 verbatim": a checkpoint written by     *)
(* sync_checkpoint_evidence carries the decision that was in force, so no  *)
(* D8 HOLD of a conversation is lost to a sync that began before it.       *)
SyncKeepsDecision ==
  [][\A p \in Proc :
       Write(p) /\ draft[p].evidence # None => ckpt'.decision = ckpt.decision]_vars

(* The hashes in continuity_evidence are those of the very ledgers whose   *)
(* open tasks and UPDATED_AT the checkpoint shows.                         *)
EvidenceIsConsistent ==
  LET e == ckpt.evidence IN
  e # None => /\ e.work_sha = e.work_at /\ e.work_at = ckpt.open_tasks
              /\ e.action_sha = e.action_at

(* A sync never shows an older work ledger than the checkpoint it          *)
(* replaces, even one that a refresh has prepared before it.               *)
SyncFollowsLedger ==
  [][\A p \in Proc :
       Write(p) /\ draft[p].evidence # None
       => ckpt'.open_tasks >= ckpt.open_tasks]_vars
==============================================================================
