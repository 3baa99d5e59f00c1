---------------------------- MODULE ActionLedger -----------------------------
(***************************************************************************)
(* core/execution_continuity.py: the action ledger as its file, the        *)
(* re-entrant lock around it (continuity_effect_scope) and the copy of the *)
(* file each ActionLedger instance keeps.                                  *)
(*                                                                         *)
(* A member of Proc is one thread: flock excludes threads as well as       *)
(* processes, because every outermost scope opens the lock file anew, and  *)
(* the depth is thread-local.  Every thread has one ActionLedger instance. *)
(* A call is split where another thread or a crash can come in between:    *)
(* entering the scope, reloading the file, changing the copy, replacing    *)
(* the file, leaving the scope.                                            *)
(***************************************************************************)
EXTENDS ActionRecords, Naturals

CONSTANTS
  Proc,           (* threads using the ledger                              *)
  NoProc,         (* the lock is free                                      *)
  Changes,        (* the **changes callers pass to update_action           *)
  MaxDepth,       (* bound on the nesting of scopes                        *)
  MaxCalls        (* bound on the calls started                            *)

ASSUME LedgerAssumption ==
  /\ NoProc \notin Proc
  /\ Changes \subseteq Change
  /\ MaxDepth \in Nat /\ MaxCalls \in Nat

VARIABLES
  file,           (* the records of ACTION_LEDGER.json                     *)
  lock,           (* the thread that holds the flock, or NoProc            *)
  depth,          (* _CONTINUITY_LOCK_STATE.depth of every thread          *)
  mem,            (* self.data of every thread's instance                  *)
  pc,             (* where every thread is                                 *)
  call,           (* the call every thread is in                           *)
  calls           (* number of calls started, for the bound                *)

vars == <<file, lock, depth, mem, pc, call, calls>>

NoCall == [op |-> "none"]
Calls ==
  [op : {"begin"}, id : ActionId, key : Key]
  \cup [op : {"update"}, id : ActionId, chg : Changes]
  \cup {[op |-> "find"], NoCall}

Places == {"down", "idle", "enter", "reload", "apply", "save", "leave"}

Init ==
  /\ file = EmptyLedger
  /\ lock = NoProc
  /\ depth = [p \in Proc |-> 0]
  /\ mem = [p \in Proc |-> EmptyLedger]
  /\ pc = [p \in Proc |-> "down"]
  /\ call = [p \in Proc |-> NoCall]
  /\ calls = 0

-----------------------------------------------------------------------------
(* continuity_effect_scope: nested, or the outermost one on a free lock.   *)
EnterScope(p) ==
  /\ depth[p] > 0 \/ lock = NoProc
  /\ lock' = p
  /\ depth' = [depth EXCEPT ![p] = @ + 1]

LeaveScope(p) ==
  /\ depth' = [depth EXCEPT ![p] = @ - 1]
  /\ lock' = IF depth[p] = 1 THEN NoProc ELSE lock

(* ActionLedger(): the constructor reads the file without the lock.        *)
Construct(p) ==
  /\ pc[p] \in {"down", "idle"}
  /\ Loadable(file)
  /\ mem' = [mem EXCEPT ![p] = file]
  /\ pc' = [pc EXCEPT ![p] = "idle"]
  /\ UNCHANGED <<file, lock, depth, call, calls>>

(* A caller that holds the scope around several calls, as a goal run does. *)
OpenScope(p) ==
  /\ pc[p] = "idle" /\ depth[p] < MaxDepth
  /\ EnterScope(p)
  /\ UNCHANGED <<file, mem, pc, call, calls>>

CloseScope(p) ==
  /\ pc[p] = "idle" /\ depth[p] > 0
  /\ LeaveScope(p)
  /\ UNCHANGED <<file, mem, pc, call, calls>>

-----------------------------------------------------------------------------
Start(p, c) ==
  /\ pc[p] = "idle" /\ calls < MaxCalls
  /\ call' = [call EXCEPT ![p] = c]
  /\ calls' = calls + 1
  /\ pc' = [pc EXCEPT ![p] = "enter"]
  /\ UNCHANGED <<file, lock, depth, mem>>

BeginAction(p) ==
  \E i \in ActionId, k \in Key : Start(p, [op |-> "begin", id |-> i, key |-> k])

(* update_action and the wrappers that call it.  resume_action first looks *)
(* at the copy in memory, which may be stale, and raises without the lock. *)
UpdateAction(p) ==
  \E i \in ActionId, c \in Changes :
    /\ c.state = "RESUMED" => mem[p][i].state \in RESUMABLE_ACTION_STATES
    /\ Start(p, [op |-> "update", id |-> i, chg |-> c])

FindAllByKey(p) == Start(p, [op |-> "find"])

Enter(p) ==
  /\ pc[p] = "enter"
  /\ EnterScope(p)
  /\ pc' = [pc EXCEPT ![p] = "reload"]
  /\ UNCHANGED <<file, mem, call, calls>>

(* Faulty variant: the copy made by the constructor is used as it is.      *)
Reload_Cached(p) ==
  /\ pc[p] = "reload"
  /\ pc' = [pc EXCEPT ![p] = IF call[p].op = "find" THEN "leave" ELSE "apply"]
  /\ UNCHANGED <<file, lock, depth, mem, call, calls>>

(* _exclusive_mutation: every mutation starts from the file as it is now.  *)
Reload(p) ==
  /\ pc[p] = "reload"
  /\ IF Loadable(file)
       THEN /\ mem' = [mem EXCEPT ![p] = file]
            /\ pc' = [pc EXCEPT ![p] = IF call[p].op = "find" THEN "leave" ELSE "apply"]
       ELSE /\ pc' = [pc EXCEPT ![p] = "leave"]
            /\ mem' = mem
  /\ UNCHANGED <<file, lock, depth, call, calls>>

ApplyBegin(p) ==
  LET i == call[p].id  k == call[p].key IN
  /\ pc[p] = "apply" /\ call[p].op = "begin"
  /\ IF CanBegin(mem[p], i, k)
       THEN /\ mem' = [mem EXCEPT ![p] = Begun(mem[p], i, k)]
            /\ pc' = [pc EXCEPT ![p] = "save"]
       ELSE /\ pc' = [pc EXCEPT ![p] = "leave"]
            /\ mem' = mem
  /\ UNCHANGED <<file, lock, depth, call, calls>>

(* Faulty variant: the changed record is saved without _validate_action.   *)
ApplyUpdate_NotValidated(p) ==
  LET i == call[p].id  c == call[p].chg IN
  /\ pc[p] = "apply" /\ call[p].op = "update"
  /\ CanUpdate(mem[p], i, c)
  /\ mem' = [mem EXCEPT ![p] = Updated(mem[p], i, c)]
  /\ pc' = [pc EXCEPT ![p] = "save"]
  /\ UNCHANGED <<file, lock, depth, call, calls>>

(* The copy is changed before it is validated: a rejected value stays in   *)
(* memory until the next reload.                                           *)
ApplyUpdate(p) ==
  LET i == call[p].id  c == call[p].chg IN
  /\ pc[p] = "apply" /\ call[p].op = "update"
  /\ IF CanUpdate(mem[p], i, c)
       THEN /\ mem' = [mem EXCEPT ![p] = Updated(mem[p], i, c)]
            /\ pc' = [pc EXCEPT ![p] = IF Valid(Changed(mem[p][i], c)) THEN "save"
                                                                       ELSE "leave"]
       ELSE /\ pc' = [pc EXCEPT ![p] = "leave"]
            /\ mem' = mem
  /\ UNCHANGED <<file, lock, depth, call, calls>>

(* _save: the temporary file is complete before os.replace, so the ledger  *)
(* changes at once or not at all.                                          *)
Save(p) ==
  /\ pc[p] = "save"
  /\ file' = mem[p]
  /\ pc' = [pc EXCEPT ![p] = "leave"]
  /\ UNCHANGED <<lock, depth, mem, call, calls>>

SaveFails(p) ==
  /\ pc[p] = "save"
  /\ pc' = [pc EXCEPT ![p] = "leave"]
  /\ UNCHANGED <<file, lock, depth, mem, call, calls>>

Leave(p) ==
  /\ pc[p] = "leave"
  /\ LeaveScope(p)
  /\ pc' = [pc EXCEPT ![p] = "idle"]
  /\ call' = [call EXCEPT ![p] = NoCall]
  /\ UNCHANGED <<file, mem, calls>>

(* The process dies: the kernel drops its flock, its copy is gone.         *)
Crash(p) ==
  /\ pc[p] # "down"
  /\ lock' = IF lock = p THEN NoProc ELSE lock
  /\ depth' = [depth EXCEPT ![p] = 0]
  /\ mem' = [mem EXCEPT ![p] = EmptyLedger]
  /\ pc' = [pc EXCEPT ![p] = "down"]
  /\ call' = [call EXCEPT ![p] = NoCall]
  /\ UNCHANGED <<file, calls>>

-----------------------------------------------------------------------------
(* The steps of a call that has the lock.                                  *)
Work(p) ==
  \/ Reload(p) \/ ApplyBegin(p) \/ ApplyUpdate(p)
  \/ Save(p) \/ SaveFails(p) \/ Leave(p)

Next ==
  \E p \in Proc :
    \/ Construct(p) \/ OpenScope(p) \/ CloseScope(p)
    \/ BeginAction(p) \/ UpdateAction(p) \/ FindAllByKey(p)
    \/ Enter(p) \/ Work(p) \/ Crash(p)

Spec == Init /\ [][Next]_vars

-----------------------------------------------------------------------------
TypeOK ==
  /\ file \in Ledger
  /\ lock \in Proc \cup {NoProc}
  /\ depth \in [Proc -> Nat]
  /\ mem \in [Proc -> Ledger]
  /\ pc \in [Proc -> Places]
  /\ call \in [Proc -> Calls]
  /\ calls \in Nat

(* begin_action rejects a key that is running or done, whoever began it,   *)
(* so no two actions of the persisted ledger claim the same effect.        *)
ClaimedOnce ==
  \A i, j \in ActionId :
    /\ Present(file, i) /\ Present(file, j)
    /\ file[i].key = file[j].key
    /\ file[i].state # "FAILED" /\ file[j].state # "FAILED"
    => i = j

(* _validate_action runs before every save: the ledger on disk is always   *)
(* one that _load_or_init accepts, else every later run would fail to load.*)
FileLoadable == Loadable(file)

(* _exclusive_mutation: what a thread is about to write differs from the   *)
(* file in no action but its own, so no other thread's update is lost.     *)
NoLostUpdate ==
  \A p \in Proc : pc[p] = "save" =>
    \A i \in ActionId \ {call[p].id} : mem[p][i] = file[i]

(* update_action: a DONE or FAILED record is never changed again.          *)
TerminalImmutable ==
  [][\A i \in ActionId : Terminal(file, i) => file'[i] = file[i]]_vars

(* The file behaves as the register of ActionLedgerSpec: every os.replace  *)
(* is one legal step of one action, everything else changes nothing.       *)
Promise == INSTANCE ActionLedgerSpec WITH actions <- file
KeepsPromise == Promise!Spec
==============================================================================
