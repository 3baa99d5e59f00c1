------------------------ MODULE ActionLedger_proofs --------------------------
(***************************************************************************)
(* Proofs about ActionLedger, for any threads, action ids, keys, argument  *)
(* sets and bounds.  The invariants are not inductive alone: a save is     *)
(* harmless only because the thread still holds the lock under which it    *)
(* loaded the file, which IInv states.                                     *)
(***************************************************************************)
EXTENDS ActionLedger, TLAPS

(* The lock belongs to the one thread with a positive depth, and a call    *)
(* past its entry holds it.                                                *)
LockInv ==
  /\ \A p \in Proc : (depth[p] > 0) <=> (lock = p)
  /\ \A p \in Proc : pc[p] \in {"reload", "apply", "save", "leave"} => lock = p

(* An id that was never begun is Absent, every other one has a key.        *)
KeyInv ==
  \A i \in ActionId : IF Present(file, i) THEN file[i].key \in Key
                                          ELSE file[i] = Absent

(* What a thread saves is one legal step from the file as it is now.       *)
LegalSave(p) ==
  \/ /\ call[p].op = "begin"
     /\ CanBegin(file, call[p].id, call[p].key)
     /\ mem[p] = Begun(file, call[p].id, call[p].key)
  \/ /\ call[p].op = "update"
     /\ CanUpdate(file, call[p].id, call[p].chg)
     /\ Valid(Changed(file[call[p].id], call[p].chg))
     /\ mem[p] = Updated(file, call[p].id, call[p].chg)

CopyInv ==
  \A p \in Proc :
    /\ pc[p] = "apply" => mem[p] = file
    /\ pc[p] = "save" => LegalSave(p)

IInv == TypeOK /\ LockInv /\ CopyInv /\ KeyInv /\ FileLoadable /\ ClaimedOnce

-----------------------------------------------------------------------------
(* The record update_action builds is a record.                            *)
LEMMA ChangedType ==
  ASSUME NEW a \in Action, NEW c \in Change, a.state # "ABSENT"
  PROVE  /\ Changed(a, c) \in Action
         /\ Changed(a, c).state \in ACTION_STATES
  BY RecordAssumption DEF Action, Change, Changed, ACTION_STATES

(* begin_action keeps a ledger a ledger.                                   *)
LEMMA BegunType ==
  ASSUME NEW l \in Ledger, NEW i \in ActionId, NEW k \in Key
  PROVE  Begun(l, i, k) \in Ledger
  BY DEF Ledger, Begun, Action, ACTION_STATES

(* update_action keeps a ledger a ledger.                                  *)
LEMMA UpdatedType ==
  ASSUME NEW l \in Ledger, NEW i \in ActionId, NEW c \in Change, Active(l, i)
  PROVE  Updated(l, i, c) \in Ledger
  BY ChangedType DEF Ledger, Updated, Active, Present

(* Every step keeps the types; that a depth never falls below 0 needs the  *)
(* lock invariant.                                                         *)
LEMMA TypeStep == TypeOK /\ LockInv /\ [Next]_vars => TypeOK'
  <1> SUFFICES ASSUME TypeOK, LockInv, [Next]_vars PROVE TypeOK'
    OBVIOUS
  <1> USE DEF TypeOK, Places, Calls, NoCall
  <1>0. EmptyLedger \in Ledger
    BY DEF EmptyLedger, Ledger, Absent, Action
  <1>1. ASSUME NEW p \in Proc, Construct(p) PROVE TypeOK'
    BY <1>1 DEF Construct
  <1>2. ASSUME NEW p \in Proc, OpenScope(p) PROVE TypeOK'
    BY <1>2 DEF OpenScope, EnterScope
  <1>3. ASSUME NEW p \in Proc, CloseScope(p) PROVE TypeOK'
    BY <1>3 DEF CloseScope, LeaveScope
  <1>4. ASSUME NEW p \in Proc, BeginAction(p) PROVE TypeOK'
    BY <1>4 DEF BeginAction, Start
  <1>5. ASSUME NEW p \in Proc, UpdateAction(p) PROVE TypeOK'
    BY <1>5 DEF UpdateAction, Start
  <1>6. ASSUME NEW p \in Proc, FindAllByKey(p) PROVE TypeOK'
    BY <1>6 DEF FindAllByKey, Start
  <1>7. ASSUME NEW p \in Proc, Enter(p) PROVE TypeOK'
    BY <1>7 DEF Enter, EnterScope
  <1>8. ASSUME NEW p \in Proc, Reload(p) PROVE TypeOK'
    BY <1>8 DEF Reload
  <1>9. ASSUME NEW p \in Proc, ApplyBegin(p) PROVE TypeOK'
    <2>1. call[p].id \in ActionId /\ call[p].key \in Key
      BY <1>9 DEF ApplyBegin
    <2>2. Begun(mem[p], call[p].id, call[p].key) \in Ledger
      BY <2>1, BegunType
    <2> QED BY <1>9, <2>2 DEF ApplyBegin
  <1>10. ASSUME NEW p \in Proc, ApplyUpdate(p) PROVE TypeOK'
    <2>1. call[p].id \in ActionId /\ call[p].chg \in Change
      BY <1>10, LedgerAssumption DEF ApplyUpdate
    <2>2. CanUpdate(mem[p], call[p].id, call[p].chg)
            => Updated(mem[p], call[p].id, call[p].chg) \in Ledger
      BY <2>1, UpdatedType DEF CanUpdate
    <2> QED BY <1>10, <2>2 DEF ApplyUpdate
  <1>11. ASSUME NEW p \in Proc, Save(p) PROVE TypeOK'
    BY <1>11 DEF Save
  <1>12. ASSUME NEW p \in Proc, SaveFails(p) PROVE TypeOK'
    BY <1>12 DEF SaveFails
  <1>13. ASSUME NEW p \in Proc, Leave(p) PROVE TypeOK'
    <2>1. depth[p] > 0
      BY <1>13 DEF Leave, LockInv
    <2> QED BY <1>13, <2>1 DEF Leave, LeaveScope
  <1>14. ASSUME NEW p \in Proc, Crash(p) PROVE TypeOK'
    BY <1>0, <1>14 DEF Crash
  <1>15. CASE UNCHANGED vars
    BY <1>15 DEF vars
  <1> QED
    BY <1>1, <1>2, <1>3, <1>4, <1>5, <1>6, <1>7, <1>8, <1>9, <1>10, <1>11,
       <1>12, <1>13, <1>14, <1>15 DEF Next, Work

(* Two threads are never past the entry of a scope together: entering      *)
(* waits for a free lock, and leaving or dying frees it.                   *)
LEMMA LockStep == TypeOK /\ LockInv /\ [Next]_vars => LockInv'
  <1> SUFFICES ASSUME TypeOK, LockInv, [Next]_vars PROVE LockInv'
    OBVIOUS
  <1> USE LedgerAssumption DEF TypeOK, LockInv, Places
  <1>1. ASSUME NEW p \in Proc, OpenScope(p) \/ Enter(p) PROVE LockInv'
    BY <1>1 DEF OpenScope, Enter, EnterScope
  <1>2. ASSUME NEW p \in Proc, CloseScope(p) \/ Leave(p) PROVE LockInv'
    <2>1. lock = p /\ depth[p] \in Nat \ {0}
      BY <1>2 DEF CloseScope, Leave
    <2> QED BY <1>2, <2>1 DEF CloseScope, Leave, LeaveScope
  <1>3. ASSUME NEW p \in Proc, Crash(p) PROVE LockInv'
    BY <1>3 DEF Crash
  <1>4. ASSUME NEW p \in Proc,
               Construct(p) \/ BeginAction(p) \/ UpdateAction(p) \/ FindAllByKey(p)
        PROVE  LockInv'
    BY <1>4 DEF Construct, BeginAction, UpdateAction, FindAllByKey, Start
  <1>5. ASSUME NEW p \in Proc,
               Reload(p) \/ ApplyBegin(p) \/ ApplyUpdate(p) \/ Save(p) \/ SaveFails(p)
        PROVE  LockInv'
    BY <1>5 DEF Reload, ApplyBegin, ApplyUpdate, Save, SaveFails
  <1>6. CASE UNCHANGED vars
    BY <1>6 DEF vars
  <1> QED
    BY <1>1, <1>2, <1>3, <1>4, <1>5, <1>6 DEF Next, Work

-----------------------------------------------------------------------------
(* A legal save leaves every other action as it is in the file.            *)
LEMMA SaveTouchesOne ==
  ASSUME NEW p \in Proc, TypeOK, LegalSave(p)
  PROVE  /\ call[p].id \in ActionId
         /\ \A i \in ActionId \ {call[p].id} : mem[p][i] = file[i]
  BY DEF LegalSave, TypeOK, Calls, NoCall, Ledger, Begun, Updated

(* The instance of ActionLedgerSpec reads the same records as ActionLedger.*)
LEMMA SameRecords ==
  /\ Promise!Absent = Absent
  /\ Promise!Ledger = Ledger
  /\ Promise!ACTION_STATES = ACTION_STATES
  /\ Promise!RESUMABLE_ACTION_STATES = RESUMABLE_ACTION_STATES
  /\ \A i \in ActionId : Promise!Active(file, i) <=> Active(file, i)
  /\ \A i \in ActionId : Promise!Valid(file'[i]) <=> Valid(file'[i])
  BY DEF Promise!Absent, Absent, Promise!Ledger, Ledger, Promise!Action, Action,
         Promise!ACTION_STATES, ACTION_STATES,
         Promise!TERMINAL_ACTION_STATES, TERMINAL_ACTION_STATES,
         Promise!RESUMABLE_ACTION_STATES, RESUMABLE_ACTION_STATES,
         Promise!Active, Active, Promise!Present, Present,
         Promise!Terminal, Terminal, Promise!Valid, Valid

(* A legal save is one step of the promised register.                      *)
LEMMA SaveIsPromised ==
  ASSUME NEW p \in Proc, IInv, Save(p)
  PROVE  Promise!Next
  <1> DEFINE i == call[p].id
  <1>1. LegalSave(p) /\ file' = mem[p]
    BY DEF Save, IInv, CopyInv
  <1>2. i \in ActionId /\ \A j \in ActionId \ {i} : file'[j] = file[j]
    BY <1>1, SaveTouchesOne DEF IInv
  <1>3. file' \in Ledger
    BY <1>1 DEF IInv, TypeOK
  <1>4. CASE call[p].op = "begin"
    <2> DEFINE k == call[p].key
    <2>1. k \in Key /\ CanBegin(file, i, k) /\ file' = Begun(file, i, k)
      BY <1>1, <1>4 DEF LegalSave, IInv, TypeOK, Calls, NoCall
    <2>2. file'[i] = [state |-> "RUNNING", key |-> k, resume_from |-> None]
      BY <1>2, <2>1 DEF Begun, IInv, TypeOK, Ledger
    <2>3. file[i] = Absent
      BY <1>2, <2>1 DEF CanBegin, IInv, KeyInv
    <2>4. Promise!Born(i)
      BY <2>1, <2>2, <2>3, SameRecords DEF Promise!Born, CanBegin
    <2> QED BY <1>2, <1>3, <2>4, SameRecords DEF Promise!Next
  <1>5. CASE call[p].op = "update"
    <2> DEFINE c == call[p].chg
    <2>1. /\ c \in Change /\ CanUpdate(file, i, c)
          /\ Valid(Changed(file[i], c)) /\ file' = Updated(file, i, c)
      BY <1>1, <1>5, LedgerAssumption DEF LegalSave, IInv, TypeOK, Calls, NoCall
    <2>2. file'[i] = Changed(file[i], c) /\ file[i] \in Action
      BY <1>2, <2>1 DEF Updated, IInv, TypeOK, Ledger
    <2>3. Changed(file[i], c).state \in ACTION_STATES
      BY <2>1, <2>2, ChangedType DEF CanUpdate, Active, Present
    <2>4. Changed(file[i], c).key = file[i].key
      BY <2>1 DEF CanUpdate, Changed
    <2>5. Changed(file[i], c).state = "RESUMED" /\ file[i].state # "RESUMED"
            => file[i].state \in RESUMABLE_ACTION_STATES
      BY <2>1 DEF CanUpdate, Changed
    <2>6. Promise!Moved(i)
      BY <1>2, <2>1, <2>2, <2>3, <2>4, <2>5, SameRecords DEF Promise!Moved, CanUpdate
    <2> QED BY <1>2, <1>3, <2>6, SameRecords DEF Promise!Next
  <1> QED BY <1>1, <1>4, <1>5 DEF LegalSave

(* A step of the register keeps what the register promises.                *)
LEMMA PromisedStep ==
  ASSUME TypeOK, KeyInv, FileLoadable, ClaimedOnce, Promise!Next
  PROVE  KeyInv' /\ FileLoadable' /\ ClaimedOnce'
  <1>1. PICK i \in ActionId :
          /\ file' \in Ledger
          /\ \A j \in ActionId \ {i} : file'[j] = file[j]
          /\ Promise!Born(i) \/ Promise!Moved(i)
    BY SameRecords DEF Promise!Next
  <1>2. CASE Promise!Born(i)
    <2> USE <1>1, <1>2, SameRecords DEF Promise!Born
    <2>1. KeyInv'
      BY DEF KeyInv, Present
    <2>2. FileLoadable'
      BY DEF FileLoadable, Loadable, Valid
    <2>3. ClaimedOnce'
      BY DEF ClaimedOnce, Present
    <2> QED BY <2>1, <2>2, <2>3
  <1>3. CASE Promise!Moved(i)
    <2> USE <1>1, <1>3, SameRecords DEF Promise!Moved
    <2>1. KeyInv'
      BY DEF KeyInv, Present, Active, ACTION_STATES
    <2>2. FileLoadable'
      BY DEF FileLoadable, Loadable
    <2>3. ClaimedOnce'
      BY DEF ClaimedOnce, Present, Active, Terminal, TERMINAL_ACTION_STATES, ACTION_STATES
    <2> QED BY <2>1, <2>2, <2>3
  <1> QED BY <1>1, <1>2, <1>3

-----------------------------------------------------------------------------
(* Only os.replace changes the file, and it performs one promised step.    *)
LEMMA StepIsPromised == IInv /\ [Next]_vars => Promise!Next \/ UNCHANGED file
  <1> SUFFICES ASSUME IInv, [Next]_vars PROVE Promise!Next \/ UNCHANGED file
    OBVIOUS
  <1>1. ASSUME NEW p \in Proc, Save(p) PROVE Promise!Next
    BY <1>1, SaveIsPromised
  <1>2. ASSUME NEW p \in Proc,
               \/ Construct(p) \/ OpenScope(p) \/ CloseScope(p) \/ BeginAction(p)
               \/ UpdateAction(p) \/ FindAllByKey(p) \/ Enter(p) \/ Crash(p)
               \/ Reload(p) \/ ApplyBegin(p) \/ ApplyUpdate(p) \/ SaveFails(p)
               \/ Leave(p)
        PROVE  UNCHANGED file
    BY <1>2 DEF Construct, OpenScope, CloseScope, BeginAction, UpdateAction,
                FindAllByKey, Start, Enter, Crash, Reload, ApplyBegin, ApplyUpdate,
                SaveFails, Leave
  <1>3. CASE UNCHANGED vars
    BY <1>3 DEF vars
  <1> QED BY <1>1, <1>2, <1>3 DEF Next, Work

(* A thread that has reloaded keeps seeing the file as it is until it has  *)
(* saved: nobody else saves while it holds the lock.                       *)
LEMMA CopyStep == IInv /\ [Next]_vars => CopyInv'
  <1> SUFFICES ASSUME IInv, [Next]_vars, NEW q \in Proc
               PROVE  /\ (pc[q] = "apply" => mem[q] = file)'
                      /\ (pc[q] = "save" => LegalSave(q))'
    BY DEF CopyInv
  <1> USE DEF IInv, TypeOK
  <1>0. /\ pc[q] = "apply" => mem[q] = file
        /\ pc[q] = "save" => LegalSave(q)
    BY DEF CopyInv
  <1>1. ASSUME NEW p \in Proc, Save(p)
        PROVE  /\ (pc[q] = "apply" => mem[q] = file)'
               /\ (pc[q] = "save" => LegalSave(q))'
    <2>1. pc'[q] \notin {"apply", "save"}
      BY <1>1 DEF Save, LockInv
    <2> QED BY <2>1
  <1>2. ASSUME NEW p \in Proc, Reload(p)
        PROVE  /\ (pc[q] = "apply" => mem[q] = file)'
               /\ (pc[q] = "save" => LegalSave(q))'
    <2>1. p # q => pc'[q] = pc[q] /\ mem'[q] = mem[q]
      BY <1>2 DEF Reload
    <2>2. p = q => pc'[q] \in {"apply", "leave"} /\ (pc'[q] = "apply" => mem'[q] = file)
      BY <1>2 DEF Reload
    <2>3. file' = file /\ call' = call
      BY <1>2 DEF Reload
    <2> QED BY <1>0, <2>1, <2>2, <2>3 DEF LegalSave
  <1>3. ASSUME NEW p \in Proc, ApplyBegin(p)
        PROVE  /\ (pc[q] = "apply" => mem[q] = file)'
               /\ (pc[q] = "save" => LegalSave(q))'
    <2>1. p # q => pc'[q] = pc[q] /\ mem'[q] = mem[q]
      BY <1>3 DEF ApplyBegin
    <2>2. file' = file /\ call' = call
      BY <1>3 DEF ApplyBegin
    <2>3. CASE p # q
      BY <1>0, <2>1, <2>2, <2>3 DEF LegalSave
    <2>4. CASE p = q
      <3>1. pc'[q] \in {"save", "leave"}
        BY <1>3, <2>4 DEF ApplyBegin
      <3>2. mem[q] = file
        BY <1>0, <1>3, <2>4 DEF ApplyBegin
      <3>3. pc'[q] = "save" => /\ call[q].op = "begin"
                               /\ CanBegin(mem[q], call[q].id, call[q].key)
                               /\ mem'[q] = Begun(mem[q], call[q].id, call[q].key)
        BY <1>3, <2>4 DEF ApplyBegin
      <3> QED BY <2>2, <3>1, <3>2, <3>3 DEF LegalSave
    <2> QED BY <2>3, <2>4
  <1>4. ASSUME NEW p \in Proc, ApplyUpdate(p)
        PROVE  /\ (pc[q] = "apply" => mem[q] = file)'
               /\ (pc[q] = "save" => LegalSave(q))'
    <2>1. p # q => pc'[q] = pc[q] /\ mem'[q] = mem[q]
      BY <1>4 DEF ApplyUpdate
    <2>2. file' = file /\ call' = call
      BY <1>4 DEF ApplyUpdate
    <2>3. CASE p # q
      BY <1>0, <2>1, <2>2, <2>3 DEF LegalSave
    <2>4. CASE p = q
      <3>1. pc'[q] \in {"save", "leave"}
        BY <1>4, <2>4 DEF ApplyUpdate
      <3>2. mem[q] = file
        BY <1>0, <1>4, <2>4 DEF ApplyUpdate
      <3>3. pc'[q] = "save" => /\ call[q].op = "update"
                               /\ CanUpdate(mem[q], call[q].id, call[q].chg)
                               /\ Valid(Changed(mem[q][call[q].id], call[q].chg))
                               /\ mem'[q] = Updated(mem[q], call[q].id, call[q].chg)
        BY <1>4, <2>4 DEF ApplyUpdate
      <3> QED BY <2>2, <3>1, <3>2, <3>3 DEF LegalSave
    <2> QED BY <2>3, <2>4
  <1>5. ASSUME NEW p \in Proc,
               \/ Construct(p) \/ OpenScope(p) \/ CloseScope(p) \/ BeginAction(p)
               \/ UpdateAction(p) \/ FindAllByKey(p) \/ Enter(p) \/ Crash(p)
               \/ SaveFails(p) \/ Leave(p)
        PROVE  /\ (pc[q] = "apply" => mem[q] = file)'
               /\ (pc[q] = "save" => LegalSave(q))'
    <2>1. file' = file
      BY <1>5 DEF Construct, OpenScope, CloseScope, BeginAction, UpdateAction,
                  FindAllByKey, Start, Enter, Crash, SaveFails, Leave
    <2>2. pc'[q] \in {"apply", "save"}
            => pc'[q] = pc[q] /\ mem'[q] = mem[q] /\ call'[q] = call[q]
      BY <1>5 DEF Construct, OpenScope, CloseScope, BeginAction, UpdateAction,
                  FindAllByKey, Start, Enter, Crash, SaveFails, Leave
    <2> QED BY <1>0, <2>1, <2>2 DEF LegalSave
  <1>6. CASE UNCHANGED vars
    BY <1>0, <1>6 DEF vars, LegalSave
  <1> QED BY <1>1, <1>2, <1>3, <1>4, <1>5, <1>6 DEF Next, Work

(* IInv is inductive.                                                      *)
LEMMA InitIInv == Init => IInv
  <1> SUFFICES ASSUME Init PROVE IInv
    OBVIOUS
  <1> USE LedgerAssumption DEF Init
  <1>1. EmptyLedger \in Ledger
    BY DEF EmptyLedger, Ledger, Absent, Action
  <1>2. TypeOK
    BY <1>1 DEF TypeOK, Places, Calls, NoCall
  <1>3. LockInv /\ CopyInv
    BY DEF LockInv, CopyInv
  <1>4. KeyInv /\ FileLoadable /\ ClaimedOnce
    BY DEF KeyInv, FileLoadable, ClaimedOnce, EmptyLedger, Absent, Present, Loadable,
           Valid, TERMINAL_ACTION_STATES
  <1> QED BY <1>2, <1>3, <1>4 DEF IInv

(* Every step preserves the invariant.                                     *)
LEMMA StepIInv == IInv /\ [Next]_vars => IInv'
  <1> SUFFICES ASSUME IInv, [Next]_vars PROVE IInv'
    OBVIOUS
  <1>1. TypeOK' /\ LockInv' /\ CopyInv'
    BY TypeStep, LockStep, CopyStep DEF IInv
  <1>2. CASE Promise!Next
    BY <1>1, <1>2, PromisedStep DEF IInv
  <1>3. CASE UNCHANGED file
    BY <1>1, <1>3 DEF IInv, KeyInv, FileLoadable, ClaimedOnce
  <1> QED BY <1>2, <1>3, StepIsPromised

(* The invariant holds in every reachable state.                           *)
LEMMA Inductive == Spec => []IInv
  BY InitIInv, StepIInv, PTL DEF Spec

-----------------------------------------------------------------------------
(* Every variable keeps its type: the copies and the file are ledgers      *)
(* whatever calls are made and wherever a thread dies.                     *)
THEOREM TypeCorrect == Spec => []TypeOK
  <1>1. IInv => TypeOK
    BY DEF IInv
  <1> QED BY <1>1, Inductive, PTL

(* begin_action keeps two actions from claiming one idempotency key, for   *)
(* any number of threads, crashes and failed saves.                        *)
THEOREM EffectClaimedOnce == Spec => []ClaimedOnce
  <1>1. IInv => ClaimedOnce
    BY DEF IInv
  <1> QED BY <1>1, Inductive, PTL

(* _validate_action and os.replace keep the ledger on disk loadable.       *)
THEOREM AlwaysLoadable == Spec => []FileLoadable
  <1>1. IInv => FileLoadable
    BY DEF IInv
  <1> QED BY <1>1, Inductive, PTL

(* Reloading under the lock keeps a save from undoing another one.         *)
THEOREM NothingLost == Spec => []NoLostUpdate
  <1>1. IInv => NoLostUpdate
    BY SaveTouchesOne DEF IInv, CopyInv, NoLostUpdate
  <1> QED BY <1>1, Inductive, PTL

(* A promised step leaves DONE and FAILED records alone, so the file does. *)
THEOREM TerminalStaysTerminal == Spec => TerminalImmutable
  <1>1. IInv /\ [Next]_vars => [\A i \in ActionId : Terminal(file, i) => file'[i] = file[i]]_vars
    <2> SUFFICES ASSUME IInv, [Next]_vars, NEW i \in ActionId, Terminal(file, i)
                 PROVE  file'[i] = file[i]
      OBVIOUS
    <2>1. CASE UNCHANGED file
      BY <2>1
    <2>2. CASE Promise!Next
      BY <2>2, SameRecords DEF Promise!Next, Promise!Born, Promise!Moved, Active,
         Terminal, TERMINAL_ACTION_STATES, Absent
    <2> QED BY <2>1, <2>2, StepIsPromised
  <1> QED BY <1>1, Inductive, PTL DEF Spec, TerminalImmutable

(* The file, its lock and its copies implement the register.               *)
THEOREM ImplementsPromise == Spec => KeepsPromise
  <1>1. Init => Promise!Init
    BY DEF Init, Promise!Init, Promise!EmptyLedger, EmptyLedger, Promise!Absent, Absent
  <1>2. IInv /\ [Next]_vars => [Promise!Next]_file
    BY StepIsPromised
  <1> QED BY <1>1, <1>2, Inductive, PTL DEF Spec, KeepsPromise, Promise!Spec
==============================================================================
