-------------------------- MODULE GoalRunner_proofs --------------------------
(***************************************************************************)
(* Theorems about GoalRunner, for any runs, goals and files and any number *)
(* of edits from outside.                                                  *)
(*                                                                         *)
(* A run in its scope holds the lock, so only it moves its action and      *)
(* writes live files (LockInv, ClaimInv, LandInv).  What outlives its      *)
(* scope is its mark on a file and its action in the ledger: a run that    *)
(* has not announced its landing has left its mark nowhere (TraceInv).     *)
(***************************************************************************)
EXTENDS GoalRunner, TLAPS

Unclaimed == {"new", "starting", "stuck", "wait", "prepare"}

(* Places of a run whose action is unfinished.                             *)
Busy == {"register", "announce", "restore"} \cup InWork \cup InLand

(* Places where a run has not written, and not yet announced, a landing.   *)
Early == Unclaimed \cup {"register", "announce", "handle_work"} \cup InWork

LockInv == \A r \in Run : pc[r] \in Scoped => lock = r

(* An id that was never begun is Absent, every other one has a key.        *)
KeyInv ==
  \A a \in ActionId : IF Present(actions, a) THEN actions[a].key \in Key
                                             ELSE actions[a] = Absent

(* An action is its process's, and a run in its scope is that process.     *)
ClaimInv ==
  /\ \A a \in ActionId, r \in Run : process[a] = r => aid[r] = a
  /\ \A r \in Run :
       /\ pc[r] # "new" => goal[r] \in Key
       /\ pc[r] \in Unclaimed => \A a \in ActionId : process[a] # r
       /\ pc[r] \in Working => aid[r] \in Run /\ process[aid[r]] = r
       /\ pc[r] \in Busy => Active(actions, aid[r])
       /\ pc[r] \in InLand => actions[aid[r]].resume_from = "LAND_CANDIDATE"

(* What the run did, as its snapshots have it.                             *)
Effect(r) == IF ChangedFiles(r) = {} THEN "no_effect" ELSE "landed"

(* The ledger already says what a run is about to tell.                    *)
BackInv(r) ==
  /\ pc[r] \in InLand => ChangedFiles(r) # {}
  /\ pc[r] = "evidence" => DoneBy(r, Effect(r))
  /\ pc[r] \in {"finish", "write"} /\ FinalState(r) # "HOLD" => DoneBy(r, Effect(r))

(* Run r has left its mark nowhere but in its own candidate.               *)
Clean(r) ==
  \A f \in File :
    /\ live[f] # r
    /\ \A q \in Run : /\ before[q][f] # r /\ preimage[q][f] # r
                      /\ q # r => cand[q][f] # r

(* The ledger says of every unfinished action of r that it is landing.     *)
Announced(r) ==
  \A a \in ActionId :
    Active(actions, a) /\ process[a] = r =>
      actions[a].resume_from \in {"LAND_CANDIDATE", "CHECK_ACTUAL_EFFECT"}

TraceInv ==
  \A r \in Run :
    Clean(r) \/ /\ pc[r] \notin Early /\ Announced(r)
                /\ pc[r] \in InLand \cup {"restore", "evidence", "finish", "write"} =>
                     ChangedFiles(r) # {}

(* How the live files compare to the snapshots while r lands.              *)
LandInv(r) ==
  /\ pc[r] \in {"copy", "restore"} => todo[r] \subseteq ChangedFiles(r)
  /\ pc[r] = "preimage" =>
       \A f \in ChangedFiles(r) \ touched : live[f] = before[r][f]
  /\ pc[r] = "copy" => \A f \in todo[r] \ touched : live[f] = before[r][f]
  /\ pc[r] \in {"copy", "validate", "restore"} =>
       \A f \in ChangedFiles(r) \ touched : preimage[r][f] = before[r][f]
  /\ pc[r] = "restore" =>
       \A f \in ChangedFiles(r) \ (todo[r] \cup touched) : live[f] = before[r][f]
  /\ pc[r] = "restored" =>
       \A f \in ChangedFiles(r) \ touched : live[f] = before[r][f]
  /\ pc[r] = "record" =>
       \A f \in ChangedFiles(r) \ (Deleted(r) \cup touched) : live[f] = cand[r][f]

IInv ==
  /\ TypeOK /\ LockInv /\ KeyInv /\ ClaimInv /\ ClaimsFollowLedger /\ TraceInv
  /\ \A r \in Run : BackInv(r) /\ LandInv(r)

-----------------------------------------------------------------------------
(* A step of run r that is not someone's edit.                             *)
RunStep(r) ==
  \/ Execute(r) \/ LaunchFails(r) \/ HandOverFails(r) \/ HandOver(r)
  \/ EnterScope(r) \/ Work(r) \/ Die(r)

(* Run r takes action a: it begins it, or resumes it.                      *)
Takes(r, a, rec) ==
  /\ pc[r] = "prepare" /\ pc'[r] = "register"
  /\ actions' = [actions EXCEPT ![a] = rec]
  /\ process' = [process EXCEPT ![a] = r]
  /\ aid' = [aid EXCEPT ![r] = a]
  /\ rec \in Action /\ rec.key \in Key
  /\ \/ /\ CanBegin(actions, a, rec.key)
        /\ rec.state = "RUNNING" /\ rec.resume_from = None
     \/ /\ actions[a].state \in RESUMABLE_ACTION_STATES
        /\ rec.state = "RESUMED" /\ rec.key = actions[a].key

(* Run r moves its own action.                                             *)
Writes(r, rec) ==
  /\ pc[r] \in Working /\ Active(actions, aid[r])
  /\ actions' = [actions EXCEPT ![aid[r]] = rec]
  /\ UNCHANGED <<process, aid>>
  /\ rec \in Action /\ rec.key = actions[aid[r]].key
  /\ rec.state \in {actions[aid[r]].state, "DONE", "HOLD", "INTERRUPTED"}
  /\ Valid(rec)

(* Before the first run no action is begun and no file bears a mark.       *)
LEMMA InitInv == Init => IInv
  <1> SUFFICES ASSUME Init PROVE IInv
    OBVIOUS
  <1> USE DEF Init
  <1>1. TypeOK
    BY RunnerAssumption DEF TypeOK, EmptyLedger, Ledger, Absent, Action, Content,
      Blank, NoFile, Places, RunStates
  <1>2. LockInv /\ KeyInv
    BY DEF LockInv, KeyInv, Scoped, Working, InReport, InWork, InLand, InHandler,
      EmptyLedger, Present, Absent
  <1>3. ClaimInv
    BY RunnerAssumption DEF ClaimInv, Run, Scoped, Working, InReport, InWork, InLand, InHandler, Busy
  <1>4. ClaimsFollowLedger
    BY DEF ClaimsFollowLedger, Says
  <1>5. TraceInv
    <2>1. \A r \in Run : Clean(r)
      BY RunnerAssumption DEF Clean, Blank, NoFile
    <2> QED
      BY <2>1 DEF TraceInv
  <1>6. \A r \in Run : BackInv(r) /\ LandInv(r)
    BY DEF BackInv, LandInv, InLand
  <1> QED
    BY <1>1, <1>2, <1>3, <1>4, <1>5, <1>6 DEF IInv

(* A step of one run leaves what is another run's alone.                   *)
LEMMA OthersStay ==
  ASSUME TypeOK, NEW r \in Run, RunStep(r), NEW q \in Run, q # r
  PROVE  /\ pc'[q] = pc[q] /\ goal'[q] = goal[q] /\ aid'[q] = aid[q]
         /\ before'[q] = before[q] /\ cand'[q] = cand[q]
         /\ preimage'[q] = preimage[q] /\ todo'[q] = todo[q]
         /\ report'[q] = report[q] /\ evidence'[q] = evidence[q]
  <1> USE DEF TypeOK, Go, shadowVars, toldVars
  <1>1. CASE Execute(r) \/ LaunchFails(r) \/ HandOverFails(r) \/ HandOver(r)
               \/ EnterScope(r)
    BY <1>1 DEF Execute, LaunchFails, HandOverFails, HandOver, EnterScope
  <1>2. CASE Die(r) \/ Finish(r) \/ ReportFailure(r)
    BY <1>2 DEF Die, Finish, ReportFailure, Exit
  <1>3. CASE Begin(r) \/ Resume(r) \/ Refuse(r) \/ Register(r) \/ Announce(r)
    BY <1>3 DEF Begin, Resume, Claimed, Refuse, Register, Announce
  <1>4. CASE CopySnapshot(r) \/ BuildCandidate(r) \/ ClosureFails(r)
               \/ CandidateFails(r) \/ AdjudicationHolds(r)
    BY <1>4 DEF CopySnapshot, BuildCandidate, ClosureFails, CandidateFails,
      AdjudicationHolds, Raise
  <1>5. CASE NoImplementationEffect(r) \/ NoSourceChange(r) \/ Adjudicate(r)
    BY <1>5 DEF NoImplementationEffect, NoSourceChange, Adjudicate, Complete, Appended
  <1>6. CASE AssertLivePreimage(r) \/ CopyPreimage(r) \/ CopyFile(r) \/ Reobserve(r)
               \/ ReobserveFails(r) \/ RestoreFile(r) \/ RecordLanding(r) \/ LandFails(r)
    BY <1>6 DEF AssertLivePreimage, CopyPreimage, CopyFile, Reobserve, ReobserveFails,
      RestoreFile, RecordLanding, LandFails, Complete, Handled
  <1>7. CASE RecordEvidence(r) \/ AppendFinalState(r) \/ FinishFails(r) \/ Handle(r)
               \/ HandleFails(r)
    BY <1>7 DEF RecordEvidence, AppendFinalState, FinishFails, Handle, HandleFails, Appended
  <1> QED
    BY <1>1, <1>2, <1>3, <1>4, <1>5, <1>6, <1>7 DEF RunStep, Work

(* A run moves its action only at these places, and takes one at "prepare".*)
LEMMA LedgerCases ==
  ASSUME IInv, NEW r \in Run, RunStep(r)
  PROVE  \/ UNCHANGED <<actions, process, aid>>
         \/ \E a \in ActionId, rec \in Action : Takes(r, a, rec)
         \/ \E rec \in Action : Writes(r, rec)
  <1>1. /\ actions \in Ledger /\ pc \in [Run -> Places]
        /\ \A a \in ActionId : actions[a] \in Action
    BY DEF IInv, TypeOK, Ledger
  <1>2. ASSUME Begin(r) PROVE \E a \in ActionId, rec \in Action : Takes(r, a, rec)
    <2> DEFINE rec == [state |-> "RUNNING", key |-> goal[r], resume_from |-> None]
    <2>1. goal[r] \in Key
      BY <1>2 DEF IInv, ClaimInv, Begin
    <2>2. rec \in Action
      BY <2>1 DEF Action, ACTION_STATES
    <2>3. Takes(r, r, rec)
      BY <1>1, <1>2, <2>1, <2>2 DEF Begin, Claimed, Go, Begun, Takes
    <2> QED
      BY <2>2, <2>3 DEF Run
  <1>3. ASSUME Resume(r) PROVE \E a \in ActionId, rec \in Action : Takes(r, a, rec)
    <2>1. PICK a \in ActiveSame(r) :
            /\ actions[a].state \in RESUMABLE_ACTION_STATES
            /\ actions' = Updated(actions, a,
                 [state |-> "RESUMED", key |-> Keep,
                  resume_from |-> IF actions[a].resume_from = None
                                    THEN "CHECK_ACTUAL_EFFECT" ELSE Keep])
            /\ Claimed(r, a)
      BY <1>3 DEF Resume
    <2>2. a \in ActionId /\ Active(actions, a)
      BY <2>1 DEF ActiveSame
    <2> DEFINE c == [state |-> "RESUMED", key |-> Keep,
                     resume_from |-> IF actions[a].resume_from = None
                                       THEN "CHECK_ACTUAL_EFFECT" ELSE Keep]
               rec == Changed(actions[a], c)
    <2>3. /\ rec = [state |-> "RESUMED", key |-> actions[a].key,
                    resume_from |-> IF actions[a].resume_from = None
                                      THEN "CHECK_ACTUAL_EFFECT"
                                      ELSE actions[a].resume_from]
      BY <1>1, <2>2, RecordAssumption, RunnerAssumption
        DEF Changed, Action, ACTION_STATES
    <2>4. rec \in Action
      BY <1>1, <2>2, <2>3, RunnerAssumption DEF Action, ACTION_STATES
    <2>5. actions[a].key \in Key
      BY <2>2 DEF IInv, KeyInv, Active
    <2>6. /\ pc[r] = "prepare" /\ pc'[r] = "register"
          /\ actions' = [actions EXCEPT ![a] = rec]
          /\ process' = [process EXCEPT ![a] = r] /\ aid' = [aid EXCEPT ![r] = a]
      BY <1>1, <1>3, <2>1 DEF Resume, Claimed, Go, Updated
    <2> HIDE DEF rec
    <2>7. rec.state = "RESUMED" /\ rec.key = actions[a].key
      BY <2>3
    <2>8. Takes(r, a, rec)
      BY <2>1, <2>4, <2>5, <2>6, <2>7 DEF Takes
    <2> QED
      BY <2>2, <2>4, <2>8
  <1>4. ASSUME pc[r] \in Working, Active(actions, aid[r]),
               aid[r] \in ActionId, UNCHANGED <<process, aid>>,
               NEW s \in {actions[aid[r]].state, "DONE", "HOLD", "INTERRUPTED"},
               NEW p \in ResumePoint \cup {None},
               s = "DONE" => p = None,
               actions' = [actions EXCEPT ![aid[r]] =
                 [state |-> s, key |-> actions[aid[r]].key, resume_from |-> p]]
        PROVE  \E rec \in Action : Writes(r, rec)
    <2> DEFINE rec == [state |-> s, key |-> actions[aid[r]].key, resume_from |-> p]
    <2>1. rec \in Action
      BY <1>1, <1>4 DEF Action, ACTION_STATES
    <2>2. Valid(rec)
      BY <1>4 DEF Valid, Active, Terminal, TERMINAL_ACTION_STATES
    <2>3. rec.state = s /\ rec.key = actions[aid[r]].key
      OBVIOUS
    <2>4. Writes(r, rec)
      BY <1>4, <2>1, <2>2 DEF Writes
    <2> QED
      BY <2>1, <2>4
  <1>5. ASSUME NEW s \in ACTION_STATES \cup {Keep}, NEW p \in ResumePoint \cup {None},
               Active(actions, aid[r]), aid[r] \in ActionId,
               actions' = Updated(actions, aid[r],
                 [state |-> s, key |-> Keep, resume_from |-> p])
        PROVE  actions' = [actions EXCEPT ![aid[r]] =
                 [state |-> IF s = Keep THEN actions[aid[r]].state ELSE s,
                  key |-> actions[aid[r]].key, resume_from |-> p]]
    BY <1>1, <1>5, RecordAssumption DEF Updated, Changed
  <1>6. pc[r] \in Working => aid[r] \in ActionId
    BY DEF IInv, ClaimInv, Run
  <1>7. pc[r] \in Busy => Active(actions, aid[r])
    BY DEF IInv, ClaimInv
  <1> USE RunnerAssumption DEF Scoped, Working, InReport, InWork, InLand, InHandler, Busy, ACTION_STATES
  <1>8. ASSUME NEW p \in ResumePoint, pc[r] \in {"register", "verified"},
               actions' = [actions EXCEPT ![aid[r]].resume_from = p],
               UNCHANGED <<process, aid>>
        PROVE  \E rec \in Action : Writes(r, rec)
    <2>1. /\ pc[r] \in Working /\ Active(actions, aid[r])
          /\ aid[r] \in ActionId
      BY <1>6, <1>7, <1>8
    <2>2. actions[aid[r]] \in Action
      BY <1>1, <2>1
    <2>3. actions' = [actions EXCEPT ![aid[r]] =
            [state |-> actions[aid[r]].state, key |-> actions[aid[r]].key,
             resume_from |-> p]]
      <3> DEFINE old == actions[aid[r]]
      <3>1. [old EXCEPT !.resume_from = p] =
              [state |-> old.state, key |-> old.key, resume_from |-> p]
        BY <2>2 DEF Action
      <3>2. actions' = [actions EXCEPT ![aid[r]] = [old EXCEPT !.resume_from = p]]
        BY <1>8
      <3> QED
        BY <3>1, <3>2
    <2>4. actions[aid[r]].state # "DONE"
      BY <2>1 DEF Active, Terminal, TERMINAL_ACTION_STATES
    <2> QED
      BY <1>4, <1>8, <2>1, <2>3, <2>4
  <1>9. ASSUME Register(r) PROVE \E rec \in Action : Writes(r, rec)
    BY <1>8, <1>9 DEF Register
  <1>10. ASSUME Adjudicate(r) PROVE \E rec \in Action : Writes(r, rec)
    BY <1>8, <1>10 DEF Adjudicate
  <1>11. ASSUME NEW effect, Complete(r, effect), pc[r] \in {"verified", "record"}
         PROVE  \E rec \in Action : Writes(r, rec)
    <2>1. /\ pc[r] \in Working /\ Active(actions, aid[r])
          /\ aid[r] \in ActionId
      BY <1>6, <1>7, <1>11
    <2>2. "DONE" # Keep
      BY RecordAssumption
    <2>3. actions' = [actions EXCEPT ![aid[r]] =
            [state |-> "DONE", key |-> actions[aid[r]].key, resume_from |-> None]]
      BY <1>5, <1>11, <2>1, <2>2 DEF Complete
    <2>4. UNCHANGED <<process, aid>>
      BY <1>11 DEF Complete
    <2> QED
      BY <1>4, <2>1, <2>3, <2>4
  <1>12. ASSUME NoImplementationEffect(r) PROVE \E rec \in Action : Writes(r, rec)
    <2>1. /\ pc[r] \in Working /\ Active(actions, aid[r])
          /\ aid[r] \in ActionId
      BY <1>6, <1>7, <1>12 DEF NoImplementationEffect
    <2>2. "HOLD" # Keep
      BY RecordAssumption
    <2>3. actions' = [actions EXCEPT ![aid[r]] =
            [state |-> "HOLD", key |-> actions[aid[r]].key, resume_from |-> "REWORK"]]
      BY <1>5, <1>12, <2>1, <2>2 DEF NoImplementationEffect
    <2>4. UNCHANGED <<process, aid>>
      BY <1>12 DEF NoImplementationEffect
    <2> QED
      BY <1>4, <2>1, <2>3, <2>4
  <1>13. ASSUME Handle(r) PROVE \E rec \in Action : Writes(r, rec)
    <2>1. /\ pc[r] \in Working /\ Active(actions, aid[r])
          /\ aid[r] \in ActionId /\ UNCHANGED <<process, aid>>
      BY <1>6, <1>13 DEF Handle, CanUpdate
    <2>2. "HOLD" # Keep /\ "INTERRUPTED" # Keep
      BY RecordAssumption
    <2>3. CASE pc[r] = "handle_work"
      <3>1. actions' = Updated(actions, aid[r],
              [state |-> "HOLD", key |-> Keep, resume_from |-> "REWORK"])
        BY <1>13, <2>3 DEF Handle, Outcome
      <3>2. actions' = [actions EXCEPT ![aid[r]] =
              [state |-> "HOLD", key |-> actions[aid[r]].key, resume_from |-> "REWORK"]]
        BY <1>5, <2>1, <2>2, <3>1
      <3> QED
        BY <1>4, <2>1, <3>2
    <2>4. CASE pc[r] # "handle_work"
      <3>1. actions' = Updated(actions, aid[r],
              [state |-> "INTERRUPTED", key |-> Keep,
               resume_from |-> "CHECK_ACTUAL_EFFECT"])
        BY <1>13, <2>4 DEF Handle, Outcome
      <3>2. actions' = [actions EXCEPT ![aid[r]] =
              [state |-> "INTERRUPTED", key |-> actions[aid[r]].key,
               resume_from |-> "CHECK_ACTUAL_EFFECT"]]
        BY <1>5, <2>1, <2>2, <3>1
      <3> QED
        BY <1>4, <2>1, <3>2
    <2> QED
      BY <2>3, <2>4
  <1>14. CASE UNCHANGED <<actions, process, aid>>
    BY <1>14
  <1>15. CASE NoSourceChange(r) \/ RecordLanding(r)
    BY <1>11, <1>15 DEF NoSourceChange, RecordLanding
  <1> QED
    BY <1>2, <1>3, <1>9, <1>10, <1>12, <1>13, <1>14, <1>15
      DEF RunStep, Work, ledgerVars, Execute, LaunchFails, HandOverFails, HandOver,
        EnterScope, Die, Refuse, Announce, CopySnapshot, BuildCandidate, ClosureFails,
        CandidateFails, AdjudicationHolds, Raise, AssertLivePreimage, CopyPreimage,
        CopyFile, Reobserve, ReobserveFails, RestoreFile, LandFails, RecordEvidence,
        AppendFinalState, Finish, FinishFails, HandleFails, ReportFailure

(* Evidence is only ever added to.                                         *)
LEMMA AppendedType ==
  ASSUME NEW S, evidence \in [Run -> SUBSET S], NEW r \in Run, NEW state \in S,
         Appended(r, state)
  PROVE  evidence' \in [Run -> SUBSET S]
  <1>1. CASE evidence' = [evidence EXCEPT ![r] = @ \cup {state}]
    BY <1>1
  <1> QED
    BY <1>1 DEF Appended

(* Every variable keeps its type.                                          *)
LEMMA TypeStep == IInv /\ [Next]_vars => TypeOK'
  <1> SUFFICES ASSUME IInv, [Next]_vars PROVE TypeOK'
    OBVIOUS
  <1> USE DEF TypeOK
  <1>1. TypeOK
    BY DEF IInv
  <1>2. CASE UNCHANGED vars
    BY <1>1, <1>2 DEF vars, ledgerVars, shadowVars, liveVars, toldVars
  <1>3. ASSUME NEW f \in File, EditLive(f) PROVE TypeOK'
    BY <1>1, <1>3, RunnerAssumption DEF EditLive, ledgerVars, shadowVars, toldVars, Content
  <1>4. ASSUME NEW r \in Run, RunStep(r) PROVE TypeOK'
    <2>1. actions' \in Ledger /\ process' \in [ActionId -> Run \cup {NoRun}]
            /\ aid' \in [Run -> ActionId \cup {NoRun}]
      <3>1. CASE UNCHANGED <<actions, process, aid>>
        BY <1>1, <3>1
      <3>2. ASSUME NEW a \in ActionId, NEW rec \in Action, Takes(r, a, rec)
            PROVE  actions' \in Ledger /\ process' \in [ActionId -> Run \cup {NoRun}]
                     /\ aid' \in [Run -> ActionId \cup {NoRun}]
        BY <1>1, <3>2 DEF Takes, Ledger
      <3>3. ASSUME NEW rec \in Action, Writes(r, rec)
            PROVE  actions' \in Ledger /\ process' \in [ActionId -> Run \cup {NoRun}]
                     /\ aid' \in [Run -> ActionId \cup {NoRun}]
        BY <1>1, <3>3 DEF Writes, Ledger
      <3> QED
        BY <1>4, <3>1, <3>2, <3>3, LedgerCases
    <2> DEFINE Rest == /\ confirmed' \in [ActionId -> {"null", "no_effect", "landed"}]
                       /\ lock' \in Run \cup {NoRun}
                       /\ pc' \in [Run -> Places]
                       /\ goal' \in [Run -> Key \cup {NoKey}]
                       /\ live' \in [File -> Content]
                       /\ before' \in [Run -> [File -> Content]]
                       /\ cand' \in [Run -> [File -> Content]]
                       /\ preimage' \in [Run -> [File -> Content]]
                       /\ todo' \in [Run -> SUBSET File]
                       /\ report' \in [Run -> RunStates]
                       /\ evidence' \in [Run -> SUBSET EvidenceStates]
                       /\ touched' \subseteq File
                       /\ edits' \in 0..MaxEdits
    <2> USE DEF Go, Places, Scoped, Working, InReport, InWork, InLand, InHandler, Gone, ledgerVars,
      shadowVars, liveVars, toldVars
    <2>2. Blank \in [File -> Content]
      BY DEF Blank, Content
    <2>3. CASE Execute(r) \/ LaunchFails(r) \/ HandOverFails(r) \/ HandOver(r)
                 \/ EnterScope(r)
      <3>1. CASE Execute(r)
        BY <1>1, <2>1, <3>1 DEF Execute, RunStates
      <3>2. CASE LaunchFails(r)
        BY <1>1, <2>1, <3>2 DEF LaunchFails, RunStates
      <3>3. CASE HandOverFails(r) \/ HandOver(r)
        BY <1>1, <2>1, <3>3 DEF HandOverFails, HandOver
      <3>4. CASE EnterScope(r)
        BY <1>1, <2>1, <3>4 DEF EnterScope
      <3> QED
        BY <2>3, <3>1, <3>2, <3>3, <3>4
    <2>4. CASE Die(r) \/ Finish(r) \/ ReportFailure(r)
      <3>1. FinalState(r) \in RunStates
        BY DEF FinalState, RunStates
      <3>2. report' \in [Run -> RunStates]
        BY <1>1, <2>4, <3>1 DEF Die, Finish, ReportFailure, RunStates
      <3>3. /\ UNCHANGED <<confirmed, goal, live, touched, edits, evidence>>
            /\ \E place \in Gone : Exit(r, place)
        BY <2>4 DEF Die, Finish, ReportFailure
      <3>4. Rest
        BY <1>1, <2>2, <3>2, <3>3 DEF Exit
      <3> QED
        BY <2>1, <3>4
    <2>5. CASE Begin(r) \/ Resume(r) \/ Refuse(r) \/ Register(r) \/ Announce(r)
      <3>1. Rest
        BY <1>1, <2>5 DEF Begin, Resume, Claimed, Refuse, Register, Announce, RunStates
      <3> QED
        BY <2>1, <3>1
    <2>6. CASE CopySnapshot(r) \/ ClosureFails(r) \/ CandidateFails(r)
                 \/ AdjudicationHolds(r) \/ Adjudicate(r)
      <3>1. CASE CopySnapshot(r)
        BY <1>1, <2>1, <3>1 DEF CopySnapshot
      <3>2. CASE Raise(r)
        BY <1>1, <2>1, <3>2 DEF Raise
      <3>3. CASE Adjudicate(r)
        BY <1>1, <2>1, <3>3 DEF Adjudicate
      <3> QED
        BY <2>6, <3>1, <3>2, <3>3 DEF ClosureFails, CandidateFails, AdjudicationHolds
    <2>7. CASE BuildCandidate(r)
      <3>1. cand' \in [Run -> [File -> Content]]
        BY <1>1, <2>7 DEF BuildCandidate, Content
      <3>2. Rest
        BY <1>1, <2>7, <3>1 DEF BuildCandidate
      <3> QED
        BY <2>1, <3>2
    <2>8. CASE NoImplementationEffect(r) \/ NoSourceChange(r)
      <3>1. evidence' \in [Run -> SUBSET EvidenceStates]
        BY <1>1, <2>8, AppendedType
          DEF NoImplementationEffect, NoSourceChange, Complete, EvidenceStates
      <3>2. Rest
        BY <1>1, <2>8, <3>1 DEF NoImplementationEffect, NoSourceChange, Complete
      <3> QED
        BY <2>1, <3>2
    <2>9. CASE AssertLivePreimage(r) \/ Reobserve(r) \/ RecordLanding(r) \/ LandFails(r)
      <3>1. Rest
        BY <1>1, <2>9 DEF AssertLivePreimage, Reobserve, RecordLanding, LandFails, Complete
      <3> QED
        BY <2>1, <3>1
    <2>10. CASE CopyPreimage(r) \/ ReobserveFails(r)
      <3>1. ChangedFiles(r) \subseteq File /\ NoFile \in Content
        BY DEF ChangedFiles, Content
      <3>2. CASE CopyPreimage(r)
        <4>1. preimage' \in [Run -> [File -> Content]]
          BY <1>1, <3>1, <3>2 DEF CopyPreimage
        <4> QED
          BY <1>1, <2>1, <3>1, <3>2, <4>1 DEF CopyPreimage
      <3>3. CASE ReobserveFails(r)
        BY <1>1, <2>1, <3>1, <3>3 DEF ReobserveFails
      <3> QED
        BY <2>10, <3>2, <3>3
    <2>11. CASE CopyFile(r) \/ RestoreFile(r)
      <3>1. PICK f \in todo[r], place \in Places : Handled(r, f, place)
        BY <2>11 DEF CopyFile, RestoreFile
      <3>2. pc' \in [Run -> Places] /\ todo' \in [Run -> SUBSET File]
        BY <1>1, <3>1 DEF Handled
      <3>3. live' \in [File -> Content]
        <4>1. PICK g \in File, c \in Content : live' = [live EXCEPT ![g] = c]
          BY <1>1, <2>11 DEF CopyFile, RestoreFile
        <4> QED
          BY <1>1, <4>1
      <3>4. UNCHANGED <<confirmed, lock, goal, before, cand, preimage, report, evidence,
                        touched, edits>>
        BY <2>11 DEF CopyFile, RestoreFile
      <3> QED
        BY <1>1, <2>1, <3>2, <3>3, <3>4
    <2>12. CASE RecordEvidence(r) \/ AppendFinalState(r) \/ FinishFails(r) \/ Handle(r)
                  \/ HandleFails(r)
      <3>1. Outcome(r).state \in {"HOLD", "INTERRUPTED"} /\ FinalState(r) \in EvidenceStates
        BY DEF Outcome, FinalState, EvidenceStates
      <3>5. CASE AppendFinalState(r)
        <4>1. PICK state \in EvidenceStates : Appended(r, state)
          BY <3>1, <3>5 DEF AppendFinalState, EvidenceStates
        <4>2. evidence' \in [Run -> SUBSET EvidenceStates]
          BY <1>1, <4>1, AppendedType
        <4> QED
          BY <1>1, <2>1, <3>5, <4>2 DEF AppendFinalState
      <3>2. CASE RecordEvidence(r)
        <4>1. evidence' \in [Run -> SUBSET EvidenceStates]
          BY <1>1, <3>2, AppendedType DEF RecordEvidence, EvidenceStates
        <4> QED
          BY <1>1, <2>1, <3>2, <4>1 DEF RecordEvidence
      <3>3. CASE FinishFails(r) \/ HandleFails(r)
        BY <1>1, <2>1, <3>3 DEF FinishFails, HandleFails
      <3>4. CASE Handle(r)
        <4>1. confirmed' \in [ActionId -> {"null", "no_effect", "landed"}]
          BY <1>1, <3>4 DEF Handle
        <4>2. evidence' \in [Run -> SUBSET EvidenceStates]
          <5>1. PICK state \in EvidenceStates : Appended(r, state)
            BY <3>1, <3>4 DEF Handle, EvidenceStates
          <5> QED
            BY <1>1, <5>1, AppendedType
        <4> QED
          BY <1>1, <2>1, <3>4, <4>1, <4>2 DEF Handle
      <3> QED
        BY <2>12, <3>2, <3>3, <3>4, <3>5
    <2> QED
      BY <1>4, <2>3, <2>4, <2>5, <2>6, <2>7, <2>8, <2>9, <2>10, <2>11, <2>12
        DEF RunStep, Work
  <1> QED
    BY <1>2, <1>3, <1>4 DEF Next, RunStep

(* The lock keeps two runs from being in their scopes together.            *)
LEMMA LockStep == IInv /\ [Next]_vars => LockInv'
  <1> SUFFICES ASSUME IInv, [Next]_vars PROVE LockInv'
    OBVIOUS
  <1> USE DEF Scoped, Working, InReport, InWork, InLand, InHandler, Gone, Go
  <1>1. LockInv /\ pc \in [Run -> Places]
    BY DEF IInv, TypeOK
  <1>2. CASE UNCHANGED <<pc, lock>>
    BY <1>1, <1>2 DEF LockInv
  <1>3. ASSUME NEW r \in Run, Execute(r) \/ LaunchFails(r) \/ HandOverFails(r) \/ HandOver(r)
        PROVE  LockInv'
    BY <1>1, <1>3 DEF Execute, LaunchFails, HandOverFails, HandOver, LockInv
  <1>4. ASSUME NEW r \in Run, EnterScope(r) PROVE LockInv'
    BY <1>1, <1>4, RunnerAssumption DEF EnterScope, LockInv
  <1>5. ASSUME NEW r \in Run, NEW place \in Gone, Exit(r, place) PROVE LockInv'
    BY <1>1, <1>5 DEF Exit, LockInv
  <1>6. ASSUME NEW r \in Run, Work(r) PROVE LockInv'
    <2>1. CASE Finish(r) \/ ReportFailure(r)
      BY <1>5, <2>1 DEF Finish, ReportFailure
    <2>2. CASE ~(Finish(r) \/ ReportFailure(r))
      <3>1. pc[r] \in Scoped /\ UNCHANGED lock
        BY <1>6, <2>2 DEF Work, Begin, Resume, Claimed, Refuse, Register, Announce, CopySnapshot,
          BuildCandidate, ClosureFails, CandidateFails, AdjudicationHolds, Raise,
          NoImplementationEffect, NoSourceChange, Complete, Adjudicate,
          AssertLivePreimage, CopyPreimage, CopyFile, Reobserve, ReobserveFails,
          RestoreFile, RecordLanding, LandFails, RecordEvidence, AppendFinalState,
          FinishFails, Handle, HandleFails
      <3>2. \A q \in Run : q # r => pc'[q] = pc[q]
        BY <1>6, OthersStay DEF IInv, RunStep
      <3> QED
        BY <1>1, <3>1, <3>2 DEF LockInv
    <2> QED
      BY <2>1, <2>2
  <1> QED
    BY <1>2, <1>3, <1>4, <1>5, <1>6 DEF Next, vars, EditLive, Die

(* A step changes the action of one run only, which has it or takes it.    *)
LEMMA LedgerStep ==
  ASSUME IInv, [Next]_vars
  PROVE  \/ UNCHANGED <<actions, process, aid>>
         \/ \E r \in Run, a \in ActionId, rec \in Action : Takes(r, a, rec)
         \/ \E r \in Run, rec \in Action : Writes(r, rec)
  BY LedgerCases DEF Next, RunStep, vars, ledgerVars, EditLive

(* Only begin_action gives an id its record, with the key of a goal.       *)
LEMMA KeyStep == IInv /\ [Next]_vars => KeyInv'
  <1> SUFFICES ASSUME IInv, [Next]_vars PROVE KeyInv'
    OBVIOUS
  <1>1. KeyInv /\ actions \in Ledger
    BY DEF IInv, TypeOK
  <1>2. CASE UNCHANGED actions
    BY <1>1, <1>2 DEF KeyInv, Present
  <1>3. ASSUME NEW r \in Run, NEW a \in ActionId, NEW rec \in Action, Takes(r, a, rec)
        PROVE  KeyInv'
    BY <1>1, <1>3 DEF Takes, KeyInv, Present, Ledger
  <1>4. ASSUME NEW r \in Run, NEW rec \in Action, Writes(r, rec) PROVE KeyInv'
    <2>1. aid[r] \in ActionId
      BY <1>4 DEF Writes, IInv, ClaimInv, Run
    <2> QED
      BY <1>1, <1>4, <2>1 DEF Writes, KeyInv, Present, Active, Ledger
  <1> QED
    BY <1>2, <1>3, <1>4, LedgerStep

(* Another run's step leaves alone the action of a run, if it has not      *)
(* given it up, and every action that is DONE.                             *)
LEMMA ActionsStay ==
  ASSUME IInv, NEW r \in Run, RunStep(r), NEW q \in Run, q # r,
         NEW a \in ActionId, process[a] = q
  PROVE  /\ actions[a].state = "DONE" \/ pc[q] \in Scoped =>
               actions'[a] = actions[a] /\ process'[a] = q
         /\ process'[a] = q => actions'[a] = actions[a]
  <1>1. actions \in Ledger /\ process \in [ActionId -> Run \cup {NoRun}]
          /\ a \in ActionId
    BY DEF IInv, TypeOK
  <1>2. ASSUME NEW b \in ActionId, NEW rec \in Action, Takes(r, b, rec)
        PROVE  /\ actions[a].state = "DONE" \/ pc[q] \in Scoped =>
                     actions'[a] = actions[a] /\ process'[a] = q
               /\ process'[a] = q => actions'[a] = actions[a]
    <2>1. CASE a # b
      BY <1>1, <1>2, <2>1 DEF Takes, Ledger
    <2>2. CASE a = b
      <3>1. actions[a].state # "DONE"
        BY <1>2, <2>2 DEF Takes, CanBegin, Present, RESUMABLE_ACTION_STATES
      <3>2. pc[q] \notin Scoped
        BY <1>2 DEF Takes, Scoped, Working, InReport, IInv, LockInv
      <3>3. process'[a] = r
        BY <1>1, <1>2, <2>2 DEF Takes
      <3> QED
        BY <3>1, <3>2, <3>3
    <2> QED
      BY <2>1, <2>2
  <1>3. ASSUME NEW rec \in Action, Writes(r, rec)
        PROVE  actions'[a] = actions[a] /\ process'[a] = q
    <2>1. aid[r] # a
      BY <1>3 DEF Writes, IInv, ClaimInv
    <2> QED
      BY <1>1, <1>3, <2>1 DEF Writes, Ledger
  <1> QED
    BY <1>2, <1>3, LedgerCases

(* What ClaimInv says of one run.                                          *)
RunClaim(r) ==
  /\ pc[r] # "new" => goal[r] \in Key
  /\ pc[r] \in Unclaimed => \A a \in ActionId : process[a] # r
  /\ pc[r] \in Working => aid[r] \in Run /\ process[aid[r]] = r
  /\ pc[r] \in Busy => Active(actions, aid[r])
  /\ pc[r] \in InLand => actions[aid[r]].resume_from = "LAND_CANDIDATE"

(* A run works for one action at most, the one it took.                    *)
LEMMA OwnAction ==
  ASSUME IInv, [Next]_vars
  PROVE  \A a \in ActionId, r \in Run : process'[a] = r => aid'[r] = a
  <1>1. /\ \A a \in ActionId, r \in Run : process[a] = r => aid[r] = a
        /\ process \in [ActionId -> Run \cup {NoRun}]
        /\ aid \in [Run -> ActionId \cup {NoRun}]
    BY DEF IInv, ClaimInv, TypeOK
  <1>2. CASE UNCHANGED <<process, aid>>
    BY <1>1, <1>2
  <1>3. ASSUME NEW q \in Run, NEW b \in ActionId, NEW rec \in Action, Takes(q, b, rec)
        PROVE  \A a \in ActionId, r \in Run : process'[a] = r => aid'[r] = a
    <2>1. \A a \in ActionId : process[a] # q
      BY <1>3 DEF Takes, IInv, ClaimInv, Unclaimed
    <2> QED
      BY <1>1, <1>3, <2>1 DEF Takes
  <1> QED
    BY <1>2, <1>3, LedgerStep DEF Writes

(* Another run's step.                                                     *)
LEMMA OthersClaim ==
  ASSUME IInv, NEW r \in Run, RunStep(r), NEW q \in Run, q # r
  PROVE  RunClaim(q)'
  <1>1. RunClaim(q)
    BY DEF IInv, ClaimInv, RunClaim
  <1>2. /\ pc'[q] = pc[q] /\ goal'[q] = goal[q] /\ aid'[q] = aid[q]
    BY OthersStay DEF IInv
  <1>3. \A a \in ActionId : process[a] # q => process'[a] # q
    <2>1. process \in [ActionId -> Run \cup {NoRun}]
      BY DEF IInv, TypeOK
    <2> QED
      BY <2>1, LedgerCases DEF Takes, Writes
  <1>4. pc[q] \in Working =>
          actions'[aid[q]] = actions[aid[q]] /\ process'[aid[q]] = q
    BY <1>1, ActionsStay DEF RunClaim, Run, Scoped
  <1>5. Busy \cup InLand \subseteq Working
    BY DEF Busy, Working, InWork, InLand
  <1> QED
    BY <1>1, <1>2, <1>3, <1>4, <1>5 DEF RunClaim, Active, Present, Terminal

(* A run's own step.                                                       *)
LEMMA OwnClaim ==
  ASSUME IInv, NEW r \in Run, RunStep(r) PROVE RunClaim(r)'
  <1> USE DEF Go, Unclaimed, Busy, Scoped, Working, InReport, InWork, InLand, InHandler, Gone, ledgerVars,
    toldVars
  <1>1. /\ RunClaim(r) /\ TypeOK
        /\ pc \in [Run -> Places] /\ actions \in Ledger /\ goal \in [Run -> Key \cup {NoKey}]
    BY DEF IInv, ClaimInv, RunClaim, TypeOK
  <1>2. CASE Execute(r)
    <2>1. /\ goal'[r] \in Key /\ pc'[r] = "starting"
          /\ pc[r] = "new" /\ UNCHANGED process
      BY <1>1, <1>2 DEF Execute
    <2> QED
      BY <1>1, <2>1 DEF RunClaim
  <1>3. CASE HandOverFails(r) \/ HandOver(r) \/ EnterScope(r)
    <2>1. /\ pc'[r] \in {"stuck", "wait", "prepare"} /\ pc[r] \in {"starting", "wait"}
          /\ UNCHANGED <<goal, process>>
      BY <1>1, <1>3 DEF HandOverFails, HandOver, EnterScope
    <2> QED
      BY <1>1, <2>1 DEF RunClaim
  <1>4. ASSUME NEW place \in Gone, pc' = [pc EXCEPT ![r] = place], pc[r] # "new",
               UNCHANGED goal
        PROVE  RunClaim(r)'
    BY <1>1, <1>4 DEF RunClaim
  <1>5. CASE LaunchFails(r) \/ Die(r) \/ Finish(r) \/ ReportFailure(r)
    BY <1>4, <1>5 DEF LaunchFails, Die, Finish, ReportFailure, Exit
  <1>6. ASSUME NEW a \in ActionId, NEW rec \in Action, Takes(r, a, rec), UNCHANGED goal
        PROVE  RunClaim(r)'
    <2>1. actions'[a] = rec /\ process'[a] = r /\ aid'[r] = a /\ pc'[r] = "register"
      BY <1>1, <1>6 DEF Takes, TypeOK, Ledger
    <2>2. Active(actions', a)
      BY <1>6, <2>1 DEF Takes, Active, Present, Terminal, TERMINAL_ACTION_STATES
    <2> QED
      BY <1>1, <1>6, <2>1, <2>2 DEF RunClaim, Run, Takes, Active, Present, Terminal
  <1>7. CASE Begin(r) \/ Resume(r)
    <2>1. \E a \in ActionId, rec \in Action : Takes(r, a, rec)
      <3>1. pc[r] = "prepare" /\ pc'[r] = "register"
        BY <1>1, <1>7 DEF Begin, Resume, Claimed
      <3>2. ~UNCHANGED <<actions, process, aid>>
        <4>1. \A a \in ActionId : process[a] # r
          BY <1>1, <3>1 DEF RunClaim
        <4>2. \E a \in ActionId : process' = [process EXCEPT ![a] = r]
          BY <1>7 DEF Begin, Resume, Claimed, ActiveSame, Run
        <4> QED
          BY <1>1, <4>1, <4>2 DEF TypeOK
      <3> QED
        BY <3>1, <3>2, LedgerCases DEF Writes
    <2>2. UNCHANGED goal
      BY <1>7 DEF Begin, Resume, Claimed
    <2> QED
      BY <1>6, <2>1, <2>2
  <1>8. ASSUME NEW place \in Places \ (Unclaimed \cup Gone),
               pc' = [pc EXCEPT ![r] = place],
               pc[r] \in Working,
               UNCHANGED <<goal, aid, process, actions>>,
               place \in Busy => pc[r] \in Busy,
               place \in InLand => pc[r] \in InLand
        PROVE  RunClaim(r)'
    <2>1. pc'[r] = place
      BY <1>1, <1>8
    <2> QED
      BY <1>1, <1>8, <2>1 DEF RunClaim, Active, Present, Terminal
  <1>19. ASSUME NEW place \in InReport, pc' = [pc EXCEPT ![r] = place], pc[r] # "new",
                UNCHANGED goal
         PROVE  RunClaim(r)'
    <2>1. pc'[r] = place
      BY <1>1, <1>19
    <2> QED
      BY <1>1, <1>19, <2>1 DEF RunClaim
  <1>20. CASE Refuse(r)
    BY <1>19, <1>20 DEF Refuse
  <1>21. CASE AppendFinalState(r)
    <2>1. CASE pc[r] = "finish"
      BY <1>8, <1>21, <2>1 DEF AppendFinalState, Places
    <2>2. CASE pc[r] # "finish"
      BY <1>19, <1>21, <2>2 DEF AppendFinalState
    <2> QED
      BY <2>1, <2>2
  <1>9. CASE Announce(r) \/ CopySnapshot(r) \/ BuildCandidate(r)
               \/ ClosureFails(r) \/ CandidateFails(r) \/ AdjudicationHolds(r)
    BY <1>8, <1>9 DEF Announce, CopySnapshot, BuildCandidate, ClosureFails,
      CandidateFails, AdjudicationHolds, Raise, Places
  <1>10. CASE AssertLivePreimage(r) \/ CopyPreimage(r) \/ Reobserve(r)
                \/ ReobserveFails(r) \/ LandFails(r)
    BY <1>8, <1>10 DEF AssertLivePreimage, CopyPreimage, Reobserve, ReobserveFails,
      LandFails, Places
  <1>11. CASE CopyFile(r) \/ RestoreFile(r)
    <2>1. PICK place \in {pc[r], "validate", "restored"} :
            /\ pc' = [pc EXCEPT ![r] = place]
            /\ \/ pc[r] = "copy" /\ place \in {"copy", "validate"}
               \/ pc[r] = "restore" /\ place \in {"restore", "restored"}
      BY <1>11 DEF CopyFile, RestoreFile, Handled
    <2>2. UNCHANGED <<goal, aid, process, actions>>
      BY <1>11 DEF CopyFile, RestoreFile
    <2> QED
      BY <1>8, <2>1, <2>2 DEF Places
  <1>12. CASE RecordEvidence(r) \/ FinishFails(r) \/ HandleFails(r)
    BY <1>8, <1>12 DEF RecordEvidence, FinishFails, HandleFails, Places
  <1>13. ASSUME NEW p \in ResumePoint, NEW place \in {"announce", "check"},
                actions' = [actions EXCEPT ![aid[r]].resume_from = p],
                pc' = [pc EXCEPT ![r] = place], pc[r] \in {"register", "verified"},
                UNCHANGED <<process, aid, goal>>,
                place = "check" => p = "LAND_CANDIDATE"
         PROVE  RunClaim(r)'
    <2>1. /\ aid[r] \in Run /\ process[aid[r]] = r /\ Active(actions, aid[r])
      BY <1>1, <1>13 DEF RunClaim
    <2>2. actions'[aid[r]] = [actions[aid[r]] EXCEPT !.resume_from = p]
      BY <1>1, <1>13, <2>1 DEF Run, Ledger
    <2>3. actions[aid[r]] \in Action
      BY <1>1, <2>1 DEF Run, Ledger
    <2>4. actions'[aid[r]].state = actions[aid[r]].state
            /\ actions'[aid[r]].resume_from = p
      BY <2>2, <2>3 DEF Action
    <2>5. pc'[r] = place
      BY <1>1, <1>13
    <2> QED
      BY <1>1, <1>13, <2>1, <2>4, <2>5 DEF RunClaim, Active, Present, Terminal
  <1>14. CASE Register(r) \/ Adjudicate(r)
    BY <1>13, <1>14, RunnerAssumption DEF Register, Adjudicate
  <1>15. ASSUME NEW s \in {"DONE", "HOLD"}, NEW p \in ResumePoint \cup {None},
                NEW place \in {"evidence", "finish"}, pc' = [pc EXCEPT ![r] = place],
                actions' = Updated(actions, aid[r],
                  [state |-> s, key |-> Keep, resume_from |-> p]),
                pc[r] \in Busy, UNCHANGED <<process, aid, goal>>
         PROVE  RunClaim(r)'
    <2>1. aid[r] \in Run /\ process[aid[r]] = r
      BY <1>1, <1>15 DEF RunClaim
    <2>2. actions'[aid[r]].state = s
      BY <1>1, <1>15, <2>1, RecordAssumption DEF Updated, Changed, Run, Ledger, ACTION_STATES
    <2>3. pc'[r] = place
      BY <1>1, <1>15
    <2> QED
      BY <1>1, <1>15, <2>1, <2>2, <2>3 DEF RunClaim
  <1>16. CASE NoImplementationEffect(r)
    BY <1>15, <1>16, RunnerAssumption DEF NoImplementationEffect
  <1>17. CASE NoSourceChange(r) \/ RecordLanding(r)
    BY <1>15, <1>17 DEF NoSourceChange, RecordLanding, Complete
  <1>18. CASE Handle(r)
    <2>1. /\ pc'[r] = "report" /\ pc[r] \in {"handle_work", "handle_land", "restored"}
          /\ UNCHANGED <<process, aid, goal>>
      BY <1>1, <1>18 DEF Handle
    <2> QED
      BY <1>1, <2>1 DEF RunClaim
  <1> QED
    BY <1>2, <1>3, <1>5, <1>7, <1>9, <1>10, <1>11, <1>12, <1>14, <1>16, <1>17, <1>18,
      <1>20, <1>21 DEF RunStep, Work

(* Every run stays the process of its action while it is in its scope.     *)
LEMMA ClaimStep == IInv /\ [Next]_vars => ClaimInv'
  <1> SUFFICES ASSUME IInv, [Next]_vars PROVE ClaimInv'
    OBVIOUS
  <1>1. \A a \in ActionId, r \in Run : process'[a] = r => aid'[r] = a
    BY OwnAction
  <1>2. ASSUME NEW q \in Run PROVE RunClaim(q)'
    <2>1. CASE UNCHANGED <<actions, process, pc, goal, aid>>
      BY <2>1 DEF IInv, ClaimInv, RunClaim, Active, Present, Terminal
    <2>2. ASSUME NEW r \in Run, RunStep(r) PROVE RunClaim(q)'
      BY <2>2, OwnClaim, OthersClaim
    <2> QED
      BY <2>1, <2>2 DEF Next, RunStep, vars, ledgerVars, toldVars, EditLive
  <1> QED
    BY <1>1, <1>2 DEF ClaimInv, RunClaim

(* An action that is DONE is not touched again, by its run or another.     *)
LEMMA DoneStays ==
  ASSUME IInv, [Next]_vars, NEW r \in Run, NEW effect, DoneBy(r, effect)
  PROVE  DoneBy(r, effect)'
  <1>1. /\ aid[r] \in ActionId /\ actions \in Ledger
        /\ process \in [ActionId -> Run \cup {NoRun}]
        /\ aid \in [Run -> ActionId \cup {NoRun}]
        /\ confirmed \in [ActionId -> {"null", "no_effect", "landed"}]
    BY DEF IInv, TypeOK, DoneBy
  <1>2. ASSUME NEW q \in Run, NEW a \in ActionId, NEW rec \in Action, Takes(q, a, rec)
        PROVE  aid'[r] = aid[r] /\ actions'[aid[r]].state = "DONE" /\ process'[aid[r]] = r
    <2>1. q # r
      BY <1>1, <1>2 DEF Takes, IInv, ClaimInv, Unclaimed, DoneBy
    <2>2. a # aid[r]
      BY <1>2 DEF Takes, CanBegin, Present, RESUMABLE_ACTION_STATES, DoneBy
    <2> QED
      BY <1>1, <1>2, <2>1, <2>2 DEF Takes, Ledger, DoneBy
  <1>3. ASSUME NEW q \in Run, NEW rec \in Action, Writes(q, rec)
        PROVE  aid'[r] = aid[r] /\ actions'[aid[r]].state = "DONE" /\ process'[aid[r]] = r
    <2>1. aid[q] # aid[r]
      BY <1>3 DEF Writes, Active, Terminal, TERMINAL_ACTION_STATES, DoneBy
    <2> QED
      BY <1>1, <1>3, <2>1 DEF Writes, Ledger, DoneBy
  <1>4. aid'[r] = aid[r] /\ actions'[aid[r]].state = "DONE" /\ process'[aid[r]] = r
    BY <1>1, <1>2, <1>3, LedgerStep DEF DoneBy
  <1>5. ASSUME NEW q \in Run, Active(actions, aid[q]),
               \E e : confirmed' = [confirmed EXCEPT ![aid[q]] = e]
        PROVE  confirmed'[aid[r]] = effect
    <2>1. aid[q] # aid[r]
      BY <1>5 DEF Active, Terminal, TERMINAL_ACTION_STATES, DoneBy
    <2> QED
      BY <1>1, <1>5, <2>1 DEF DoneBy
  <1>6. ASSUME NEW q \in Run, RunStep(q), ~UNCHANGED confirmed
        PROVE  confirmed'[aid[r]] = effect
    <2>1. NoImplementationEffect(q) \/ NoSourceChange(q) \/ RecordLanding(q) \/ Handle(q)
      BY <1>6 DEF RunStep, Work, ledgerVars, Execute, LaunchFails, HandOverFails, HandOver,
        EnterScope, Die, Begin, Resume, Claimed, Refuse, Register, Announce, CopySnapshot,
        BuildCandidate, ClosureFails, CandidateFails, AdjudicationHolds, Raise, Adjudicate,
        AssertLivePreimage, CopyPreimage, CopyFile, Reobserve, ReobserveFails, RestoreFile,
        LandFails, RecordEvidence, AppendFinalState, Finish, FinishFails, HandleFails,
        ReportFailure
    <2>2. Active(actions, aid[q])
      BY <2>1 DEF NoImplementationEffect, NoSourceChange, RecordLanding, Handle, CanUpdate,
        IInv, ClaimInv, Busy, InWork, InLand
    <2>3. \E e : confirmed' = [confirmed EXCEPT ![aid[q]] = e]
      BY <1>6, <2>1 DEF NoImplementationEffect, NoSourceChange, RecordLanding, Handle, Complete
    <2> QED
      BY <1>5, <2>2, <2>3
  <1>7. confirmed'[aid[r]] = effect
    <2>1. CASE UNCHANGED confirmed
      BY <2>1 DEF DoneBy
    <2> QED
      BY <1>6, <2>1 DEF Next, RunStep, vars, ledgerVars, EditLive
  <1> QED
    BY <1>1, <1>4, <1>7, RunnerAssumption DEF DoneBy, Run

(* What a run tells next is in the ledger when it is told.                 *)
LEMMA TellStep ==
  ASSUME IInv, NEW r \in Run, RunStep(r), NEW s, Says(r, s)', ~Says(r, s),
         s \notin {"STARTING", "RUNNING", "HOLD", "INTERRUPTED"}
  PROVE  /\ DoneBy(r, Effect(r))
         /\ s \in {"LANDED", "DONE"} => ChangedFiles(r) # {}
         /\ s \in {"PASS", "DONE_NO_SOURCE_CHANGE"} => ChangedFiles(r) = {}
  <1>1. BackInv(r) /\ TypeOK
    BY DEF IInv
  <1>2. ~UNCHANGED toldVars
    BY DEF Says, toldVars
  <1>6. ASSUME NEW t \in {"STARTING", "RUNNING", "HOLD", "INTERRUPTED"},
               \/ evidence' = evidence /\ report' = [report EXCEPT ![r] = t]
               \/ report' = report /\ Appended(r, t)
        PROVE  FALSE
    BY <1>1, <1>6 DEF Says, TypeOK, Appended
  <1>7. ~(Execute(r) \/ LaunchFails(r) \/ Announce(r) \/ ReportFailure(r)
            \/ NoImplementationEffect(r) \/ Handle(r))
    BY <1>2, <1>6 DEF Execute, LaunchFails, Announce, ReportFailure, NoImplementationEffect,
      Handle, Outcome, toldVars
  <1>8. AppendFinalState(r) \/ Finish(r) \/ RecordEvidence(r)
    BY <1>2, <1>7 DEF RunStep, Work, toldVars, HandOverFails, HandOver, EnterScope, Die,
      Begin, Resume, Claimed, Refuse, Register, CopySnapshot, BuildCandidate, ClosureFails,
      CandidateFails, AdjudicationHolds, Raise, NoSourceChange, Complete, Adjudicate,
      AssertLivePreimage, CopyPreimage, CopyFile, Reobserve, ReobserveFails, RestoreFile,
      RecordLanding, LandFails, FinishFails, HandleFails
  <1>3. CASE AppendFinalState(r)
    <2>1. pc[r] = "finish" /\ s = FinalState(r)
      BY <1>1, <1>3 DEF AppendFinalState, Appended, Says, TypeOK
    <2> QED
      BY <1>1, <2>1 DEF BackInv, FinalState
  <1>4. CASE Finish(r)
    <2>1. pc[r] = "write" /\ s = FinalState(r)
      BY <1>1, <1>4 DEF Finish, Says, TypeOK
    <2> QED
      BY <1>1, <2>1 DEF BackInv, FinalState
  <1>5. CASE RecordEvidence(r)
    <2>1. pc[r] = "evidence"
      BY <1>5 DEF RecordEvidence
    <2>2. s = IF ChangedFiles(r) = {} THEN "DONE_NO_SOURCE_CHANGE" ELSE "DONE"
      BY <1>1, <1>5 DEF RecordEvidence, Appended, Says, TypeOK
    <2> QED
      BY <1>1, <2>1, <2>2 DEF BackInv
  <1> QED
    BY <1>8, <1>3, <1>4, <1>5

(* What was told stays true: an action that is DONE moves no more.         *)
LEMMA ClaimsStep == IInv /\ [Next]_vars => ClaimsFollowLedger'
  <1>1. ASSUME IInv, [Next]_vars, NEW r \in Run, NEW s, Says(r, s)', ~Says(r, s)
        PROVE  RunStep(r)
    <2>1. ASSUME NEW q \in Run, q # r, RunStep(q) PROVE FALSE
      BY <1>1, <2>1, OthersStay DEF Says, IInv
    <2> QED
      BY <1>1, <2>1 DEF Says, Next, RunStep, vars, toldVars, EditLive
  <1>2. ASSUME IInv, [Next]_vars, NEW r \in Run, NEW s \in {"LANDED", "DONE"}, Says(r, s)'
        PROVE  DoneBy(r, "landed")'
    <2>1. CASE Says(r, s)
      BY <1>2, <2>1, DoneStays DEF IInv, ClaimsFollowLedger
    <2>2. CASE ~Says(r, s)
      BY <1>1, <1>2, <2>2, TellStep, DoneStays DEF Effect
    <2> QED
      BY <2>1, <2>2
  <1>3. ASSUME IInv, [Next]_vars, NEW r \in Run,
               NEW s \in {"PASS", "DONE_NO_SOURCE_CHANGE"}, Says(r, s)'
        PROVE  DoneBy(r, "no_effect")'
    <2>1. CASE Says(r, s)
      BY <1>3, <2>1, DoneStays DEF IInv, ClaimsFollowLedger
    <2>2. CASE ~Says(r, s)
      BY <1>1, <1>3, <2>2, TellStep, DoneStays DEF Effect
    <2> QED
      BY <2>1, <2>2
  <1> QED
    BY <1>2, <1>3 DEF ClaimsFollowLedger

-----------------------------------------------------------------------------
(* Where the marks of runs can come from.                                  *)
LEMMA CleanStep ==
  ASSUME IInv, [Next]_vars, NEW r \in Run, Clean(r), ~CopyFile(r) PROVE Clean(r)'
  <1> USE DEF Clean, shadowVars, liveVars
  <1>1. TypeOK /\ r # NoFile /\ r # "edit"
    BY RunnerAssumption DEF IInv, NoFile
  <1>2. CASE UNCHANGED <<live, before, cand, preimage>>
    BY <1>2
  <1>3. ASSUME NEW f \in File, EditLive(f) PROVE Clean(r)'
    BY <1>1, <1>3 DEF EditLive, TypeOK
  <1>4. ASSUME NEW q \in Run, NEW place, Exit(q, place), UNCHANGED live PROVE Clean(r)'
    BY <1>1, <1>4 DEF Exit, TypeOK, Blank
  <1>5. ASSUME NEW q \in Run, CopySnapshot(q) PROVE Clean(r)'
    BY <1>1, <1>5 DEF CopySnapshot, TypeOK
  <1>6. ASSUME NEW q \in Run, BuildCandidate(q) PROVE Clean(r)'
    <2>1. PICK W \in SUBSET File, D \in SUBSET File :
            cand' = [cand EXCEPT ![q] =
              [f \in File |-> IF f \in W THEN q ELSE IF f \in D THEN NoFile ELSE @[f]]]
      BY <1>6 DEF BuildCandidate
    <2>2. UNCHANGED <<live, before, preimage>>
      BY <1>6 DEF BuildCandidate
    <2> QED
      BY <1>1, <2>1, <2>2 DEF TypeOK
  <1>7. ASSUME NEW q \in Run, CopyPreimage(q) PROVE Clean(r)'
    BY <1>1, <1>7 DEF CopyPreimage, TypeOK
  <1>8. ASSUME NEW q \in Run, CopyFile(q), q # r PROVE Clean(r)'
    BY <1>1, <1>8 DEF CopyFile, TypeOK
  <1>9. ASSUME NEW q \in Run, RestoreFile(q) PROVE Clean(r)'
    BY <1>1, <1>9 DEF RestoreFile, TypeOK
  <1>10. ASSUME NEW q \in Run, Work(q) PROVE Clean(r)'
    <2>1. CASE Finish(q) \/ ReportFailure(q)
      BY <1>4, <2>1 DEF Finish, ReportFailure
    <2> QED
      BY <1>2, <1>5, <1>6, <1>7, <1>8, <1>9, <1>10, <2>1 DEF Work, Begin, Resume, Claimed,
        Refuse, Register, Announce, ClosureFails, CandidateFails, AdjudicationHolds, Raise,
        NoImplementationEffect, NoSourceChange, Complete, Adjudicate,
        AssertLivePreimage, Reobserve, ReobserveFails, RecordLanding, LandFails,
        RecordEvidence, AppendFinalState, FinishFails, Handle, HandleFails
  <1> QED
    BY <1>2, <1>3, <1>4, <1>10 DEF Next, vars, Execute, LaunchFails, HandOverFails,
      HandOver, EnterScope, Die

(* The files a run changed are fixed from its landing on.                  *)
LEMMA ChangedStays ==
  ASSUME IInv, [Next]_vars, NEW r \in Run,
         pc[r] \notin {"closure", "candidate"}, pc'[r] \notin Gone
  PROVE  before'[r] = before[r] /\ cand'[r] = cand[r]
  <1>1. TypeOK
    BY DEF IInv
  <1>2. CASE UNCHANGED shadowVars
    BY <1>2 DEF shadowVars
  <1>3. ASSUME NEW q \in Run, q # r, RunStep(q)
        PROVE  before'[r] = before[r] /\ cand'[r] = cand[r]
    BY <1>1, <1>3, OthersStay
  <1>4. ASSUME NEW place \in Gone, Exit(r, place) PROVE FALSE
    BY <1>1, <1>4 DEF Exit, Go, TypeOK
  <1>5. ASSUME RunStep(r) PROVE before'[r] = before[r] /\ cand'[r] = cand[r]
    BY <1>2, <1>4, <1>5 DEF RunStep, Work, shadowVars, Gone, Execute, LaunchFails,
      HandOverFails, HandOver, EnterScope, Die, Begin, Resume, Claimed, Refuse, Register,
      Announce, CopySnapshot, BuildCandidate, ClosureFails, CandidateFails,
      AdjudicationHolds, Raise, NoImplementationEffect, NoSourceChange, Complete,
      Adjudicate, AssertLivePreimage, CopyPreimage, CopyFile, Reobserve, ReobserveFails,
      RestoreFile, RecordLanding, LandFails, RecordEvidence, AppendFinalState, Finish, FinishFails, Handle,
      HandleFails, ReportFailure
  <1> QED
    BY <1>2, <1>3, <1>5 DEF Next, RunStep, vars, EditLive

(* What a run is about to tell stays in the ledger until it tells it.      *)
LEMMA BackStep ==
  ASSUME IInv, [Next]_vars, NEW r \in Run PROVE BackInv(r)'
  <1>1. TypeOK /\ BackInv(r)
    BY DEF IInv
  <1>2. ASSUME UNCHANGED <<before, cand, pc, goal>> PROVE BackInv(r)'
    <2>1. ChangedFiles(r)' = ChangedFiles(r)
      BY <1>2 DEF ChangedFiles
    <2> QED
      BY <1>1, <1>2, <2>1, DoneStays DEF BackInv, Effect, FinalState
  <1>3. ASSUME NEW q \in Run, q # r, RunStep(q) PROVE BackInv(r)'
    <2>1. /\ pc'[r] = pc[r] /\ goal'[r] = goal[r]
          /\ before'[r] = before[r] /\ cand'[r] = cand[r]
      BY <1>1, <1>3, OthersStay
    <2>2. ChangedFiles(r)' = ChangedFiles(r)
      BY <2>1 DEF ChangedFiles
    <2> QED
      BY <1>1, <2>1, <2>2, DoneStays DEF BackInv, Effect, FinalState
  <1>4. ASSUME RunStep(r) PROVE BackInv(r)'
    <2> DEFINE Told == InLand \cup {"evidence", "finish", "write"}
    <2>1. CASE pc'[r] \notin Told
      BY <2>1 DEF BackInv
    <2>2. ASSUME pc'[r] \in Told
          PROVE  /\ pc[r] \in Told \cup {"verified"} /\ goal'[r] = goal[r]
                 /\ \/ pc[r] \in InLand /\ pc'[r] \in InLand
                    \/ pc[r] \in {"evidence", "finish"} /\ pc'[r] \in {"finish", "write"}
                    \/ NoImplementationEffect(r) \/ NoSourceChange(r) \/ Adjudicate(r)
                    \/ RecordLanding(r)
      <3> USE DEF Go, TypeOK, InLand
      <3>1. ~(Execute(r) \/ LaunchFails(r) \/ HandOverFails(r) \/ HandOver(r)
                \/ EnterScope(r) \/ Die(r) \/ Finish(r) \/ ReportFailure(r))
        BY <1>1, <2>2 DEF Execute, LaunchFails, HandOverFails, HandOver, EnterScope, Die,
          Finish, ReportFailure, Exit
      <3>2. ~(Begin(r) \/ Resume(r) \/ Refuse(r) \/ Register(r) \/ Announce(r)
                \/ CopySnapshot(r) \/ BuildCandidate(r) \/ Raise(r))
        BY <1>1, <2>2 DEF Begin, Resume, Claimed, Refuse, Register, Announce, CopySnapshot,
          BuildCandidate, Raise
      <3>3. ~(ReobserveFails(r) \/ RestoreFile(r) \/ LandFails(r) \/ FinishFails(r)
                \/ Handle(r) \/ HandleFails(r))
        BY <1>1, <2>2 DEF ReobserveFails, RestoreFile, LandFails, FinishFails, Handle,
          HandleFails, Handled
      <3>4. CASE AssertLivePreimage(r) \/ CopyPreimage(r) \/ CopyFile(r) \/ Reobserve(r)
        BY <1>1, <3>4 DEF AssertLivePreimage, CopyPreimage, CopyFile, Reobserve, Handled
      <3>5. CASE RecordEvidence(r) \/ AppendFinalState(r)
        BY <1>1, <2>2, <3>5 DEF RecordEvidence, AppendFinalState
      <3>6. CASE NoImplementationEffect(r) \/ NoSourceChange(r) \/ Adjudicate(r)
                   \/ RecordLanding(r)
        BY <1>1, <3>6 DEF NoImplementationEffect, NoSourceChange, Adjudicate, RecordLanding,
          Complete
      <3> QED
        BY <1>4, <3>1, <3>2, <3>3, <3>4, <3>5, <3>6
          DEF RunStep, Work, ClosureFails, CandidateFails, AdjudicationHolds
    <2>3. ASSUME pc'[r] \in Told PROVE ChangedFiles(r)' = ChangedFiles(r)
      <3>1. pc[r] \notin {"closure", "candidate"} /\ pc'[r] \notin Gone
        BY <2>2, <2>3 DEF InLand, Gone
      <3> QED
        BY <3>1, ChangedStays DEF ChangedFiles
    <2>4. CASE NoImplementationEffect(r)
      <3>1. pc'[r] = "finish" /\ ChangedFiles(r) = {} /\ goal[r] \in Effectful
        BY <1>1, <2>4 DEF NoImplementationEffect, Go, TypeOK
      <3> QED
        BY <2>2, <2>3, <3>1 DEF BackInv, FinalState, InLand
    <2>5. ASSUME NEW effect \in {"landed", "no_effect"}, Complete(r, effect),
                 pc[r] \in {"verified", "record"}, effect = Effect(r)
          PROVE  BackInv(r)'
      <3>1. aid[r] \in ActionId /\ process[aid[r]] = r
        BY <2>5 DEF IInv, ClaimInv, Working, InWork, InLand, Run
      <3>2. pc'[r] = "evidence" /\ aid' = aid /\ process' = process
              /\ confirmed'[aid[r]] = effect
        BY <1>1, <2>5, <3>1 DEF Complete, Go, TypeOK
      <3>3. actions'[aid[r]].state = "DONE"
        BY <1>1, <2>5, <3>1, RecordAssumption
          DEF Complete, Updated, Changed, TypeOK, Ledger, ACTION_STATES
      <3>4. Effect(r)' = effect
        BY <2>3, <2>5, <3>2 DEF Effect
      <3> QED
        BY <3>1, <3>2, <3>3, <3>4, RunnerAssumption DEF BackInv, DoneBy, InLand, Run
    <2>6. CASE NoSourceChange(r)
      BY <2>5, <2>6 DEF NoSourceChange, Effect
    <2>7. CASE RecordLanding(r)
      BY <1>1, <2>5, <2>7 DEF RecordLanding, Effect, BackInv, InLand
    <2>8. CASE Adjudicate(r)
      <3>1. pc'[r] = "check" /\ ChangedFiles(r) # {}
        BY <1>1, <2>8 DEF Adjudicate, Go, TypeOK
      <3> QED
        BY <2>3, <3>1 DEF BackInv, InLand
    <2>9. CASE pc[r] \in InLand /\ pc'[r] \in InLand
      BY <1>1, <2>3, <2>9 DEF BackInv, InLand
    <2>10. CASE pc[r] \in {"evidence", "finish"} /\ pc'[r] \in {"finish", "write"}
      BY <1>1, <2>2, <2>3, <2>10, DoneStays DEF BackInv, Effect, FinalState, InLand
    <2> QED
      BY <2>1, <2>2, <2>4, <2>6, <2>7, <2>8, <2>9, <2>10
  <1> QED
    BY <1>2, <1>3, <1>4 DEF Next, RunStep, vars, shadowVars, EditLive

(* Places where the files a run changed are known.                         *)
Landing == InLand \cup {"restore", "evidence", "finish", "write"}

(* A run past its announcement does not go back before it.                 *)
LEMMA NeverEarlyAgain ==
  ASSUME IInv, [Next]_vars, NEW r \in Run, pc[r] \notin Early,
         pc[r] \in Landing => ChangedFiles(r) # {}
  PROVE  /\ pc'[r] \notin Early
         /\ pc'[r] \in Landing => pc[r] \in Landing
  <1> USE DEF Landing, Early, Unclaimed, InWork, InLand, Gone
  <1>1. pc \in [Run -> Places]
    BY DEF IInv, TypeOK
  <1>2. CASE pc'[r] = pc[r]
    BY <1>2
  <1>3. ASSUME NEW q \in Run, q # r, RunStep(q) PROVE pc'[r] = pc[r]
    BY <1>3, OthersStay DEF IInv
  <1>4. ASSUME RunStep(r)
        PROVE  /\ pc'[r] \notin Early
               /\ pc'[r] \in Landing => pc[r] \in Landing
    <2>1. CASE Die(r) \/ Finish(r) \/ ReportFailure(r)
      BY <1>1, <2>1 DEF Die, Finish, ReportFailure, Exit, Go
    <2>2. CASE CopyFile(r) \/ RestoreFile(r)
      BY <1>1, <2>2 DEF CopyFile, RestoreFile, Handled, Go
    <2>3. CASE AssertLivePreimage(r) \/ CopyPreimage(r) \/ Reobserve(r)
                 \/ ReobserveFails(r) \/ RecordLanding(r) \/ LandFails(r)
      BY <1>1, <2>3 DEF AssertLivePreimage, CopyPreimage, Reobserve, ReobserveFails,
        RecordLanding, Complete, LandFails, Go
    <2>4. CASE RecordEvidence(r) \/ AppendFinalState(r) \/ FinishFails(r) \/ Handle(r)
                 \/ HandleFails(r)
      BY <1>1, <2>4 DEF RecordEvidence, AppendFinalState, FinishFails, Handle, HandleFails, Go
    <2>5. ~(Execute(r) \/ LaunchFails(r) \/ HandOverFails(r) \/ HandOver(r)
              \/ EnterScope(r) \/ Begin(r) \/ Resume(r) \/ Refuse(r) \/ Register(r)
              \/ Announce(r))
      BY DEF Execute, LaunchFails, HandOverFails, HandOver, EnterScope, Begin, Resume,
        Refuse, Register, Announce
    <2>6. ~(CopySnapshot(r) \/ BuildCandidate(r) \/ ClosureFails(r) \/ CandidateFails(r)
              \/ AdjudicationHolds(r) \/ NoImplementationEffect(r)
              \/ NoSourceChange(r) \/ Adjudicate(r))
      BY DEF CopySnapshot, BuildCandidate, ClosureFails, CandidateFails,
        AdjudicationHolds, NoImplementationEffect, NoSourceChange, Adjudicate
    <2> QED
      BY <1>4, <2>1, <2>2, <2>3, <2>4, <2>5, <2>6 DEF RunStep, Work
  <1> QED
    BY <1>2, <1>3, <1>4 DEF Next, RunStep, vars, EditLive

(* Nor does it take back the announcement.                                 *)
LEMMA AnnouncedStays ==
  ASSUME IInv, [Next]_vars, NEW r \in Run, pc[r] \notin Early, Announced(r)
  PROVE  Announced(r)'
  <1>1. /\ actions \in Ledger /\ process \in [ActionId -> Run \cup {NoRun}]
        /\ \A a \in ActionId : process[a] = r => aid[r] = a
    BY DEF IInv, TypeOK, ClaimInv
  <1>2. CASE UNCHANGED <<actions, process>>
    BY <1>2 DEF Announced, Active, Present, Terminal
  <1>3. ASSUME NEW q \in Run, NEW b \in ActionId, NEW rec \in Action, Takes(q, b, rec)
        PROVE  Announced(r)'
    <2>1. q # r
      BY <1>3 DEF Takes, Early, Unclaimed
    <2>2. \A a \in ActionId : process'[a] = r =>
            actions'[a] = actions[a] /\ process[a] = r
      BY <1>1, <1>3, <2>1 DEF Takes, Ledger
    <2> QED
      BY <2>2 DEF Announced, Active, Present, Terminal
  <1>4. ASSUME NEW q \in Run, q # r, NEW rec \in Action, Writes(q, rec)
        PROVE  Announced(r)'
    <2>1. process[aid[q]] # r
      BY <1>4 DEF Writes, IInv, ClaimInv
    <2>2. \A a \in ActionId : process'[a] = r =>
            actions'[a] = actions[a] /\ process[a] = r
      BY <1>1, <1>4, <2>1 DEF Writes, Ledger
    <2> QED
      BY <2>2 DEF Announced, Active, Present, Terminal
  <1>5. ASSUME RunStep(r), ~UNCHANGED <<actions, process>> PROVE Announced(r)'
    <2>1. Handle(r) \/ RecordLanding(r)
      BY <1>5 DEF Early, Unclaimed, InWork, RunStep, Work, ledgerVars, Execute,
        LaunchFails, HandOverFails, HandOver, EnterScope, Die, Begin, Resume, Claimed,
        Refuse, Register, Announce, CopySnapshot, BuildCandidate, ClosureFails,
        CandidateFails, AdjudicationHolds, Raise, NoImplementationEffect,
        NoSourceChange, Adjudicate, AssertLivePreimage, CopyPreimage, CopyFile,
        Reobserve, ReobserveFails, RestoreFile, LandFails, RecordEvidence,
        AppendFinalState, Finish, FinishFails, HandleFails, ReportFailure
    <2>2. aid[r] \in ActionId
      BY <2>1 DEF Handle, RecordLanding, IInv, ClaimInv, Scoped, Working, InReport, InHandler, InLand, Run
    <2>3. UNCHANGED process
      BY <2>1 DEF Handle, RecordLanding, Complete
    <2>4. CASE Handle(r)
      <3>1. Outcome(r) = [state |-> "INTERRUPTED", key |-> Keep,
                          resume_from |-> "CHECK_ACTUAL_EFFECT"]
        BY <2>4 DEF Handle, Outcome, Early
      <3>2. "CHECK_ACTUAL_EFFECT" # Keep
        BY RecordAssumption, RunnerAssumption
      <3>3. actions'[aid[r]].resume_from = "CHECK_ACTUAL_EFFECT"
        BY <1>1, <2>2, <2>4, <3>1, <3>2 DEF Handle, Updated, Changed, Ledger
      <3> QED
        BY <1>1, <2>3, <3>3 DEF Announced
    <2>5. CASE RecordLanding(r)
      <3>1. "DONE" # Keep
        BY RecordAssumption DEF ACTION_STATES
      <3>2. actions'[aid[r]].state = "DONE"
        BY <1>1, <2>2, <2>5, <3>1 DEF RecordLanding, Complete, Updated, Changed, Ledger
      <3> QED
        BY <1>1, <2>3, <3>2 DEF Announced, Active, Terminal, TERMINAL_ACTION_STATES
    <2> QED
      BY <2>1, <2>4, <2>5
  <1>6. ASSUME NEW q \in Run, q # r, RunStep(q) PROVE Announced(r)'
    <2>1. \/ UNCHANGED <<actions, process>>
          \/ \E a \in ActionId, rec \in Action : Takes(q, a, rec)
          \/ \E rec \in Action : Writes(q, rec)
      BY <1>6, LedgerCases
    <2> QED
      BY <1>2, <1>3, <1>4, <1>6, <2>1
  <1> QED
    BY <1>2, <1>5, <1>6 DEF Next, RunStep, vars, ledgerVars, EditLive

(* A run that leaves its mark has announced it, and stays announced.       *)
LEMMA TraceStep == IInv /\ [Next]_vars => TraceInv'
  <1> SUFFICES ASSUME IInv, [Next]_vars, NEW r \in Run
               PROVE  \/ Clean(r)'
                      \/ /\ pc'[r] \notin Early /\ Announced(r)'
                         /\ pc'[r] \in Landing => ChangedFiles(r)' # {}
    BY DEF TraceInv, Landing
  <1>1. CASE Clean(r) /\ ~CopyFile(r)
    BY <1>1, CleanStep
  <1>2. ASSUME pc[r] \notin Early, Announced(r),
               pc[r] \in Landing => ChangedFiles(r) # {}
        PROVE  /\ pc'[r] \notin Early /\ Announced(r)'
               /\ pc'[r] \in Landing => ChangedFiles(r)' # {}
    <2>1. pc'[r] \notin Early /\ Announced(r)'
      BY <1>2, NeverEarlyAgain, AnnouncedStays
    <2>2. ASSUME pc'[r] \in Landing PROVE ChangedFiles(r)' # {}
      <3>1. pc[r] \in Landing /\ pc[r] \notin {"closure", "candidate"}
        BY <1>2, <2>2, NeverEarlyAgain DEF Landing, InLand
      <3>2. pc'[r] \notin Gone
        BY <2>2 DEF Landing, InLand, Gone
      <3>3. ChangedFiles(r)' = ChangedFiles(r)
        BY <3>1, <3>2, ChangedStays DEF ChangedFiles
      <3> QED
        BY <1>2, <3>1, <3>3
    <2> QED
      BY <2>1, <2>2
  <1>3. CASE CopyFile(r)
    <2>1. pc[r] = "copy" /\ todo[r] # {}
      BY <1>3 DEF CopyFile
    <2>2. pc[r] \notin Early /\ pc[r] \in InLand
      BY <2>1 DEF Early, Unclaimed, InWork, InLand
    <2>3. Announced(r)
      BY <2>2 DEF IInv, ClaimInv, Announced
    <2>4. ChangedFiles(r) # {}
      BY <2>1 DEF IInv, LandInv
    <2> QED
      BY <1>2, <2>2, <2>3, <2>4
  <1> QED
    BY <1>1, <1>2, <1>3 DEF IInv, TraceInv, Landing

-----------------------------------------------------------------------------
(* Places LandInv speaks of.                                               *)
Watched == {"preimage", "copy", "validate", "record", "restore", "restored"}

(* The live files stay as compared, but for those that are edited.         *)
LEMMA EditKeepsLand ==
  ASSUME IInv, NEW f \in File, EditLive(f), NEW r \in Run PROVE LandInv(r)'
  <1>1. /\ live' = [live EXCEPT ![f] = "edit"] /\ touched' = touched \cup {f}
        /\ UNCHANGED <<pc, todo, before, cand, preimage>>
    BY DEF EditLive, shadowVars
  <1>2. LandInv(r) /\ live \in [File -> Content]
    BY DEF IInv, TypeOK
  <1>3. ChangedFiles(r)' = ChangedFiles(r) /\ Deleted(r)' = Deleted(r)
    BY <1>1 DEF ChangedFiles, Deleted
  <1>4. ChangedFiles(r) \subseteq File
    BY DEF ChangedFiles
  <1> QED
    BY <1>1, <1>2, <1>3, <1>4 DEF LandInv

(* The lock keeps every other run away from the live files.                *)
LEMMA OthersLand ==
  ASSUME IInv, NEW q \in Run, RunStep(q), NEW r \in Run, r # q PROVE LandInv(r)'
  <1>1. /\ pc'[r] = pc[r] /\ before'[r] = before[r] /\ cand'[r] = cand[r]
        /\ preimage'[r] = preimage[r] /\ todo'[r] = todo[r]
    BY OthersStay DEF IInv
  <1>2. CASE pc[r] \notin Watched
    BY <1>1, <1>2 DEF Watched, LandInv
  <1>3. CASE pc[r] \in Watched
    <2>1. lock = r
      BY <1>3 DEF IInv, LockInv, Watched, Scoped, Working, InReport, InLand, InHandler
    <2>2. pc[q] \notin Scoped
      BY <2>1 DEF IInv, LockInv
    <2>3. ~EnterScope(q)
      BY <2>1, RunnerAssumption DEF EnterScope
    <2>4. UNCHANGED <<live, touched>>
      BY <2>2, <2>3 DEF RunStep, Work, liveVars, Scoped, Working, InReport, InWork, InLand, InHandler, Execute,
        LaunchFails, HandOverFails, HandOver, Die, Begin, Resume, Refuse, Register,
        Announce, CopySnapshot, BuildCandidate, ClosureFails, CandidateFails,
        AdjudicationHolds, NoImplementationEffect, NoSourceChange, Adjudicate,
        AssertLivePreimage, CopyPreimage, CopyFile, Reobserve, ReobserveFails,
        RestoreFile, RecordLanding, LandFails, RecordEvidence, AppendFinalState, Finish, FinishFails,
        Handle, HandleFails, ReportFailure
    <2>5. ChangedFiles(r)' = ChangedFiles(r) /\ Deleted(r)' = Deleted(r)
      BY <1>1 DEF ChangedFiles, Deleted
    <2> QED
      BY <1>1, <2>4, <2>5 DEF IInv, LandInv
  <1> QED
    BY <1>2, <1>3

(* The steps of land compare before they go on.                            *)
LEMMA OwnLand == ASSUME IInv, NEW r \in Run, RunStep(r) PROVE LandInv(r)'
  <1>1. LandInv(r) /\ TypeOK
    BY DEF IInv
  <1>2. ChangedFiles(r) \subseteq File /\ Deleted(r) \subseteq ChangedFiles(r)
          /\ Created(r) \subseteq ChangedFiles(r)
    BY DEF ChangedFiles, Deleted, Created
  <1>3. ASSUME UNCHANGED <<before, cand>>
        PROVE  /\ ChangedFiles(r)' = ChangedFiles(r) /\ Deleted(r)' = Deleted(r)
               /\ Created(r)' = Created(r)
    BY <1>3 DEF ChangedFiles, Deleted, Created
  <1>4. CASE pc'[r] \notin Watched
    BY <1>4 DEF LandInv, Watched
  <1>5. CASE AssertLivePreimage(r)
    <2>1. /\ pc'[r] = "preimage" /\ UNCHANGED <<live, before, cand>>
          /\ \A f \in ChangedFiles(r) : live[f] = before[r][f]
      BY <1>1, <1>5 DEF AssertLivePreimage, Go, TypeOK, shadowVars
    <2> QED
      BY <1>3, <2>1 DEF LandInv
  <1>6. CASE CopyPreimage(r)
    <2>1. /\ pc[r] = "preimage" /\ pc'[r] = "copy" /\ UNCHANGED <<live, touched, before, cand>>
          /\ todo'[r] = ChangedFiles(r)
          /\ \A f \in File : preimage'[r][f] =
               IF f \in ChangedFiles(r) \ Created(r) THEN live[f] ELSE NoFile
      BY <1>1, <1>6 DEF CopyPreimage, Go, TypeOK, liveVars
    <2>2. \A f \in Created(r) : before[r][f] = NoFile
      BY DEF Created
    <2> QED
      BY <1>1, <1>2, <1>3, <2>1, <2>2 DEF LandInv
  <1>7. CASE CopyFile(r)
    <2>1. PICK f \in todo[r] :
            /\ live' = [live EXCEPT ![f] = cand[r][f]]
            /\ Handled(r, f, "validate")
      BY <1>7 DEF CopyFile
    <2>2. /\ pc[r] = "copy" /\ UNCHANGED <<touched, before, cand, preimage>>
      BY <1>7 DEF CopyFile, shadowVars
    <2>3. todo'[r] = todo[r] \ {f} /\ pc'[r] \in {"copy", "validate"}
      BY <1>1, <2>1, <2>2 DEF Handled, Go, TypeOK
    <2>4. \A g \in todo'[r] : live'[g] = live[g]
      BY <1>1, <2>1, <2>3 DEF TypeOK
    <2> QED
      BY <1>1, <1>2, <1>3, <2>2, <2>3, <2>4 DEF LandInv
  <1>8. CASE Reobserve(r)
    <2>1. /\ pc'[r] = "record" /\ UNCHANGED <<live, before, cand>>
          /\ \A f \in ChangedFiles(r) \ Deleted(r) : live[f] = cand[r][f]
      BY <1>1, <1>8 DEF Reobserve, Go, TypeOK, shadowVars
    <2> QED
      BY <1>3, <2>1 DEF LandInv
  <1>9. CASE ReobserveFails(r)
    <2>1. /\ pc[r] = "validate" /\ pc'[r] = "restore" /\ todo'[r] = ChangedFiles(r)
          /\ UNCHANGED <<live, touched, before, cand, preimage>>
      BY <1>1, <1>9 DEF ReobserveFails, Go, TypeOK, shadowVars, liveVars
    <2> QED
      BY <1>1, <1>3, <2>1 DEF LandInv
  <1>10. CASE RestoreFile(r)
    <2>1. PICK f \in todo[r] :
            /\ live' = [live EXCEPT ![f] = preimage[r][f]]
            /\ Handled(r, f, "restored")
      BY <1>10 DEF RestoreFile
    <2>2. /\ pc[r] = "restore" /\ UNCHANGED <<touched, before, cand, preimage>>
      BY <1>10 DEF RestoreFile, shadowVars
    <2>3. /\ todo'[r] = todo[r] \ {f}
          /\ pc'[r] = IF todo[r] = {f} THEN "restored" ELSE "restore"
      BY <1>1, <2>1, <2>2 DEF Handled, Go, TypeOK
    <2>4. f \in File /\ f \in ChangedFiles(r) /\ todo[r] \subseteq ChangedFiles(r)
      BY <1>1, <1>2, <2>2 DEF LandInv
    <2>5. ASSUME NEW g \in ChangedFiles(r) \ (todo'[r] \cup touched)
          PROVE  live'[g] = before[r][g]
      <3>1. CASE g = f
        BY <1>1, <2>1, <2>2, <2>4, <3>1 DEF LandInv, TypeOK
      <3>2. CASE g # f
        BY <1>1, <1>2, <2>1, <2>2, <2>3, <3>2 DEF LandInv, TypeOK
      <3> QED
        BY <3>1, <3>2
    <2> QED
      BY <1>1, <1>3, <2>2, <2>3, <2>4, <2>5 DEF LandInv
  <1>11. ASSUME ~(AssertLivePreimage(r) \/ CopyPreimage(r) \/ CopyFile(r) \/ Reobserve(r)
                    \/ ReobserveFails(r) \/ RestoreFile(r))
         PROVE  pc'[r] \notin Watched
    <2> USE DEF Go, TypeOK, Watched
    <2>1. CASE Execute(r) \/ LaunchFails(r) \/ HandOverFails(r) \/ HandOver(r)
                 \/ EnterScope(r)
      BY <1>1, <2>1 DEF Execute, LaunchFails, HandOverFails, HandOver, EnterScope
    <2>2. CASE Die(r) \/ Finish(r) \/ ReportFailure(r)
      BY <1>1, <2>2 DEF Die, Finish, ReportFailure, Exit
    <2>3. CASE Begin(r) \/ Resume(r) \/ Refuse(r) \/ Register(r) \/ Announce(r)
      BY <1>1, <2>3 DEF Begin, Resume, Claimed, Refuse, Register, Announce
    <2>4. CASE CopySnapshot(r) \/ BuildCandidate(r) \/ ClosureFails(r)
                 \/ CandidateFails(r) \/ AdjudicationHolds(r)
      BY <1>1, <2>4 DEF CopySnapshot, BuildCandidate, ClosureFails, CandidateFails,
        AdjudicationHolds, Raise
    <2>5. CASE NoImplementationEffect(r) \/ NoSourceChange(r) \/ Adjudicate(r)
                 \/ RecordLanding(r) \/ LandFails(r)
      BY <1>1, <2>5 DEF NoImplementationEffect, NoSourceChange, Adjudicate, Complete,
        RecordLanding, LandFails
    <2>6. CASE RecordEvidence(r) \/ AppendFinalState(r) \/ FinishFails(r) \/ Handle(r)
                 \/ HandleFails(r)
      BY <1>1, <2>6 DEF RecordEvidence, AppendFinalState, FinishFails, Handle, HandleFails
    <2> QED
      BY <1>11, <2>1, <2>2, <2>3, <2>4, <2>5, <2>6 DEF RunStep, Work
  <1> QED
    BY <1>4, <1>5, <1>6, <1>7, <1>8, <1>9, <1>10, <1>11

(* The comparisons of land stay true until they are used.                  *)
LEMMA LandStep ==
  ASSUME IInv, [Next]_vars, NEW r \in Run PROVE LandInv(r)'
  <1>1. CASE UNCHANGED <<pc, todo, live, touched, before, cand, preimage>>
    BY <1>1 DEF IInv, LandInv, ChangedFiles, Deleted
  <1> QED
    BY <1>1, EditKeepsLand, OthersLand, OwnLand DEF Next, RunStep, vars, shadowVars,
      liveVars

(* IInv is inductive.                                                      *)
LEMMA InvStep == IInv /\ [Next]_vars => IInv'
  BY TypeStep, LockStep, KeyStep, ClaimStep, ClaimsStep, BackStep, TraceStep, LandStep DEF IInv

(* Every reachable state satisfies IInv.                                   *)
LEMMA Inv == Spec => []IInv
  BY InitInv, InvStep, PTL DEF Spec

-----------------------------------------------------------------------------
(* The ledger, the runs, the files and what is told are well typed.        *)
THEOREM TypeCorrect == Spec => []TypeOK
  <1>1. IInv => TypeOK
    BY DEF IInv
  <1> QED
    BY <1>1, Inv, PTL

(* continuity_effect_scope and _assert_live_preimage: land overwrites only *)
(* what the candidate was built from.                                      *)
THEOREM LandsOnlyOnSnapshot == Spec => []LandsOnSnapshot
  <1>1. IInv => LandsOnSnapshot
    BY DEF IInv, LandInv, LandsOnSnapshot
  <1> QED
    BY <1>1, Inv, PTL

(* restore, run to its end, leaves every changed file as it was.           *)
THEOREM RollbackCompletes == Spec => []RollbackIsComplete
  <1>1. IInv => RollbackIsComplete
    BY DEF IInv, LandInv, RollbackIsComplete
  <1> QED
    BY <1>1, Inv, PTL

(* RESUME_FROM is written ahead of the first live file.                    *)
THEOREM LandingAnnounced == Spec => []LandingIsAnnounced
  <1>1. IInv => LandingIsAnnounced
    BY DEF IInv, TraceInv, Clean, Announced, LandingIsAnnounced
  <1> QED
    BY <1>1, Inv, PTL

(* write_state and the evidence, RUN_FINAL_STATE included, tell a landing  *)
(* or a pass only of an action the ledger has DONE with that effect.       *)
THEOREM ClaimsFollow == Spec => []ClaimsFollowLedger
  <1>1. IInv => ClaimsFollowLedger
    BY DEF IInv
  <1> QED
    BY <1>1, Inv, PTL

(* complete_action comes after the comparison of the live files.           *)
THEOREM DoneMeansLive == Spec => DoneIsLive
  <1>1. IInv => \A r \in Run : pc[r] = "record" =>
          \A f \in ChangedFiles(r) \ (Deleted(r) \cup touched) : live[f] = cand[r][f]
    BY DEF IInv, LandInv
  <1>2. IInv /\ [Next]_vars =>
          [\A r \in Run :
             pc[r] = "record" /\ actions'[aid[r]].state = "DONE" =>
               \A f \in ChangedFiles(r) \ (Deleted(r) \cup touched) :
                 live[f] = cand[r][f]]_vars
    BY <1>1
  <1> QED
    BY <1>2, Inv, PTL DEF Spec, DoneIsLive

(* _prepare_action resumes only what was INTERRUPTED or put on HOLD: the   *)
(* RUNNING action of a process that is gone is left alone for good.        *)
THEOREM NeverRerun == Spec => MissingProcessNeverMeansRerun
  <1> DEFINE Left == \A a \in ActionId :
        /\ actions[a].state \in {"RUNNING", "RESUMED"}
        /\ \E r \in Run : process[a] = r /\ pc[r] \in Gone
        => actions'[a] = actions[a] /\ process'[a] = process[a]
  <1>1. IInv /\ [Next]_vars => Left
    <2> SUFFICES ASSUME IInv, [Next]_vars, NEW a \in ActionId, NEW r \in Run,
                        actions[a].state \in {"RUNNING", "RESUMED"},
                        process[a] = r, pc[r] \in Gone
                 PROVE  actions'[a] = actions[a] /\ process'[a] = process[a]
      OBVIOUS
    <2>1. actions \in Ledger /\ process \in [ActionId -> Run \cup {NoRun}]
      BY DEF IInv, TypeOK
    <2>2. ASSUME NEW q \in Run, NEW b \in ActionId, NEW rec \in Action, Takes(q, b, rec)
          PROVE  actions'[a] = actions[a] /\ process'[a] = process[a]
      <3>1. a # b
        BY <2>2 DEF Takes, CanBegin, Present, RESUMABLE_ACTION_STATES
      <3> QED
        BY <2>1, <2>2, <3>1 DEF Takes, Ledger
    <2>3. ASSUME NEW q \in Run, NEW rec \in Action, Writes(q, rec)
          PROVE  actions'[a] = actions[a] /\ process'[a] = process[a]
      <3>1. pc[q] \notin Gone /\ process[aid[q]] = q
        BY <2>3 DEF Writes, IInv, ClaimInv, Scoped, Working, InReport, InWork, InLand, InHandler, Gone
      <3>2. aid[q] # a
        BY <3>1
      <3> QED
        BY <2>1, <2>3, <3>2 DEF Writes, Ledger
    <2> QED
      BY <2>2, <2>3, LedgerStep
  <1>2. IInv /\ [Next]_vars => [Left]_vars
    BY <1>1
  <1> QED
    BY <1>2, Inv, PTL DEF Spec, MissingProcessNeverMeansRerun

-----------------------------------------------------------------------------
(* The instance of ActionLedgerSpec reads the same records as GoalRunner.  *)
LEMMA SameRecords ==
  /\ Promise!Absent = Absent /\ Promise!EmptyLedger = EmptyLedger
  /\ Promise!Ledger = Ledger
  /\ Promise!ACTION_STATES = ACTION_STATES
  /\ Promise!RESUMABLE_ACTION_STATES = RESUMABLE_ACTION_STATES
  /\ \A a \in ActionId : Promise!Active(actions, a) <=> Active(actions, a)
  /\ \A a \in ActionId : Promise!Valid(actions'[a]) <=> Valid(actions'[a])
  BY DEF Promise!Absent, Absent, Promise!EmptyLedger, EmptyLedger,
    Promise!Ledger, Ledger, Promise!Action, Action,
    Promise!ACTION_STATES, ACTION_STATES,
    Promise!TERMINAL_ACTION_STATES, TERMINAL_ACTION_STATES,
    Promise!RESUMABLE_ACTION_STATES, RESUMABLE_ACTION_STATES,
    Promise!Active, Active, Promise!Present, Present,
    Promise!Terminal, Terminal, Promise!Valid, Valid

(* A run's step on the ledger is one step of the promised register.        *)
LEMMA StepIsPromised == IInv /\ [Next]_vars => Promise!Next \/ UNCHANGED actions
  <1> SUFFICES ASSUME IInv, [Next]_vars PROVE Promise!Next \/ UNCHANGED actions
    OBVIOUS
  <1>1. actions \in Ledger /\ actions' \in Ledger
    BY TypeStep DEF IInv, TypeOK
  <1>2. ASSUME NEW r \in Run, NEW a \in ActionId, NEW rec \in Action, Takes(r, a, rec)
        PROVE  Promise!Next
    <2>1. actions'[a] = rec /\ \A b \in ActionId \ {a} : actions'[b] = actions[b]
      BY <1>1, <1>2 DEF Takes, Ledger
    <2>2. CASE /\ CanBegin(actions, a, rec.key)
               /\ rec.state = "RUNNING" /\ rec.resume_from = None
      <3>1. actions[a] = Absent
        BY <2>2 DEF CanBegin, IInv, KeyInv
      <3>2. Promise!Born(a)
        BY <1>2, <2>1, <2>2, <3>1, SameRecords DEF Promise!Born, CanBegin, Takes
      <3> QED
        BY <1>1, <2>1, <3>2, SameRecords DEF Promise!Next
    <2>3. CASE /\ actions[a].state \in RESUMABLE_ACTION_STATES
               /\ rec.state = "RESUMED" /\ rec.key = actions[a].key
      <3>1. Active(actions, a)
        BY <2>3 DEF Active, Present, Terminal, TERMINAL_ACTION_STATES,
          RESUMABLE_ACTION_STATES
      <3>2. Valid(actions'[a]) /\ actions'[a].state \in ACTION_STATES
        BY <2>1, <2>3 DEF Valid, TERMINAL_ACTION_STATES, ACTION_STATES
      <3>3. Promise!Moved(a)
        BY <2>1, <2>3, <3>1, <3>2, SameRecords DEF Promise!Moved
      <3> QED
        BY <1>1, <2>1, <3>3, SameRecords DEF Promise!Next
    <2> QED
      BY <1>2, <2>2, <2>3 DEF Takes
  <1>3. ASSUME NEW r \in Run, NEW rec \in Action, Writes(r, rec) PROVE Promise!Next
    <2> DEFINE a == aid[r]
    <2>1. a \in ActionId
      BY <1>3 DEF Writes, IInv, ClaimInv, Run
    <2>2. actions'[a] = rec /\ \A b \in ActionId \ {a} : actions'[b] = actions[b]
      BY <1>1, <1>3, <2>1 DEF Writes, Ledger
    <2>3. Active(actions, a) /\ rec.key = actions[a].key /\ Valid(rec)
      BY <1>3 DEF Writes
    <2>4. actions[a].state \in ACTION_STATES
      BY <1>1, <2>1, <2>3 DEF Active, Present, Ledger, Action
    <2>5. /\ rec.state \in ACTION_STATES
          /\ rec.state = "RESUMED" => actions[a].state = "RESUMED"
      BY <1>3, <2>4 DEF Writes, ACTION_STATES
    <2>6. Promise!Moved(a)
      BY <2>1, <2>2, <2>3, <2>5, SameRecords DEF Promise!Moved
    <2> QED
      BY <1>1, <2>1, <2>2, <2>6, SameRecords DEF Promise!Next
  <1> QED
    BY <1>2, <1>3, LedgerStep

(* The runs, with their handlers and their deaths, implement the register  *)
(* the action ledger promises.                                             *)
THEOREM ImplementsPromise == Spec => KeepsPromise
  <1>1. Init => Promise!Init
    BY SameRecords DEF Init, Promise!Init
  <1>2. IInv /\ [Next]_vars => [Promise!Next]_actions
    BY StepIsPromised
  <1> QED
    BY <1>1, <1>2, Inv, PTL DEF Spec, KeepsPromise, Promise!Spec
==============================================================================
