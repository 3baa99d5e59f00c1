----------------------------- MODULE GoalRunner ------------------------------
(***************************************************************************)
(* tools/w7tp_nl_goal_runner.py and the launch of it by                    *)
(* services/gateway/natural_language_control.py: a run takes the           *)
(* continuity lock, claims its goal in the action ledger, builds a         *)
(* candidate in a shadow of the source, lands it on the live files and     *)
(* writes down what happened.                                              *)
(*                                                                         *)
(* Run r uses the ACTION_ID A-NL-r, so an ActionId stands for a run too; a *)
(* Key stands for a goal (task, closure and intent hash).  A ledger call   *)
(* is one step: ActionLedger shows that it is, for a caller that holds the *)
(* lock, and every call here either saves or leaves the ledger alone.  A   *)
(* file's content is what wrote it.  The stages before the landing write   *)
(* RESUME_FROM values nothing reads back: they are one value, REWORK.      *)
(***************************************************************************)
EXTENDS ActionRecords, Naturals

CONSTANTS
  File,           (* the files of the affected closure                     *)
  Effectful,      (* goals effectful_intent says yes to                    *)
  DeleteGoals,    (* goals explicit_delete_allowed says yes to             *)
  NoRun,          (* no process: the lock is free, the action is not begun *)
  MaxEdits        (* bound on the edits made outside the runner            *)

Run == ActionId

ASSUME RunnerAssumption ==
  /\ ResumePoint = {"REWORK", "LAND_CANDIDATE", "CHECK_ACTUAL_EFFECT"}
  /\ Effectful \subseteq Key /\ DeleteGoals \subseteq Key
  /\ NoRun \notin Run
  /\ Run \cap {"base", "edit", "none"} = {}
  /\ MaxEdits \in Nat

VARIABLES
  actions,        (* ACTION_LEDGER.json                                    *)
  process,        (* PROCESS_ID of every action                            *)
  confirmed,      (* LAST_CONFIRMED_EFFECT of every action                 *)
  lock,           (* the run in continuity_effect_scope                    *)
  pc,             (* where every run is                                    *)
  goal,           (* the goal of every run                                 *)
  aid,            (* the action every run works for                        *)
  live,           (* the content of every live file                        *)
  before,         (* snapshot of the shadow before the agent worked        *)
  cand,           (* snapshot of the shadow after it                       *)
  preimage,       (* run_dir/preimage                                      *)
  todo,           (* files the loop a run is in has yet to handle          *)
  report,         (* state.json of every run                               *)
  evidence,       (* the STATEs of all evidence a run appended to a task   *)
  touched,        (* files edited outside since the last check of them     *)
  edits           (* number of such edits, for the bound                   *)

ledgerVars == <<actions, process, confirmed>>
shadowVars == <<before, cand, preimage>>
liveVars == <<live, touched, edits>>
toldVars == <<report, evidence>>
vars == <<ledgerVars, lock, pc, goal, aid, todo, shadowVars, liveVars, toldVars>>

NoFile == "none"
Content == {"base", "edit", NoFile} \cup Run
Blank == [f \in File |-> NoFile]

ChangedFiles(r) == {f \in File : cand[r][f] # before[r][f]}
Created(r) == {f \in ChangedFiles(r) : before[r][f] = NoFile}
Deleted(r) == {f \in ChangedFiles(r) : cand[r][f] = NoFile}

Gone == {"ended", "dead"}
InWork == {"closure", "candidate", "verified"}
InLand == {"check", "preimage", "copy", "validate", "record"}
InHandler == {"handle_work", "handle_land", "restored"}
InReport == {"report", "write_failure"}
Working == {"register", "announce", "restore", "evidence", "finish", "write"}
             \cup InWork \cup InLand \cup InHandler
Scoped == {"prepare"} \cup Working \cup InReport
Places == {"new", "starting", "stuck", "wait"} \cup Scoped \cup Gone

RunStates == {"none", "STARTING", "RUNNING", "HOLD", "PASS", "LANDED"}
EvidenceStates ==
  {"HOLD", "INTERRUPTED", "DONE", "DONE_NO_SOURCE_CHANGE", "PASS", "LANDED"}

Init ==
  /\ actions = EmptyLedger
  /\ process = [a \in ActionId |-> NoRun]
  /\ confirmed = [a \in ActionId |-> "null"]
  /\ lock = NoRun
  /\ pc = [r \in Run |-> "new"]
  /\ goal = [r \in Run |-> NoKey]
  /\ aid = [r \in Run |-> NoRun]
  /\ live \in [File -> {"base", NoFile}]
  /\ before = [r \in Run |-> Blank]
  /\ cand = [r \in Run |-> Blank]
  /\ preimage = [r \in Run |-> Blank]
  /\ todo = [r \in Run |-> {}]
  /\ report = [r \in Run |-> "none"]
  /\ evidence = [r \in Run |-> {}]
  /\ touched = {}
  /\ edits = 0

Go(r, place) == pc' = [pc EXCEPT ![r] = place]

(* main returns or the process dies: the kernel drops the flock, and the   *)
(* shadow and the two snapshots go with the process.                       *)
Exit(r, place) ==
  /\ Go(r, place)
  /\ lock' = IF lock = r THEN NoRun ELSE lock
  /\ before' = [before EXCEPT ![r] = Blank]
  /\ cand' = [cand EXCEPT ![r] = Blank]
  /\ preimage' = [preimage EXCEPT ![r] = Blank]
  /\ todo' = [todo EXCEPT ![r] = {}]

-----------------------------------------------------------------------------
(* execute: state.json says STARTING before systemd-run is called.         *)
Execute(r) ==
  /\ pc[r] = "new"
  /\ \E k \in Key : goal' = [goal EXCEPT ![r] = k]
  /\ report' = [report EXCEPT ![r] = "STARTING"]
  /\ Go(r, "starting")
  /\ UNCHANGED <<ledgerVars, lock, aid, todo, shadowVars, liveVars, evidence>>

LaunchFails(r) ==
  /\ pc[r] = "starting"
  /\ report' = [report EXCEPT ![r] = "HOLD"]
  /\ Go(r, "ended")
  /\ UNCHANGED <<ledgerVars, lock, goal, aid, todo, shadowVars, liveVars, evidence>>

(* The runner has not opened the FIFO after five seconds, or the gateway   *)
(* dies: the FIFO is unlinked or has no writer, and the runner waits.      *)
HandOverFails(r) ==
  /\ pc[r] = "starting"
  /\ Go(r, "stuck")
  /\ UNCHANGED <<ledgerVars, lock, goal, aid, todo, shadowVars, liveVars, toldVars>>

HandOver(r) ==
  /\ pc[r] = "starting"
  /\ Go(r, "wait")
  /\ UNCHANGED <<ledgerVars, lock, goal, aid, todo, shadowVars, liveVars, toldVars>>

(* Faulty variant: main without continuity_effect_scope around the run.    *)
EnterScope_NoLock(r) ==
  /\ pc[r] = "wait"
  /\ lock' = r
  /\ Go(r, "prepare")
  /\ UNCHANGED <<ledgerVars, goal, aid, todo, shadowVars, liveVars, toldVars>>

(* main: one scope for the whole run.                                      *)
EnterScope(r) ==
  /\ pc[r] = "wait"
  /\ lock = NoRun
  /\ lock' = r
  /\ Go(r, "prepare")
  /\ UNCHANGED <<ledgerVars, goal, aid, todo, shadowVars, liveVars, toldVars>>

-----------------------------------------------------------------------------
(* _prepare_action: the unfinished actions of the goal.                    *)
ActiveSame(r) == {a \in ActionId : Active(actions, a) /\ actions[a].key = goal[r]}

Claimed(r, a) ==
  /\ process' = [process EXCEPT ![a] = r]
  /\ aid' = [aid EXCEPT ![r] = a]
  /\ Go(r, "register")
  /\ UNCHANGED <<confirmed, lock, goal, todo, shadowVars, liveVars, toldVars>>

Begin(r) ==
  /\ pc[r] = "prepare" /\ ActiveSame(r) = {}
  /\ CanBegin(actions, r, goal[r])
  /\ actions' = Begun(actions, r, goal[r])
  /\ Claimed(r, r)

(* Faulty variant: a RUNNING action whose process is gone is taken over.   *)
Resume_TakesOver(r) ==
  /\ pc[r] = "prepare"
  /\ \E a \in ActiveSame(r) :
       /\ actions[a].state \in RESUMABLE_ACTION_STATES \cup {"RUNNING"}
       /\ actions' = [actions EXCEPT ![a].state = "RESUMED"]
       /\ Claimed(r, a)

(* resume_action, with the RESUME_FROM the action already has.             *)
Resume(r) ==
  /\ pc[r] = "prepare"
  /\ \E a \in ActiveSame(r) :
       /\ actions[a].state \in RESUMABLE_ACTION_STATES
       /\ actions' = Updated(actions, a,
            [state |-> "RESUMED", key |-> Keep,
             resume_from |-> IF actions[a].resume_from = None
                               THEN "CHECK_ACTUAL_EFFECT" ELSE Keep])
       /\ Claimed(r, a)

(* _prepare_action raises: HOLD_DUPLICATE_ACTIVE_ACTION, a key that is     *)
(* already DONE, or a ledger that cannot be saved.                         *)
Refuse(r) ==
  /\ pc[r] \in {"prepare", "register"}
  /\ Go(r, "report")
  /\ UNCHANGED <<ledgerVars, lock, goal, aid, todo, shadowVars, liveVars, toldVars>>

(* The last update of _prepare_action, then write_state(RUNNING).          *)
Register(r) ==
  /\ pc[r] = "register"
  /\ actions' = [actions EXCEPT ![aid[r]].resume_from = "REWORK"]
  /\ Go(r, "announce")
  /\ UNCHANGED <<process, confirmed, lock, goal, aid, todo, shadowVars, liveVars, toldVars>>

Announce(r) ==
  /\ pc[r] = "announce"
  /\ report' = [report EXCEPT ![r] = "RUNNING"]
  /\ Go(r, "closure")
  /\ UNCHANGED <<ledgerVars, lock, goal, aid, todo, shadowVars, liveVars, evidence>>

-----------------------------------------------------------------------------
(* copy_source_snapshot, snapshot.                                         *)
CopySnapshot(r) ==
  /\ pc[r] = "closure"
  /\ before' = [before EXCEPT ![r] = live]
  /\ cand' = [cand EXCEPT ![r] = live]
  /\ Go(r, "candidate")
  /\ UNCHANGED <<ledgerVars, lock, goal, aid, todo, preimage, liveVars, toldVars>>

(* The agent changes, creates or deletes files of the shadow; only a       *)
(* read-only goal leaves it alone for sure.  validate_candidate passes.    *)
BuildCandidate(r) ==
  /\ pc[r] = "candidate"
  /\ \E W, D \in SUBSET File :
       /\ W \cap D = {}
       /\ goal[r] \notin Effectful => W \cup D = {}
       /\ cand' = [cand EXCEPT ![r] =
            [f \in File |-> IF f \in W THEN r ELSE IF f \in D THEN NoFile ELSE @[f]]]
  /\ Go(r, "verified")
  /\ UNCHANGED <<ledgerVars, lock, goal, aid, todo, before, preimage, liveVars, toldVars>>

(* _append_work_evidence, which may be PENDING and never raises.           *)
Appended(r, state) == evidence' \in {evidence, [evidence EXCEPT ![r] = @ \cup {state}]}

NoImplementationEffect(r) ==
  /\ pc[r] = "verified" /\ ChangedFiles(r) = {} /\ goal[r] \in Effectful
  /\ actions' = Updated(actions, aid[r],
       [state |-> "HOLD", key |-> Keep, resume_from |-> "REWORK"])
  /\ confirmed' = [confirmed EXCEPT ![aid[r]] = "no_effect"]
  /\ Appended(r, "HOLD")
  /\ Go(r, "finish")
  /\ UNCHANGED <<process, lock, goal, aid, todo, shadowVars, liveVars, report>>

Complete(r, effect) ==
  /\ actions' = Updated(actions, aid[r],
       [state |-> "DONE", key |-> Keep, resume_from |-> None])
  /\ confirmed' = [confirmed EXCEPT ![aid[r]] = effect]
  /\ Go(r, "evidence")
  /\ UNCHANGED <<process, lock, goal, aid, todo, shadowVars, liveVars, toldVars>>

NoSourceChange(r) ==
  /\ pc[r] = "verified" /\ ChangedFiles(r) = {} /\ goal[r] \notin Effectful
  /\ Complete(r, "no_effect")

(* Faulty variant: the landing starts without a word to the ledger.        *)
Adjudicate_NotAnnounced(r) ==
  /\ pc[r] = "verified" /\ ChangedFiles(r) # {}
  /\ Go(r, "check")
  /\ UNCHANGED <<ledgerVars, lock, goal, aid, todo, shadowVars, liveVars, toldVars>>

(* _total_field_source_delta_gate allows the delta; the ledger says        *)
(* LAND_CANDIDATE before the first live file is written.                   *)
Adjudicate(r) ==
  /\ pc[r] = "verified" /\ ChangedFiles(r) # {}
  /\ actions' = [actions EXCEPT ![aid[r]].resume_from = "LAND_CANDIDATE"]
  /\ Go(r, "check")
  /\ UNCHANGED <<process, confirmed, lock, goal, aid, todo, shadowVars, liveVars, toldVars>>

Raise(r) ==
  /\ Go(r, "handle_work")
  /\ UNCHANGED <<ledgerVars, lock, goal, aid, todo, shadowVars, liveVars, toldVars>>

(* The plan's closure is not there.                                        *)
ClosureFails(r) == pc[r] = "closure" /\ Raise(r)

(* The model does not answer in time, or validate_candidate finds fault.   *)
CandidateFails(r) == pc[r] = "candidate" /\ Raise(r)

(* The Total Field holds the delta, or the ledger cannot be saved.         *)
AdjudicationHolds(r) == pc[r] = "verified" /\ Raise(r)

-----------------------------------------------------------------------------
(* land: the delete rule and _assert_live_preimage.                        *)
AssertLivePreimage(r) ==
  /\ pc[r] = "check"
  /\ Deleted(r) # {} => goal[r] \in DeleteGoals
  /\ \A f \in ChangedFiles(r) : live[f] = before[r][f]
  /\ touched' = {}
  /\ Go(r, "preimage")
  /\ UNCHANGED <<ledgerVars, lock, goal, aid, todo, shadowVars, live, edits, toldVars>>

CopyPreimage(r) ==
  /\ pc[r] = "preimage"
  /\ preimage' = [preimage EXCEPT ![r] =
       [f \in File |-> IF f \in ChangedFiles(r) \ Created(r) THEN live[f] ELSE NoFile]]
  /\ todo' = [todo EXCEPT ![r] = ChangedFiles(r)]
  /\ Go(r, "copy")
  /\ UNCHANGED <<ledgerVars, lock, goal, aid, before, cand, liveVars, toldVars>>

Handled(r, f, place) ==
  /\ todo' = [todo EXCEPT ![r] = @ \ {f}]
  /\ Go(r, IF todo[r] = {f} THEN place ELSE pc[r])

(* atomic_copy of what was created and modified, then the deletions.       *)
CopyFile(r) ==
  /\ pc[r] = "copy"
  /\ \E f \in todo[r] :
       /\ f \in Deleted(r) => todo[r] \subseteq Deleted(r)
       /\ live' = [live EXCEPT ![f] = cand[r][f]]
       /\ Handled(r, f, "validate")
  /\ UNCHANGED <<ledgerVars, lock, goal, aid, shadowVars, touched, edits, toldVars>>

(* Faulty variant: the hashes of the live files are not compared.          *)
Reobserve_NoHash(r) ==
  /\ pc[r] = "validate"
  /\ touched' = {}
  /\ Go(r, "record")
  /\ UNCHANGED <<ledgerVars, lock, goal, aid, todo, shadowVars, live, edits, toldVars>>

(* The tests, the services and then the hashes of the live files pass.     *)
Reobserve(r) ==
  /\ pc[r] = "validate"
  /\ \A f \in ChangedFiles(r) \ Deleted(r) : live[f] = cand[r][f]
  /\ touched' = {}
  /\ Go(r, "record")
  /\ UNCHANGED <<ledgerVars, lock, goal, aid, todo, shadowVars, live, edits, toldVars>>

(* Faulty variant: restore copies the preimage and forgets what is new.    *)
ReobserveFails_KeepsCreated(r) ==
  /\ pc[r] = "validate"
  /\ todo' = [todo EXCEPT ![r] = ChangedFiles(r) \ Created(r)]
  /\ Go(r, IF todo'[r] = {} THEN "restored" ELSE "restore")
  /\ UNCHANGED <<ledgerVars, lock, goal, aid, shadowVars, liveVars, toldVars>>

ReobserveFails(r) ==
  /\ pc[r] = "validate"
  /\ todo' = [todo EXCEPT ![r] = ChangedFiles(r)]
  /\ Go(r, "restore")
  /\ UNCHANGED <<ledgerVars, lock, goal, aid, shadowVars, liveVars, toldVars>>

(* restore: what was created is unlinked, then the preimage comes back.    *)
RestoreFile(r) ==
  /\ pc[r] = "restore"
  /\ \E f \in todo[r] :
       /\ todo[r] \cap Created(r) # {} => f \in Created(r)
       /\ live' = [live EXCEPT ![f] = preimage[r][f]]
       /\ Handled(r, f, "restored")
  /\ UNCHANGED <<ledgerVars, lock, goal, aid, shadowVars, touched, edits, toldVars>>

(* Faulty variant: a ledger that cannot be saved is not noticed.           *)
RecordLanding_Unsaved(r) ==
  /\ pc[r] = "record"
  /\ Go(r, "evidence")
  /\ UNCHANGED <<ledgerVars, lock, goal, aid, todo, shadowVars, liveVars, toldVars>>

(* The ledger learns of the landing and the action is complete.            *)
RecordLanding(r) ==
  /\ pc[r] = "record"
  /\ Complete(r, "landed")

(* A delete nobody asked for, drift, an I/O error, a restore that stops    *)
(* half way, a ledger that cannot be saved.  Only what fails in "validate" *)
(* is inside the try of land that restores the preimage.                   *)
LandFails(r) ==
  /\ pc[r] \in {"check", "preimage", "copy", "record", "restore"}
  /\ Go(r, "handle_land")
  /\ UNCHANGED <<ledgerVars, lock, goal, aid, todo, shadowVars, liveVars, toldVars>>

-----------------------------------------------------------------------------
RecordEvidence(r) ==
  /\ pc[r] = "evidence"
  /\ Appended(r, IF ChangedFiles(r) = {} THEN "DONE_NO_SOURCE_CHANGE" ELSE "DONE")
  /\ Go(r, "finish")
  /\ UNCHANGED <<ledgerVars, lock, goal, aid, todo, shadowVars, liveVars, report>>

(* final["state"], from the changes and the landing the run has in hand.   *)
FinalState(r) ==
  IF ChangedFiles(r) # {} THEN "LANDED"
  ELSE IF goal[r] \in Effectful THEN "HOLD" ELSE "PASS"

(* write_state with finished_at: RUN_FINAL_STATE goes to the task (after a *)
(* refusal to UNBOUND-NATURAL-LANGUAGE) ...                                *)
AppendFinalState(r) ==
  /\ pc[r] \in {"finish", "report"}
  /\ Appended(r, IF pc[r] = "finish" THEN FinalState(r) ELSE "HOLD")
  /\ Go(r, IF pc[r] = "finish" THEN "write" ELSE "write_failure")
  /\ UNCHANGED <<ledgerVars, lock, goal, aid, todo, shadowVars, liveVars, report>>

(* ... and then state.json is replaced.                                    *)
Finish(r) ==
  /\ pc[r] = "write"
  /\ report' = [report EXCEPT ![r] = FinalState(r)]
  /\ Exit(r, "ended")
  /\ UNCHANGED <<ledgerVars, goal, aid, liveVars, evidence>>

(* If write_state(final) raises, the handler runs after all.               *)
FinishFails(r) ==
  /\ pc[r] = "write"
  /\ Go(r, IF ChangedFiles(r) = {} THEN "handle_work" ELSE "handle_land")
  /\ UNCHANGED <<ledgerVars, lock, goal, aid, todo, shadowVars, liveVars, toldVars>>

(* What the except branch asks of the ledger, by the phase it came from.   *)
Outcome(r) ==
  IF pc[r] = "handle_work"
    THEN [state |-> "HOLD", key |-> Keep, resume_from |-> "REWORK"]
    ELSE [state |-> "INTERRUPTED", key |-> Keep, resume_from |-> "CHECK_ACTUAL_EFFECT"]

(* Faulty variant: the handler writes over whatever the ledger says.       *)
Handle_Overwrites(r) ==
  /\ pc[r] \in {"handle_work", "handle_land", "restored"}
  /\ actions' = Updated(actions, aid[r], Outcome(r))
  /\ Appended(r, Outcome(r).state)
  /\ Go(r, "report")
  /\ UNCHANGED <<process, confirmed, lock, goal, aid, todo, shadowVars, liveVars, report>>

(* The except branch; mark_interrupted sets LAST_CONFIRMED_EFFECT to null. *)
Handle(r) ==
  /\ pc[r] \in {"handle_work", "handle_land", "restored"}
  /\ CanUpdate(actions, aid[r], Outcome(r))
  /\ actions' = Updated(actions, aid[r], Outcome(r))
  /\ confirmed' = IF pc[r] = "handle_work" THEN confirmed
                                           ELSE [confirmed EXCEPT ![aid[r]] = "null"]
  /\ Appended(r, Outcome(r).state)
  /\ Go(r, "report")
  /\ UNCHANGED <<process, lock, goal, aid, todo, shadowVars, liveVars, report>>

(* The ledger refuses (the action is DONE) or cannot be saved: pass.       *)
HandleFails(r) ==
  /\ pc[r] \in {"handle_work", "handle_land", "restored"}
  /\ Go(r, "report")
  /\ UNCHANGED <<ledgerVars, lock, goal, aid, todo, shadowVars, liveVars, toldVars>>

(* Faulty variant: an exit path that leaves the lock file behind.          *)
ReportFailure_KeepsLock(r) ==
  /\ pc[r] = "write_failure"
  /\ report' = [report EXCEPT ![r] = "HOLD"]
  /\ Go(r, "ended")
  /\ UNCHANGED <<ledgerVars, lock, goal, aid, todo, shadowVars, liveVars, evidence>>

(* state.json with the error as the state; the run ends either way.        *)
ReportFailure(r) ==
  /\ pc[r] = "write_failure"
  /\ report' \in {report, [report EXCEPT ![r] = "HOLD"]}
  /\ Exit(r, "ended")
  /\ UNCHANGED <<ledgerVars, goal, aid, liveVars, evidence>>

(* The runner is killed, or a write_state outside the try raises.          *)
Die(r) ==
  /\ pc[r] \in Scoped \cup {"wait"}
  /\ Exit(r, "dead")
  /\ UNCHANGED <<ledgerVars, goal, aid, liveVars, toldVars>>

(* Someone edits or creates a live file without the runner.                *)
EditLive(f) ==
  /\ edits < MaxEdits
  /\ live' = [live EXCEPT ![f] = "edit"]
  /\ touched' = touched \cup {f}
  /\ edits' = edits + 1
  /\ UNCHANGED <<ledgerVars, lock, pc, goal, aid, todo, shadowVars, toldVars>>
-----------------------------------------------------------------------------
(* The steps of a run in its scope; each one is bounded by a timeout.      *)
Work(r) ==
  \/ Begin(r) \/ Resume(r) \/ Refuse(r) \/ Register(r) \/ Announce(r)
  \/ CopySnapshot(r) \/ BuildCandidate(r)
  \/ ClosureFails(r) \/ CandidateFails(r) \/ AdjudicationHolds(r)
  \/ NoImplementationEffect(r) \/ NoSourceChange(r) \/ Adjudicate(r)
  \/ AssertLivePreimage(r) \/ CopyPreimage(r) \/ CopyFile(r)
  \/ Reobserve(r) \/ ReobserveFails(r) \/ RestoreFile(r)
  \/ RecordLanding(r) \/ LandFails(r) \/ RecordEvidence(r)
  \/ AppendFinalState(r) \/ Finish(r) \/ FinishFails(r)
  \/ Handle(r) \/ HandleFails(r) \/ ReportFailure(r)

Next ==
  \/ \E r \in Run :
       \/ Execute(r) \/ LaunchFails(r) \/ HandOverFails(r) \/ HandOver(r)
       \/ EnterScope(r) \/ Work(r) \/ Die(r)
  \/ \E f \in File : EditLive(f)

Spec == Init /\ [][Next]_vars

(* A run in its scope goes on, and a runner blocked in flock gets the lock *)
(* if it is freed again and again.                                         *)
Fairness == \A r \in Run : WF_vars(Work(r)) /\ SF_vars(EnterScope(r))

FairSpec == Spec /\ Fairness

-----------------------------------------------------------------------------
TypeOK ==
  /\ actions \in Ledger
  /\ process \in [ActionId -> Run \cup {NoRun}]
  /\ confirmed \in [ActionId -> {"null", "no_effect", "landed"}]
  /\ lock \in Run \cup {NoRun}
  /\ pc \in [Run -> Places]
  /\ goal \in [Run -> Key \cup {NoKey}]
  /\ aid \in [Run -> ActionId \cup {NoRun}]
  /\ live \in [File -> Content]
  /\ before \in [Run -> [File -> Content]]
  /\ cand \in [Run -> [File -> Content]]
  /\ preimage \in [Run -> [File -> Content]]
  /\ todo \in [Run -> SUBSET File]
  /\ report \in [Run -> RunStates]
  /\ evidence \in [Run -> SUBSET EvidenceStates]
  /\ touched \subseteq File
  /\ edits \in 0..MaxEdits

(* land overwrites only what the candidate was built from: the lock keeps  *)
(* every other run out between the snapshot and the last copied file, and  *)
(* _assert_live_preimage catches what others did before it looked.         *)
LandsOnSnapshot ==
  \A r \in Run : pc[r] = "copy" =>
    \A f \in todo[r] \ touched : live[f] = before[r][f]

(* The ledger is written ahead of the landing: while an action is          *)
(* unfinished and its process has written a live file, RESUME_FROM says    *)
(* that the landing had begun.  A RUNNING or HOLD action with an earlier   *)
(* RESUME_FROM left no effect of that process, wherever it died.           *)
LandingIsAnnounced ==
  \A a \in ActionId, r \in Run :
    /\ Active(actions, a) /\ process[a] = r
    /\ \E f \in File : live[f] = r
    => actions[a].resume_from \in {"LAND_CANDIDATE", "CHECK_ACTUAL_EFFECT"}

(* test_missing_process_never_means_rerun: an action left RUNNING or       *)
(* RESUMED by a process that is gone is never taken up again.              *)
MissingProcessNeverMeansRerun ==
  [][\A a \in ActionId :
       /\ actions[a].state \in {"RUNNING", "RESUMED"}
       /\ \E r \in Run : process[a] = r /\ pc[r] \in Gone
       => actions'[a] = actions[a] /\ process'[a] = process[a]]_vars

(* restore, run to its end, gives every changed file back what it held     *)
(* before, and a created file is gone.                                     *)
RollbackIsComplete ==
  \A r \in Run : pc[r] = "restored" =>
    \A f \in ChangedFiles(r) \ touched : live[f] = before[r][f]

(* complete_action comes after the hash comparison: when an action becomes *)
(* DONE, every file the candidate writes is live, except one edited after  *)
(* it was compared.                                                        *)
DoneIsLive ==
  [][\A r \in Run :
       pc[r] = "record" /\ actions'[aid[r]].state = "DONE" =>
         \A f \in ChangedFiles(r) \ (Deleted(r) \cup touched) : live[f] = cand[r][f]]_vars

(* What a run tells, in state.json and in the evidence, RUN_FINAL_STATE    *)
(* included, never runs ahead of the ledger: although it is put together   *)
(* from what the run has in hand, a landing or a DONE is told only of an   *)
(* action that is DONE by this run with a landing as confirmed effect, and *)
(* a pass without changes only of one that is DONE without effect.         *)
Says(r, state) == state = report[r] \/ state \in evidence[r]

DoneBy(r, effect) ==
  /\ aid[r] # NoRun /\ actions[aid[r]].state = "DONE"
  /\ process[aid[r]] = r /\ confirmed[aid[r]] = effect

ClaimsFollowLedger ==
  \A r \in Run :
    /\ Says(r, "LANDED") \/ Says(r, "DONE") => DoneBy(r, "landed")
    /\ Says(r, "PASS") \/ Says(r, "DONE_NO_SOURCE_CHANGE") => DoneBy(r, "no_effect")

(* Every step of every run is one the ledger's promise allows: an action   *)
(* that is DONE stays so when the run's own handler comes after it.        *)
Promise == INSTANCE ActionLedgerSpec
KeepsPromise == Promise!Spec

(* Every run that got its intent ends, whatever the runs before it do and  *)
(* wherever they die.                                                      *)
RunEnds == \A r \in Run : pc[r] = "wait" ~> pc[r] \in Gone

(* SKILL.md "FAILED/HOLD -> ROLLBACK_TO_PREIMAGE": a run that reports a    *)
(* failure leaves none of its files live.                                  *)
FailedLandingRollsBack ==
  \A r \in Run : pc[r] = "ended" /\ report[r] = "HOLD" =>
    \A f \in File : live[f] # r
==============================================================================
