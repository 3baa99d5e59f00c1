---------------------------- MODULE MobileApproval -----------------------------
(***************************************************************************)
(* One approval signed on a phone and kept for good:                       *)
(* gst_mobile_approval_first.py (ceremonies, the proof and the page),      *)
(* gst_mobile_approval_server.py (the threaded server) and                 *)
(* w7tp_founder_sign.py (the one-shot operator and its receipt).           *)
(*                                                                         *)
(* An operator opens a server for a while; pages ask it for a ceremony,    *)
(* sign and submit; the first verified proof is saved under a name that is *)
(* linked once, a receipt is published, and the server closes.  Handler    *)
(* threads are daemons: they go on after the operator has reported, until  *)
(* its process exits, so a next operator may run beside them.              *)
(*                                                                         *)
(* Authenticator, host and body checks are taken to pass.  A page is one   *)
(* load of the page, which signs at most once.                             *)
(***************************************************************************)
EXTENDS Naturals, Sequences, FiniteSets

CONSTANTS
  Operator,       (* processes of the one-shot tool                        *)
  Thread,         (* handler threads                                       *)
  Page,           (* loads of the page in a browser                        *)
  OldReceipt,     (* a receipt found at the target                         *)
  Window,         (* lifetime of a ceremony: 900 seconds                   *)
  MaxCeremonies,  (* bound on the ceremonies opened                        *)
  MaxTime,        (* bound on the clock                                    *)
  MaxRuns         (* bound on the runs of the tool                         *)

ASSUME MobileAssumption ==
  /\ Window \in Nat \ {0} /\ MaxCeremonies \in Nat
  /\ MaxTime \in Nat /\ MaxRuns \in Nat

VARIABLES
  evidence,       (* SIGNED_APPROVAL.json: at most one proof               *)
  receipt,        (* the target: the proof it is the receipt of            *)
  history,        (* receipts kept in receipt-history                      *)
  issued,         (* the PENDING.json files: when each ceremony began      *)
  op,             (* the operator processes                                *)
  thread,         (* the handler threads                                   *)
  page,           (* what each page holds and was told                     *)
  now,            (* the clock                                             *)
  runs            (* number of runs, for the bound                         *)

files == <<evidence, receipt, history, issued>>
vars == <<evidence, receipt, history, issued, op, thread, page, now, runs>>

Ceremony == 1..MaxCeremonies
Proof == [ceremony : Ceremony, page : Page, at : 0..MaxTime]

Off ==
  [ph |-> "off", reviewed |-> FALSE, before |-> {}, result |-> FALSE,
   closing |-> FALSE, finished |-> FALSE, report |-> "none"]

(* A thread keeps its page, an instant, and the receipt it found.          *)
Idle(t) == thread[t].pc = "idle"
IdleThread == [pc |-> "idle"]

Init ==
  /\ evidence = {}
  /\ receipt \in {{}, {OldReceipt}}
  /\ history = {}
  /\ issued = <<>>
  /\ op = [q \in Operator |-> Off]
  /\ thread = [t \in Thread |-> IdleThread]
  /\ page = [p \in Page |-> [held |-> 0, told |-> FALSE]]
  /\ now = 0
  /\ runs = 0

-----------------------------------------------------------------------------
Of(q) == {t \in Thread : ~Idle(t) /\ thread[t].proc = q}

(* completion_lock and LOCK, from where the threads are.                   *)
Completing(q) ==
  \E t \in Of(q) : thread[t].pc \in {"verified", "saved", "publishing"}
Locked(q) == \E t \in Of(q) : thread[t].pc \in {"opening", "verified"}

(* single_operator: the flock is held until the report.                    *)
Running(q) == op[q].ph \notin {"off", "ended"}

Within(c, instant) == issued[c] <= instant /\ instant < issued[c] + Window

-----------------------------------------------------------------------------
(* A handler thread's request is over; its process goes on.                *)
Dropped(t) == thread' = [thread EXCEPT ![t] = IdleThread]

(* do_POST up to the first look at closing.                                *)
Arrive(t, p, q, pc) ==
  /\ Idle(t)
  /\ op[q].ph \in {"listening", "finishing"} /\ ~op[q].closing
  /\ thread' = [thread EXCEPT ![t] = [pc |-> pc, proc |-> q, page |-> p]]
  /\ UNCHANGED <<files, op, page, now, runs>>

Ask(t, p, q) == page[p].held = 0 /\ Arrive(t, p, q, "asked")

(* A page that is not sure its proof was saved submits the same again.     *)
Submit(t, p, q) ==
  page[p].held # 0 /\ ~page[p].told /\ Arrive(t, p, q, "arrived")

(* The options reach the page, which signs them, or are lost.              *)
Answered(p, c) ==
  \/ page' = [page EXCEPT ![p].held = IF @ = 0 THEN c ELSE @]
  \/ UNCHANGED page

Reusable(c) ==
  /\ Within(c, now)
  /\ \A d \in 1..Len(issued) : Within(d, now) => issued[d] <= issued[c]

(* begin: answers with the saved proof, or reuses an open ceremony ...     *)
Begin(t) ==
  /\ thread[t].pc = "asked" /\ ~Locked(thread[t].proc)
  /\ \/ evidence # {} /\ UNCHANGED page
     \/ /\ evidence = {}
        /\ \E c \in 1..Len(issued) : Reusable(c) /\ Answered(thread[t].page, c)
  /\ Dropped(t)
  /\ UNCHANGED <<files, op, now, runs>>

(* ... or holds LOCK while it makes a new one,                             *)
BeginNew(t) ==
  /\ thread[t].pc = "asked" /\ ~Locked(thread[t].proc)
  /\ evidence = {}
  /\ \A c \in 1..Len(issued) : ~Within(c, now)
  /\ thread' = [thread EXCEPT ![t] =
       [pc |-> "opening", proc |-> @.proc, page |-> @.page, at |-> now]]
  /\ UNCHANGED <<files, op, page, now, runs>>

(* and saves it.                                                           *)
OpenCeremony(t) ==
  /\ thread[t].pc = "opening"
  /\ Len(issued) < MaxCeremonies
  /\ issued' = Append(issued, thread[t].at)
  /\ Answered(thread[t].page, Len(issued) + 1)
  /\ Dropped(t)
  /\ UNCHANGED <<evidence, receipt, history, op, now, runs>>

-----------------------------------------------------------------------------
Submitted(t, instant) ==
  [ceremony |-> page[thread[t].page].held, page |-> thread[t].page, at |-> instant]

(* Faulty variant: any completion is answered with the saved proof.        *)
SameCompletion_Any(t) == evidence # {}

(* complete with a proof on disk answers the identical completion.         *)
SameCompletion(t) ==
  \E s \in evidence : s = Submitted(t, s.at)

(* Faulty variant: closing is not looked at again under the lock.          *)
EnterCompletion_NotAgain(t) ==
  /\ thread[t].pc = "arrived"
  /\ ~Completing(thread[t].proc) /\ ~Locked(thread[t].proc)

(* completion_lock taken, closing looked at again, LOCK taken.             *)
EnterCompletion(t) ==
  /\ thread[t].pc = "arrived"
  /\ ~Completing(thread[t].proc) /\ ~Locked(thread[t].proc)
  /\ ~op[thread[t].proc].closing

(* complete up to the verified proof, stamped with the time.               *)
Verify(t) ==
  /\ EnterCompletion(t)
  /\ evidence = {}
  /\ Within(page[thread[t].page].held, now)
  /\ thread' = [thread EXCEPT ![t] =
       [pc |-> "verified", proc |-> @.proc, page |-> @.page, at |-> now]]
  /\ UNCHANGED <<files, op, page, now, runs>>

(* Faulty variant: the proof replaces whatever is there.                   *)
Persist_Replaces(t) ==
  /\ thread[t].pc = "verified"
  /\ evidence' = {Submitted(t, thread[t].at)}
  /\ op' = [op EXCEPT ![thread[t].proc].closing = TRUE]
  /\ thread' = [thread EXCEPT ![t] =
       [pc |-> "saved", proc |-> @.proc, page |-> @.page]]
  /\ UNCHANGED <<receipt, history, issued, page, now, runs>>

(* Faulty variant: the proof is stamped when it is saved.                  *)
Persist_StampedLate(t) ==
  /\ thread[t].pc = "verified" /\ evidence = {}
  /\ evidence' = {Submitted(t, now)}
  /\ op' = [op EXCEPT ![thread[t].proc].closing = TRUE]
  /\ thread' = [thread EXCEPT ![t] =
       [pc |-> "saved", proc |-> @.proc, page |-> @.page]]
  /\ UNCHANGED <<receipt, history, issued, page, now, runs>>

(* persist_new links the file; the server closes after a saved proof.      *)
Persist(t) ==
  /\ thread[t].pc = "verified" /\ evidence = {}
  /\ evidence' = {Submitted(t, thread[t].at)}
  /\ op' = [op EXCEPT ![thread[t].proc].closing = TRUE]
  /\ thread' = [thread EXCEPT ![t] =
       [pc |-> "saved", proc |-> @.proc, page |-> @.page]]
  /\ UNCHANGED <<receipt, history, issued, page, now, runs>>

(* The same completion again: nothing to save.                             *)
Replay(t) ==
  /\ EnterCompletion(t)
  /\ SameCompletion(t)
  /\ op' = [op EXCEPT ![thread[t].proc].closing = TRUE]
  /\ thread' = [thread EXCEPT ![t] =
       [pc |-> "saved", proc |-> @.proc, page |-> @.page]]
  /\ UNCHANGED <<files, page, now, runs>>

(* Every refusal: closing, another proof saved, window over, link exists,  *)
(* a request that breaks off before it is complete.                        *)
Refuse(t) ==
  /\ \/ thread[t].pc \in {"asked", "opening", "arrived"}
     \/ thread[t].pc = "verified" /\ evidence # {}
  /\ Dropped(t)
  /\ UNCHANGED <<files, op, page, now, runs>>

-----------------------------------------------------------------------------
(* Faulty variant: an old receipt needs no reviewed hash.                  *)
Publishable_Unreviewed(reviewed) == receipt # evidence

(* publish_receipt: an old receipt is replaced only given its hash.        *)
Publishable(reviewed) ==
  /\ receipt # evidence
  /\ receipt = IF reviewed THEN {OldReceipt} ELSE {}

(* The response of a completed request, which may be lost; stop is set.    *)
Over(t, published) ==
  /\ Dropped(t)
  /\ op' = [op EXCEPT ![thread[t].proc].result = @ \/ published]
  /\ \/ published /\ page' = [page EXCEPT ![thread[t].page].told = TRUE]
     \/ UNCHANGED page

(* on_verified, the ReceiptWriter: reads the proof, keeps the old receipt, *)
Prepare(t) ==
  /\ thread[t].pc = "saved"
  /\ Publishable(op[thread[t].proc].reviewed)
  /\ history' = history \cup receipt
  /\ thread' = [thread EXCEPT ![t] =
       [pc |-> "publishing", proc |-> @.proc, page |-> @.page, before |-> receipt]]
  /\ UNCHANGED <<evidence, receipt, issued, op, page, now, runs>>

(* and publishes, if the target still is what it was.                      *)
Publish(t) ==
  /\ thread[t].pc = "publishing"
  /\ receipt = thread[t].before
  /\ receipt' = evidence
  /\ Over(t, TRUE)
  /\ UNCHANGED <<evidence, history, issued, now, runs>>

Reuse(t) ==
  /\ thread[t].pc = "saved" /\ receipt = evidence
  /\ Over(t, TRUE)
  /\ UNCHANGED <<files, now, runs>>

(* Any check of the writer may fail: inputs that changed, a target not to  *)
(* be replaced, a target that drifted.                                     *)
PublishFails(t) ==
  /\ thread[t].pc \in {"saved", "publishing"}
  /\ Over(t, FALSE)
  /\ UNCHANGED <<files, now, runs>>

-----------------------------------------------------------------------------
(* run_once: the flock, then a look at the proof.                          *)
Start(q, reviewed) ==
  /\ op[q] = Off /\ \A r \in Operator : ~Running(r)
  /\ runs < MaxRuns /\ runs' = runs + 1
  /\ op' = [op EXCEPT ![q] =
       [Off EXCEPT !.ph = IF evidence = {} THEN "listening" ELSE "readback",
                   !.reviewed = reviewed]]
  /\ UNCHANGED <<files, thread, page, now>>

(* stop.wait ends: stopped, signalled or timed out.  finish_requests first *)
(* sets closing.                                                           *)
EndWait(q) ==
  /\ op[q].ph = "listening"
  /\ op' = [op EXCEPT ![q].ph = "finishing", ![q].closing = TRUE]
  /\ UNCHANGED <<files, thread, page, now, runs>>

(* Faulty variant: completion_lock is awaited without a timeout.           *)
FinishRequests_Forever(q) ==
  /\ op[q].ph = "finishing" /\ ~Completing(q)
  /\ op' = [op EXCEPT ![q].ph = "closed", ![q].finished = TRUE]
  /\ UNCHANGED <<files, thread, page, now, runs>>

(* It then waits five seconds for completion_lock; the listener closes.    *)
FinishRequests(q) ==
  /\ op[q].ph = "finishing"
  /\ op' = [op EXCEPT ![q].ph = "closed", ![q].finished = ~Completing(q)]
  /\ UNCHANGED <<files, thread, page, now, runs>>

Reported(q, report) ==
  op' = [op EXCEPT ![q].ph = "ended", ![q].report = report]

(* The answer of the tool, or the proxy could not be removed.              *)
Report(q) ==
  /\ op[q].ph = "closed"
  /\ \/ Reported(q, CASE op[q].result -> "receipt"
                      [] ~op[q].result /\ evidence # {} -> "pending"
                      [] OTHER -> "nothing")
     \/ Reported(q, "error")
  /\ UNCHANGED <<files, thread, page, now, runs>>

(* SAVED_PROOF_READBACK: the writer without a listener.                    *)
PrepareReadback(q) ==
  /\ op[q].ph = "readback"
  /\ Publishable(op[q].reviewed)
  /\ history' = history \cup receipt
  /\ op' = [op EXCEPT ![q].ph = "publishing", ![q].before = receipt]
  /\ UNCHANGED <<evidence, receipt, issued, thread, page, now, runs>>

PublishReadback(q) ==
  /\ op[q].ph = "publishing"
  /\ receipt = op[q].before
  /\ receipt' = evidence
  /\ Reported(q, "receipt")
  /\ UNCHANGED <<evidence, history, issued, thread, page, now, runs>>

ReuseReadback(q) ==
  /\ op[q].ph = "readback" /\ receipt = evidence
  /\ Reported(q, "receipt")
  /\ UNCHANGED <<files, thread, page, now, runs>>

ReadbackFails(q) ==
  /\ op[q].ph \in {"readback", "publishing"}
  /\ Reported(q, "error")
  /\ UNCHANGED <<files, thread, page, now, runs>>

(* The process exits, or dies at any earlier step, with its threads.       *)
Exit(q) ==
  /\ op[q].ph # "off"
  /\ op' = [op EXCEPT ![q] = Off]
  /\ thread' = [t \in Thread |-> IF t \in Of(q) THEN IdleThread ELSE thread[t]]
  /\ UNCHANGED <<files, page, now, runs>>

Tick ==
  /\ now < MaxTime /\ now' = now + 1
  /\ UNCHANGED <<files, op, thread, page, runs>>

-----------------------------------------------------------------------------
Handle(t) ==
  \/ \E p \in Page, q \in Operator : Ask(t, p, q) \/ Submit(t, p, q)
  \/ Begin(t) \/ BeginNew(t) \/ OpenCeremony(t)
  \/ Verify(t) \/ Persist(t) \/ Replay(t) \/ Refuse(t)
  \/ Prepare(t) \/ Publish(t) \/ Reuse(t) \/ PublishFails(t)

(* The main thread of a run, once it has the flock.                        *)
Operate(q) ==
  \/ EndWait(q) \/ FinishRequests(q) \/ Report(q)
  \/ PrepareReadback(q) \/ PublishReadback(q) \/ ReuseReadback(q) \/ ReadbackFails(q)

Next ==
  \/ \E t \in Thread : Handle(t)
  \/ \E q \in Operator, reviewed \in BOOLEAN : Start(q, reviewed)
  \/ \E q \in Operator : Operate(q) \/ Exit(q)
  \/ Tick

(* Only the main threads are assumed to run: no handler and no page need   *)
(* ever take a step.                                                       *)
Spec == Init /\ [][Next]_vars /\ \A q \in Operator : WF_vars(Operate(q))

-----------------------------------------------------------------------------
Receipts == Proof \cup {OldReceipt}

(* The type of the state: the target holds one receipt, and a page holds   *)
(* and submits signatures of ceremonies on disk only.                      *)
TypeOK ==
  /\ evidence \subseteq Proof /\ Cardinality(evidence) <= 1
  /\ receipt \subseteq Receipts /\ Cardinality(receipt) <= 1
  /\ history \subseteq {OldReceipt}
  /\ issued \in Seq(0..MaxTime) /\ Len(issued) <= MaxCeremonies
  /\ \A p \in Page : page[p].held \in 0..Len(issued)
  /\ \A q \in Operator :
       op[q].ph \in {"off", "listening", "finishing", "closed", "readback",
                     "publishing", "ended"}
  /\ \A t \in Thread :
       /\ thread[t].pc \in {"idle", "asked", "opening", "arrived", "verified",
                            "saved", "publishing"}
       /\ thread[t].pc \in {"arrived", "verified", "saved", "publishing"} =>
            page[thread[t].page].held # 0
  /\ now \in 0..MaxTime /\ runs \in 0..MaxRuns

(* A page that was told its signature is saved, and has let go of it, was  *)
(* told of its own signature: a page never drops a signature for another's.*)
ToldIsSaved ==
  \A p \in Page :
    page[p].told => \E s \in evidence : s.page = p /\ s.ceremony = page[p].held

(* The saved proof passes verify_proof at every later readback: it was     *)
(* verified in the window of its ceremony, however late it was saved.      *)
ProofVerifies == \A s \in evidence : Within(s.ceremony, s.at)

(* What the tool reports is true.  A receipt it names is the receipt of    *)
(* the saved proof; "pending" means a proof; and when nothing was saved    *)
(* and completion_finished is reported, none of its threads, which live    *)
(* on, can save a proof any more.                                          *)
ReportIsTrue ==
  \A q \in Operator : op[q].ph = "ended" =>
    /\ op[q].report = "receipt" => evidence # {} /\ receipt = evidence
    /\ op[q].report = "pending" => evidence # {}
    /\ op[q].report = "nothing" /\ op[q].finished =>
         \A t \in Of(q) : thread[t].pc # "verified"

(* A saved proof is never replaced or removed, by any thread of any        *)
(* process.                                                                *)
ProofFrozen == [][evidence # {} => evidence' = evidence]_evidence

(* The target only ever becomes the receipt of a proof already on disk;    *)
(* an old receipt is replaced only by a run given its hash, and kept.      *)
ReceiptFollowsProof ==
  [][/\ evidence # {} /\ receipt' = evidence
     /\ receipt = {OldReceipt} =>
          /\ OldReceipt \in history
          /\ \E q \in Operator : op[q].ph # "off" /\ op[q].reviewed]_receipt

(* Run after run, with all its threads, the tool is one ceremony desk: a   *)
(* signature made in time becomes the proof once, the receipt follows it,  *)
(* and a page that was told can rely on both (ApprovalSpec).               *)
Signed == [p \in Page |-> page[p].held]
Told == {p \in Page : page[p].told}

Promise == INSTANCE ApprovalSpec WITH
             proof <- evidence, opened <- issued, clock <- now,
             signed <- Signed, told <- Told
KeepsPromise == Promise!Spec

(* A run of the tool ends, whatever its threads and the pages do.          *)
RunEnds == \A q \in Operator : Running(q) ~> ~Running(q)
==============================================================================
