------------------------ MODULE MobileApproval_proofs -------------------------
(***************************************************************************)
(* Theorems about MobileApproval, for any number of operators, threads,    *)
(* pages and ceremonies, and any window.                                   *)
(*                                                                         *)
(* The threads outlive the run that started them, so no lock orders the    *)
(* steps of two runs.  What does is that the proof is linked once, that a  *)
(* ceremony on disk and what a page holds never change, and that a receipt *)
(* of the proof is never replaced (Kept).  What a thread or an operator    *)
(* has found out therefore stays true while others step in (ThreadInv,     *)
(* OperatorInv).                                                           *)
(***************************************************************************)
EXTENDS MobileApproval, FiniteSetTheorems, TLAPS

Phase == {"off", "listening", "finishing", "closed", "readback", "publishing", "ended"}

Place == {"idle", "asked", "opening", "arrived", "verified", "saved", "publishing"}

OperatorRecord ==
  [ph : Phase, reviewed : BOOLEAN, before : SUBSET Receipts, result : BOOLEAN,
   closing : BOOLEAN, finished : BOOLEAN,
   report : {"none", "receipt", "pending", "nothing", "error"}]

(* The saved proof of what page p holds.                                   *)
SavedFor(p) == \E s \in evidence : s.page = p /\ s.ceremony = page[p].held

FilesInv ==
  /\ evidence = {} \/ \E s \in Proof : evidence = {s}
  /\ receipt = {} \/ \E s \in Receipts : receipt = {s}
  /\ history \subseteq {OldReceipt}
  /\ issued \in Seq(0..MaxTime) /\ Len(issued) <= MaxCeremonies
  /\ \A s \in evidence : s.ceremony \in 1..Len(issued)

ActorsInv ==
  /\ page \in [Page -> [held : 0..Len(issued), told : BOOLEAN]]
  /\ op \in [Operator -> OperatorRecord]
  /\ DOMAIN thread = Thread
  /\ now \in 0..MaxTime /\ runs \in 0..MaxRuns

(* What thread t has found out and acts on.                                *)
ThreadInv(t) ==
  /\ thread[t].pc \in Place
  /\ ~Idle(t) =>
       /\ thread[t].page \in Page
       /\ thread[t].proc \in Operator /\ op[thread[t].proc].ph # "off"
  /\ thread[t].pc \in {"arrived", "verified", "saved", "publishing"} =>
       page[thread[t].page].held # 0
  /\ thread[t].pc \in {"opening", "verified"} => thread[t].at \in 0..now
  /\ thread[t].pc = "verified" =>
       /\ Within(page[thread[t].page].held, thread[t].at)
       /\ ~op[thread[t].proc].finished
  /\ thread[t].pc \in {"saved", "publishing"} => SavedFor(thread[t].page)
  /\ thread[t].pc = "publishing" =>
       /\ thread[t].before \in {{}, {OldReceipt}}
       /\ thread[t].before = {OldReceipt} =>
            OldReceipt \in history /\ op[thread[t].proc].reviewed

(* What operator q has found out and acts on.                              *)
OperatorInv(q) ==
  /\ op[q].ph \in {"readback", "publishing"} => evidence # {}
  /\ op[q].ph = "publishing" =>
       /\ op[q].before \in {{}, {OldReceipt}}
       /\ op[q].before = {OldReceipt} => OldReceipt \in history /\ op[q].reviewed
  /\ op[q].ph \in {"finishing", "closed"} \/ op[q].finished => op[q].closing
  /\ op[q].result => evidence # {} /\ receipt = evidence
  /\ op[q].ph = "ended" /\ op[q].report = "receipt" =>
       evidence # {} /\ receipt = evidence
  /\ op[q].ph = "ended" /\ op[q].report = "pending" => evidence # {}

IInv ==
  /\ FilesInv /\ ActorsInv
  /\ \A t \in Thread : ThreadInv(t)
  /\ \A q \in Operator : OperatorInv(q)
  /\ ToldIsSaved
  /\ ProofVerifies

-----------------------------------------------------------------------------
(* What no step takes back.                                                *)
Kept ==
  /\ evidence # {} => evidence' = evidence
  /\ evidence # {} /\ receipt = evidence => receipt' = evidence
  /\ history \subseteq history'
  /\ Len(issued') \in Nat /\ Len(issued) <= Len(issued')
  /\ \A c \in 1..Len(issued) : issued'[c] = issued[c]
  /\ \A p \in Page : page[p].held # 0 => page'[p].held = page[p].held
  /\ now \in Nat /\ now' \in Nat /\ now <= now'

(* Before the first run nothing has been found out.                        *)
LEMMA InitInv == Init => IInv
  <1> SUFFICES ASSUME Init PROVE IInv
    OBVIOUS
  <1> USE DEF Init
  <1>1. FilesInv
    <2>1. << >> \in Seq(0..MaxTime) /\ Len(<< >>) = 0
      OBVIOUS
    <2>2. Len(<< >>) <= MaxCeremonies
      BY <2>1, MobileAssumption
    <2>3. evidence = {} /\ history = {} /\ issued = << >>
      OBVIOUS
    <2>4. receipt = {} \/ \E s \in Receipts : receipt = {s}
      BY DEF Receipts
    <2> QED
      BY <2>1, <2>2, <2>3, <2>4 DEF FilesInv
  <1>2. ActorsInv
    <2>1. Off \in OperatorRecord
      BY DEF Off, OperatorRecord, Phase
    <2>2. issued = << >> /\ 0 \in 0..Len(issued)
      OBVIOUS
    <2> QED
      BY <2>1, <2>2, MobileAssumption DEF ActorsInv
  <1>3. \A t \in Thread : ThreadInv(t)
    BY DEF ThreadInv, Place, IdleThread, Idle
  <1>4. \A q \in Operator : OperatorInv(q)
    BY DEF OperatorInv, Off
  <1> QED
    BY <1>1, <1>2, <1>3, <1>4 DEF IInv, ToldIsSaved, ProofVerifies

(* A proof submitted by a thread is well typed.                            *)
LEMMA SubmittedType ==
  ASSUME IInv, NEW t \in Thread, thread[t].pc = "verified"
  PROVE  /\ Submitted(t, thread[t].at) \in Proof
         /\ Submitted(t, thread[t].at).ceremony \in 1..Len(issued)
  <1>1. ThreadInv(t) /\ FilesInv /\ ActorsInv
    BY DEF IInv
  <1>2. thread[t].page \in Page /\ thread[t].at \in 0..MaxTime
    BY <1>1, MobileAssumption DEF ThreadInv, Idle, ActorsInv
  <1>3. page[thread[t].page].held \in 1..Len(issued)
    BY <1>1, <1>2 DEF ThreadInv, FilesInv, ActorsInv
  <1>4. Len(issued) \in Nat /\ Len(issued) <= MaxCeremonies
    BY <1>1 DEF FilesInv
  <1> QED
    BY <1>2, <1>3, <1>4, MobileAssumption DEF Submitted, Proof, Ceremony

(* Of an answer a page keeps a ceremony, if it has none.                   *)
LEMMA AnsweredType ==
  ASSUME NEW n \in Nat, NEW m \in Nat, n <= m, NEW c \in 1..m, NEW p \in Page,
         page \in [Page -> [held : 0..n, told : BOOLEAN]], Answered(p, c)
  PROVE  /\ page' \in [Page -> [held : 0..m, told : BOOLEAN]]
         /\ \A x \in Page : page'[x].told = page[x].told
         /\ \A x \in Page : page[x].held # 0 => page'[x].held = page[x].held
  BY DEF Answered

(* The files stay well typed.                                              *)
LEMMA FilesStep == IInv /\ [Next]_vars => FilesInv'
  <1> SUFFICES ASSUME IInv, [Next]_vars PROVE FilesInv'
    OBVIOUS
  <1>1. FilesInv
    BY DEF IInv
  <1>2. CASE UNCHANGED files
    BY <1>1, <1>2 DEF FilesInv, files
  <1>3. ASSUME NEW t \in Thread, OpenCeremony(t) PROVE FilesInv'
    <2>1. thread[t].at \in 0..MaxTime
      BY <1>3, MobileAssumption DEF IInv, ActorsInv, ThreadInv, OpenCeremony
    <2>2. issued' = Append(issued, thread[t].at) /\ UNCHANGED <<evidence, receipt, history>>
      BY <1>3 DEF OpenCeremony
    <2>3. Len(issued) < MaxCeremonies
      BY <1>3 DEF OpenCeremony
    <2>4. issued' \in Seq(0..MaxTime) /\ Len(issued') = Len(issued) + 1
      BY <1>1, <2>1, <2>2 DEF FilesInv
    <2>5. Len(issued') <= MaxCeremonies
      BY <1>1, <2>3, <2>4, MobileAssumption DEF FilesInv
    <2> QED
      BY <1>1, <2>2, <2>4, <2>5 DEF FilesInv
  <1>4. ASSUME NEW t \in Thread, Persist(t) PROVE FilesInv'
    BY <1>1, <1>4, SubmittedType DEF FilesInv, Persist
  <1>5. ASSUME history' = history \cup receipt, receipt \in {{}, {OldReceipt}},
               UNCHANGED <<evidence, receipt, issued>>
        PROVE  FilesInv'
    BY <1>1, <1>5 DEF FilesInv
  <1>6. ASSUME receipt' = evidence, UNCHANGED <<evidence, history, issued>>
        PROVE  FilesInv'
    BY <1>1, <1>6 DEF FilesInv, Receipts
  <1>7. ASSUME NEW t \in Thread, Handle(t) PROVE FilesInv'
    <2>1. CASE Prepare(t)
      BY <1>5, <2>1 DEF Prepare, Publishable
    <2>2. CASE Publish(t)
      BY <1>6, <2>2 DEF Publish
    <2> QED
      BY <1>2, <1>3, <1>4, <1>7, <2>1, <2>2 DEF Handle, files, Ask, Submit, Arrive,
        Begin, BeginNew, Verify, Replay, Refuse, Reuse, PublishFails
  <1>8. ASSUME NEW q \in Operator, Operate(q) PROVE FilesInv'
    <2>1. CASE PrepareReadback(q)
      BY <1>5, <2>1 DEF PrepareReadback, Publishable
    <2>2. CASE PublishReadback(q)
      BY <1>6, <2>2 DEF PublishReadback
    <2> QED
      BY <1>2, <1>8, <2>1, <2>2 DEF Operate, files, EndWait, FinishRequests, Report,
        ReuseReadback, ReadbackFails
  <1> QED
    BY <1>2, <1>7, <1>8 DEF Next, vars, files, Start, Exit, Tick

(* The processes, threads and pages stay well typed.                       *)
LEMMA ActorsStep == IInv /\ [Next]_vars => ActorsInv'
  <1> SUFFICES ASSUME IInv, [Next]_vars PROVE ActorsInv'
    OBVIOUS
  <1>1. FilesInv /\ ActorsInv /\ Len(issued) \in Nat
    BY DEF IInv, FilesInv
  <1>2. DOMAIN thread' = Thread
    <2>1. DOMAIN thread = Thread
      BY <1>1 DEF ActorsInv
    <2>2. ASSUME NEW t \in Thread, Handle(t) PROVE DOMAIN thread' = Thread
      BY <2>1, <2>2 DEF Handle, Ask, Submit, Arrive, Begin, BeginNew, OpenCeremony,
        Verify, Persist, Replay, Refuse, Prepare, Publish, Reuse, PublishFails, Over,
        Dropped
    <2>3. ASSUME NEW q \in Operator, Operate(q) PROVE DOMAIN thread' = Thread
      BY <2>1, <2>3 DEF Operate, EndWait, FinishRequests, Report, PrepareReadback,
        PublishReadback, ReuseReadback, ReadbackFails
    <2> QED
      BY <2>1, <2>2, <2>3 DEF Next, vars, Start, Exit, Tick
  <1>3. now' \in 0..MaxTime /\ runs' \in 0..MaxRuns
    <2>1. now \in 0..MaxTime /\ runs \in 0..MaxRuns
      BY <1>1 DEF ActorsInv
    <2>2. CASE UNCHANGED <<now, runs>>
      BY <2>1, <2>2
    <2>3. CASE Tick
      BY <2>1, <2>3, MobileAssumption DEF Tick
    <2>4. ASSUME NEW q \in Operator, NEW reviewed \in BOOLEAN, Start(q, reviewed)
          PROVE  now' \in 0..MaxTime /\ runs' \in 0..MaxRuns
      BY <2>1, <2>4, MobileAssumption DEF Start
    <2> QED
      BY <2>2, <2>3, <2>4 DEF Next, vars, Handle, Operate, Ask, Submit, Arrive,
        Begin, BeginNew, OpenCeremony, Verify, Persist, Replay, Refuse, Prepare,
        Publish, Reuse, PublishFails, EndWait, FinishRequests, Report,
        PrepareReadback, PublishReadback, ReuseReadback, ReadbackFails, Exit
  <1>4. page' \in [Page -> [held : 0..Len(issued'), told : BOOLEAN]]
    <2>1. page \in [Page -> [held : 0..Len(issued), told : BOOLEAN]]
      BY <1>1 DEF ActorsInv
    <2>2. CASE UNCHANGED <<page, issued>>
      BY <2>1, <2>2
    <2>3. ASSUME NEW t \in Thread, NEW published \in BOOLEAN, Over(t, published),
                 UNCHANGED issued
          PROVE  page' \in [Page -> [held : 0..Len(issued'), told : BOOLEAN]]
      <3> DEFINE p == thread[t].page
                 rec == [page[p] EXCEPT !.told = TRUE]
      <3>1. UNCHANGED page \/ page' = [page EXCEPT ![p] = rec]
        BY <2>3 DEF Over
      <3>2. p \in Page => rec \in [held : 0..Len(issued), told : BOOLEAN]
        BY <2>1
      <3> HIDE DEF rec, p
      <3> QED
        BY <2>1, <2>3, <3>1, <3>2
    <2>4. ASSUME NEW t \in Thread, Begin(t)
          PROVE  page' \in [Page -> [held : 0..Len(issued'), told : BOOLEAN]]
      <3>1. issued' = issued
        BY <2>4 DEF Begin, files
      <3>2. CASE UNCHANGED page
        BY <2>2, <3>1, <3>2
      <3>3. ASSUME NEW c \in 1..Len(issued), Answered(thread[t].page, c)
            PROVE  page' \in [Page -> [held : 0..Len(issued'), told : BOOLEAN]]
        <4>1. thread[t].page \in Page
          BY <2>4 DEF IInv, ThreadInv, Begin, Idle
        <4> QED
          BY <1>1, <2>1, <3>1, <3>3, <4>1, AnsweredType
      <3> QED
        BY <2>4, <3>2, <3>3 DEF Begin
    <2>5. ASSUME NEW t \in Thread, OpenCeremony(t)
          PROVE  page' \in [Page -> [held : 0..Len(issued'), told : BOOLEAN]]
      <3>1. thread[t].page \in Page /\ thread[t].at \in 0..MaxTime
        BY <2>5, MobileAssumption DEF IInv, ActorsInv, ThreadInv, OpenCeremony, Idle
      <3>2. Len(issued') = Len(issued) + 1
        BY <1>1, <2>5, <3>1 DEF OpenCeremony, FilesInv
      <3>3. Answered(thread[t].page, Len(issued) + 1)
        BY <2>5 DEF OpenCeremony
      <3> QED
        BY <1>1, <2>1, <3>1, <3>2, <3>3, AnsweredType
    <2>6. ASSUME NEW t \in Thread, Handle(t)
          PROVE  page' \in [Page -> [held : 0..Len(issued'), told : BOOLEAN]]
      BY <2>2, <2>3, <2>4, <2>5, <2>6 DEF Handle, files, Ask, Submit, Arrive,
        BeginNew, Verify, Persist, Replay, Refuse, Prepare, Publish, Reuse, PublishFails
    <2> QED
      BY <2>2, <2>6 DEF Next, Operate, vars, files, Start, Exit, Tick, EndWait,
        FinishRequests, Report, PrepareReadback, PublishReadback, ReuseReadback,
        ReadbackFails
  <1>5. op' \in [Operator -> OperatorRecord]
    <2>1. op \in [Operator -> OperatorRecord]
      BY <1>1 DEF ActorsInv
    <2>2. CASE UNCHANGED op
      BY <2>1, <2>2
    <2>3. ASSUME NEW t \in Thread, NEW published \in BOOLEAN, Over(t, published)
          PROVE  op' \in [Operator -> OperatorRecord]
      <3> DEFINE q == thread[t].proc
                 result == op[q].result \/ published
                 rec == [op[q] EXCEPT !.result = result]
      <3>1. op' = [op EXCEPT ![q] = rec]
        BY <2>3 DEF Over
      <3>2. result \in BOOLEAN
        OBVIOUS
      <3> HIDE DEF result
      <3>3. q \in Operator => rec \in OperatorRecord
        BY <2>1, <3>2 DEF OperatorRecord
      <3> HIDE DEF rec, q
      <3> QED
        BY <2>1, <3>1, <3>3
    <2>4. ASSUME NEW t \in Thread, op' = [op EXCEPT ![thread[t].proc].closing = TRUE]
          PROVE  op' \in [Operator -> OperatorRecord]
      <3> DEFINE q == thread[t].proc
                 rec == [op[q] EXCEPT !.closing = TRUE]
      <3>1. op' = [op EXCEPT ![q] = rec]
        BY <2>4
      <3>2. q \in Operator => rec \in OperatorRecord
        BY <2>1 DEF OperatorRecord
      <3> HIDE DEF rec, q
      <3> QED
        BY <2>1, <3>1, <3>2
    <2>5. ASSUME NEW t \in Thread, Handle(t) PROVE op' \in [Operator -> OperatorRecord]
      BY <2>2, <2>3, <2>4, <2>5 DEF Handle, Ask, Submit, Arrive, Begin, BeginNew,
        OpenCeremony, Verify, Persist, Replay, Refuse, Prepare, Publish, Reuse,
        PublishFails
    <2>6. ASSUME NEW q \in Operator, NEW told \in {"receipt", "pending", "nothing", "error"},
                 Reported(q, told)
          PROVE  op' \in [Operator -> OperatorRecord]
      <3> DEFINE rec == [op[q] EXCEPT !.ph = "ended", !.report = told]
      <3>1. op' = [op EXCEPT ![q] = rec]
        BY <2>6 DEF Reported
      <3>2. rec \in OperatorRecord
        BY <2>1 DEF OperatorRecord, Phase
      <3> HIDE DEF rec
      <3> QED
        BY <2>1, <3>1, <3>2
    <2>7. ASSUME NEW q \in Operator, Operate(q) PROVE op' \in [Operator -> OperatorRecord]
      <3>1. CASE EndWait(q)
        <4> DEFINE rec == [op[q] EXCEPT !.ph = "finishing", !.closing = TRUE]
        <4>1. op' = [op EXCEPT ![q] = rec]
          BY <2>1, <3>1 DEF EndWait
        <4>2. rec \in OperatorRecord
          BY <2>1 DEF OperatorRecord, Phase
        <4> QED
          BY <2>1, <4>1, <4>2
      <3>2. CASE FinishRequests(q)
        <4> DEFINE over == ~Completing(q)
                   rec == [op[q] EXCEPT !.ph = "closed", !.finished = over]
        <4>1. op' = [op EXCEPT ![q] = rec]
          BY <2>1, <3>2 DEF FinishRequests
        <4>2. over \in BOOLEAN
          OBVIOUS
        <4> HIDE DEF over
        <4>3. rec \in OperatorRecord
          BY <2>1, <4>2 DEF OperatorRecord, Phase
        <4> QED
          BY <2>1, <4>1, <4>3
      <3>3. CASE Report(q)
        BY <2>6, <3>3 DEF Report
      <3>4. CASE PrepareReadback(q)
        <4> DEFINE rec == [op[q] EXCEPT !.ph = "publishing", !.before = receipt]
        <4>1. op' = [op EXCEPT ![q] = rec]
          BY <2>1, <3>4 DEF PrepareReadback
        <4>2. receipt \in SUBSET Receipts
          BY <1>1 DEF FilesInv
        <4>3. rec \in OperatorRecord
          BY <2>1, <4>2 DEF OperatorRecord, Phase
        <4> QED
          BY <2>1, <4>1, <4>3
      <3> QED
        BY <2>6, <2>7, <3>1, <3>2, <3>3, <3>4 DEF Operate, PublishReadback,
          ReuseReadback, ReadbackFails
    <2>8. ASSUME NEW q \in Operator, NEW reviewed \in BOOLEAN, Start(q, reviewed)
          PROVE  op' \in [Operator -> OperatorRecord]
      BY <2>1, <2>8 DEF Start, Off, OperatorRecord, Phase
    <2>9. ASSUME NEW q \in Operator, Exit(q) PROVE op' \in [Operator -> OperatorRecord]
      BY <2>1, <2>9 DEF Exit, Off, OperatorRecord, Phase
    <2> QED
      BY <2>2, <2>5, <2>7, <2>8, <2>9 DEF Next, vars, Tick
  <1> QED
    BY <1>2, <1>3, <1>4, <1>5 DEF ActorsInv

(* The clock does not go back.                                             *)
LEMMA ClockStep == IInv /\ [Next]_vars => now \in Nat /\ now' \in Nat /\ now <= now'
  <1> SUFFICES ASSUME IInv, [Next]_vars
               PROVE  now \in Nat /\ now' \in Nat /\ now <= now'
    OBVIOUS
  <1>1. now \in Nat
    BY MobileAssumption DEF IInv, ActorsInv
  <1>2. now' = now \/ now' = now + 1
    BY DEF Next, vars, Handle, Operate, Ask, Submit, Arrive, Begin, BeginNew,
      OpenCeremony, Verify, Persist, Replay, Refuse, Prepare, Publish, Reuse,
      PublishFails, Start, EndWait, FinishRequests, Report, PrepareReadback,
      PublishReadback, ReuseReadback, ReadbackFails, Exit, Tick
  <1> QED
    BY <1>1, <1>2

(* The proof, its receipt, the ceremonies and the signatures are kept.     *)
LEMMA KeptStep == IInv /\ [Next]_vars => Kept
  <1> SUFFICES ASSUME IInv, [Next]_vars PROVE Kept
    OBVIOUS
  <1>0. now \in Nat /\ now' \in Nat /\ now <= now'
    BY ClockStep
  <1>1. FilesInv /\ ActorsInv /\ Len(issued) \in Nat
    BY DEF IInv, FilesInv
  <1>2. CASE UNCHANGED files /\ \A p \in Page : page'[p].held = page[p].held
    <2>1. /\ evidence' = evidence /\ receipt' = receipt
          /\ history' = history /\ issued' = issued
      BY <1>2 DEF files
    <2>2. Len(issued') \in Nat /\ Len(issued) <= Len(issued')
      BY <1>1, <2>1
    <2> QED
      BY <1>0, <1>2, <2>1, <2>2 DEF Kept
  <1>3. ASSUME NEW t \in Thread, NEW published \in BOOLEAN, Over(t, published)
        PROVE  \A p \in Page : page'[p].held = page[p].held
    <2>1. page \in [Page -> [held : 0..Len(issued), told : BOOLEAN]]
      BY <1>1 DEF ActorsInv
    <2> QED
      BY <1>3, <2>1 DEF Over
  <1>4. ASSUME NEW t \in Thread, Begin(t) PROVE Kept
    <2>1. UNCHANGED files
      BY <1>4 DEF Begin
    <2>2. thread[t].page \in Page
      BY <1>4 DEF IInv, ThreadInv, Begin, Idle
    <2>3. \A p \in Page : page[p].held # 0 => page'[p].held = page[p].held
      <3>1. CASE UNCHANGED page
        BY <3>1
      <3>2. ASSUME NEW c \in 1..Len(issued), Answered(thread[t].page, c)
            PROVE  \A p \in Page : page[p].held # 0 => page'[p].held = page[p].held
        BY <1>1, <2>2, <3>2, AnsweredType DEF ActorsInv
      <3> QED
        BY <1>4, <3>1, <3>2 DEF Begin
    <2> QED
      BY <1>0, <1>1, <2>1, <2>3 DEF Kept, files
  <1>5. ASSUME NEW t \in Thread, OpenCeremony(t) PROVE Kept
    <2>1. thread[t].page \in Page /\ thread[t].at \in 0..MaxTime
      BY <1>5, MobileAssumption DEF IInv, ActorsInv, ThreadInv, OpenCeremony, Idle
    <2>2. /\ issued' = Append(issued, thread[t].at)
          /\ Answered(thread[t].page, Len(issued) + 1)
          /\ UNCHANGED <<evidence, receipt, history>>
      BY <1>5 DEF OpenCeremony
    <2>3. /\ Len(issued') = Len(issued) + 1
          /\ \A c \in 1..Len(issued) : issued'[c] = issued[c]
      BY <1>1, <2>1, <2>2 DEF FilesInv
    <2>4. \A p \in Page : page[p].held # 0 => page'[p].held = page[p].held
      BY <1>1, <2>1, <2>2, AnsweredType DEF ActorsInv
    <2> QED
      BY <1>0, <1>1, <2>2, <2>3, <2>4 DEF Kept
  <1>6. CASE /\ evidence = {} /\ UNCHANGED <<receipt, history, issued, page>>
    BY <1>0, <1>1, <1>6 DEF Kept
  <1>7. CASE /\ history \subseteq history' /\ receipt' \in {receipt, evidence}
             /\ UNCHANGED <<evidence, issued>>
             /\ \A p \in Page : page'[p].held = page[p].held
    BY <1>0, <1>1, <1>7 DEF Kept
  <1>8. ASSUME NEW t \in Thread, Handle(t) PROVE Kept
    <2>1. CASE Prepare(t)
      BY <1>7, <2>1 DEF Prepare
    <2>2. CASE Publish(t)
      BY <1>3, <1>7, <2>2 DEF Publish
    <2>3. CASE Persist(t)
      BY <1>6, <2>3 DEF Persist
    <2>4. CASE Reuse(t) \/ PublishFails(t)
      BY <1>2, <1>3, <2>4 DEF Reuse, PublishFails
    <2> QED
      BY <1>2, <1>4, <1>5, <1>8, <2>1, <2>2, <2>3, <2>4 DEF Handle, files, Ask, Submit,
        Arrive, BeginNew, Verify, Replay, Refuse
  <1>9. ASSUME NEW q \in Operator, Operate(q) PROVE Kept
    <2>1. CASE PrepareReadback(q) \/ PublishReadback(q)
      BY <1>7, <2>1 DEF PrepareReadback, PublishReadback
    <2> QED
      BY <1>2, <1>9, <2>1 DEF Operate, files, EndWait, FinishRequests, Report,
        ReuseReadback, ReadbackFails
  <1> QED
    BY <1>2, <1>8, <1>9 DEF Next, vars, files, Start, Exit, Tick

(* What was so of the saved proof and of a ceremony still is.              *)
LEMMA StaysSaved ==
  ASSUME IInv, Kept, NEW p \in Page, page[p].held # 0, SavedFor(p)
  PROVE  SavedFor(p)'
  BY DEF Kept, SavedFor

(* The window of a ceremony on disk is what it was.                        *)
LEMMA StaysWithin ==
  ASSUME IInv, Kept, NEW c \in 1..Len(issued), NEW instant
  PROVE  Within(c, instant)' = Within(c, instant)
  BY DEF Kept, Within

-----------------------------------------------------------------------------
(* A thread that takes no step is still right.                             *)
LEMMA ThreadStays ==
  ASSUME IInv, Kept, NEW t \in Thread, thread'[t] = thread[t],
         ~Idle(t) =>
           LET q == thread[t].proc IN
           /\ op'[q].ph # "off" /\ op'[q].reviewed = op[q].reviewed
           /\ thread[t].pc = "verified" /\ op'[q].finished => op[q].finished
  PROVE  ThreadInv(t)'
  <1>1. ThreadInv(t) /\ FilesInv /\ ActorsInv /\ Len(issued) \in Nat
    BY DEF IInv, FilesInv
  <1>2. CASE Idle(t)
    BY <1>2 DEF ThreadInv, Idle, Place
  <1>3. CASE ~Idle(t)
    <2> DEFINE p == thread[t].page
               q == thread[t].proc
    <2>1. p \in Page /\ q \in Operator
      BY <1>1, <1>3 DEF ThreadInv
    <2>2. /\ thread'[t].pc \in Place
          /\ ~Idle(t)' => /\ thread'[t].page \in Page
                          /\ thread'[t].proc \in Operator
                          /\ op'[thread'[t].proc].ph # "off"
      BY <1>1, <1>3 DEF ThreadInv, Idle
    <2>8. thread[t].pc \in {"opening", "verified"} => thread[t].at \in 0..now'
      BY <1>1 DEF ThreadInv, Kept
    <2>3. page[p].held # 0 =>
            /\ page[p].held \in 1..Len(issued) /\ page'[p].held = page[p].held
      BY <1>1, <2>1 DEF ActorsInv, Kept
    <2>4. thread[t].pc \in {"arrived", "verified", "saved", "publishing"} =>
            page'[p].held # 0
      BY <1>1, <2>3 DEF ThreadInv
    <2>5. thread[t].pc = "verified" =>
            Within(page[p].held, thread[t].at)' /\ ~op'[q].finished
      <3> SUFFICES ASSUME thread[t].pc = "verified"
                   PROVE  Within(page[p].held, thread[t].at)' /\ ~op'[q].finished
        OBVIOUS
      <3>1. Within(page[p].held, thread[t].at) /\ ~op[q].finished
        BY <1>1 DEF ThreadInv
      <3>2. page[p].held \in 1..Len(issued) /\ page'[p].held = page[p].held
        BY <1>1, <2>3 DEF ThreadInv
      <3>3. issued'[page[p].held] = issued[page[p].held]
        BY <3>2 DEF Kept
      <3> QED
        BY <1>3, <3>1, <3>2, <3>3 DEF Within
    <2>6. thread[t].pc \in {"saved", "publishing"} => SavedFor(p)'
      BY <1>1, <2>1, StaysSaved DEF ThreadInv
    <2>7. thread[t].pc = "publishing" =>
            /\ thread[t].before \in {{}, {OldReceipt}}
            /\ thread[t].before = {OldReceipt} =>
                 OldReceipt \in history' /\ op'[q].reviewed
      BY <1>1, <1>3 DEF ThreadInv, Kept
    <2> QED
      BY <2>2, <2>4, <2>5, <2>6, <2>7, <2>8 DEF ThreadInv, SavedFor, Within
  <1> QED
    BY <1>2, <1>3

(* An idle thread has found out nothing.                                   *)
LEMMA DroppedIsRight ==
  ASSUME IInv, NEW t \in Thread, Dropped(t) PROVE ThreadInv(t)'
  BY DEF IInv, ActorsInv, Dropped, IdleThread, ThreadInv, Idle, Place

(* An operator that takes no step is still right, also when its server     *)
(* starts to close.                                                        *)
LEMMA OperatorStays ==
  ASSUME IInv, Kept, NEW q \in Operator,
         /\ op'[q].ph = op[q].ph /\ op'[q].reviewed = op[q].reviewed
         /\ op'[q].before = op[q].before /\ op'[q].finished = op[q].finished
         /\ op'[q].report = op[q].report,
         op[q].closing => op'[q].closing,
         op'[q].result => op[q].result \/ (evidence' # {} /\ receipt' = evidence')
  PROVE  OperatorInv(q)'
  <1>1. OperatorInv(q)
    BY DEF IInv
  <1> QED
    BY <1>1 DEF OperatorInv, Kept

(* Every thread stays right, whatever it or another actor does.            *)
LEMMA ThreadStep ==
  ASSUME IInv, [Next]_vars, Kept, NEW t \in Thread PROVE ThreadInv(t)'
  <1>1. /\ ThreadInv(t) /\ FilesInv /\ ActorsInv /\ Len(issued) \in Nat
        /\ DOMAIN thread = Thread /\ op \in [Operator -> OperatorRecord]
    BY DEF IInv, FilesInv, ActorsInv
  <1>2. CASE UNCHANGED <<thread, op>>
    BY <1>1, <1>2, ThreadStays DEF ThreadInv
  <1>3. ASSUME NEW u \in Thread, Handle(u), u # t PROVE ThreadInv(t)'
    <2>1. thread'[t] = thread[t]
      BY <1>1, <1>3 DEF Handle, Ask, Submit, Arrive, Begin, BeginNew, OpenCeremony,
        Verify, Persist, Replay, Refuse, Prepare, Publish, Reuse, PublishFails, Over,
        Dropped
    <2>2. \A q \in Operator :
            /\ op'[q].ph = op[q].ph /\ op'[q].reviewed = op[q].reviewed
            /\ op'[q].finished = op[q].finished
      BY <1>1, <1>3 DEF OperatorRecord, Handle, Ask, Submit, Arrive, Begin, BeginNew,
        OpenCeremony,
        Verify, Persist, Replay, Refuse, Prepare, Publish, Reuse, PublishFails, Over
    <2> QED
      BY <1>1, <2>1, <2>2, ThreadStays DEF ThreadInv
  <1>4. ASSUME NEW p \in Page, NEW q \in Operator, Ask(t, p, q) PROVE ThreadInv(t)'
    BY <1>1, <1>4 DEF Ask, Arrive, ThreadInv, Idle, Place
  <1>5. ASSUME NEW p \in Page, NEW q \in Operator, Submit(t, p, q) PROVE ThreadInv(t)'
    BY <1>1, <1>5 DEF Submit, Arrive, ThreadInv, Idle, Place
  <1>6. CASE Begin(t) \/ OpenCeremony(t) \/ Refuse(t) \/ Publish(t) \/ Reuse(t)
               \/ PublishFails(t)
    BY <1>6, DroppedIsRight DEF Begin, OpenCeremony, Refuse, Publish, Reuse,
      PublishFails, Over
  <1>7. CASE BeginNew(t)
    <2>1. now' = now /\ now \in 0..now
      BY <1>7 DEF BeginNew, Kept
    <2> QED
      BY <1>1, <1>7, <2>1 DEF BeginNew, ActorsInv, ThreadInv, Idle, Place
  <1>8. CASE Verify(t)
    <2> DEFINE p == thread[t].page
               q == thread[t].proc
    <2>1. /\ p \in Page /\ q \in Operator /\ op[q].ph # "off" /\ page[p].held # 0
          /\ ~op[q].closing
      BY <1>1, <1>8 DEF Verify, EnterCompletion, ThreadInv, Idle
    <2>2. ~op[q].finished
      BY <2>1 DEF IInv, OperatorInv
    <2>3. thread'[t] = [pc |-> "verified", proc |-> q, page |-> p, at |-> now]
      BY <1>1, <1>8 DEF Verify
    <2>4. UNCHANGED <<op, page, issued>> /\ Within(page[p].held, now)
      BY <1>8 DEF Verify, files
    <2>5. now' = now /\ now \in 0..now
      BY <1>8 DEF Verify, Kept
    <2> QED
      BY <2>1, <2>2, <2>3, <2>4, <2>5 DEF ThreadInv, Idle, Place, Within
  <1>9. CASE Persist(t) \/ Replay(t)
    <2> DEFINE p == thread[t].page
               q == thread[t].proc
    <2>1. p \in Page /\ q \in Operator /\ op[q].ph # "off" /\ page[p].held # 0
      BY <1>1, <1>9 DEF Persist, Replay, EnterCompletion, ThreadInv, Idle
    <2>2. thread'[t] = [pc |-> "saved", proc |-> q, page |-> p] /\ UNCHANGED page
      BY <1>1, <1>9 DEF Persist, Replay
    <2>3. op'[q].ph # "off"
      BY <1>1, <1>9, <2>1 DEF Persist, Replay, OperatorRecord
    <2>4. SavedFor(p)'
      <3>1. CASE Persist(t)
        BY <3>1 DEF Persist, SavedFor, Submitted
      <3>2. CASE Replay(t)
        BY <3>2 DEF Replay, SameCompletion, SavedFor, Submitted, files
      <3> QED
        BY <1>9, <3>1, <3>2
    <2> QED
      BY <2>1, <2>2, <2>3, <2>4 DEF ThreadInv, Idle, Place, SavedFor
  <1>10. CASE Prepare(t)
    <2> DEFINE p == thread[t].page
               q == thread[t].proc
    <2>1. /\ p \in Page /\ q \in Operator /\ op[q].ph # "off" /\ page[p].held # 0
          /\ SavedFor(p)
      BY <1>1, <1>10 DEF Prepare, ThreadInv, Idle
    <2>2. /\ thread'[t] =
               [pc |-> "publishing", proc |-> q, page |-> p, before |-> receipt]
          /\ UNCHANGED <<evidence, op, page>> /\ history' = history \cup receipt
          /\ Publishable(op[q].reviewed)
      BY <1>1, <1>10 DEF Prepare
    <2>3. /\ receipt \in {{}, {OldReceipt}}
          /\ receipt = {OldReceipt} => OldReceipt \in history' /\ op'[q].reviewed
      BY <2>2 DEF Publishable
    <2> QED
      BY <2>1, <2>2, <2>3 DEF ThreadInv, Idle, Place, SavedFor
  <1>11. ASSUME Handle(t) PROVE ThreadInv(t)'
    BY <1>4, <1>5, <1>6, <1>7, <1>8, <1>9, <1>10, <1>11 DEF Handle
  <1>12. ASSUME NEW q \in Operator, NEW reviewed \in BOOLEAN, Start(q, reviewed)
         PROVE  ThreadInv(t)'
    <2>1. UNCHANGED thread /\ op[q].ph = "off"
      BY <1>12 DEF Start, Off
    <2>2. \A r \in Operator : r # q => op'[r] = op[r]
      BY <1>1, <1>12 DEF Start
    <2> QED
      BY <1>1, <2>1, <2>2, ThreadStays DEF ThreadInv
  <1>13. ASSUME NEW q \in Operator, Operate(q) PROVE ThreadInv(t)'
    <2>1. UNCHANGED thread
      BY <1>13 DEF Operate, EndWait, FinishRequests, Report, PrepareReadback,
        PublishReadback, ReuseReadback, ReadbackFails
    <2>2. /\ \A r \in Operator : op'[r].reviewed = op[r].reviewed
          /\ \A r \in Operator : op[r].ph # "off" => op'[r].ph # "off"
      BY <1>1, <1>13 DEF OperatorRecord, Operate, EndWait, FinishRequests, Report,
        Reported, PrepareReadback, PublishReadback, ReuseReadback, ReadbackFails
    <2>3. ~Idle(t) /\ thread[t].pc = "verified" =>
            (op'[thread[t].proc].finished => op[thread[t].proc].finished)
      <3>1. CASE FinishRequests(q)
        <4>1. CASE ~Idle(t) /\ thread[t].proc = q /\ thread[t].pc = "verified"
          <5>1. Completing(q)
            BY <4>1 DEF Completing, Of
          <5>2. op' = [op EXCEPT ![q].ph = "closed", ![q].finished = FALSE]
            BY <3>1, <5>1 DEF FinishRequests
          <5> QED
            BY <1>1, <4>1, <5>2 DEF OperatorRecord
        <4>2. CASE thread[t].proc # q
          BY <1>1, <3>1, <4>2 DEF FinishRequests, ThreadInv
        <4> QED
          BY <4>1, <4>2
      <3>2. CASE ~FinishRequests(q)
        <4>1. \A r \in Operator : op'[r].finished = op[r].finished
          BY <1>1, <1>13, <3>2 DEF OperatorRecord, Operate, EndWait, Report,
            Reported, PrepareReadback, PublishReadback, ReuseReadback, ReadbackFails
        <4> QED
          BY <1>1, <4>1 DEF ThreadInv
      <3> QED
        BY <3>1, <3>2
    <2> QED
      BY <1>1, <2>1, <2>2, <2>3, ThreadStays DEF ThreadInv
  <1>14. ASSUME NEW q \in Operator, Exit(q) PROVE ThreadInv(t)'
    <2>1. CASE t \in Of(q)
      BY <1>14, <2>1 DEF Exit, IdleThread, ThreadInv, Idle, Place
    <2>2. CASE t \notin Of(q)
      <3>1. thread'[t] = thread[t]
        BY <1>14, <2>2 DEF Exit
      <3>2. ~Idle(t) => thread[t].proc # q
        BY <2>2 DEF Of
      <3>3. \A r \in Operator : r # q => op'[r] = op[r]
        BY <1>1, <1>14 DEF Exit
      <3> QED
        BY <1>1, <3>1, <3>2, <3>3, ThreadStays DEF ThreadInv
    <2> QED
      BY <2>1, <2>2
  <1> QED
    BY <1>2, <1>3, <1>11, <1>12, <1>13, <1>14 DEF Next, vars, Tick

(* Every operator stays right.                                             *)
LEMMA OperatorStep ==
  ASSUME IInv, [Next]_vars, Kept, NEW q \in Operator PROVE OperatorInv(q)'
  <1>1. OperatorInv(q) /\ ActorsInv /\ op \in [Operator -> OperatorRecord]
    BY DEF IInv, ActorsInv
  <1>2. CASE op'[q] = op[q]
    BY <1>1, <1>2, OperatorStays
  <1>3. ASSUME NEW t \in Thread, Persist(t) \/ Replay(t) PROVE OperatorInv(q)'
    <2>1. op' = [op EXCEPT ![thread[t].proc].closing = TRUE]
      BY <1>3 DEF Persist, Replay
    <2> QED
      BY <1>1, <2>1, OperatorStays DEF OperatorRecord
  <1>4. ASSUME NEW t \in Thread, Publish(t) \/ Reuse(t) \/ PublishFails(t)
        PROVE  OperatorInv(q)'
    <2>1. PICK published \in BOOLEAN :
            /\ Over(t, published)
            /\ published => Publish(t) \/ Reuse(t)
      BY <1>4 DEF Publish, Reuse, PublishFails
    <2>2. published => evidence' # {} /\ receipt' = evidence'
      <3>1. thread[t].pc \in {"saved", "publishing"}
        BY <1>4 DEF Publish, Reuse, PublishFails
      <3>2. evidence # {}
        BY <3>1 DEF IInv, ThreadInv, SavedFor
      <3> QED
        BY <2>1, <3>2 DEF Publish, Reuse, files
    <2>3. CASE published
      <3>1. op' = [op EXCEPT ![thread[t].proc].result = TRUE]
        BY <2>1, <2>3, <1>1 DEF Over
      <3> QED
        BY <1>1, <2>2, <2>3, <3>1, OperatorStays DEF OperatorRecord
    <2>4. CASE ~published
      <3>1. /\ op'[q].ph = op[q].ph /\ op'[q].reviewed = op[q].reviewed
            /\ op'[q].before = op[q].before /\ op'[q].finished = op[q].finished
            /\ op'[q].report = op[q].report /\ op'[q].closing = op[q].closing
            /\ op'[q].result => op[q].result
        BY <1>1, <2>1, <2>4 DEF Over, OperatorRecord
      <3> QED
        BY <3>1, OperatorStays
    <2> QED
      BY <2>3, <2>4
  <1>5. ASSUME NEW t \in Thread, Handle(t) PROVE OperatorInv(q)'
    BY <1>2, <1>3, <1>4, <1>5 DEF Handle, Ask, Submit, Arrive, Begin, BeginNew,
      OpenCeremony, Verify, Refuse, Prepare
  <1>6. ASSUME NEW r \in Operator, NEW reviewed \in BOOLEAN, Start(r, reviewed)
        PROVE  OperatorInv(q)'
    BY <1>1, <1>2, <1>6 DEF Start, Off, OperatorInv, files
  <1>7. ASSUME NEW r \in Operator, Exit(r) PROVE OperatorInv(q)'
    BY <1>1, <1>2, <1>7 DEF Exit, Off, OperatorInv
  <1>8. ASSUME NEW r \in Operator, Operate(r), r # q PROVE OperatorInv(q)'
    <2>1. op'[q] = op[q]
      BY <1>1, <1>8 DEF Operate, EndWait, FinishRequests, Report, Reported,
        PrepareReadback, PublishReadback, ReuseReadback, ReadbackFails
    <2> QED
      BY <1>2, <2>1
  <1>9. CASE EndWait(q)
    BY <1>1, <1>9 DEF EndWait, OperatorRecord, OperatorInv, files
  <1>10. CASE FinishRequests(q)
    BY <1>1, <1>10 DEF FinishRequests, OperatorRecord, OperatorInv, files
  <1>11. CASE Report(q)
    <2>1. UNCHANGED files
      BY <1>11 DEF Report
    <2>2. PICK told \in {"receipt", "pending", "nothing", "error"} :
            /\ op' = [op EXCEPT ![q].ph = "ended", ![q].report = told]
            /\ told = "receipt" => op[q].result
            /\ told = "pending" => evidence # {}
      BY <1>11 DEF Report, Reported
    <2> QED
      BY <1>1, <2>1, <2>2 DEF OperatorRecord, OperatorInv, files
  <1>12. CASE PrepareReadback(q)
    <2>1. /\ receipt \in {{}, {OldReceipt}}
          /\ receipt = {OldReceipt} => OldReceipt \in history' /\ op[q].reviewed
      BY <1>12 DEF PrepareReadback, Publishable
    <2> QED
      BY <1>1, <1>12, <2>1 DEF PrepareReadback, OperatorRecord, OperatorInv
  <1>13. CASE PublishReadback(q) \/ ReuseReadback(q)
    <2>1. /\ evidence # {} /\ evidence' = evidence /\ receipt' = evidence
          /\ op' = [op EXCEPT ![q].ph = "ended", ![q].report = "receipt"]
      BY <1>1, <1>13 DEF PublishReadback, ReuseReadback, Reported, OperatorInv, files
    <2> QED
      BY <1>1, <2>1 DEF OperatorRecord, OperatorInv
  <1>14. CASE ReadbackFails(q)
    BY <1>1, <1>14 DEF ReadbackFails, Reported, OperatorRecord, OperatorInv, files
  <1> QED
    BY <1>2, <1>5, <1>6, <1>7, <1>8, <1>9, <1>10, <1>11, <1>12, <1>13, <1>14
      DEF Next, Operate, vars, Tick

(* A page is told of a proof it submitted itself.                          *)
LEMMA ToldStep == IInv /\ [Next]_vars /\ Kept => ToldIsSaved'
  <1> SUFFICES ASSUME IInv, [Next]_vars, Kept, NEW p \in Page, page'[p].told
               PROVE  SavedFor(p)'
    BY DEF ToldIsSaved, SavedFor
  <1>1. FilesInv /\ ActorsInv /\ Len(issued) \in Nat
    BY DEF IInv, FilesInv
  <1>2. CASE page[p].told
    <2>1. SavedFor(p)
      BY <1>2 DEF IInv, ToldIsSaved, SavedFor
    <2>2. page[p].held # 0
      BY <1>1, <2>1 DEF FilesInv, SavedFor, Proof, Ceremony
    <2> QED
      BY <2>1, <2>2, StaysSaved
  <1>3. CASE ~page[p].told
    <2>1. ASSUME NEW t \in Thread, NEW c \in Nat, thread[t].page \in Page,
                 Answered(thread[t].page, c)
          PROVE  FALSE
      BY <1>1, <1>3, <2>1 DEF Answered, ActorsInv
    <2>2. ASSUME NEW t \in Thread, Begin(t) PROVE FALSE
      <3>1. thread[t].page \in Page
        BY <2>2 DEF IInv, ThreadInv, Begin, Idle
      <3> QED
        BY <1>1, <1>3, <2>1, <2>2, <3>1 DEF Begin
    <2>3. ASSUME NEW t \in Thread, OpenCeremony(t) PROVE FALSE
      <3>1. thread[t].page \in Page
        BY <2>3 DEF IInv, ThreadInv, OpenCeremony, Idle
      <3> QED
        BY <1>1, <2>1, <2>3, <3>1 DEF OpenCeremony
    <2>4. PICK t \in Thread : Publish(t) \/ Reuse(t) \/ PublishFails(t)
      BY <1>3, <2>2, <2>3 DEF Next, vars, Handle, Operate, Ask, Submit, Arrive, BeginNew,
        Verify, Persist, Replay, Refuse, Prepare, Start, EndWait, FinishRequests,
        Report, PrepareReadback, PublishReadback, ReuseReadback, ReadbackFails, Exit,
        Tick
    <2>5. page' = [page EXCEPT ![thread[t].page].told = TRUE]
      BY <1>3, <2>4 DEF Publish, Reuse, PublishFails, Over
    <2>6. p = thread[t].page
      BY <1>1, <1>3, <2>5 DEF ActorsInv
    <2>7. SavedFor(p) /\ page[p].held # 0
      BY <2>4, <2>6 DEF IInv, ThreadInv, Publish, Reuse, PublishFails
    <2> QED
      BY <2>7, StaysSaved
  <1> QED
    BY <1>2, <1>3

(* A proof that is saved was verified within the window of its ceremony.   *)
LEMMA VerifiesStep == IInv /\ [Next]_vars /\ Kept => ProofVerifies'
  <1> SUFFICES ASSUME IInv, [Next]_vars, Kept, NEW s \in evidence'
               PROVE  Within(s.ceremony, s.at)'
    BY DEF ProofVerifies, Within
  <1>1. FilesInv /\ ActorsInv /\ Len(issued) \in Nat
    BY DEF IInv, FilesInv
  <1>2. CASE evidence # {}
    <2>1. s \in evidence /\ s \in Proof
      BY <1>1, <1>2 DEF Kept, FilesInv
    <2>2. Within(s.ceremony, s.at)
      BY <2>1 DEF IInv, ProofVerifies
    <2>3. s.ceremony \in 1..Len(issued)
      BY <2>1 DEF IInv, FilesInv
    <2> QED
      BY <2>2, <2>3, StaysWithin
  <1>3. CASE evidence = {}
    <2>1. PICK t \in Thread : Persist(t)
      BY <1>3 DEF Next, vars, files, Handle, Operate, Ask, Submit, Arrive, Begin, BeginNew,
        OpenCeremony, Verify, Replay, Refuse, Prepare, Publish, Reuse, PublishFails,
        Start, EndWait, FinishRequests, Report, PrepareReadback, PublishReadback,
        ReuseReadback, ReadbackFails, Exit, Tick
    <2>2. s = Submitted(t, thread[t].at) /\ issued' = issued
      BY <2>1 DEF Persist
    <2>3. Within(page[thread[t].page].held, thread[t].at)
      BY <2>1 DEF IInv, ThreadInv, Persist
    <2> QED
      BY <2>2, <2>3 DEF Submitted, Within
  <1> QED
    BY <1>2, <1>3

(* IInv is inductive.                                                      *)
LEMMA InvStep == IInv /\ [Next]_vars => IInv'
  <1> SUFFICES ASSUME IInv, [Next]_vars PROVE IInv'
    OBVIOUS
  <1>1. Kept
    BY KeptStep
  <1>2. FilesInv' /\ ActorsInv'
    BY FilesStep, ActorsStep
  <1>3. \A t \in Thread : ThreadInv(t)'
    BY <1>1, ThreadStep
  <1>4. \A q \in Operator : OperatorInv(q)'
    BY <1>1, OperatorStep
  <1>5. ToldIsSaved' /\ ProofVerifies'
    BY <1>1, ToldStep, VerifiesStep
  <1> QED
    BY <1>2, <1>3, <1>4, <1>5 DEF IInv

(* Every reachable state satisfies IInv.                                   *)
LEMMA Inv == Spec => []IInv
  BY InitInv, InvStep, PTL DEF Spec

-----------------------------------------------------------------------------
(* A set with one element or none.                                         *)
LEMMA AtMostOne ==
  ASSUME NEW S, NEW T, S = {} \/ \E s \in T : S = {s}
  PROVE  S \subseteq T /\ Cardinality(S) <= 1
  <1>1. CASE S = {}
    <2>1. Cardinality(S) = 0
      BY <1>1, FS_EmptySet
    <2> QED
      BY <1>1, <2>1
  <1>2. ASSUME NEW s \in T, S = {s} PROVE S \subseteq T /\ Cardinality(S) <= 1
    <2>1. Cardinality(S) = 1
      BY <1>2, FS_Singleton
    <2> QED
      BY <1>2, <2>1
  <1> QED
    BY <1>1, <1>2

(* The files, the processes, the threads and the pages are well typed.     *)
THEOREM TypeCorrect == Spec => []TypeOK
  <1>1. IInv => TypeOK
    <2> SUFFICES ASSUME IInv PROVE TypeOK
      OBVIOUS
    <2>1. FilesInv /\ ActorsInv /\ \A t \in Thread : ThreadInv(t)
      BY DEF IInv
    <2>2. evidence \subseteq Proof /\ Cardinality(evidence) <= 1
      BY <2>1, AtMostOne DEF FilesInv
    <2>3. receipt \subseteq Receipts /\ Cardinality(receipt) <= 1
      BY <2>1, AtMostOne DEF FilesInv
    <2>4. \A p \in Page : page[p].held \in 0..Len(issued)
      BY <2>1 DEF ActorsInv
    <2>5. \A q \in Operator : op[q].ph \in Phase
      BY <2>1 DEF ActorsInv, OperatorRecord
    <2>6. \A t \in Thread :
            /\ thread[t].pc \in Place
            /\ thread[t].pc \in {"arrived", "verified", "saved", "publishing"} =>
                 page[thread[t].page].held # 0
      BY <2>1 DEF ThreadInv
    <2> QED
      BY <2>1, <2>2, <2>3, <2>4, <2>5, <2>6
        DEF TypeOK, FilesInv, ActorsInv, Phase, Place
  <1> QED
    BY <1>1, Inv, PTL

(* A page that was told its signature is saved was told of its own         *)
(* signature (complete and the answer of do_POST).                         *)
THEOREM PageIsToldTheTruth == Spec => []ToldIsSaved
  <1>1. IInv => ToldIsSaved
    BY DEF IInv
  <1> QED
    BY <1>1, Inv, PTL

(* verify_proof passes at every later readback of the saved proof.         *)
THEOREM SavedProofVerifies == Spec => []ProofVerifies
  <1>1. IInv => ProofVerifies
    BY DEF IInv
  <1> QED
    BY <1>1, Inv, PTL

(* What run_once reports stays true while its threads live on.             *)
THEOREM RunReportsTheTruth == Spec => []ReportIsTrue
  <1>1. IInv => ReportIsTrue
    <2> SUFFICES ASSUME IInv, NEW q \in Operator, op[q].ph = "ended"
                 PROVE  /\ op[q].report = "receipt" =>
                             evidence # {} /\ receipt = evidence
                        /\ op[q].report = "pending" => evidence # {}
                        /\ op[q].finished => \A t \in Of(q) : thread[t].pc # "verified"
      BY DEF ReportIsTrue
    <2>1. OperatorInv(q)
      BY DEF IInv
    <2>2. ASSUME NEW t \in Of(q), thread[t].pc = "verified" PROVE ~op[q].finished
      BY <2>2 DEF IInv, ThreadInv, Of
    <2> QED
      BY <2>1, <2>2 DEF OperatorInv
  <1> QED
    BY <1>1, Inv, PTL

(* persist_new: a saved proof is never replaced or removed.                *)
THEOREM ProofIsFrozen == Spec => ProofFrozen
  <1>1. IInv /\ [Next]_vars => [evidence # {} => evidence' = evidence]_evidence
    BY KeptStep DEF Kept
  <1> QED
    BY <1>1, Inv, PTL DEF Spec, ProofFrozen

(* publish_receipt: the target becomes the receipt of the saved proof, and *)
(* an old receipt is replaced only under review, and kept.                 *)
THEOREM ReceiptIsOfProof == Spec => ReceiptFollowsProof
  <1> DEFINE Good == /\ evidence # {} /\ receipt' = evidence
                     /\ receipt = {OldReceipt} =>
                          /\ OldReceipt \in history
                          /\ \E q \in Operator : op[q].ph # "off" /\ op[q].reviewed
  <1>1. IInv /\ [Next]_vars => [Good]_receipt
    <2> SUFFICES ASSUME IInv, [Next]_vars, receipt' # receipt PROVE Good
      OBVIOUS
    <2>1. \/ \E t \in Thread : Publish(t)
          \/ \E q \in Operator : PublishReadback(q)
      BY DEF Next, vars, files, Handle, Operate, Ask, Submit, Arrive, Begin, BeginNew,
        OpenCeremony, Verify, Persist, Replay, Refuse, Prepare, Reuse, PublishFails,
        Start, EndWait, FinishRequests, Report, PrepareReadback, ReuseReadback,
        ReadbackFails, Exit, Tick
    <2>2. ASSUME NEW t \in Thread, Publish(t) PROVE Good
      <3>1. /\ thread[t].pc = "publishing" /\ receipt = thread[t].before
            /\ receipt' = evidence
        BY <2>2 DEF Publish
      <3>2. ThreadInv(t)
        BY DEF IInv
      <3> QED
        BY <3>1, <3>2 DEF ThreadInv, Idle, SavedFor
    <2>3. ASSUME NEW q \in Operator, PublishReadback(q) PROVE Good
      <3>1. /\ op[q].ph = "publishing" /\ receipt = op[q].before
            /\ receipt' = evidence
        BY <2>3 DEF PublishReadback
      <3>2. OperatorInv(q)
        BY DEF IInv
      <3> QED
        BY <3>1, <3>2 DEF OperatorInv
    <2> QED
      BY <2>1, <2>2, <2>3
  <1> QED
    BY <1>1, Inv, PTL DEF Spec, ReceiptFollowsProof

-----------------------------------------------------------------------------
(* The tool implements ApprovalSpec, action by action.                     *)

(* What no page holds or was told changes neither view of the pages.       *)
LEMMA ViewsStay ==
  /\ (\A p \in Page : page'[p].held = page[p].held) => Signed' = Signed
  /\ (\A p \in Page : page'[p].told = page[p].told) => Told' = Told
  BY DEF Signed, Told

LEMMA InitIsPromised == Init => Promise!Init
  <1> SUFFICES ASSUME Init PROVE Promise!Init
    OBVIOUS
  <1>1. Signed = [p \in Page |-> 0] /\ Told = {}
    BY DEF Init, Signed, Told
  <1> QED
    BY <1>1 DEF Init, Promise!Init

(* A ceremony that is answered is signed or lost.                          *)
LEMMA AnswerIsPromised ==
  ASSUME IInv, NEW t \in Thread, ~Idle(t), NEW c \in Nat, Answered(thread[t].page, c)
  PROVE  /\ Told' = Told
         /\ Signed' = Signed \/ \E p \in Page : Promise!Sign(p, c)
  <1> DEFINE p == thread[t].page
  <1>1. p \in Page /\ page \in [Page -> [held : 0..Len(issued), told : BOOLEAN]]
    BY DEF IInv, ThreadInv, ActorsInv
  <1>2. CASE UNCHANGED page
    BY <1>2, ViewsStay
  <1>3. CASE page' = [page EXCEPT ![p].held = IF @ = 0 THEN c ELSE @]
    <2>1. \A b \in Page : page'[b].told = page[b].told
      BY <1>1, <1>3
    <2>2. CASE page[p].held # 0
      BY <1>1, <1>3, <2>1, <2>2, ViewsStay
    <2>3. CASE page[p].held = 0
      <3>1. page'[p].held = c /\ \A b \in Page \ {p} : page'[b].held = page[b].held
        BY <1>1, <1>3, <2>3
      <3>2. Signed[p] = 0 /\ Signed' = [Signed EXCEPT ![p] = c]
        BY <1>1, <2>3, <3>1 DEF Signed
      <3>3. Promise!Sign(p, c)
        BY <3>2 DEF Promise!Sign
      <3> QED
        BY <1>1, <2>1, <3>3, ViewsStay
    <2> QED
      BY <2>2, <2>3
  <1> QED
    BY <1>2, <1>3 DEF Answered

(* begin, with a ceremony that is open,                                    *)
LEMMA BeginIsPromised ==
  ASSUME IInv, NEW t \in Thread, Begin(t) PROVE [Promise!Next]_(Promise!specVars)
  <1>1. UNCHANGED <<evidence, receipt, history, issued, now>> /\ ~Idle(t)
    BY DEF Begin, files, Idle
  <1>2. CASE UNCHANGED page
    BY <1>1, <1>2, ViewsStay DEF Promise!specVars
  <1>3. ASSUME NEW c \in 1..Len(issued), Answered(thread[t].page, c)
        PROVE  [Promise!Next]_(Promise!specVars)
    <2>1. c \in Nat
      BY DEF IInv, FilesInv
    <2>2. Told' = Told /\ (Signed' = Signed \/ \E p \in Page : Promise!Sign(p, c))
      BY <1>1, <1>3, <2>1, AnswerIsPromised
    <2>3. ASSUME NEW p \in Page, Promise!Sign(p, c) PROVE Promise!SignOpen(p, c)
      BY <1>1, <2>2, <2>3 DEF Promise!SignOpen
    <2> QED
      BY <1>1, <2>2, <2>3 DEF Promise!Next, Promise!specVars
  <1> QED
    BY <1>2, <1>3 DEF Begin

(* and with a new one.                                                     *)
LEMMA OpenIsPromised ==
  ASSUME IInv, NEW t \in Thread, OpenCeremony(t) PROVE Promise!Next
  <1> DEFINE at == thread[t].at
  <1>1. at \in 0..now /\ ~Idle(t)
    BY DEF IInv, ThreadInv, OpenCeremony, Idle
  <1>2. /\ issued' = Append(issued, at)
        /\ Answered(thread[t].page, Len(issued) + 1)
        /\ UNCHANGED <<evidence, receipt, history, now>>
    BY DEF OpenCeremony
  <1>3. Len(issued) + 1 \in Nat
    BY DEF IInv, FilesInv
  <1>4. Told' = Told /\
          (Signed' = Signed \/ \E p \in Page : Promise!Sign(p, Len(issued) + 1))
    BY <1>1, <1>2, <1>3, AnswerIsPromised
  <1>5. Promise!Open(at)
    BY <1>2, <1>4 DEF Promise!Open
  <1> QED
    BY <1>1, <1>5 DEF Promise!Next

(* The first linked proof was verified within its window.                  *)
LEMMA PersistIsPromised ==
  ASSUME IInv, NEW t \in Thread, Persist(t) PROVE Promise!Next
  <1> DEFINE p == thread[t].page
             at == thread[t].at
  <1>1. /\ p \in Page /\ at \in 0..now /\ page[p].held # 0
        /\ Within(page[p].held, at)
    BY DEF IInv, ThreadInv, Persist, Idle
  <1>2. Signed[p] = page[p].held
    BY <1>1 DEF Signed
  <1>3. /\ evidence = {}
        /\ evidence' = {[ceremony |-> Signed[p], page |-> p, at |-> at]}
        /\ UNCHANGED <<receipt, history, issued, page, now>>
    BY <1>2 DEF Persist, Submitted
  <1>4. Signed' = Signed /\ Told' = Told
    BY <1>3, ViewsStay
  <1>5. Promise!Save(p, at)
    BY <1>1, <1>2, <1>3, <1>4 DEF Promise!Save, Within
  <1> QED
    BY <1>1, <1>5 DEF Promise!Next

(* A receipt is kept for a saved proof only, by a thread or a readback.    *)
LEMMA PrepareIsPromised ==
  ASSUME IInv, evidence # {}, NEW reviewed \in BOOLEAN, Publishable(reviewed),
         history' = history \cup receipt,
         UNCHANGED <<evidence, receipt, issued, page, now>>
  PROVE  Promise!Next
  <1>1. Signed' = Signed /\ Told' = Told
    BY ViewsStay
  <1>2. receipt \subseteq {OldReceipt}
    BY DEF Publishable
  <1>3. Promise!KeepReceipt
    BY <1>1, <1>2 DEF Promise!KeepReceipt
  <1> QED
    BY <1>3 DEF Promise!Next

(* A page is told of its own proof, once the receipt is there.             *)
LEMMA OverIsPromised ==
  ASSUME IInv, NEW t \in Thread, thread[t].pc \in {"saved", "publishing"},
         NEW published \in BOOLEAN, Over(t, published),
         receipt = evidence \/ receipt \subseteq history,
         published => receipt' = evidence,
         ~published => receipt' = receipt,
         UNCHANGED <<evidence, history, issued, now>>
  PROVE  [Promise!Next]_(Promise!specVars)
  <1> DEFINE p == thread[t].page
  <1>1. /\ p \in Page /\ SavedFor(p)
        /\ page \in [Page -> [held : 0..Len(issued), told : BOOLEAN]]
    BY DEF IInv, ThreadInv, ActorsInv, Idle
  <1>2. evidence # {}
    BY <1>1 DEF SavedFor
  <1>3. CASE UNCHANGED page
    <2>1. Signed' = Signed /\ Told' = Told
      BY <1>3, ViewsStay
    <2>2. CASE published
      <3>1. Promise!Publish
        BY <1>2, <2>1, <2>2 DEF Promise!Publish
      <3> QED
        BY <3>1 DEF Promise!Next
    <2> QED
      BY <2>1, <2>2 DEF Promise!specVars
  <1>4. CASE published /\ page' = [page EXCEPT ![p].told = TRUE]
    <2>1. \A b \in Page : page'[b].held = page[b].held
      BY <1>1, <1>4
    <2>2. page'[p].told /\ \A b \in Page \ {p} : page'[b].told = page[b].told
      BY <1>1, <1>4
    <2>3. Signed' = Signed /\ Told' = Told \cup {p}
      BY <1>1, <2>1, <2>2, ViewsStay DEF Told
    <2>4. Promise!SignedBy(p)
      BY <1>1 DEF Promise!SignedBy, SavedFor, Signed
    <2>5. Promise!Publish
      BY <1>1, <1>2, <1>4, <2>3, <2>4 DEF Promise!Publish
    <2> QED
      BY <2>5 DEF Promise!Next
  <1> QED
    BY <1>3, <1>4 DEF Over

(* Every step of a handler thread.                                         *)
LEMMA HandleIsPromised ==
  ASSUME IInv, NEW t \in Thread, Handle(t) PROVE [Promise!Next]_(Promise!specVars)
  <1>1. CASE UNCHANGED <<files, page, now>>
    BY <1>1, ViewsStay DEF Promise!specVars, files
  <1>2. CASE Prepare(t)
    <2>1. ThreadInv(t) /\ op[thread[t].proc].reviewed \in BOOLEAN
      BY <1>2 DEF IInv, ActorsInv, ThreadInv, OperatorRecord, Prepare, Idle
    <2>2. evidence # {}
      BY <1>2, <2>1 DEF Prepare, ThreadInv, SavedFor
    <2> QED
      BY <1>2, <2>1, <2>2, PrepareIsPromised DEF Prepare
  <1>3. CASE Publish(t)
    <2>1. /\ thread[t].pc = "publishing" /\ receipt = thread[t].before
          /\ receipt' = evidence /\ Over(t, TRUE)
          /\ UNCHANGED <<evidence, history, issued, now>>
      BY <1>3 DEF Publish
    <2>2. receipt \subseteq history
      BY <2>1 DEF IInv, ThreadInv
    <2> QED
      BY <2>1, <2>2, OverIsPromised
  <1>4. CASE Reuse(t)
    BY <1>4, OverIsPromised DEF Reuse, files
  <1>5. CASE PublishFails(t)
    <2>1. UNCHANGED files /\ Over(t, FALSE)
      BY <1>5 DEF PublishFails
    <2>2. UNCHANGED page
      BY <2>1 DEF Over
    <2> QED
      BY <1>1, <1>5, <2>2 DEF PublishFails
  <1> QED
    BY <1>1, <1>2, <1>3, <1>4, <1>5, BeginIsPromised, OpenIsPromised,
      PersistIsPromised
      DEF Handle, Ask, Submit, Arrive, BeginNew, Verify, Replay, Refuse

(* Every step of the tool is a step of the desk or changes nothing there.  *)
LEMMA StepIsPromised == IInv /\ [Next]_vars => [Promise!Next]_(Promise!specVars)
  <1> SUFFICES ASSUME IInv, [Next]_vars PROVE [Promise!Next]_(Promise!specVars)
    OBVIOUS
  <1>1. CASE UNCHANGED <<files, page, now>>
    BY <1>1, ViewsStay DEF Promise!specVars, files
  <1>2. CASE Tick
    <2>1. Signed' = Signed /\ Told' = Told
      BY <1>2, ViewsStay DEF Tick
    <2>2. Promise!Tick
      BY <1>2, <2>1 DEF Tick, Promise!Tick, files
    <2> QED
      BY <2>2 DEF Promise!Next
  <1>3. ASSUME NEW q \in Operator, PrepareReadback(q)
        PROVE  [Promise!Next]_(Promise!specVars)
    <2>1. OperatorInv(q) /\ op[q].reviewed \in BOOLEAN
      BY DEF IInv, ActorsInv, OperatorRecord
    <2>2. evidence # {}
      BY <1>3, <2>1 DEF PrepareReadback, OperatorInv
    <2> QED
      BY <1>3, <2>1, <2>2, PrepareIsPromised DEF PrepareReadback
  <1>4. ASSUME NEW q \in Operator, PublishReadback(q)
        PROVE  [Promise!Next]_(Promise!specVars)
    <2>1. /\ op[q].ph = "publishing" /\ receipt = op[q].before /\ receipt' = evidence
          /\ UNCHANGED <<evidence, history, issued, page, now>>
      BY <1>4 DEF PublishReadback
    <2>2. evidence # {} /\ receipt \subseteq history
      BY <2>1 DEF IInv, OperatorInv
    <2>3. Signed' = Signed /\ Told' = Told
      BY <2>1, ViewsStay
    <2>4. Promise!Publish
      BY <2>1, <2>2, <2>3 DEF Promise!Publish
    <2> QED
      BY <2>4 DEF Promise!Next
  <1>5. ASSUME NEW q \in Operator, Operate(q)
        PROVE  [Promise!Next]_(Promise!specVars)
    BY <1>1, <1>3, <1>4, <1>5 DEF Operate, EndWait, FinishRequests, Report,
      ReuseReadback, ReadbackFails
  <1> QED
    BY <1>1, <1>2, <1>5, HandleIsPromised DEF Next, vars, files, Start, Exit

(* Pages, threads and processes that outlive each other's runs together    *)
(* keep the promise of ApprovalSpec: one signature made in time becomes    *)
(* the proof, and whoever was told can rely on it and on its receipt.      *)
THEOREM ImplementsPromise == Spec => KeepsPromise
  <1>1. Init => Promise!Init
    BY InitIsPromised
  <1>2. IInv /\ [Next]_vars => [Promise!Next]_(Promise!specVars)
    BY StepIsPromised
  <1> QED
    BY <1>1, <1>2, Inv, PTL DEF Spec, KeepsPromise, Promise!Spec
==============================================================================
