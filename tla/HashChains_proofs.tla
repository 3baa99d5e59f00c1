--------------------------- MODULE HashChains_proofs ---------------------------
(***************************************************************************)
(* Theorems about the two files of hash-chained records: EdgeQueue, which  *)
(* its producers replace whole and without a lock, and EvidenceLedger,     *)
(* which its writers extend in place under one.  For any number of         *)
(* producers, writers, records, failures and deaths.                       *)
(*                                                                         *)
(* The queue: whatever order the producers write in, the file is always    *)
(* some chain one of them has read, with one entry more: so it is enough   *)
(* that every copy is a chain, whose entries match the snapshot they were  *)
(* sealed with, and that Append keeps a chain one (AppendKeepsChain).      *)
(*                                                                         *)
(* The ledger: a file that verifies is in order, every event covering all  *)
(* before it (Ordered), whoever wrote its lines.  A half line whose rest   *)
(* may still follow is left out of the file the invariant speaks of        *)
(* (Settled): then a step adds one line to that file, or leaves one that   *)
(* never verifies, or does nothing (Grows).  An append builds its event on *)
(* a file that verifies, and such a file has every event that was          *)
(* returned: so the new one covers them all, and still does when it is     *)
(* returned, however many torn lines the file has by then (MadeInv).       *)
(***************************************************************************)
EXTENDS EdgeQueue, EvidenceLedger, SequenceTheorems, TLAPS

-----------------------------------------------------------------------------
(* The edge queue.                                                         *)

Prefix(q, i) == SubSeq(q, 1, i - 1)

Chain(q) ==
  \A i \in DOMAIN q :
    /\ q[i].previous = HeadHash(Prefix(q, i))
    /\ q[i].packet \notin Packets(Prefix(q, i))

(* Every entry's packet was generated from the snapshot it is sealed with. *)
Current(q) == \A i \in DOMAIN q : q[i].packet.source = q[i].snapshot

Queues == {q \in Seq(Entry) : Chain(q) /\ Current(q)}

QueueTypeInv ==
  /\ version \in Version
  /\ stage \in [Producer -> {"idle", "sealed", "packed", "loaded"}]
  /\ snap \in [Producer -> 1..version]
  /\ packet \in [Producer -> Packet]
  /\ sealed \in 0..version
  /\ report.accepted \subseteq Packet
  /\ deaths \in 0..MaxDeaths

QueuesInv == queue \in Queues /\ copy \in [Producer -> Queues]

EdgeInv == QueueTypeInv /\ QueuesInv /\ AcceptedIsCurrent

-----------------------------------------------------------------------------
(* The empty queue is a chain.                                             *)
LEMMA EmptyIsAChain == << >> \in Queues
  BY DEF Queues, Chain, Current

(* The hash of the head of a queue covers the entries of the queue.        *)
LEMMA HeadHashType ==
  ASSUME NEW q \in Seq(Entry) PROVE HeadHash(q) \in Seq(Packet \X Version)
  <1>1. CASE q = << >>
    BY <1>1 DEF HeadHash
  <1>2. CASE q # << >>
    <2>1. Last(q) \in Entry
      BY <1>2 DEF Last
    <2> QED
      BY <1>2, <2>1 DEF HeadHash, EntryHash, Entry
  <1> QED
    BY <1>1, <1>2

(* What comes before an old entry is the same after Append.                *)
LEMMA PrefixOfAppend ==
  ASSUME NEW q \in Seq(Entry), NEW e \in Entry, NEW i \in 1..(Len(q) + 1)
  PROVE  Prefix(Append(q, e), i) = Prefix(q, i)
  <1> DEFINE a == Append(q, e)
  <1>1. a \in Seq(Entry) /\ Len(a) = Len(q) + 1
    OBVIOUS
  <1>2. \A j \in 1..(i - 1) : a[j] = q[j]
    OBVIOUS
  <1>3. SubSeq(a, 1, i - 1) = [j \in 1..(i - 1) |-> a[j]]
    BY <1>1
  <1>4. SubSeq(q, 1, i - 1) = [j \in 1..(i - 1) |-> q[j]]
    OBVIOUS
  <1> QED
    BY <1>2, <1>3, <1>4 DEF Prefix

(* The whole queue is what comes before the entry appended to it.          *)
LEMMA WholeIsAPrefix ==
  ASSUME NEW q \in Seq(Entry) PROVE Prefix(q, Len(q) + 1) = q
  BY DEF Prefix

(* enqueue_packet extends a chain it has read by an entry of its own.      *)
LEMMA AppendKeepsChain ==
  ASSUME QueueTypeInv, QueuesInv, NEW p \in Producer, Matches(p), ~Duplicate(p)
  PROVE  Append(copy[p], NewEntry(p)) \in Queues
  <1> DEFINE q == copy[p]
             e == NewEntry(p)
             a == Append(q, e)
  <1>1. q \in Seq(Entry) /\ Chain(q) /\ Current(q)
    BY DEF QueuesInv, Queues
  <1>2. e \in Entry
    <2>1. HeadHash(q) \in Seq(Packet \X Version)
      BY <1>1, HeadHashType
    <2>2. packet[p] \in Packet
      BY DEF QueueTypeInv
    <2>3. snap[p] \in Version
      BY EdgeQueueAssumption DEF QueueTypeInv, Version
    <2> QED
      BY <2>1, <2>2, <2>3 DEF NewEntry, Entry
  <1>3. a \in Seq(Entry) /\ Len(a) = Len(q) + 1
    BY <1>1, <1>2
  <1>4. ASSUME NEW i \in DOMAIN a
        PROVE  /\ a[i].previous = HeadHash(Prefix(a, i))
               /\ a[i].packet \notin Packets(Prefix(a, i))
               /\ a[i].packet.source = a[i].snapshot
    <2>1. i \in 1..(Len(q) + 1)
      BY <1>3
    <2>2. Prefix(a, i) = Prefix(q, i)
      BY <1>1, <1>2, <2>1, PrefixOfAppend
    <2>3. CASE i \in 1..Len(q)
      <3>1. a[i] = q[i] /\ i \in DOMAIN q
        BY <1>1, <1>2, <2>3
      <3> QED
        BY <1>1, <2>2, <3>1 DEF Chain, Current
    <2>4. CASE i = Len(q) + 1
      <3>1. a[i] = e
        BY <1>1, <1>2, <2>4
      <3>2. Prefix(q, i) = q
        BY <1>1, <2>4, WholeIsAPrefix
      <3> QED
        BY <2>2, <3>1, <3>2 DEF NewEntry, Matches, Duplicate
    <2> QED
      BY <1>1, <2>1, <2>3, <2>4
  <1> QED
    BY <1>3, <1>4 DEF Queues, Chain, Current

-----------------------------------------------------------------------------
(* The initial state: no queue, no report.                                 *)
LEMMA EdgeInit == QueueInit => EdgeInv
  <1> SUFFICES ASSUME QueueInit PROVE EdgeInv
    OBVIOUS
  <1>1. QueueTypeInv
    BY EdgeQueueAssumption DEF QueueInit, QueueTypeInv, Version, Packet, NoReport
  <1>2. QueuesInv
    BY EmptyIsAChain DEF QueueInit, QueuesInv
  <1>3. AcceptedIsCurrent
    BY DEF QueueInit, AcceptedIsCurrent, NoReport
  <1> QED
    BY <1>1, <1>2, <1>3 DEF EdgeInv

(* The packets of a queue of entries are packets.                          *)
LEMMA PacketsType ==
  ASSUME NEW q \in Seq(Entry) PROVE Packets(q) \subseteq Packet
  <1>1. \A i \in DOMAIN q : q[i] \in Entry
    OBVIOUS
  <1> QED
    BY <1>1 DEF Packets, Entry

(* Every step keeps the state well typed.                                  *)
LEMMA QueueTypeStep ==
  QueueTypeInv /\ QueuesInv /\ [QueueNext]_queueVars => QueueTypeInv'
  <1> SUFFICES ASSUME QueueTypeInv, QueuesInv, [QueueNext]_queueVars
               PROVE  QueueTypeInv'
    OBVIOUS
  <1> USE EdgeQueueAssumption DEF QueueTypeInv, Version, Move, producers, review
  <1>1. CASE SourcesChange
    BY <1>1 DEF SourcesChange
  <1>2. CASE SealForReview
    BY <1>2 DEF SealForReview
  <1>3. ASSUME NEW seen \in {{}, report.accepted}, Revalidate(seen)
        PROVE  QueueTypeInv'
    <2>1. Packets(queue) \subseteq Packet
      BY PacketsType DEF QueuesInv, Queues
    <2> QED
      BY <1>3, <2>1 DEF Revalidate, NoReport
  <1>4. ASSUME NEW p \in Producer, SealSnapshot(p) PROVE QueueTypeInv'
    BY <1>4 DEF SealSnapshot
  <1>5. ASSUME NEW p \in Producer, GeneratePacket(p) PROVE QueueTypeInv'
    BY <1>5 DEF GeneratePacket, Packet
  <1>6. ASSUME NEW p \in Producer, LoadQueue(p) PROVE QueueTypeInv'
    BY <1>6 DEF LoadQueue
  <1>7. ASSUME NEW p \in Producer, Mismatch(p) \/ AlreadyQueued(p) \/ WriteQueue(p)
        PROVE  QueueTypeInv'
    BY <1>7 DEF Mismatch, AlreadyQueued, WriteQueue, Return
  <1>8. ASSUME NEW p \in Producer, Die(p) PROVE QueueTypeInv'
    BY <1>8 DEF Die, Return
  <1>9. CASE UNCHANGED queueVars
    BY <1>9 DEF queueVars
  <1> QED
    BY <1>1, <1>2, <1>3, <1>4, <1>5, <1>6, <1>7, <1>8, <1>9 DEF QueueNext

(* Every queue in a file or in a producer's memory is a chain.             *)
LEMMA QueueStep ==
  QueueTypeInv /\ QueuesInv /\ [QueueNext]_queueVars => QueuesInv'
  <1> SUFFICES ASSUME QueueTypeInv, QueuesInv, [QueueNext]_queueVars
               PROVE  QueuesInv'
    OBVIOUS
  <1> USE DEF QueuesInv
  <1>1. CASE UNCHANGED <<queue, copy>>
    BY <1>1
  <1>2. ASSUME NEW p \in Producer, LoadQueue(p) PROVE QueuesInv'
    BY <1>2 DEF LoadQueue
  <1>3. ASSUME NEW p \in Producer, Mismatch(p) \/ AlreadyQueued(p) PROVE QueuesInv'
    BY <1>3, EmptyIsAChain DEF Mismatch, AlreadyQueued, Return
  <1>4. ASSUME NEW p \in Producer, WriteQueue(p) PROVE QueuesInv'
    BY <1>4, EmptyIsAChain, AppendKeepsChain DEF WriteQueue, Return
  <1>5. ASSUME NEW p \in Producer, Die(p) PROVE QueuesInv'
    BY <1>5, EmptyIsAChain, AppendKeepsChain DEF Die, Return
  <1> QED
    BY <1>1, <1>2, <1>3, <1>4, <1>5 DEF QueueNext, queueVars, producers, review,
      SourcesChange, SealForReview, Revalidate, SealSnapshot, GeneratePacket

(* A report only accepts entries of the snapshot it was made against.      *)
LEMMA ReportStep == EdgeInv /\ [QueueNext]_queueVars => AcceptedIsCurrent'
  <1> SUFFICES ASSUME EdgeInv, [QueueNext]_queueVars PROVE AcceptedIsCurrent'
    OBVIOUS
  <1>1. CASE UNCHANGED report
    BY <1>1 DEF EdgeInv, AcceptedIsCurrent
  <1>2. ASSUME NEW seen \in {{}, report.accepted}, Revalidate(seen)
        PROVE  AcceptedIsCurrent'
    <2>1. CASE \A i \in DOMAIN queue : GoodEntry(queue, i, sealed)
      <3>1. report' = [snapshot |-> sealed, accepted |-> Packets(queue) \ seen]
        BY <1>2, <2>1 DEF Revalidate
      <3>2. \A i \in DOMAIN queue : queue[i].packet.source = sealed
        BY <2>1 DEF EdgeInv, QueuesInv, Queues, Current, GoodEntry
      <3> QED
        BY <3>1, <3>2 DEF AcceptedIsCurrent, Packets
    <2>2. CASE ~\A i \in DOMAIN queue : GoodEntry(queue, i, sealed)
      BY <1>2, <2>2 DEF Revalidate, NoReport, AcceptedIsCurrent
    <2> QED
      BY <2>1, <2>2
  <1> QED
    BY <1>1, <1>2 DEF QueueNext, queueVars, review, SourcesChange, SealForReview,
      SealSnapshot, GeneratePacket, LoadQueue, Mismatch, AlreadyQueued,
      WriteQueue, Die

(* EdgeInv is inductive.                                                   *)
LEMMA EdgeInvStep == EdgeInv /\ [QueueNext]_queueVars => EdgeInv'
  BY QueueTypeStep, QueueStep, ReportStep DEF EdgeInv

(* Every reachable state satisfies EdgeInv.                                *)
LEMMA EdgeAlways == QueueSpec => []EdgeInv
  <1>1. QueueInit => EdgeInv
    BY EdgeInit
  <1>2. EdgeInv /\ [QueueNext]_queueVars => EdgeInv'
    BY EdgeInvStep
  <1> QED
    BY <1>1, <1>2, PTL DEF QueueSpec

-----------------------------------------------------------------------------
(* The state of the file, the producers and the reviewer is well typed.    *)
THEOREM QueueTypeCorrect == QueueSpec => []QueueTypeOK
  <1>1. EdgeInv => QueueTypeOK
    BY DEF EdgeInv, QueueTypeInv, QueuesInv, Queues, QueueTypeOK
  <1> QED
    BY <1>1, EdgeAlways, PTL

(* enqueue_packet without a lock still leaves one unbroken chain, with no  *)
(* packet twice.                                                           *)
THEOREM FileIsOneChain == QueueSpec => []OneChain
  <1>1. EdgeInv => OneChain
    BY DEF EdgeInv, QueuesInv, Queues, Chain, Prefix, OneChain
  <1> QED
    BY <1>1, EdgeAlways, PTL

(* revalidate_queue_file accepts no candidate of other sources than those  *)
(* of the snapshot it is given.                                            *)
THEOREM NothingStaleAccepted == QueueSpec => []AcceptedIsCurrent
  <1>1. EdgeInv => AcceptedIsCurrent
    BY DEF EdgeInv
  <1> QED
    BY <1>1, EdgeAlways, PTL

-----------------------------------------------------------------------------
(* The evidence ledger.                                                    *)

Line == Event \cup {Garbage}

(* g was made when e was in the ledger.                                    *)
IsCovered(e, g) ==
  /\ e.index < g.index
  /\ e.body.time < g.body.time
  /\ IsPrefix(HashOf(e), g.previous)

Ordered(file) ==
  \A i, j \in DOMAIN file : i < j => IsCovered(file[i], file[j])

(* made is the next event of the file, if the file verifies.               *)
Continues(e, file) ==
  e = NewEvent(file, e.body) /\ e.body.time >= NextTime(file)

LedgerTypeInv ==
  /\ lines \in Seq(Line)
  /\ ended \in BOOLEAN
  /\ half \in Proc \cup {NoProc}
  /\ lock \in Proc \cup {NoProc}
  /\ pc \in [Proc -> Places]
  /\ made \in [Proc -> Line]
  /\ \A p \in Proc : (pc[p] = "idle") = (made[p] = Garbage)
  /\ acked \in Seq(Event)
  /\ tears \in 0..MaxTears

LockInv == \A p \in Proc : pc[p] = "locked" => lock = p

(* A half line whose rest may follow is the last one, and is cut.          *)
EndsCut(file) == file # << >> /\ Last(file) = Garbage
HalfInv ==
  half # NoProc => pc[half] = "closing_rest" /\ ~ended /\ EndsCut(lines)

FileInv == Verifies(Settled) => Ordered(Settled)

CompleteInv ==
  Verifies(Settled) => \A i \in DOMAIN acked : acked[i] \in Range(Settled)

MadeInv ==
  \A p \in Proc :
    pc[p] = "locked" => \A i \in DOMAIN acked : IsCovered(acked[i], made[p])

CalmInv ==
  tears = 0 =>
    /\ ended /\ half = NoProc
    /\ \A p \in Proc : /\ pc[p] \in {"idle", "locked"}
                       /\ pc[p] = "locked" => Continues(made[p], lines)
    /\ (\A i \in DOMAIN acked : Acceptable(acked[i])) => Verifies(lines)

LedgerInv ==
  /\ LedgerTypeInv /\ LockInv /\ HalfInv /\ FileInv /\ CompleteInv
  /\ MadeInv /\ CalmInv /\ AckedFormOneChain

-----------------------------------------------------------------------------
(* Half a record is no event.                                              *)
LEMMA GarbageIsNoEvent == Garbage \notin Event
  <1>1. DOMAIN Garbage = {"index"}
    BY DEF Garbage
  <1>2. \A e \in Event : "body" \in DOMAIN e
    BY DEF Event
  <1> QED
    BY <1>1, <1>2

(* A prefix of a prefix is one.                                            *)
LEMMA PrefixTransitive ==
  ASSUME NEW S, NEW s \in Seq(S), NEW t \in Seq(S), NEW u \in Seq(S),
         IsPrefix(s, t), IsPrefix(t, u)
  PROVE  IsPrefix(s, u)
  <1>1. Len(s) <= Len(t) /\ Len(t) <= Len(u) /\ Len(s) \in Nat /\ Len(t) \in Nat
    BY DEF IsPrefix
  <1>2. \A i \in 1..Len(s) : s[i] = t[i]
    <2>1. SubSeq(s, 1, Len(s)) = [i \in 1..Len(s) |-> s[i]]
      OBVIOUS
    <2>2. SubSeq(t, 1, Len(s)) = [i \in 1..Len(s) |-> t[i]]
      BY <1>1
    <2> QED
      BY <2>1, <2>2 DEF IsPrefix
  <1>3. \A i \in 1..Len(t) : t[i] = u[i]
    <2>1. SubSeq(t, 1, Len(t)) = [i \in 1..Len(t) |-> t[i]]
      OBVIOUS
    <2>2. SubSeq(u, 1, Len(t)) = [i \in 1..Len(t) |-> u[i]]
      BY <1>1
    <2> QED
      BY <2>1, <2>2 DEF IsPrefix
  <1>4. SubSeq(s, 1, Len(s)) = [i \in 1..Len(s) |-> s[i]]
    OBVIOUS
  <1>5. SubSeq(u, 1, Len(s)) = [i \in 1..Len(s) |-> u[i]]
    BY <1>1
  <1>6. \A i \in 1..Len(s) : s[i] = u[i]
    BY <1>1, <1>2, <1>3
  <1> QED
    BY <1>1, <1>4, <1>5, <1>6 DEF IsPrefix

(* A sequence is a prefix of itself,                                       *)
LEMMA PrefixOfItself ==
  ASSUME NEW S, NEW s \in Seq(S) PROVE IsPrefix(s, s)
  BY DEF IsPrefix

(* and of itself with one entry more.                                      *)
LEMMA PrefixOfLonger ==
  ASSUME NEW S, NEW s \in Seq(S), NEW x \in S PROVE IsPrefix(s, Append(s, x))
  <1>1. SubSeq(s, 1, Len(s)) = [i \in 1..Len(s) |-> s[i]]
    OBVIOUS
  <1>2. SubSeq(Append(s, x), 1, Len(s)) = [i \in 1..Len(s) |-> s[i]]
    OBVIOUS
  <1> QED
    BY <1>1, <1>2 DEF IsPrefix

(* What covers an event of the file covers all that event covers.          *)
LEMMA CoverTransitive ==
  ASSUME NEW e \in Event, NEW f \in Event, NEW g \in Event,
         IsCovered(e, f), IsCovered(f, g)
  PROVE  IsCovered(e, g)
  <1>1. /\ HashOf(e) \in Seq(Body) /\ f.previous \in Seq(Body)
        /\ g.previous \in Seq(Body)
    BY DEF HashOf, Event
  <1>2. HashOf(f) \in Seq(Body) /\ f.body \in Body
    BY DEF HashOf, Event
  <1>3. IsPrefix(f.previous, HashOf(f))
    BY <1>1, <1>2, PrefixOfLonger DEF HashOf
  <1>4. IsPrefix(HashOf(e), HashOf(f))
    BY <1>1, <1>2, <1>3, PrefixTransitive DEF IsCovered
  <1>5. IsPrefix(HashOf(e), g.previous)
    BY <1>1, <1>2, <1>4, PrefixTransitive DEF IsCovered
  <1>6. e.index < g.index /\ e.body.time < g.body.time
    BY DEF IsCovered, Event, Body
  <1> QED
    BY <1>5, <1>6 DEF IsCovered

-----------------------------------------------------------------------------
(* A ledger that verifies has events in all its lines.                     *)
LEMMA VerifiedLines ==
  ASSUME NEW file \in Seq(Line), Verifies(file)
  PROVE  file \in Seq(Event)
  <1>1. \A i \in 1..Len(file) : file[i] \in Event
    BY DEF Verifies, Parses, Line
  <1> QED
    BY <1>1

(* A ledger that verifies with one line more verified without it.          *)
LEMMA VerifiedBefore ==
  ASSUME NEW file \in Seq(Line), NEW x \in Line, Verifies(Append(file, x))
  PROVE  Verifies(file)
  <1> DEFINE a == Append(file, x)
  <1>1. DOMAIN file \subseteq DOMAIN a
    OBVIOUS
  <1>2. \A i \in DOMAIN file : a[i] = file[i]
    OBVIOUS
  <1>3. \A i \in DOMAIN file : i # 1 => i - 1 \in DOMAIN file
    OBVIOUS
  <1>4. Parses(file)
    BY <1>1, <1>2 DEF Verifies, Parses
  <1>5. ASSUME NEW i \in DOMAIN file PROVE GoodRecord(file, i)
    <2>1. GoodRecord(a, i)
      BY <1>1 DEF Verifies
    <2>2. CASE i = 1
      BY <1>2, <2>1, <2>2 DEF GoodRecord
    <2>3. CASE i # 1
      <3>1. a[i] = file[i] /\ a[i - 1] = file[i - 1]
        BY <1>2, <1>3, <2>3
      <3> QED
        BY <2>1, <2>3, <3>1 DEF GoodRecord
    <2> QED
      BY <2>2, <2>3
  <1> QED
    BY <1>4, <1>5 DEF Verifies

(* The last line of a ledger that verifies continues the lines before it.  *)
LEMMA VerifiedLast ==
  ASSUME NEW file \in Seq(Line), NEW x \in Line, Verifies(Append(file, x))
  PROVE  x \in Event /\ Continues(x, file)
  <1> DEFINE a == Append(file, x)
             n == Len(file) + 1
  <1>1. n \in DOMAIN a /\ a[n] = x
    OBVIOUS
  <1>2. x \in Event
    BY <1>1 DEF Verifies, Parses, Line
  <1>3. GoodRecord(a, n)
    BY <1>1 DEF Verifies
  <1>4. x = [index |-> x.index, previous |-> x.previous, body |-> x.body]
        /\ x.body.time \in Nat
    BY <1>2 DEF Event, Body
  <1>5. x.index = n
    BY <1>1, <1>3 DEF GoodRecord
  <1>6. CASE file = << >>
    <2>1. n = 1
      BY <1>6
    <2>2. x.previous = << >> /\ x.body.time > 0
      BY <1>1, <1>3, <2>1 DEF GoodRecord
    <2>3. x.body.time >= 1
      BY <1>4, <2>2
    <2> QED
      BY <1>2, <1>4, <1>5, <1>6, <2>2, <2>3 DEF Continues, NewEvent, NextTime
  <1>7. CASE file # << >>
    <2>1. n # 1 /\ n - 1 = Len(file) /\ Len(file) \in DOMAIN file
      BY <1>7
    <2>2. a[n - 1] = Last(file)
      BY <2>1 DEF Last
    <2>3. x.previous = HashOf(Last(file)) /\ x.body.time > Last(file).body.time
      BY <1>1, <1>3, <2>1, <2>2 DEF GoodRecord
    <2>4. Last(file) \in Event
      BY <2>1, VerifiedBefore DEF Last, Verifies, Parses, Line
    <2>5. x.body.time >= Last(file).body.time + 1
      BY <1>4, <2>3, <2>4 DEF Event, Body
    <2> QED
      BY <1>2, <1>4, <1>5, <1>7, <2>3, <2>5 DEF Continues, NewEvent, NextTime
  <1> QED
    BY <1>6, <1>7

(* The next event, with an actor, keeps the ledger valid.                  *)
LEMMA NextEventVerifies ==
  ASSUME NEW file \in Seq(Line), Verifies(file),
         NEW e \in Event, Continues(e, file), e.body.actor # "empty"
  PROVE  Verifies(Append(file, e))
  <1> DEFINE a == Append(file, e)
             n == Len(file) + 1
  <1>0. e \in Line
    BY DEF Line
  <1>1. DOMAIN a = 1..n /\ n \in Nat \ {0} /\ a[n] = e
    BY <1>0
  <1>2. \A i \in DOMAIN file : a[i] = file[i]
    BY <1>0
  <1>3. Parses(a)
    BY <1>1, <1>2, GarbageIsNoEvent DEF Verifies, Parses
  <1>4. ASSUME NEW i \in DOMAIN file PROVE GoodRecord(a, i)
    <2>1. GoodRecord(file, i)
      BY DEF Verifies
    <2>2. CASE i = 1
      BY <1>2, <2>1, <2>2 DEF GoodRecord
    <2>3. CASE i # 1
      <3>1. i - 1 \in DOMAIN file
        BY <2>3
      <3>2. a[i] = file[i] /\ a[i - 1] = file[i - 1]
        BY <1>2, <3>1
      <3> QED
        BY <2>1, <2>3, <3>2 DEF GoodRecord
    <2> QED
      BY <2>2, <2>3
  <1>5. GoodRecord(a, n)
    <2>1. e.index = n
      BY DEF Continues, NewEvent
    <2>2. e.body.time \in Nat
      BY DEF Event, Body
    <2>3. CASE file = << >>
      <3>1. n = 1
        BY <2>3
      <3>2. e.previous = << >> /\ e.body.time >= 1
        BY <2>3 DEF Continues, NewEvent, NextTime
      <3> QED
        BY <1>1, <2>1, <2>2, <3>1, <3>2 DEF GoodRecord
    <2>4. CASE file # << >>
      <3>1. n # 1 /\ n - 1 = Len(file) /\ Len(file) \in DOMAIN file
        BY <2>4
      <3>2. a[n - 1] = Last(file)
        BY <3>1 DEF Last
      <3>3. e.previous = HashOf(Last(file)) /\ e.body.time >= Last(file).body.time + 1
        BY <2>4 DEF Continues, NewEvent, NextTime
      <3>4. Last(file).body.time \in Nat
        <4>1. Last(file) \in Event
          BY <3>1, VerifiedLines DEF Last
        <4> QED
          BY <4>1 DEF Event, Body
      <3>5. e.body.time > Last(file).body.time
        BY <2>2, <3>3, <3>4
      <3> QED
        BY <1>1, <2>1, <3>1, <3>2, <3>3, <3>5 DEF GoodRecord
    <2> QED
      BY <2>3, <2>4
  <1>6. \A i \in 1..n : i = n \/ i \in DOMAIN file
    OBVIOUS
  <1> QED
    BY <1>1, <1>3, <1>4, <1>5, <1>6 DEF Verifies

(* The next event covers every line of a ledger that verifies.             *)
LEMMA NextEventCovers ==
  ASSUME NEW file \in Seq(Line), Verifies(file), Ordered(file),
         NEW e \in Event, Continues(e, file), NEW i \in DOMAIN file
  PROVE  IsCovered(file[i], e)
  <1> DEFINE l == Last(file)
  <1>1. file # << >> /\ Len(file) \in DOMAIN file /\ l = file[Len(file)]
    BY DEF Last
  <1>2. file[i] \in Event /\ l \in Event
    BY <1>1, VerifiedLines
  <1>3. e.index = Len(file) + 1 /\ e.previous = HashOf(l)
        /\ e.body.time >= l.body.time + 1
    BY <1>1 DEF Continues, NewEvent, NextTime
  <1>4. IsCovered(l, e)
    <2>1. l.index = Len(file)
      BY <1>1 DEF Verifies, GoodRecord
    <2>2. l.body.time \in Nat /\ e.body.time \in Nat
      BY <1>2 DEF Event, Body
    <2>3. HashOf(l) \in Seq(Body) /\ l.body \in Body
      BY <1>2 DEF HashOf, Event
    <2>4. IsPrefix(HashOf(l), HashOf(l))
      BY <2>3, PrefixOfItself
    <2> QED
      BY <1>3, <2>1, <2>2, <2>4 DEF IsCovered
  <1>5. CASE i = Len(file)
    BY <1>1, <1>4, <1>5
  <1>6. CASE i # Len(file)
    <2>1. i < Len(file)
      BY <1>6
    <2>2. IsCovered(file[i], l)
      BY <1>1, <2>1 DEF Ordered
    <2> QED
      BY <1>2, <1>4, <2>2, CoverTransitive
  <1> QED
    BY <1>5, <1>6

(* One valid line more keeps a valid ledger in order.                      *)
LEMMA OrderedAppend ==
  ASSUME NEW file \in Seq(Line), NEW x \in Line, Verifies(Append(file, x)),
         Ordered(file)
  PROVE  Ordered(Append(file, x))
  <1> DEFINE a == Append(file, x)
             n == Len(file) + 1
  <1>1. DOMAIN a = 1..n /\ a[n] = x /\ n \in Nat
    OBVIOUS
  <1>2. \A i \in DOMAIN file : a[i] = file[i]
    OBVIOUS
  <1>3. \A i \in DOMAIN file : IsCovered(file[i], x)
    BY VerifiedBefore, VerifiedLast, NextEventCovers
  <1>4. ASSUME NEW i \in DOMAIN a, NEW j \in DOMAIN a, i < j
        PROVE  IsCovered(a[i], a[j])
    <2>1. i \in DOMAIN file
      BY <1>1, <1>4
    <2>2. CASE j = n
      BY <1>1, <1>2, <1>3, <2>1, <2>2
    <2>3. CASE j # n
      <3>1. j \in DOMAIN file
        BY <1>1, <2>3
      <3> QED
        BY <1>2, <1>4, <2>1, <3>1 DEF Ordered
    <2> QED
      BY <2>2, <2>3
  <1> QED
    BY <1>4 DEF Ordered

-----------------------------------------------------------------------------
(* What is written by made[p] is a line.                                   *)
LEMMA WrittenIsALine ==
  ASSUME NEW e \in Event PROVE Written(e) \in Line
  BY DEF Written, Line

(* A file that has a cut line in it does not verify.                       *)
LEMMA GarbageShows ==
  ASSUME NEW file \in Seq(Line) PROVE ~Verifies(Append(file, Garbage))
  <1>1. Garbage \in Line
    BY DEF Line
  <1> QED
    BY <1>1, VerifiedLast, GarbageIsNoEvent

(* Nor does one whose last line is cut.                                    *)
LEMMA CutShows ==
  ASSUME NEW file \in Seq(Line), EndsCut(file) PROVE ~Verifies(file)
  <1>1. Len(file) \in DOMAIN file /\ file[Len(file)] = Garbage
    BY DEF EndsCut, Last
  <1> QED
    BY <1>1 DEF Verifies, Parses

(* A file without its last line is one,                                    *)
LEMMA FrontIsAFile ==
  ASSUME NEW file \in Seq(Line) PROVE Front(file) \in Seq(Line)
  <1>1. CASE file = << >>
    BY <1>1 DEF Front
  <1>2. CASE file # << >>
    <2>1. \A i \in 1..(Len(file) - 1) : file[i] \in Line
      OBVIOUS
    <2> QED
      BY <1>2, <2>1 DEF Front
  <1> QED
    BY <1>1, <1>2

(* and the one before that line was added.                                 *)
LEMMA FrontOfAppend ==
  ASSUME NEW file \in Seq(Line), NEW x \in Line
  PROVE  /\ Front(Append(file, x)) = file
         /\ Last(Append(file, x)) = x /\ Append(file, x) # << >>
  <1> DEFINE a == Append(file, x)
  <1>1. a \in Seq(Line) /\ Len(a) = Len(file) + 1 /\ a[Len(a)] = x
    OBVIOUS
  <1>2. Front(a) = [i \in 1..Len(file) |-> a[i]]
    BY <1>1 DEF Front
  <1>3. \A i \in 1..Len(file) : a[i] = file[i]
    OBVIOUS
  <1>4. file = [i \in 1..Len(file) |-> file[i]]
    OBVIOUS
  <1> QED
    BY <1>1, <1>2, <1>3, <1>4 DEF Last

(* A ledger that verifies has no half line to leave out.                   *)
LEMMA SettledIsAFile ==
  ASSUME LedgerTypeInv, HalfInv
  PROVE  Settled \in Seq(Line) /\ (Verifies(lines) => half = NoProc)
  BY FrontIsAFile, CutShows DEF LedgerTypeInv, HalfInv, Settled

-----------------------------------------------------------------------------
(* What a step does to a ledger, half lines aside: it adds a line, or      *)
(* leaves a file that never verifies, or does nothing.                     *)
Grows(old, new) ==
  \/ new = old
  \/ \E x \in Line : new = Append(old, x)
  \/ ~Verifies(new)

FileStep ==
  /\ lines' \in Seq(Line) /\ ended' \in BOOLEAN
  /\ Settled' \in Seq(Line) /\ Grows(Settled, Settled')

(* A valid ledger was valid before, has lost nothing, and is in order.     *)
LEMMA GrownKeeps ==
  ASSUME NEW old \in Seq(Line), NEW new \in Seq(Line), Grows(old, new),
         Verifies(new)
  PROVE  /\ Verifies(old) /\ IsPrefix(old, new)
         /\ \A x \in Range(old) : x \in Range(new)
         /\ Ordered(old) => Ordered(new)
  <1>1. CASE new = old
    BY <1>1, PrefixOfItself
  <1>2. ASSUME NEW x \in Line, new = Append(old, x)
        PROVE  /\ Verifies(old) /\ IsPrefix(old, new)
               /\ \A y \in Range(old) : y \in Range(new)
               /\ Ordered(old) => Ordered(new)
    <2>1. Verifies(old)
      BY <1>2, VerifiedBefore
    <2>2. \A i \in DOMAIN old : i \in DOMAIN new /\ new[i] = old[i]
      BY <1>2
    <2>3. IsPrefix(old, new)
      BY <1>2, PrefixOfLonger
    <2>4. Ordered(old) => Ordered(new)
      BY <1>2, OrderedAppend
    <2> QED
      BY <2>1, <2>2, <2>3, <2>4 DEF Range
  <1> QED
    BY <1>1, <1>2 DEF Grows

(* No bytes.                                                               *)
LEMMA NothingWritten ==
  ASSUME LedgerTypeInv, HalfInv, UNCHANGED fileVars PROVE FileStep
  <1>1. Settled' = Settled
    BY DEF fileVars, Settled
  <1> QED
    BY <1>1, SettledIsAFile DEF FileStep, Grows, LedgerTypeInv, fileVars

(* The bytes of a line, or of half of one, at the end of the file.         *)
LEMMA LineWritten ==
  ASSUME LedgerTypeInv, HalfInv, NEW x \in Line, lines' = Extended(x),
         half' = NoProc, ended' \in BOOLEAN
  PROVE  FileStep
  <1>1. Settled' = lines'
    BY DEF Settled
  <1>2. CASE ended
    <2>1. Settled = lines
      BY <1>2 DEF HalfInv, Settled
    <2>2. lines' = Append(lines, x)
      BY <1>2 DEF Extended
    <2> QED
      BY <1>1, <2>1, <2>2 DEF FileStep, Grows, LedgerTypeInv
  <1>3. CASE ~ended
    <2>1. lines' = Append(Front(lines), Garbage)
      BY <1>3 DEF Extended
    <2>2. Front(lines) \in Seq(Line) /\ Garbage \in Line
      BY FrontIsAFile DEF LedgerTypeInv, Line
    <2>3. ~Verifies(lines')
      BY <2>1, <2>2, GarbageShows
    <2>4. lines' \in Seq(Line)
      BY <2>1, <2>2
    <2> QED
      BY <1>1, <2>3, <2>4 DEF FileStep, Grows
  <1> QED
    BY <1>2, <1>3 DEF LedgerTypeInv

(* Half of a line, of which the process still has the rest.                *)
LEMMA HalfWritten ==
  ASSUME LedgerTypeInv, HalfInv, NEW p \in Proc, lines' = Extended(Garbage),
         ended' = FALSE, half' = IF ended THEN p ELSE NoProc
  PROVE  FileStep /\ (half' # NoProc => EndsCut(lines'))
  <1>1. Garbage \in Line
    BY DEF Line
  <1>2. CASE ended
    <2>1. Settled = lines /\ lines' = Append(lines, Garbage) /\ half' = p
      BY <1>2 DEF HalfInv, Settled, Extended
    <2>2. Front(lines') = lines /\ EndsCut(lines')
      BY <1>1, <2>1, FrontOfAppend DEF LedgerTypeInv, EndsCut
    <2>3. Settled' = lines
      BY <2>1, <2>2, EvidenceLedgerAssumption DEF Settled
    <2>4. lines' \in Seq(Line) /\ lines \in Seq(Line)
      BY <1>1, <2>1 DEF LedgerTypeInv
    <2> QED
      BY <2>1, <2>2, <2>3, <2>4 DEF FileStep, Grows
  <1>3. CASE ~ended
    <2>1. half' = NoProc /\ ended' \in BOOLEAN
      BY <1>3
    <2> QED
      BY <1>1, <2>1, LineWritten
  <1> QED
    BY <1>2, <1>3 DEF LedgerTypeInv

(* What WriteAll and WriteSome write.                                      *)
LEMMA EventWritten ==
  ASSUME LedgerTypeInv, HalfInv, NEW e \in Event, WriteAll(e) \/ WriteSome(e)
  PROVE  FileStep
  <1>1. Written(e) \in Line /\ Garbage \in Line
    BY WrittenIsALine DEF Line
  <1>2. CASE UNCHANGED fileVars
    BY <1>2, NothingWritten
  <1>3. CASE \E x \in Line :
               lines' = Extended(x) /\ half' = NoProc /\ ended' \in BOOLEAN
    BY <1>3, LineWritten
  <1> QED
    BY <1>1, <1>2, <1>3 DEF WriteAll, WriteSome

(* A last line that is not whole stays as it is, and nobody's.             *)
LEMMA LeftAsItIs ==
  ASSUME LedgerTypeInv, HalfInv, lines' = lines, half' = NoProc,
         ended' \in BOOLEAN
  PROVE  FileStep
  <1>1. Settled' = lines
    BY DEF Settled
  <1>2. half = NoProc => Settled' = Settled
    BY <1>1 DEF Settled
  <1>3. half # NoProc => ~Verifies(Settled')
    BY <1>1, CutShows DEF LedgerTypeInv, HalfInv
  <1> QED
    BY <1>1, <1>2, <1>3 DEF FileStep, Grows, LedgerTypeInv

(* The rest of an event, at the end of its half or elsewhere.              *)
LEMMA RestWritten ==
  ASSUME LedgerTypeInv, HalfInv, NEW p \in Proc, made[p] \in Event, WriteRest(p)
  PROVE  FileStep
  <1>1. CASE /\ half = p /\ half' = NoProc /\ ended' \in BOOLEAN
             /\ lines' = Append(Front(lines), Written(made[p]))
    <2>1. Settled = Front(lines) /\ Settled' = lines'
      BY <1>1, EvidenceLedgerAssumption DEF Settled
    <2>2. Front(lines) \in Seq(Line) /\ Written(made[p]) \in Line
      BY FrontIsAFile, WrittenIsALine DEF LedgerTypeInv
    <2>3. lines' \in Seq(Line)
      BY <1>1, <2>2
    <2> QED
      BY <1>1, <2>1, <2>2, <2>3 DEF FileStep, Grows
  <1>2. CASE half' = NoProc /\ UNCHANGED <<lines, ended>>
    BY <1>2, LeftAsItIs DEF LedgerTypeInv
  <1>3. CASE lines' = Extended(Garbage) /\ ended' \in BOOLEAN /\ half' = NoProc
    <2>1. Garbage \in Line
      BY DEF Line
    <2> QED
      BY <1>3, <2>1, LineWritten
  <1>4. CASE UNCHANGED fileVars
    BY <1>4, NothingWritten
  <1> QED
    BY <1>1, <1>2, <1>3, <1>4 DEF WriteRest

(* The newline of an event.                                                *)
LEMMA NewlineWritten ==
  ASSUME LedgerTypeInv, HalfInv, WriteNewline PROVE FileStep
  BY NothingWritten, LeftAsItIs DEF WriteNewline

(* An event written whole is in the file, if the file verifies.            *)
LEMMA WholeEventIsThere ==
  ASSUME LedgerTypeInv, NEW e \in Event, WriteAll(e), Verifies(lines')
  PROVE  e \in Range(lines')
  <1>1. CASE ended
    <2> DEFINE w == Written(e)
    <2>1. lines' = Append(lines, w)
      BY <1>1 DEF WriteAll, Extended
    <2>2. w \in Line
      BY WrittenIsALine
    <2>3. Len(lines) + 1 \in DOMAIN lines' /\ lines'[Len(lines) + 1] = w
      BY <2>1, <2>2 DEF LedgerTypeInv
    <2>4. w # Garbage
      BY <2>3 DEF Verifies, Parses
    <2>5. w = e
      BY <2>4 DEF Written
    <2> QED
      BY <2>3, <2>5 DEF Range
  <1>2. CASE ~ended
    BY <1>2, FrontIsAFile, GarbageShows DEF WriteAll, Extended, LedgerTypeInv
  <1> QED
    BY <1>1, <1>2 DEF LedgerTypeInv

-----------------------------------------------------------------------------
(* The initial state: an empty ledger.                                     *)
LEMMA LedgerInit == Init => LedgerInv
  <1> SUFFICES ASSUME Init PROVE LedgerInv
    OBVIOUS
  <1>1. LedgerTypeInv
    BY EvidenceLedgerAssumption DEF Init, LedgerTypeInv, Line, Places
  <1>2. Verifies(lines) /\ Ordered(lines) /\ Settled = lines
    BY DEF Init, Verifies, Parses, Ordered, Settled
  <1>3. acked = << >> /\ DOMAIN acked = {}
    BY DEF Init
  <1>4. LockInv /\ HalfInv /\ FileInv /\ MadeInv
    BY <1>2 DEF Init, LockInv, HalfInv, FileInv, MadeInv
  <1>5. CalmInv
    BY <1>2 DEF Init, CalmInv
  <1>6. AckedFormOneChain /\ CompleteInv
    BY <1>3 DEF AckedFormOneChain, CompleteInv
  <1> QED
    BY <1>1, <1>4, <1>5, <1>6 DEF LedgerInv

(* What append_event builds under the lock.                                *)
LEMMA BuiltIsNext ==
  ASSUME LedgerTypeInv, Verifies(lines), NEW skip \in {0, 1},
         NEW text \in Text, NEW actor \in Actor
  PROVE  LET e == NewEvent(lines, [time |-> NextTime(lines) + skip,
                                   text |-> text, actor |-> actor])
         IN  e \in Event /\ Continues(e, lines)
  <1> DEFINE body == [time |-> NextTime(lines) + skip,
                      text |-> text, actor |-> actor]
             e == NewEvent(lines, body)
  <1>1. NextTime(lines) \in Nat
    <2>1. CASE lines = << >>
      BY <2>1 DEF NextTime
    <2>2. CASE lines # << >>
      <3>1. Last(lines) \in Event
        BY <2>2, VerifiedLines DEF LedgerTypeInv, Last
      <3>2. Last(lines).body.time \in Nat
        BY <3>1 DEF Event, Body
      <3> QED
        BY <2>2, <3>2 DEF NextTime
    <2> QED
      BY <2>1, <2>2
  <1>2. body \in Body
    BY <1>1 DEF Body
  <1>3. e \in Event
    <2>1. CASE lines = << >>
      BY <1>2, <2>1 DEF NewEvent, Event, LedgerTypeInv
    <2>2. CASE lines # << >>
      <3>1. Last(lines) \in Event
        BY <2>2, VerifiedLines DEF LedgerTypeInv, Last
      <3>2. HashOf(Last(lines)) \in Seq(Body)
        BY <3>1 DEF HashOf, Event
      <3>3. Len(lines) + 1 \in Nat
        BY DEF LedgerTypeInv
      <3> QED
        BY <1>2, <2>2, <3>2, <3>3 DEF NewEvent, Event
    <2> QED
      BY <2>1, <2>2
  <1>4. e.body = body /\ body.time >= NextTime(lines)
    BY <1>1 DEF NewEvent
  <1> QED
    BY <1>3, <1>4 DEF Continues

(* A process that is in the middle of an append has an event.              *)
LEMMA MadeIsAnEvent ==
  ASSUME LedgerTypeInv, NEW p \in Proc, pc[p] # "idle" PROVE made[p] \in Event
  BY DEF LedgerTypeInv, Line

(* What the file can become in a step.                                     *)
LEMMA StepWrites == LedgerInv /\ [Next]_vars => FileStep
  <1> SUFFICES ASSUME LedgerInv, [Next]_vars PROVE FileStep
    OBVIOUS
  <1>1. LedgerTypeInv /\ HalfInv
    BY DEF LedgerInv
  <1>2. \A p \in Proc : pc[p] # "idle" => made[p] \in Event
    BY <1>1, MadeIsAnEvent
  <1>3. CASE UNCHANGED fileVars
    BY <1>1, <1>3, NothingWritten
  <1>4. ASSUME NEW p \in Proc, WriteEvent(p) PROVE FileStep
    BY <1>1, <1>2, <1>4, EventWritten DEF WriteEvent
  <1>5. ASSUME NEW p \in Proc, FlushFails(p) PROVE FileStep
    <2>1. made[p] \in Event
      BY <1>2, <1>5 DEF FlushFails
    <2>2. CASE lines' = Extended(Written(made[p])) /\ ended' = FALSE /\ half' = NoProc
      BY <1>1, <2>1, <2>2, WrittenIsALine, LineWritten
    <2>3. CASE /\ lines' = Extended(Garbage) /\ ended' = FALSE
               /\ half' = IF ended THEN p ELSE NoProc
      BY <1>1, <2>3, HalfWritten
    <2> QED
      BY <1>3, <1>5, <2>2, <2>3 DEF FlushFails
  <1>6. ASSUME NEW p \in Proc, CloseFlushes(p) PROVE FileStep
    <2>1. made[p] \in Event
      BY <1>2, <1>6 DEF CloseFlushes
    <2>2. CASE WriteAll(made[p]) \/ WriteSome(made[p])
      BY <1>1, <2>1, <2>2, EventWritten
    <2>3. CASE WriteRest(p)
      BY <1>1, <2>1, <2>3, RestWritten
    <2>4. CASE WriteNewline
      BY <1>1, <2>4, NewlineWritten
    <2> QED
      BY <1>6, <2>2, <2>3, <2>4 DEF CloseFlushes
  <1>7. ASSUME NEW p \in Proc, DiesWriting(p) PROVE FileStep
    BY <1>1, <1>2, <1>7, EventWritten DEF DiesWriting, Torn
  <1> QED
    BY <1>3, <1>4, <1>5, <1>6, <1>7 DEF Next, vars, BeginAppend, Built

(* A half line with a rest is the last, and the step that writes anything  *)
(* else makes it nobody's.                                                 *)
LEMMA HalfStep ==
  LedgerInv /\ [Next]_vars => half' \in Proc \cup {NoProc} /\ HalfInv'
  <1> SUFFICES ASSUME LedgerInv, [Next]_vars
               PROVE  half' \in Proc \cup {NoProc} /\ HalfInv'
    OBVIOUS
  <1>1. LedgerTypeInv /\ HalfInv
    BY DEF LedgerInv
  <1>2. CASE half' = NoProc
    BY <1>2 DEF HalfInv
  <1>3. ASSUME NEW p \in Proc, UNCHANGED fileVars, half # p,
               NEW place, pc' = [pc EXCEPT ![p] = place]
        PROVE  half' \in Proc \cup {NoProc} /\ HalfInv'
    BY <1>1, <1>3 DEF LedgerTypeInv, HalfInv, fileVars, EndsCut
  <1>4. \A p \in Proc : pc[p] # "closing_rest" => half # p
    BY <1>1, EvidenceLedgerAssumption DEF HalfInv
  <1>5. ASSUME NEW p \in Proc, NEW skip \in {0, 1}, NEW text \in Text,
               NEW actor \in Actor, BeginAppend(p, skip, text, actor)
        PROVE  half' \in Proc \cup {NoProc} /\ HalfInv'
    BY <1>3, <1>4, <1>5 DEF BeginAppend, Built, Go
  <1>6. ASSUME NEW p \in Proc, WriteEvent(p)
        PROVE  half' \in Proc \cup {NoProc} /\ HalfInv'
    BY <1>2, <1>6 DEF WriteEvent, WriteAll
  <1>7. ASSUME NEW p \in Proc, FlushFails(p)
        PROVE  half' \in Proc \cup {NoProc} /\ HalfInv'
    <2>1. CASE Done(p, "closing") /\ UNCHANGED fileVars
      BY <1>3, <1>4, <1>7, <2>1 DEF FlushFails, Done, Go
    <2>2. CASE /\ lines' = Extended(Garbage) /\ ended' = FALSE
               /\ half' = IF ended THEN p ELSE NoProc
               /\ Done(p, "closing_rest")
      <3>1. half' # NoProc => EndsCut(lines')
        BY <1>1, <2>2, HalfWritten
      <3>2. half' \in {p, NoProc} /\ pc'[p] = "closing_rest"
        BY <1>1, <2>2 DEF LedgerTypeInv, Done, Go
      <3> QED
        BY <2>2, <3>1, <3>2 DEF HalfInv, EndsCut
    <2> QED
      BY <1>2, <1>7, <2>1, <2>2 DEF FlushFails
  <1>8. ASSUME NEW p \in Proc, CloseFlushes(p)
        PROVE  half' \in Proc \cup {NoProc} /\ HalfInv'
    <2>1. half' = NoProc \/ (UNCHANGED fileVars /\ half # p)
      BY <1>4, <1>8
      DEF CloseFlushes, WriteAll, WriteSome, WriteRest, WriteNewline
    <2> QED
      BY <1>2, <1>3, <1>8, <2>1 DEF CloseFlushes, Go
  <1>9. ASSUME NEW p \in Proc, DiesWriting(p)
        PROVE  half' \in Proc \cup {NoProc} /\ HalfInv'
    BY <1>2, <1>3, <1>4, <1>9 DEF DiesWriting, Torn, WriteSome, Done, Go
  <1>10. CASE UNCHANGED vars
    BY <1>1, <1>10 DEF vars, fileVars, LedgerTypeInv, HalfInv, EndsCut
  <1> QED
    BY <1>5, <1>6, <1>7, <1>8, <1>9, <1>10 DEF Next

(* Every step keeps the state well typed.                                  *)
LEMMA LedgerTypeStep == LedgerInv /\ [Next]_vars => LedgerTypeInv'
  <1> SUFFICES ASSUME LedgerInv, [Next]_vars PROVE LedgerTypeInv'
    OBVIOUS
  <1>1. LedgerTypeInv
    BY DEF LedgerInv
  <1>2. Garbage \in Line /\ Event \subseteq Line
    BY DEF Line
  <1>3. /\ lines' \in Seq(Line) /\ ended' \in BOOLEAN
        /\ half' \in Proc \cup {NoProc}
    BY StepWrites, HalfStep DEF FileStep
  <1>4. ASSUME NEW p \in Proc, NEW skip \in {0, 1}, NEW text \in Text,
               NEW actor \in Actor, BeginAppend(p, skip, text, actor)
        PROVE  LedgerTypeInv'
    <2> DEFINE e == NewEvent(lines, [time |-> NextTime(lines) + skip,
                                     text |-> text, actor |-> actor])
    <2>1. e \in Event
      BY <1>1, <1>4, BuiltIsNext DEF BeginAppend, Built
    <2>2. e # Garbage /\ e \in Line
      BY <1>2, <2>1, GarbageIsNoEvent
    <2>3. made' = [made EXCEPT ![p] = e] /\ pc' = [pc EXCEPT ![p] = "locked"]
          /\ lock' = p /\ UNCHANGED <<acked, tears>>
      BY <1>4 DEF BeginAppend, Built, Go
    <2> QED
      BY <1>1, <1>3, <2>2, <2>3 DEF LedgerTypeInv, Places
  <1>5. ASSUME NEW p \in Proc, WriteEvent(p) PROVE LedgerTypeInv'
    <2>1. made[p] \in Event
      BY <1>1, <1>5, MadeIsAnEvent DEF WriteEvent
    <2>2. acked' \in Seq(Event)
      BY <1>1, <1>5, <2>1 DEF WriteEvent, LedgerTypeInv
    <2> QED
      BY <1>1, <1>2, <1>3, <1>5, <2>2 DEF LedgerTypeInv, WriteEvent, Done, Go, Places
  <1>6. ASSUME NEW p \in Proc, FlushFails(p) PROVE LedgerTypeInv'
    <2>1. PICK place \in Places \ {"idle"} : Done(p, place)
      BY <1>6 DEF FlushFails, Places
    <2>2. pc[p] = "locked" /\ UNCHANGED <<made, acked>> /\ tears' \in 0..MaxTears
      BY <1>1, <1>6, EvidenceLedgerAssumption DEF FlushFails, LedgerTypeInv
    <2> QED
      BY <1>1, <1>3, <2>1, <2>2 DEF LedgerTypeInv, Done, Go
  <1>7. ASSUME NEW p \in Proc, CloseFlushes(p) PROVE LedgerTypeInv'
    BY <1>1, <1>2, <1>3, <1>7 DEF LedgerTypeInv, CloseFlushes, Go, Places
  <1>8. ASSUME NEW p \in Proc, DiesWriting(p) PROVE LedgerTypeInv'
    <2>1. tears' \in 0..MaxTears /\ UNCHANGED acked
      BY <1>1, <1>8, EvidenceLedgerAssumption DEF DiesWriting, Torn, LedgerTypeInv
    <2> QED
      BY <1>1, <1>2, <1>3, <1>8, <2>1 DEF LedgerTypeInv, DiesWriting, Done, Go, Places
  <1>9. CASE UNCHANGED vars
    BY <1>1, <1>3, <1>9 DEF vars, LedgerTypeInv
  <1> QED
    BY <1>4, <1>5, <1>6, <1>7, <1>8, <1>9 DEF Next

(* Only one process holds the lock.                                        *)
LEMMA LockStep == LedgerInv /\ [Next]_vars => LockInv'
  <1> SUFFICES ASSUME LedgerInv, [Next]_vars PROVE LockInv'
    OBVIOUS
  <1> USE DEF LedgerInv, LedgerTypeInv, LockInv, Done, Go
  <1>1. ASSUME NEW p \in Proc, NEW skip \in {0, 1}, NEW text \in Text,
               NEW actor \in Actor, BeginAppend(p, skip, text, actor)
        PROVE  LockInv'
    BY <1>1, EvidenceLedgerAssumption DEF BeginAppend, Built
  <1>2. ASSUME NEW p \in Proc, WriteEvent(p) PROVE LockInv'
    BY <1>2 DEF WriteEvent
  <1>3. ASSUME NEW p \in Proc, FlushFails(p) PROVE LockInv'
    BY <1>3 DEF FlushFails
  <1>4. ASSUME NEW p \in Proc, CloseFlushes(p) PROVE LockInv'
    BY <1>4 DEF CloseFlushes
  <1>5. ASSUME NEW p \in Proc, DiesWriting(p) PROVE LockInv'
    BY <1>5 DEF DiesWriting, Torn
  <1>6. CASE UNCHANGED vars
    BY <1>6 DEF vars
  <1> QED
    BY <1>1, <1>2, <1>3, <1>4, <1>5, <1>6 DEF Next

(* A file that verifies is in order, whoever wrote to it last.             *)
LEMMA FileOrderStep == LedgerInv /\ [Next]_vars => FileInv'
  <1> SUFFICES ASSUME LedgerInv, [Next]_vars, Verifies(Settled')
               PROVE  Ordered(Settled')
    BY DEF FileInv, Verifies, Parses, GoodRecord, Ordered, Settled
  <1>1. FileStep /\ Settled \in Seq(Line)
    BY StepWrites, SettledIsAFile DEF LedgerInv
  <1> QED
    BY <1>1, GrownKeeps DEF FileStep, LedgerInv, FileInv

(* An event that is built under the lock covers all that were returned.    *)
LEMMA MadeStep == LedgerInv /\ [Next]_vars => MadeInv'
  <1> SUFFICES ASSUME LedgerInv, [Next]_vars PROVE MadeInv'
    OBVIOUS
  <1>1. /\ LedgerTypeInv /\ LockInv /\ HalfInv /\ FileInv /\ CompleteInv
        /\ MadeInv
    BY DEF LedgerInv
  <1>2. ASSUME NEW p \in Proc, NEW skip \in {0, 1}, NEW text \in Text,
               NEW actor \in Actor, BeginAppend(p, skip, text, actor)
        PROVE  MadeInv'
    <2> DEFINE e == NewEvent(lines, [time |-> NextTime(lines) + skip,
                                     text |-> text, actor |-> actor])
    <2>1. Verifies(lines) /\ lock = NoProc /\ UNCHANGED acked
      BY <1>2 DEF BeginAppend, Built
    <2>2. made' = [made EXCEPT ![p] = e] /\ pc' = [pc EXCEPT ![p] = "locked"]
      BY <1>2 DEF BeginAppend, Built, Go
    <2>3. \A q \in Proc : pc[q] # "locked"
      BY <1>1, <2>1, EvidenceLedgerAssumption DEF LockInv
    <2>4. ASSUME NEW i \in DOMAIN acked PROVE IsCovered(acked[i], e)
      <3>0. Settled = lines
        BY <1>1, <2>1, SettledIsAFile DEF Settled
      <3>1. PICK k \in DOMAIN lines : acked[i] = lines[k]
        BY <1>1, <2>1, <3>0 DEF CompleteInv, Range
      <3>2. e \in Event /\ Continues(e, lines)
        BY <1>1, <2>1, BuiltIsNext
      <3>3. IsCovered(lines[k], e)
        BY <1>1, <2>1, <3>0, <3>2, NextEventCovers DEF FileInv, LedgerTypeInv
      <3> QED
        BY <3>1, <3>3
    <2>5. \A q \in Proc : pc'[q] = "locked" => q = p
      BY <1>1, <2>2, <2>3 DEF LedgerTypeInv
    <2>6. made'[p] = e
      BY <1>1, <2>2 DEF LedgerTypeInv
    <2> QED
      BY <2>1, <2>4, <2>5, <2>6 DEF MadeInv
  <1>3. ASSUME NEW p \in Proc, WriteEvent(p) PROVE MadeInv'
    <2>1. \A q \in Proc : pc[q] = "locked" => q = p
      BY <1>1, <1>3 DEF WriteEvent, LockInv
    <2>2. \A q \in Proc : pc'[q] # "locked"
      BY <1>1, <1>3, <2>1 DEF WriteEvent, Done, Go, LedgerTypeInv
    <2> QED
      BY <2>2 DEF MadeInv
  <1>4. ASSUME NEW p \in Proc, FlushFails(p) PROVE MadeInv'
    BY <1>1, <1>4 DEF FlushFails, Done, Go, LedgerTypeInv, MadeInv
  <1>5. ASSUME NEW p \in Proc, CloseFlushes(p) PROVE MadeInv'
    BY <1>1, <1>5 DEF CloseFlushes, Go, LedgerTypeInv, MadeInv
  <1>6. ASSUME NEW p \in Proc, DiesWriting(p) PROVE MadeInv'
    BY <1>1, <1>6 DEF DiesWriting, Torn, Done, Go, LedgerTypeInv, MadeInv
  <1>7. CASE UNCHANGED vars
    BY <1>1, <1>7 DEF vars, MadeInv
  <1> QED
    BY <1>2, <1>3, <1>4, <1>5, <1>6, <1>7 DEF Next

(* Only WriteEvent returns an event.                                       *)
LEMMA AckedStep ==
  ASSUME LedgerInv, [Next]_vars
  PROVE  \/ UNCHANGED acked
         \/ \E p \in Proc : /\ pc[p] = "locked" /\ made[p] \in Event
                            /\ WriteAll(made[p])
                            /\ acked' = Append(acked, made[p])
                            /\ UNCHANGED tears
  <1>1. \A p \in Proc : WriteEvent(p) => made[p] \in Event
    BY MadeIsAnEvent DEF LedgerInv, WriteEvent
  <1> QED
    BY <1>1 DEF Next, vars, BeginAppend, Built, WriteEvent, FlushFails,
      CloseFlushes, DiesWriting, Torn

(* The returned events stay one chain.                                     *)
LEMMA ChainStep == LedgerInv /\ [Next]_vars => AckedFormOneChain'
  <1> SUFFICES ASSUME LedgerInv, [Next]_vars PROVE AckedFormOneChain'
    OBVIOUS
  <1>1. CASE UNCHANGED acked
    BY <1>1 DEF LedgerInv, AckedFormOneChain
  <1>2. ASSUME NEW p \in Proc, pc[p] = "locked", made[p] \in Event,
               acked' = Append(acked, made[p])
        PROVE  AckedFormOneChain'
    <2>1. DOMAIN acked' = 1..(Len(acked) + 1) /\ acked'[Len(acked) + 1] = made[p]
      BY <1>2 DEF LedgerInv, LedgerTypeInv
    <2>2. \A i \in DOMAIN acked : acked'[i] = acked[i]
      BY <1>2 DEF LedgerInv, LedgerTypeInv
    <2>3. DOMAIN acked = 1..Len(acked) /\ Len(acked) \in Nat
      BY DEF LedgerInv, LedgerTypeInv
    <2>4. ASSUME NEW i \in DOMAIN acked', NEW j \in DOMAIN acked', i < j
          PROVE  IsCovered(acked'[i], acked'[j])
      <3>1. i \in DOMAIN acked
        BY <2>1, <2>3, <2>4
      <3>2. CASE j \in DOMAIN acked
        BY <2>2, <2>4, <3>1, <3>2 DEF LedgerInv, AckedFormOneChain, IsCovered
      <3>3. CASE j \notin DOMAIN acked
        <4>1. j = Len(acked) + 1
          BY <2>1, <2>3, <3>3
        <4> QED
          BY <1>2, <2>1, <2>2, <3>1, <4>1 DEF LedgerInv, MadeInv
      <3> QED
        BY <3>2, <3>3
    <2> QED
      BY <2>4 DEF AckedFormOneChain, IsCovered
  <1> QED
    BY <1>1, <1>2, AckedStep

(* A ledger that verifies has all returned events.                         *)
LEMMA CompleteStep == LedgerInv /\ [Next]_vars => CompleteInv'
  <1> SUFFICES ASSUME LedgerInv, [Next]_vars, Verifies(Settled')
               PROVE  \A i \in DOMAIN acked' : acked'[i] \in Range(Settled')
    BY DEF CompleteInv, Verifies, Parses, GoodRecord, Settled, Range
  <1>1. LedgerTypeInv /\ CompleteInv
    BY DEF LedgerInv
  <1>2. Verifies(Settled) /\ \A x \in Range(Settled) : x \in Range(Settled')
    BY StepWrites, SettledIsAFile, GrownKeeps DEF FileStep, LedgerInv
  <1>3. \A i \in DOMAIN acked : acked[i] \in Range(Settled')
    BY <1>1, <1>2 DEF CompleteInv
  <1>4. CASE UNCHANGED acked
    BY <1>3, <1>4
  <1>5. ASSUME NEW p \in Proc, made[p] \in Event, WriteAll(made[p]),
               acked' = Append(acked, made[p])
        PROVE  \A i \in DOMAIN acked' : acked'[i] \in Range(Settled')
    <2>0. Settled' = lines'
      BY <1>5 DEF WriteAll, Settled
    <2>1. made[p] \in Range(Settled')
      BY <1>1, <1>5, <2>0, WholeEventIsThere
    <2>2. DOMAIN acked' = 1..(Len(acked) + 1) /\ acked'[Len(acked) + 1] = made[p]
      BY <1>1, <1>5 DEF LedgerTypeInv
    <2>3. \A i \in DOMAIN acked : acked'[i] = acked[i]
      BY <1>1, <1>5 DEF LedgerTypeInv
    <2>4. DOMAIN acked = 1..Len(acked) /\ Len(acked) \in Nat
      BY <1>1 DEF LedgerTypeInv
    <2>5. ASSUME NEW i \in DOMAIN acked' PROVE acked'[i] \in Range(Settled')
      <3>1. CASE i \in DOMAIN acked
        BY <1>3, <2>3, <3>1
      <3>2. CASE i \notin DOMAIN acked
        <4>1. i = Len(acked) + 1
          BY <2>2, <2>4, <3>2
        <4> QED
          BY <2>1, <2>2, <4>1
      <3> QED
        BY <3>1, <3>2
    <2> QED
      BY <2>5
  <1> QED
    BY <1>4, <1>5, AckedStep

(* Without failed writes, the file stays ended, and stays valid as long as *)
(* the events returned are acceptable.                                     *)
LEMMA CalmStep == LedgerInv /\ [Next]_vars => CalmInv'
  <1> SUFFICES ASSUME LedgerInv, [Next]_vars, tears' = 0
               PROVE  /\ ended' /\ half' = NoProc
                      /\ \A p \in Proc :
                           /\ pc'[p] \in {"idle", "locked"}
                           /\ pc'[p] = "locked" => Continues(made'[p], lines')
                      /\ (\A i \in DOMAIN acked' : Acceptable(acked'[i]))
                         => Verifies(lines')
    BY DEF CalmInv
  <1>1. LedgerTypeInv /\ LockInv /\ CalmInv
    BY DEF LedgerInv
  <1>2. ASSUME NEW p \in Proc, NEW skip \in {0, 1}, NEW text \in Text,
               NEW actor \in Actor, BeginAppend(p, skip, text, actor)
        PROVE  CalmInv'
    <2> DEFINE e == NewEvent(lines, [time |-> NextTime(lines) + skip,
                                     text |-> text, actor |-> actor])
    <2>1. Verifies(lines) /\ UNCHANGED <<lines, ended, half, acked, tears>>
      BY <1>2 DEF BeginAppend, Built, fileVars
    <2>2. made' = [made EXCEPT ![p] = e] /\ pc' = [pc EXCEPT ![p] = "locked"]
      BY <1>2 DEF BeginAppend, Built, Go
    <2>3. Continues(e, lines)
      BY <1>1, <2>1, BuiltIsNext
    <2>4. \A q \in Proc : pc'[q] = IF q = p THEN "locked" ELSE pc[q]
      BY <1>1, <2>2 DEF LedgerTypeInv
    <2>5. \A q \in Proc : made'[q] = IF q = p THEN e ELSE made[q]
      BY <1>1, <2>2 DEF LedgerTypeInv
    <2> QED
      BY <1>1, <2>1, <2>3, <2>4, <2>5 DEF CalmInv
  <1>3. ASSUME NEW p \in Proc, WriteEvent(p) PROVE CalmInv'
    <2>1. tears = 0 => \A q \in Proc : pc'[q] = "idle"
      BY <1>1, <1>3 DEF WriteEvent, Done, Go, LedgerTypeInv, LockInv, CalmInv
    <2>2. ASSUME tears = 0, \A i \in DOMAIN acked' : Acceptable(acked'[i])
          PROVE  Verifies(lines')
      <3> DEFINE e == made[p]
      <3>1. e \in Event
        BY <1>1, <1>3, MadeIsAnEvent DEF WriteEvent
      <3>2. acked' = Append(acked, e)
        BY <1>3 DEF WriteEvent
      <3>3. \A i \in DOMAIN acked : i \in DOMAIN acked' /\ acked'[i] = acked[i]
        BY <1>1, <3>1, <3>2 DEF LedgerTypeInv
      <3>4. Len(acked) + 1 \in DOMAIN acked' /\ acked'[Len(acked) + 1] = e
        BY <1>1, <3>1, <3>2 DEF LedgerTypeInv
      <3>5. Acceptable(e) /\ \A i \in DOMAIN acked : Acceptable(acked[i])
        BY <2>2, <3>3, <3>4
      <3>6. Verifies(lines) /\ ended /\ Continues(e, lines)
        BY <1>1, <1>3, <2>2, <3>5 DEF CalmInv, WriteEvent
      <3>7. lines' = Append(lines, e)
        BY <1>3, <3>5, <3>6
        DEF WriteEvent, WriteAll, Extended, Written, Acceptable
      <3> QED
        BY <1>1, <3>1, <3>5, <3>6, <3>7, NextEventVerifies
        DEF LedgerTypeInv, Acceptable
    <2>3. tears' = tears /\ ended' /\ half' = NoProc
      BY <1>3 DEF WriteEvent, WriteAll
    <2> QED
      BY <2>1, <2>2, <2>3 DEF CalmInv
  <1>4. \A p \in Proc : ~FlushFails(p) /\ ~DiesWriting(p)
    BY <1>1 DEF FlushFails, DiesWriting, LedgerTypeInv
  <1>5. \A p \in Proc : ~CloseFlushes(p)
    BY <1>1 DEF CloseFlushes, CalmInv
  <1>6. CASE UNCHANGED vars
    BY <1>1, <1>6 DEF vars, fileVars, CalmInv
  <1> QED
    BY <1>2, <1>3, <1>4, <1>5, <1>6 DEF Next, CalmInv

(* LedgerInv is inductive.                                                 *)
LEMMA LedgerInvStep == LedgerInv /\ [Next]_vars => LedgerInv'
  BY LedgerTypeStep, LockStep, HalfStep, FileOrderStep, MadeStep, CalmStep,
     ChainStep, CompleteStep DEF LedgerInv

(* Every reachable state satisfies LedgerInv.                              *)
LEMMA LedgerAlways == Spec => []LedgerInv
  <1>1. Init => LedgerInv
    BY LedgerInit
  <1>2. LedgerInv /\ [Next]_vars => LedgerInv'
    BY LedgerInvStep
  <1> QED
    BY <1>1, <1>2, PTL DEF Spec

(* The file, its half line, its lock and the processes' events are well    *)
(* typed.                                                                  *)
THEOREM LedgerTypeCorrect == Spec => []TypeOK
  <1>1. LedgerInv => TypeOK
    BY DEF LedgerInv, LedgerTypeInv, Line, TypeOK
  <1> QED
    BY <1>1, LedgerAlways, PTL

(* Of any number of concurrent writers, whatever fails or dies, the events *)
(* append_event returned are one chain.                                    *)
THEOREM ReturnedEventsAreAChain == Spec => []AckedFormOneChain
  <1>1. LedgerInv => AckedFormOneChain
    BY DEF LedgerInv
  <1> QED
    BY <1>1, LedgerAlways, PTL

(* verify_chain accepts no ledger that misses a returned event.            *)
THEOREM ValidLedgersAreComplete == Spec => []ValidMeansComplete
  <1>1. LedgerInv => ValidMeansComplete
    <2> SUFFICES ASSUME LedgerInv, Verifies(lines) PROVE ValidMeansComplete
      BY DEF ValidMeansComplete
    <2>1. Settled = lines
      BY SettledIsAFile DEF LedgerInv, Settled
    <2> QED
      BY <2>1 DEF LedgerInv, CompleteInv, ValidMeansComplete
  <1> QED
    BY <1>1, LedgerAlways, PTL

(* Writers that never fail to write leave a ledger that verifies.          *)
THEOREM CalmLedgersVerify == Spec => []CalmLedgerVerifies
  <1>1. LedgerInv => CalmLedgerVerifies
    BY DEF LedgerInv, CalmInv, CalmLedgerVerifies
  <1> QED
    BY <1>1, LedgerAlways, PTL

(* No append rewrites a valid ledger or heals a broken one, but the rest   *)
(* of a half line right behind it.                                         *)
THEOREM ValidLedgersOnlyGrow == Spec => ValidIsAppendOnly
  <1>1. ASSUME LedgerInv, LedgerInv', [Next]_vars, Verifies(lines')
        PROVE  Verifies(Settled) /\ IsPrefix(Settled, lines')
    <2>1. FileStep /\ Settled \in Seq(Line)
      BY <1>1, StepWrites, SettledIsAFile DEF LedgerInv
    <2>2. half' = NoProc
      BY <1>1, <2>1, CutShows DEF FileStep, LedgerInv, HalfInv, EndsCut
    <2>3. Settled' = lines'
      BY <2>2 DEF Settled
    <2> QED
      BY <1>1, <2>1, <2>3, GrownKeeps DEF FileStep
  <1> QED
    BY <1>1, LedgerAlways, PTL DEF Spec, ValidIsAppendOnly
==============================================================================
