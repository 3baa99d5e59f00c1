------------------------------- MODULE EdgeQueue -------------------------------
(***************************************************************************)
(* tools/total_field/w7tp_intent_field_suite/edge_queue.py: the local JSON *)
(* queue of L3 candidates that the edge worker fills and taiji01           *)
(* revalidates, as the "edge-queue" and "edge-revalidate" commands of      *)
(* cli.py use it.                                                          *)
(*                                                                         *)
(* The route table and the capability registry are a version number; a     *)
(* sealed snapshot is the version it was read at.  A hash stands for what  *)
(* it covers: a packet for its content hash, the sequence of the packets   *)
(* and snapshots up to an entry for entry_sha256.                          *)
(***************************************************************************)
EXTENDS Naturals, Sequences, SequencesExt

CONSTANTS
  Producer,       (* processes that run "edge-queue"                       *)
  Intent,         (* intents they are given                                *)
  MaxVersion,     (* bound on the changes of the two sources               *)
  MaxDeaths       (* bound on the failed writes and the deaths             *)

ASSUME EdgeQueueAssumption == MaxVersion \in Nat /\ MaxDeaths \in Nat

VARIABLES
  version,        (* of the route table and the capability registry        *)
  queue,          (* the queue file                                        *)
  stage,          (* where every producer is                               *)
  snap,           (* the snapshot every producer has sealed                *)
  packet,         (* the packet every producer has generated               *)
  copy,           (* the queue every producer has read                     *)
  sealed,         (* the snapshot taiji01 has sealed, 0 if it has none     *)
  report,         (* the last report of revalidate_queue_file              *)
  deaths          (* failed writes and deaths so far                       *)

producers == <<stage, snap, packet, copy>>
review == <<sealed, report>>
queueVars == <<version, queue, producers, review, deaths>>

Version == 1..(MaxVersion + 1)
Packet == [intent : Intent, source : Version]
Entry == [packet : Packet, snapshot : Version, previous : Seq(Packet \X Version)]

EntryHash(e) == Append(e.previous, <<e.packet, e.snapshot>>)
HeadHash(q) == IF q = << >> THEN << >> ELSE EntryHash(Last(q))
Packets(q) == {q[i].packet : i \in DOMAIN q}

NoReport == [snapshot |-> 0, accepted |-> {}]

QueueInit ==
  /\ version = 1
  /\ queue = << >>
  /\ stage = [p \in Producer |-> "idle"]
  /\ snap = [p \in Producer |-> 1]
  /\ packet \in [Producer -> [intent : Intent, source : {1}]]
  /\ copy = [p \in Producer |-> << >>]
  /\ sealed = 0
  /\ report = NoReport
  /\ deaths = 0

Move(p, place) == stage' = [stage EXCEPT ![p] = place]

(* The route table or the registry is replaced.                            *)
SourcesChange ==
  /\ version <= MaxVersion
  /\ version' = version + 1
  /\ UNCHANGED <<queue, producers, review, deaths>>

-----------------------------------------------------------------------------
SealSnapshot(p) ==
  /\ stage[p] = "idle"
  /\ snap' = [snap EXCEPT ![p] = version]
  /\ Move(p, "sealed")
  /\ UNCHANGED <<version, queue, packet, copy, review, deaths>>

(* process_intent reads the same sources again and names them in D4.       *)
GeneratePacket(p) ==
  /\ stage[p] = "sealed"
  /\ \E i \in Intent :
       packet' = [packet EXCEPT ![p] = [intent |-> i, source |-> version]]
  /\ Move(p, "packed")
  /\ UNCHANGED <<version, queue, snap, copy, review, deaths>>

LoadQueue(p) ==
  /\ stage[p] = "packed"
  /\ copy' = [copy EXCEPT ![p] = queue]
  /\ Move(p, "loaded")
  /\ UNCHANGED <<version, queue, snap, packet, review, deaths>>

(* Faulty variant: the packet's sources are not compared.                  *)
Matches_Never(p) == TRUE

(* build_queue_entry: else EDGE_PACKET_SNAPSHOT_MISMATCH                   *)
Matches(p) == packet[p].source = snap[p]

Duplicate(p) == packet[p] \in Packets(copy[p])

(* enqueue_packet returns or raises; the queue it read goes with it.       *)
Return(p) ==
  /\ Move(p, "idle")
  /\ copy' = [copy EXCEPT ![p] = << >>]

Mismatch(p) ==
  /\ stage[p] = "loaded" /\ ~Matches(p)
  /\ Return(p)
  /\ UNCHANGED <<version, queue, snap, packet, review, deaths>>

AlreadyQueued(p) ==
  /\ stage[p] = "loaded" /\ Matches(p) /\ Duplicate(p)
  /\ Return(p)
  /\ UNCHANGED <<version, queue, snap, packet, review, deaths>>

(* Faulty variant: the chain is continued from the file as it is now.      *)
NewEntry_Reload(p) ==
  [packet |-> packet[p], snapshot |-> snap[p], previous |-> HeadHash(queue)]

NewEntry(p) ==
  [packet |-> packet[p], snapshot |-> snap[p], previous |-> HeadHash(copy[p])]

(* os.replace puts the whole queue this producer has read, and its entry:   *)
(* another producer's entry written in between is gone.                    *)
WriteQueue(p) ==
  /\ stage[p] = "loaded" /\ Matches(p) /\ ~Duplicate(p)
  /\ queue' = Append(copy[p], NewEntry(p))
  /\ Return(p)
  /\ UNCHANGED <<version, snap, packet, review, deaths>>

(* The temporary file cannot be written, or the process dies: whatever it  *)
(* was doing, the queue file is the old one or the new one.                *)
Die(p) ==
  /\ stage[p] # "idle" /\ deaths < MaxDeaths
  /\ deaths' = deaths + 1
  /\ \/ UNCHANGED queue
     \/ stage[p] = "loaded" /\ Matches(p) /\ ~Duplicate(p)
        /\ queue' = Append(copy[p], NewEntry(p))
  /\ Return(p)
  /\ UNCHANGED <<version, snap, packet, review>>

-----------------------------------------------------------------------------
GoodEntry(q, i, s) ==
  /\ q[i].previous = IF i = 1 THEN << >> ELSE EntryHash(q[i - 1])
  /\ q[i].snapshot = s

(* revalidate_queue_file(queue, build_sealed_snapshot()): first the        *)
(* snapshot,                                                               *)
SealForReview ==
  /\ sealed = 0
  /\ sealed' = version
  /\ UNCHANGED <<version, queue, producers, report, deaths>>

(* then the file.  A caller may hand in the packets it has seen.  A bad    *)
(* entry raises and no report is made; the file is left alone.             *)
Revalidate(seen) ==
  /\ sealed # 0
  /\ sealed' = 0
  /\ report' = IF \A i \in DOMAIN queue : GoodEntry(queue, i, sealed)
               THEN [snapshot |-> sealed, accepted |-> Packets(queue) \ seen]
               ELSE NoReport
  /\ UNCHANGED <<version, queue, producers, deaths>>

QueueNext ==
  \/ SourcesChange \/ SealForReview
  \/ \E seen \in {{}, report.accepted} : Revalidate(seen)
  \/ \E p \in Producer :
       \/ SealSnapshot(p) \/ GeneratePacket(p) \/ LoadQueue(p)
       \/ Mismatch(p) \/ AlreadyQueued(p) \/ WriteQueue(p) \/ Die(p)

QueueSpec == QueueInit /\ [][QueueNext]_queueVars

-----------------------------------------------------------------------------
QueueTypeOK ==
  /\ version \in Version
  /\ \A i \in DOMAIN queue : queue[i] \in Entry
  /\ \A p \in Producer : /\ stage[p] \in {"idle", "sealed", "packed", "loaded"}
                         /\ snap[p] \in 1..version
                         /\ packet[p] \in Packet
                         /\ \A i \in DOMAIN copy[p] : copy[p][i] \in Entry
  /\ sealed \in 0..version
  /\ report.accepted \subseteq Packet
  /\ deaths \in 0..MaxDeaths

(* Producers that overwrite each other still leave one unbroken chain in   *)
(* the file, with every packet at most once: the hash checks of            *)
(* revalidate_queue cannot tell that an entry was lost.                    *)
OneChain ==
  \A i \in DOMAIN queue :
    /\ queue[i].previous = HeadHash(SubSeq(queue, 1, i - 1))
    /\ queue[i].packet \notin Packets(SubSeq(queue, 1, i - 1))

(* A revalidated candidate was generated from the very route table and     *)
(* registry of the snapshot it is revalidated against, although the edge   *)
(* worker reads them twice and taiji01 a third time.                       *)
AcceptedIsCurrent == \A q \in report.accepted : q.source = report.snapshot
==============================================================================
