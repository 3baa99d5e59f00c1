---------------------------- MODULE EvidenceLedger -----------------------------
(***************************************************************************)
(* core/adi_native/evidence_ledger.py: VerifiableSpacetimeSystem, an       *)
(* append-only JSONL file of hash-chained events that several processes    *)
(* extend under flock and anybody verifies without it.                     *)
(*                                                                         *)
(* A hash stands for all that it covers: the hash of an event is the       *)
(* sequence of the event bodies up to it, the anchor (the head of the      *)
(* legacy chain) is the empty one.  Tampering is outside the model.        *)
(***************************************************************************)
EXTENDS Naturals, Sequences, SequencesExt

CONSTANTS
  Proc,           (* processes, each with its own instance                 *)
  NoProc,         (* nobody: the flock is free, the last line is no half   *)
  Text,           (* classes of content: "plain", "separator"              *)
  Actor,          (* classes of actor_ref: "named", "empty"                *)
  MaxEvents,      (* bound on the events asked for                         *)
  MaxTears        (* bound on the failed writes and the deaths             *)

ASSUME EvidenceLedgerAssumption ==
  /\ NoProc \notin Proc
  /\ Text \subseteq {"plain", "separator"}
  /\ Actor \subseteq {"named", "empty"}
  /\ MaxEvents \in Nat /\ MaxTears \in Nat

VARIABLES
  lines,          (* what text.splitlines() gives                          *)
  ended,          (* the last line has its newline                         *)
  half,           (* whose half event, the rest still in the buffer of its *)
                  (* stream, is the last line                              *)
  lock,           (* the process in _locked                                *)
  pc,             (* where every process is                                *)
  made,           (* the event every process has built                     *)
  acked,          (* the events append_event has returned, in their order  *)
  tears           (* failed writes and deaths so far                       *)

fileVars == <<lines, ended, half>>
vars == <<fileVars, lock, pc, made, acked, tears>>

Body == [time : Nat, text : Text, actor : Actor]
Event == [index : Nat, previous : Seq(Body), body : Body]

(* A line json.loads rejects: half an event, two events without a newline  *)
(* between them, or one cut by splitlines() at a U+2028 or U+0085 that     *)
(* ensure_ascii=False left in the text.                                    *)
Garbage == [index |-> 0]

HashOf(e) == Append(e.previous, e.body)

Parses(file) == \A i \in DOMAIN file : file[i] # Garbage

(* _verify_records                                                         *)
GoodRecord(file, i) ==
  LET e == file[i] IN
  /\ e.index = i
  /\ e.previous = IF i = 1 THEN << >> ELSE HashOf(file[i - 1])
  /\ e.body.time > IF i = 1 THEN 0 ELSE file[i - 1].body.time
  /\ e.body.actor # "empty"
Verifies(file) == Parses(file) /\ \A i \in DOMAIN file : GoodRecord(file, i)

NextTime(file) == IF file = << >> THEN 1 ELSE Last(file).body.time + 1

NewEvent(file, body) ==
  [index |-> Len(file) + 1,
   previous |-> IF file = << >> THEN << >> ELSE HashOf(Last(file)),
   body |-> body]

(* Faulty variant: a last line without newline is cut off first.           *)
Extended_Truncates(line) ==
  IF ended THEN Append(lines, line) ELSE Append(Front(lines), line)

(* The file after the bytes of e, or the first of them, are written at its *)
(* end.  On a last line without newline they make one line with it.        *)
Written(e) == IF e.body.text = "separator" THEN Garbage ELSE e
Extended(line) ==
  IF ended THEN Append(lines, line) ELSE Append(Front(lines), Garbage)
WriteAll(e) == lines' = Extended(Written(e)) /\ ended' = TRUE /\ half' = NoProc
WriteSome(e) ==
  \/ UNCHANGED fileVars
  \/ lines' = Extended(Garbage) /\ ended' = FALSE /\ half' = NoProc
  \/ lines' = Extended(Written(e)) /\ ended' = FALSE /\ half' = NoProc

Places == {"idle", "locked", "closing", "closing_rest", "closing_newline"}
Go(p, place) == pc' = [pc EXCEPT ![p] = place]

Init ==
  /\ lines = << >> /\ ended = TRUE /\ half = NoProc
  /\ lock = NoProc
  /\ pc = [p \in Proc |-> "idle"]
  /\ made = [p \in Proc |-> Garbage]
  /\ acked = << >>
  /\ tears = 0

-----------------------------------------------------------------------------
(* append_event up to the write.  The caller may give a logical_time that  *)
(* is ahead of the chain; one behind it is a ValueError, and so is a       *)
(* LedgerParseFailure, which both leave everything as it was.              *)
Built(p, skip, text, actor) ==
  /\ Verifies(lines)
  /\ made' = [made EXCEPT ![p] =
       NewEvent(lines, [time |-> NextTime(lines) + skip,
                        text |-> text, actor |-> actor])]
  /\ Go(p, "locked")
  /\ UNCHANGED <<fileVars, acked, tears>>

(* Faulty variant: the chain is read before the flock is taken.            *)
BeginAppend_NoLock(p, skip, text, actor) ==
  /\ pc[p] = "idle" /\ Len(lines) < MaxEvents
  /\ UNCHANGED lock
  /\ Built(p, skip, text, actor)

BeginAppend(p, skip, text, actor) ==
  /\ pc[p] = "idle" /\ Len(lines) < MaxEvents
  /\ lock = NoProc /\ lock' = p
  /\ Built(p, skip, text, actor)

Done(p, place) ==
  /\ lock' = IF lock = p THEN NoProc ELSE lock
  /\ Go(p, place)

(* write, flush, fsync, LOCK_UN and return event                           *)
WriteEvent(p) ==
  /\ pc[p] = "locked"
  /\ WriteAll(made[p])
  /\ acked' = Append(acked, made[p])
  /\ Done(p, "idle")
  /\ made' = [made EXCEPT ![p] = Garbage]
  /\ UNCHANGED tears

(* The flush raises (no space, an I/O error) with none of the line, half   *)
(* of it or all but its newline out.  The lock is released with the rest   *)
(* still in the stream's buffer.                                           *)
FlushFails(p) ==
  /\ pc[p] = "locked" /\ tears < MaxTears
  /\ tears' = tears + 1
  /\ \/ Done(p, "closing") /\ UNCHANGED fileVars
     \/ /\ lines' = Extended(Garbage) /\ ended' = FALSE
        /\ half' = IF ended THEN p ELSE NoProc
        /\ Done(p, "closing_rest")
     \/ /\ lines' = Extended(Written(made[p])) /\ ended' = FALSE
        /\ half' = NoProc
        /\ Done(p, "closing_newline")
  /\ UNCHANGED <<made, acked>>

(* The rest makes a whole line of the half one, if nothing was written     *)
(* after it; anywhere else it is half a line itself.                       *)
WriteRest(p) ==
  \/ /\ half = p /\ half' = NoProc
     /\ \/ lines' = Append(Front(lines), Written(made[p])) /\ ended' \in BOOLEAN
        \/ UNCHANGED <<lines, ended>>
  \/ /\ half # p
     /\ \/ lines' = Extended(Garbage) /\ ended' \in BOOLEAN /\ half' = NoProc
        \/ UNCHANGED fileVars

(* The newline ends what is the last line by now, or leaves an empty one.  *)
WriteNewline ==
  \/ ended' = TRUE /\ half' = NoProc /\ UNCHANGED lines
  \/ UNCHANGED fileVars

(* The "with" statement closes the stream, and close() flushes again what  *)
(* the buffer still holds, all or some of it: nobody holds the lock by     *)
(* then.  (A failed fsync is the case where all of it is out at once.)     *)
CloseFlushes(p) ==
  /\ \/ pc[p] = "closing" /\ (WriteAll(made[p]) \/ WriteSome(made[p]))
     \/ pc[p] = "closing_rest" /\ WriteRest(p)
     \/ pc[p] = "closing_newline" /\ WriteNewline
  /\ Go(p, "idle")
  /\ made' = [made EXCEPT ![p] = Garbage]
  /\ UNCHANGED <<lock, acked, tears>>

(* Faulty variant: the error of the flush is swallowed.                    *)
Torn_Swallowed(p) ==
  /\ WriteSome(made[p])
  /\ acked' = Append(acked, made[p])

Torn(p) ==
  /\ WriteSome(made[p])
  /\ UNCHANGED acked

(* The process dies, or the disk fails for good, within the write.         *)
DiesWriting(p) ==
  /\ pc[p] = "locked" /\ tears < MaxTears
  /\ tears' = tears + 1
  /\ Torn(p)
  /\ Done(p, "idle")
  /\ made' = [made EXCEPT ![p] = Garbage]

Next ==
  \E p \in Proc :
    \/ \E skip \in {0, 1}, text \in Text, actor \in Actor :
         BeginAppend(p, skip, text, actor)
    \/ WriteEvent(p) \/ FlushFails(p) \/ CloseFlushes(p) \/ DiesWriting(p)

Spec == Init /\ [][Next]_vars

-----------------------------------------------------------------------------
TypeOK ==
  /\ \A i \in DOMAIN lines : lines[i] \in Event \cup {Garbage}
  /\ ended \in BOOLEAN
  /\ lock \in Proc \cup {NoProc} /\ half \in Proc \cup {NoProc}
  /\ \A p \in Proc : /\ pc[p] \in Places
                     /\ made[p] \in Event \cup {Garbage}
                     /\ (pc[p] = "idle") = (made[p] = Garbage)
  /\ \A i \in DOMAIN acked : acked[i] \in Event
  /\ tears \in 0..MaxTears

(* "concurrent writes keep unique indices and chain": the events whose     *)
(* append returned have different indices, later and later logical times,  *)
(* and each covers all returned before it, whatever was torn in between.   *)
AckedFormOneChain ==
  \A i, j \in DOMAIN acked :
    i < j => /\ acked[i].index < acked[j].index
             /\ acked[i].body.time < acked[j].body.time
             /\ IsPrefix(HashOf(acked[i]), acked[j].previous)

(* CHAIN_VALID is never said of a ledger that misses an event whose append *)
(* returned: no failed or torn write can lose it silently.                 *)
ValidMeansComplete ==
  Verifies(lines) =>
    \A i \in DOMAIN acked : acked[i] \in Range(lines)

Acceptable(e) == e.body.text = "plain" /\ e.body.actor # "empty"

(* Two writers that never fail to write, and give no text splitlines()     *)
(* would cut and no empty reference, leave a ledger that verifies between  *)
(* any two appends.                                                        *)
CalmLedgerVerifies ==
  /\ tears = 0 /\ lock = NoProc
  /\ \A i \in DOMAIN acked : Acceptable(acked[i])
  => Verifies(lines)

(* The ledger without a half line whose rest may still follow.             *)
Settled == IF half = NoProc THEN lines ELSE Front(lines)

(* A ledger that verifies is the one before it with lines added: no append *)
(* rewrites the history of a valid ledger, although every write after a    *)
(* torn one changes the torn line, and none heals a broken one, but the    *)
(* flush in close() that brings the rest of a half line before anything    *)
(* else was written.                                                       *)
ValidIsAppendOnly ==
  [][Verifies(lines') => Verifies(Settled) /\ IsPrefix(Settled, lines')]_vars
==============================================================================
