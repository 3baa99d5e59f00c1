----------------------------- MODULE ApprovalSpec ------------------------------
(***************************************************************************)
(* What the mobile approval promises, with no processes, threads or locks: *)
(* pages sign ceremonies, one signature made within the window of its      *)
(* ceremony becomes the proof for good, the receipt becomes that of the    *)
(* proof, and a page is told so only of its own signature, and only then.  *)
(***************************************************************************)
EXTENDS Naturals, Sequences

CONSTANTS Page, OldReceipt, Window

VARIABLES
  proof,          (* at most one                                           *)
  receipt,        (* the proof it is the receipt of, or an old receipt     *)
  history,        (* old receipts that are kept                            *)
  opened,         (* when each ceremony was opened                         *)
  signed,         (* the ceremony each page has signed, 0 if none          *)
  told,           (* the pages that know their signature is the proof      *)
  clock

specVars == <<proof, receipt, history, opened, signed, told, clock>>

Init ==
  /\ proof = {} /\ receipt \in {{}, {OldReceipt}} /\ history = {}
  /\ opened = <<>>
  /\ signed = [p \in Page |-> 0] /\ told = {}
  /\ clock = 0

Sign(p, c) ==
  /\ signed[p] = 0
  /\ signed' = [signed EXCEPT ![p] = c]

(* A ceremony is opened, and may be signed at once,                        *)
Open(at) ==
  /\ opened' = Append(opened, at)
  /\ UNCHANGED signed \/ \E p \in Page : Sign(p, Len(opened) + 1)
  /\ UNCHANGED <<proof, receipt, history, told, clock>>

(* or by a later page.                                                     *)
SignOpen(p, c) ==
  /\ Sign(p, c)
  /\ UNCHANGED <<proof, receipt, history, opened, told, clock>>

Save(p, at) ==
  /\ proof = {}
  /\ signed[p] # 0
  /\ opened[signed[p]] <= at /\ at < opened[signed[p]] + Window
  /\ proof' = {[ceremony |-> signed[p], page |-> p, at |-> at]}
  /\ UNCHANGED <<receipt, history, opened, signed, told, clock>>

KeepReceipt ==
  /\ proof # {} /\ receipt \subseteq {OldReceipt}
  /\ history' = history \cup receipt
  /\ UNCHANGED <<proof, receipt, opened, signed, told, clock>>

SignedBy(p) == \E s \in proof : s.page = p /\ s.ceremony = signed[p]

(* The receipt is that of the proof, from now on or already; one page that *)
(* signed it may be told.                                                  *)
Publish ==
  /\ proof # {}
  /\ receipt = proof \/ receipt \subseteq history
  /\ receipt' = proof
  /\ UNCHANGED told \/ \E p \in Page : SignedBy(p) /\ told' = told \cup {p}
  /\ UNCHANGED <<proof, history, opened, signed, clock>>

Tick ==
  /\ clock' = clock + 1
  /\ UNCHANGED <<proof, receipt, history, opened, signed, told>>

Next ==
  \/ \E at \in 0..clock : Open(at)
  \/ \E p \in Page, c \in 1..Len(opened) : SignOpen(p, c)
  \/ \E p \in Page, at \in 0..clock : Save(p, at)
  \/ KeepReceipt \/ Publish \/ Tick

Spec == Init /\ [][Next]_specVars
==============================================================================
