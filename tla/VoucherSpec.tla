----------------------------- MODULE VoucherSpec ------------------------------
(***************************************************************************)
(* What the redemption of vouchers promises, with no sessions, snapshots,  *)
(* counts or gate: every question to the member, every answer and every    *)
(* write of a voucher happens at once, on the vouchers as they are.  A     *)
(* voucher that exists is spent by nothing but the one answer to a         *)
(* question that names it in the state it is in.                           *)
(***************************************************************************)
EXTENDS Naturals

CONSTANTS
  Checkout, Voucher, Seat, Order,
  Record          (* the states and expiries a voucher can have            *)

VARIABLES
  vouchers,       (* the state and the expiry of every voucher             *)
  asked,          (* at most one question by checkout: the seat, the       *)
                  (* order, the voucher, and the voucher's record          *)
  answered,       (* the answers to it                                     *)
  clock

specVars == <<vouchers, asked, answered, clock>>

Spendable(record) ==
  record.state \in {"issued", "reserved"} /\ record.expires >= clock

Init ==
  /\ \A v \in Voucher : vouchers[v].state # "redeemed"
  /\ asked = [c \in Checkout |-> {}]
  /\ answered = [c \in Checkout |-> <<>>]
  /\ clock = 0

(* No question is asked twice from one seat.                               *)
Ask(c, a, o, v, record) ==
  /\ Spendable(record)
  /\ asked[c] = {}
  /\ \A b \in Checkout : <<a, o, v, record>> \notin asked[b]
  /\ asked' = [asked EXCEPT ![c] = {<<a, o, v, record>>}]
  /\ UNCHANGED <<vouchers, answered, clock>>

Answer(c, answer) ==
  /\ answered[c] = <<>>
  /\ answered' = [answered EXCEPT ![c] = <<answer>>]
  /\ UNCHANGED <<asked, clock>>

Spend(c, a, o, v, record) ==
  /\ asked[c] = {<<a, o, v, record>>}
  /\ vouchers[v] = record /\ Spendable(record)
  /\ Answer(c, "CONSENT")
  /\ vouchers' = [vouchers EXCEPT ![v].state = "redeemed"]

Refuse(c) ==
  /\ asked[c] # {}
  /\ Answer(c, "DENY")
  /\ UNCHANGED vouchers

(* Created, in any state, voided, extended or reopened: anything but       *)
(* making a redeemed voucher of one that is not.                           *)
Manage(v, record) ==
  /\ record.state = "redeemed" => vouchers[v].state \in {"none", "redeemed"}
  /\ vouchers' = [vouchers EXCEPT ![v] = record]
  /\ UNCHANGED <<asked, answered, clock>>

Tick == clock' = clock + 1 /\ UNCHANGED <<vouchers, asked, answered>>

Next ==
  \/ Tick
  \/ \E c \in Checkout : Refuse(c)
  \/ \E v \in Voucher, record \in Record : Manage(v, record)
  \/ \E c \in Checkout, a \in Seat, o \in Order, v \in Voucher, record \in Record :
       Ask(c, a, o, v, record) \/ Spend(c, a, o, v, record)

Spec == Init /\ [][Next]_specVars
==============================================================================
