--------------------------- MODULE VoucherCheckout ---------------------------
(***************************************************************************)
(* Redeeming one member voucher at the counter:                            *)
(* wuchang_cafe_ai_gateway/models/sovereign_voucher_checkout.py, with      *)
(* WuchangMemberVoucher and WuchangCommunityFeatureGate of                 *)
(* wuchang_member_registration/models/member_registration.py.              *)
(*                                                                         *)
(* Staff look the member up, which opens a checkout, and request the       *)
(* redemption of the first available voucher for an order; the member      *)
(* consents or denies; consent redeems in the same transaction.  Meanwhile *)
(* vouchers are issued, created and rewritten by managers and expire, and  *)
(* an administrator switches the feature.  There is one member and one     *)
(* product, as the sandbox parameters demand; the organization may have    *)
(* several seats.  The seats, the staff account and the member's channel   *)
(* are taken to be in order.  A voucher's hash is its record.              *)
(***************************************************************************)
EXTENDS Transactions, Naturals, Sequences, FiniteSets

CONSTANTS
  MaxCheckouts,   (* bound on the checkouts opened                         *)
  MaxVouchers,    (* bound on the vouchers issued                          *)
  Initially,      (* vouchers the member starts with                       *)
  VoucherState,   (* "expired" and "void" are alike to every guard         *)
  Seat,           (* the organization's seats that may request           *)
  NoSeat,
  Order,          (* order references                                      *)
  NoOrder,
  Exact,          (* the number of vouchers a redemption demands: 10       *)
  MaxTime,        (* bound on the clock                                    *)
  MaxWrites       (* bound on what managers and administrators write       *)

ASSUME VoucherAssumption ==
  /\ MaxCheckouts \in Nat /\ MaxVouchers \in Nat
  /\ Initially \in 0..MaxVouchers
  /\ VoucherState \subseteq {"issued", "reserved", "redeemed", "expired", "void"}
  /\ {"issued", "redeemed"} \subseteq VoucherState
  /\ NoOrder \notin Order /\ NoSeat \notin Seat
  /\ Exact \in Nat \ {0}
  /\ MaxTime \in Nat /\ MaxWrites \in Nat

VARIABLES
  db,             (* checkouts, vouchers, gate                             *)
  ledger,         (* the member's consent events, by checkout              *)
  now,            (* the clock of the server                               *)
  granted,        (* history: vouchers that are as a manager created them, *)
                  (* redeemed                                              *)
  reissued,       (* history: how often managers undid a redemption        *)
  writes          (* number of managers' writes, for the bound             *)

histVars == <<granted, reissued>>
vars == <<tx, stale, db, ledger, now, histVars, writes>>

Checkout == 1..MaxCheckouts
Voucher == 1..MaxVouchers
Expiry == 0..(MaxTime + 1)      (* the last one is: never *)

NoVoucher == [state |-> "none", expires |-> 0]
Issued(e) == [state |-> "issued", expires |-> e]

NoCheckout ==
  [state |-> "none", seat |-> NoSeat, count |-> 0, order |-> NoOrder,
   voucher |-> 0, preimage |-> NoVoucher, after |-> 0]

Init ==
  /\ NoTransaction
  /\ db = [checkouts |-> [c \in Checkout |-> NoCheckout],
           vouchers  |-> [v \in Voucher |->
                            IF v <= Initially THEN Issued(MaxTime + 1) ELSE NoVoucher],
           gate      |-> TRUE]
  /\ ledger = [c \in Checkout |-> <<>>]
  /\ now = 0
  /\ granted = {}
  /\ reissued = [v \in Voucher |-> 0]
  /\ writes = 0

-----------------------------------------------------------------------------
Redeemable(vouchers, v) ==
  vouchers[v].state \in {"issued", "reserved"} /\ vouchers[v].expires >= now

(* _available_vouchers, and the first of them in its order.                *)
Available(vouchers) == {v \in Voucher : Redeemable(vouchers, v)}

Before(vouchers, v, w) ==
  \/ vouchers[v].expires < vouchers[w].expires
  \/ vouchers[v].expires = vouchers[w].expires /\ v <= w

IsFirst(vouchers, v) ==
  /\ v \in Available(vouchers)
  /\ \A w \in Available(vouchers) : Before(vouchers, v, w)

(* What the idempotency key of a requested checkout is the hash of.        *)
Key(q) == <<q.seat, q.order, q.voucher, q.preimage>>
Requested(q) ==
  q.state \in {"pending_owner_confirmation", "consumed", "rejected"}

-----------------------------------------------------------------------------
Open(s) ==
  /\ Opened(s, db)
  /\ UNCHANGED <<db, ledger, now, histVars, writes>>

(* Also the calls that only answer with the status of a checkout.          *)
Abort(s) ==
  /\ RolledBack(s)
  /\ UNCHANGED <<db, ledger, now, histVars, writes>>

(* preview_red_tea_entitlement.                                            *)
Preview(s) ==
  \E d \in tx[s], c \in Checkout, seat \in Seat :
    /\ d.gate
    /\ db.checkouts[c] = NoCheckout
    /\ \A b \in 1..(c - 1) : db.checkouts[b] # NoCheckout
    /\ Committed(s, {}, {<<"checkout", c>>})
    /\ db' = [db EXCEPT !.checkouts[c].state = "lookup_verified",
                        !.checkouts[c].seat = seat,
                        !.checkouts[c].count = Cardinality(Available(d.vouchers))]
    /\ UNCHANGED <<ledger, now, histVars, writes>>

(* Faulty variant: only the search for a duplicate, no unique constraint.  *)
KeyIsFree_SearchOnly(d, c, q) ==
  \A b \in Checkout \ {c} :
    Requested(d.checkouts[b]) => Key(d.checkouts[b]) # Key(q)

(* The search for a duplicate, and checkout_idempotency_unique, which sees *)
(* what the snapshot does not.                                             *)
KeyIsFree(d, c, q) ==
  \A b \in Checkout \ {c} :
    /\ Requested(d.checkouts[b]) => Key(d.checkouts[b]) # Key(q)
    /\ Requested(db.checkouts[b]) => Key(db.checkouts[b]) # Key(q)

(* request_red_tea_redeem.                                                 *)
Request(s) ==
  \E d \in tx[s], c \in Checkout, o \in Order, v \in Voucher :
    LET q == [d.checkouts[c] EXCEPT
                !.state = "pending_owner_confirmation", !.order = o,
                !.voucher = v, !.preimage = d.vouchers[v]] IN
    /\ d.gate
    /\ d.checkouts[c].state = "lookup_verified"
    /\ d.checkouts[c].count = Cardinality(Available(d.vouchers))
    /\ d.checkouts[c].count = Exact
    /\ IsFirst(d.vouchers, v)
    /\ KeyIsFree(d, c, q)
    /\ Committed(s, {}, {<<"checkout", c>>})
    /\ db' = [db EXCEPT !.checkouts[c] = q]
    /\ UNCHANGED <<ledger, now, histVars, writes>>

(* append_member_consent_candidate.                                        *)
Decided(c, decision) == ledger' = [ledger EXCEPT ![c] = Append(@, decision)]

(* Faulty variant: the vouchers are not counted again.                     *)
Executable_NoRecount(d, q) ==
  /\ d.vouchers[q.voucher] = q.preimage
  /\ Redeemable(d.vouchers, q.voucher)

(* Faulty variant: the voucher may have been rewritten since the request.  *)
Executable_AnyHash(d, q) ==
  /\ Cardinality(Available(d.vouchers)) = q.count /\ q.count = Exact
  /\ Redeemable(d.vouchers, q.voucher)

(* The conditions of _execute_authorized and of                            *)
(* _redeem_from_verified_sovereign_checkout.                               *)
Executable(d, q) ==
  /\ Cardinality(Available(d.vouchers)) = q.count /\ q.count = Exact
  /\ Redeemable(d.vouchers, q.voucher)
  /\ d.vouchers[q.voucher] = q.preimage

(* confirm_for_current_member with approve: the consent, the authorization *)
(* and the redemption are one transaction.                                 *)
Consent(s) ==
  \E d \in tx[s], c \in Checkout :
    LET q == d.checkouts[c] IN
    /\ q.state = "pending_owner_confirmation"
    /\ Executable(d, q)
    /\ Committed(s, {<<"voucher", q.voucher>>},
                 {<<"checkout", c>>, <<"voucher", q.voucher>>})
    /\ db' = [db EXCEPT !.checkouts[c].state = "consumed",
                        !.checkouts[c].after = q.count - 1,
                        !.vouchers[q.voucher].state = "redeemed"]
    /\ Decided(c, "CONSENT")
    /\ UNCHANGED <<now, histVars, writes>>

Deny(s) ==
  \E d \in tx[s], c \in Checkout :
    /\ d.checkouts[c].state = "pending_owner_confirmation"
    /\ Committed(s, {}, {<<"checkout", c>>})
    /\ db' = [db EXCEPT !.checkouts[c].state = "rejected"]
    /\ Decided(c, "DENY")
    /\ UNCHANGED <<now, histVars, writes>>

-----------------------------------------------------------------------------
(* create(): the next voucher of the member.                               *)
Created(s, record) ==
  \E v \in Voucher :
    /\ tx[s] # {}
    /\ db.vouchers[v] = NoVoucher
    /\ \A w \in 1..(v - 1) : db.vouchers[w] # NoVoucher
    /\ Committed(s, {}, {<<"voucher", v>>})
    /\ db' = [db EXCEPT !.vouchers[v] = record]
    /\ granted' = IF record.state = "redeemed" THEN granted \cup {v} ELSE granted
    /\ UNCHANGED <<ledger, now, reissued, writes>>

(* issue_from_authority.                                                   *)
Issue(s) ==
  \E e \in Expiry :
    /\ e >= now
    /\ Created(s, Issued(e))

(* A manager's own create(), which asks for no token whatever the state.   *)
ManagerCreate(s) ==
  \E state \in VoucherState, e \in Expiry :
    Created(s, [state |-> state, expires |-> e])

(* Faulty variant: write() lets a manager redeem.                          *)
Writable_Redeemed(record) == VoucherState

(* What a manager's write() may leave: any state but redeemed, or the      *)
(* state there is, when state is not among what is written.                *)
Writable(record) == (VoucherState \ {"redeemed"}) \cup {record.state}

(* Leaving "redeemed" ends what a manager created, or undoes a redemption. *)
Reopened(v) ==
  \/ v \in granted /\ granted' = granted \ {v} /\ UNCHANGED reissued
  \/ /\ v \notin granted /\ reissued' = [reissued EXCEPT ![v] = @ + 1]
     /\ UNCHANGED granted

(* write() by a manager.                                                   *)
ManagerWrite(s) ==
  \E d \in tx[s], v \in Voucher, e \in Expiry :
    \E state \in Writable(d.vouchers[v]) :
      /\ writes < MaxWrites
      /\ d.vouchers[v] # NoVoucher
      /\ Committed(s, {}, {<<"voucher", v>>})
      /\ db' = [db EXCEPT !.vouchers[v] = [state |-> state, expires |-> e]]
      /\ IF d.vouchers[v].state = "redeemed" /\ state # "redeemed"
         THEN Reopened(v) ELSE UNCHANGED histVars
      /\ writes' = writes + 1
      /\ UNCHANGED <<ledger, now>>

SetGate(s) ==
  \E d \in tx[s] :
    /\ writes < MaxWrites
    /\ Committed(s, {}, {<<"gate">>})
    /\ db' = [db EXCEPT !.gate = ~d.gate]
    /\ writes' = writes + 1
    /\ UNCHANGED <<ledger, now, histVars>>

(* Time passes; an expiry is no write.                                     *)
Tick ==
  /\ now < MaxTime
  /\ now' = now + 1
  /\ UNCHANGED <<tx, stale, db, ledger, histVars, writes>>

Next ==
  \/ Tick
  \/ \E s \in Session :
       \/ Open(s) \/ Abort(s)
       \/ Preview(s) \/ Request(s) \/ Consent(s) \/ Deny(s)
       \/ Issue(s) \/ ManagerCreate(s) \/ ManagerWrite(s) \/ SetGate(s)

Spec == Init /\ [][Next]_vars

-----------------------------------------------------------------------------
VoucherRecord == [state : VoucherState \cup {"none"}, expires : Expiry]

CheckoutRecord ==
  [state : {"none", "lookup_verified", "pending_owner_confirmation", "consumed",
            "rejected"},
   seat : Seat \cup {NoSeat}, count : Nat, order : Order \cup {NoOrder}, voucher : Voucher \cup {0},
   preimage : VoucherRecord, after : Nat]

Database ==
  [checkouts : [Checkout -> CheckoutRecord], vouchers : [Voucher -> VoucherRecord],
   gate : BOOLEAN]

TypeOK ==
  /\ db \in Database
  /\ tx \in [Session -> SUBSET Database]
  /\ ledger \in [Checkout -> Seq({"CONSENT", "DENY"})]
  /\ now \in 0..MaxTime
  /\ granted \subseteq Voucher /\ reissued \in [Voucher -> Nat]
  /\ writes \in Nat

ConsumedBy(v) ==
  {c \in Checkout : db.checkouts[c].state = "consumed" /\ db.checkouts[c].voucher = v}

(* No voucher is redeemed for two orders, however many checkouts, retried  *)
(* confirmations, seats and sessions compete for it, unless a manager      *)
(* undid a redemption.                                                     *)
RedeemedOnce ==
  \A v \in Voucher : Cardinality(ConsumedBy(v)) <= 1 + reissued[v]

RedeemedByCheckout ==
  \A v \in Voucher \ granted :
    db.vouchers[v].state = "redeemed" => ConsumedBy(v) # {}

DecidedOnce ==
  \A c \in Checkout :
    ledger[c] = CASE db.checkouts[c].state = "consumed" -> <<"CONSENT">>
                  [] db.checkouts[c].state = "rejected" -> <<"DENY">>
                  [] OTHER -> <<>>

(* HOLD_MEMBER_OWNER_CONFIRMATION_REQUIRED: behind a redeemed voucher is a *)
(* consumed checkout, and behind that the member's consent, unless a       *)
(* manager created the voucher redeemed.  A checkout is decided once, and  *)
(* what the member said is what happened, also when consent and denial of  *)
(* one checkout are in flight together.                                    *)
RedeemedByConsent == RedeemedByCheckout /\ DecidedOnce

(* At one seat an order never holds two checkouts for one state of one     *)
(* voucher: a repeated request is answered with the first.  Another seat   *)
(* may hold one for the same order; RedeemedOnce is what keeps the member  *)
(* from paying twice.                                                      *)
OneCheckoutPerKey ==
  \A b, c \in Checkout :
    /\ b # c
    /\ Requested(db.checkouts[b]) /\ Requested(db.checkouts[c])
    => Key(db.checkouts[b]) # Key(db.checkouts[c])

BecomesConsumed(c) ==
  db.checkouts[c].state # "consumed" /\ db'.checkouts[c].state = "consumed"

(* HOLD_VOUCHER_PREIMAGE_HASH_MISMATCH: what is redeemed is the voucher    *)
(* the member was asked about, in the state it had then, and it had not    *)
(* expired.                                                                *)
RedeemsWhatWasRequested ==
  [][\A c \in Checkout :
       LET q == db.checkouts[c] IN
       BecomesConsumed(c) =>
         /\ db.vouchers[q.voucher] = q.preimage
         /\ q.preimage.expires >= now
         /\ db'.vouchers = [db.vouchers EXCEPT ![q.voucher].state = "redeemed"]]_vars

(* HOLD_SANDBOX_REQUIRES_EXACT_10_TO_9_EFFECT: the evidence of a           *)
(* redemption counts the member's vouchers right, as long as no other      *)
(* voucher was written while the confirmation ran.                         *)
EffectIsExact ==
  [][\A c \in Checkout, s \in Session :
       /\ BecomesConsumed(c)
       /\ tx[s] # {} /\ tx'[s] = {}
       /\ stale[s] \cap {<<"voucher", v>> : v \in Voucher} = {}
       => /\ Cardinality(Available(db.vouchers)) = Exact
          /\ Cardinality(Available(db'.vouchers)) = db'.checkouts[c].after]_vars

Asked(checkouts) ==
  [c \in Checkout |->
     IF Requested(checkouts[c]) THEN {Key(checkouts[c])} ELSE {}]

(* The calls, which work on snapshots and whose commits interleave, do to  *)
(* the vouchers, the questions and the member's answers what calls that    *)
(* are alone would do: nothing decides on a voucher as it no longer is,    *)
(* and consent and denial of one checkout exclude each other.              *)
Promise == INSTANCE VoucherSpec WITH
             Record <- VoucherRecord, vouchers <- db.vouchers,
             asked <- Asked(db.checkouts), answered <- ledger, clock <- now
KeepsPromise == Promise!Spec
==============================================================================
