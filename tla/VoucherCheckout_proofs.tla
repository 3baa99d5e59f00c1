----------------------- MODULE VoucherCheckout_proofs ------------------------
(***************************************************************************)
(* Proofs about VoucherCheckout, for any sessions, orders and bounds.  A   *)
(* call that commits read the rows it writes or locks as they still are    *)
(* (SnapshotInv); a redemption locks its voucher and writes its checkout.  *)
(***************************************************************************)
EXTENDS VoucherCheckout, FiniteSetTheorems, TLAPS

USE DEF histVars

(* A snapshot differs from the database in stale rows only.                *)
SnapshotOf(s, d) ==
  /\ \A c \in Checkout : <<"checkout", c>> \notin stale[s]
                           => d.checkouts[c] = db.checkouts[c]
  /\ \A v \in Voucher : <<"voucher", v>> \notin stale[s]
                           => d.vouchers[v] = db.vouchers[v]

SnapshotInv == \A s \in Session : \A d \in tx[s] : SnapshotOf(s, d)

(* A voucher that is not redeemed now, or only because a manager created   *)
(* it so, was redeemed as often as managers undid it.                      *)
RedeemInv ==
  \A v \in Voucher :
    /\ Cardinality(ConsumedBy(v)) <= 1 + reissued[v]
    /\ db.vouchers[v].state # "redeemed" \/ v \in granted
         => Cardinality(ConsumedBy(v)) <= reissued[v]

GrantedInv == \A v \in granted : db.vouchers[v].state = "redeemed"

(* A checkout is opened at a seat; a requested one names an order and a    *)
(* voucher.                                                                *)
NamesVoucher ==
  \A c \in Checkout :
    /\ db.checkouts[c].state # "none" => db.checkouts[c].seat \in Seat
    /\ Requested(db.checkouts[c]) => /\ db.checkouts[c].voucher \in Voucher
                                     /\ db.checkouts[c].order \in Order

IInv ==
  /\ TypeOK /\ SnapshotInv /\ RedeemInv /\ GrantedInv /\ NamesVoucher
  /\ RedeemedByCheckout /\ DecidedOnce /\ OneCheckoutPerKey

-----------------------------------------------------------------------------
(* The rows a committing call writes or locks are as it read them.         *)
LEMMA RowIsCurrent ==
  ASSUME SnapshotInv, NEW s \in Session, NEW d \in tx[s],
         NEW locked, NEW written, Committed(s, locked, written)
  PROVE  /\ \A c \in Checkout : <<"checkout", c>> \in locked \cup written
                                 => d.checkouts[c] = db.checkouts[c]
         /\ \A v \in Voucher : <<"voucher", v>> \in locked \cup written
                                 => d.vouchers[v] = db.vouchers[v]
  BY DEF Committed, SnapshotInv, SnapshotOf

(* A commit that changes the rows it says it writes keeps the snapshots.   *)
LEMMA CommitKeepsSnapshots ==
  ASSUME TypeOK, SnapshotInv, NEW s \in Session, NEW locked, NEW written,
         Committed(s, locked, written),
         \A c \in Checkout : <<"checkout", c>> \notin written
                               => db'.checkouts[c] = db.checkouts[c],
         \A v \in Voucher : <<"voucher", v>> \notin written
                               => db'.vouchers[v] = db.vouchers[v]
  PROVE  SnapshotInv' /\ tx' \in [Session -> SUBSET Database]
  <1>1. tx' \in [Session -> SUBSET Database]
    BY DEF Committed, TypeOK
  <1>2. ASSUME NEW t \in Session, NEW d \in tx'[t] PROVE SnapshotOf(t, d)'
    <2>1. t # s /\ d \in tx[t] /\ stale'[t] = stale[t] \cup written
      BY <1>2 DEF Committed, TypeOK
    <2>2. SnapshotOf(t, d)
      BY <2>1 DEF SnapshotInv
    <2> QED BY <2>1, <2>2 DEF SnapshotOf
  <1> QED BY <1>1, <1>2 DEF SnapshotInv

(* The members of a snapshot are databases.                                *)
LEMMA SnapshotType ==
  ASSUME TypeOK, NEW s \in Session, NEW d \in tx[s]
  PROVE  d \in Database
  BY DEF TypeOK

(* The checkouts and the vouchers are finitely many.                       *)
LEMMA FiniteRows ==
  /\ IsFiniteSet(Checkout) /\ IsFiniteSet(Voucher)
  /\ \A v : IsFiniteSet(ConsumedBy(v))
  /\ \A f : IsFiniteSet(Available(f))
  <1>1. IsFiniteSet(Checkout) /\ IsFiniteSet(Voucher)
    BY FS_Interval, VoucherAssumption DEF Checkout, Voucher
  <1>2. ASSUME NEW v PROVE IsFiniteSet(ConsumedBy(v))
    BY <1>1, FS_Subset DEF ConsumedBy
  <1>3. ASSUME NEW f PROVE IsFiniteSet(Available(f))
    BY <1>1, FS_Subset DEF Available
  <1> QED BY <1>1, <1>2, <1>3

(* What an invariant of the rows needs of a call that writes one checkout. *)
CheckoutCall(c, q) ==
  /\ q \in CheckoutRecord
  /\ db' = [db EXCEPT !.checkouts[c] = q]
  /\ db' \in Database /\ db'.checkouts[c] = q
  /\ \A b \in Checkout \ {c} : db'.checkouts[b] = db.checkouts[b]
  /\ db'.vouchers = db.vouchers /\ UNCHANGED histVars

(* A write of one checkout record is such a call.                          *)
LEMMA CheckoutWritten ==
  ASSUME TypeOK, NEW c \in Checkout, NEW q \in CheckoutRecord,
         db' = [db EXCEPT !.checkouts[c] = q], UNCHANGED histVars
  PROVE  CheckoutCall(c, q)
  BY DEF TypeOK, Database, CheckoutCall

(* The counts of redemptions stay, unless a checkout becomes consumed.     *)
LEMMA SameConsumed ==
  ASSUME TypeOK, NEW c \in Checkout, NEW q \in CheckoutRecord, CheckoutCall(c, q),
         db.checkouts[c].state # "consumed", q.state # "consumed"
  PROVE  \A v : ConsumedBy(v)' = ConsumedBy(v)
  BY DEF CheckoutCall, ConsumedBy

(* The empty records are records.                                          *)
LEMMA EmptyRecords == NoVoucher \in VoucherRecord /\ NoCheckout \in CheckoutRecord
  <1>1. 0 \in Expiry
    BY VoucherAssumption DEF Expiry
  <1>2. NoVoucher \in VoucherRecord
    BY <1>1 DEF NoVoucher, VoucherRecord
  <1> HIDE DEF NoVoucher
  <1>3. NoCheckout \in CheckoutRecord
    BY <1>2 DEF NoCheckout, CheckoutRecord
  <1> QED BY <1>2, <1>3

(* One decision more in the ledger of an undecided checkout.               *)
LEMMA LedgerWritten ==
  ASSUME TypeOK, DecidedOnce, NEW c \in Checkout, NEW decision \in {"CONSENT", "DENY"},
         db.checkouts[c].state = "pending_owner_confirmation", Decided(c, decision)
  PROVE  /\ ledger'[c] = <<decision>>
         /\ \A b \in Checkout \ {c} : ledger'[b] = ledger[b]
         /\ ledger' \in [Checkout -> Seq({"CONSENT", "DENY"})]
  <1>1. ledger[c] = <<>>
    BY DEF DecidedOnce
  <1>2. ledger' = [ledger EXCEPT ![c] = Append(@, decision)]
    BY DEF Decided
  <1>3. ledger'[c] = Append(<<>>, decision) /\ ledger \in [Checkout -> Seq({"CONSENT", "DENY"})]
    BY <1>1, <1>2 DEF TypeOK
  <1>4. Append(<<>>, decision) = <<decision>> /\ <<decision>> \in Seq({"CONSENT", "DENY"})
    OBVIOUS
  <1> QED BY <1>2, <1>3, <1>4

-----------------------------------------------------------------------------
(* Looking the member up writes a new checkout.                            *)
LEMMA PreviewStep ==
  ASSUME IInv, NEW s \in Session, Preview(s)
  PROVE  IInv'
  <1>1. PICK d \in tx[s], c \in Checkout, seat \in Seat :
          /\ db.checkouts[c] = NoCheckout
          /\ Committed(s, {}, {<<"checkout", c>>})
          /\ db' = [db EXCEPT !.checkouts[c].state = "lookup_verified",
                              !.checkouts[c].seat = seat,
                              !.checkouts[c].count = Cardinality(Available(d.vouchers))]
          /\ UNCHANGED <<ledger, now, histVars, writes>>
    BY DEF Preview
  <1> DEFINE q == [NoCheckout EXCEPT !.state = "lookup_verified", !.seat = seat,
                                     !.count = Cardinality(Available(d.vouchers))]
  <1>2. Cardinality(Available(d.vouchers)) \in Nat
    BY FiniteRows, FS_CardinalityType
  <1>3. q \in CheckoutRecord
    BY <1>2, EmptyRecords DEF CheckoutRecord
  <1>4. db' = [db EXCEPT !.checkouts[c] = q]
    BY <1>1 DEF IInv, TypeOK, Database
  <1>5. q.state = "lookup_verified" /\ q.seat \in Seat
    BY DEF NoCheckout
  <1> HIDE DEF q
  <1>6. CheckoutCall(c, q)
    BY <1>1, <1>3, <1>4, CheckoutWritten DEF IInv
  <1>7. db.checkouts[c].state = "none"
    BY <1>1 DEF NoCheckout
  <1>8. SnapshotInv' /\ tx' \in [Session -> SUBSET Database]
    BY <1>1, <1>6, CommitKeepsSnapshots DEF IInv, CheckoutCall
  <1>9. TypeOK'
    BY <1>1, <1>6, <1>8 DEF IInv, TypeOK, CheckoutCall
  <1>10. \A v : ConsumedBy(v)' = ConsumedBy(v)
    BY <1>3, <1>5, <1>6, <1>7, SameConsumed DEF IInv
  <1>11. RedeemInv' /\ GrantedInv' /\ RedeemedByCheckout'
    BY <1>6, <1>10 DEF IInv, RedeemInv, GrantedInv, RedeemedByCheckout, CheckoutCall
  <1>12. DecidedOnce'
    BY <1>1, <1>5, <1>6, <1>7 DEF IInv, DecidedOnce, CheckoutCall
  <1>13. OneCheckoutPerKey' /\ NamesVoucher'
    BY <1>5, <1>6 DEF IInv, OneCheckoutPerKey, NamesVoucher, CheckoutCall, Requested
  <1> QED BY <1>8, <1>9, <1>11, <1>12, <1>13 DEF IInv

(* The checkout a request leaves.                                          *)
AskedFor(d, c, o, v) ==
  [d.checkouts[c] EXCEPT !.state = "pending_owner_confirmation", !.order = o,
                         !.voucher = v, !.preimage = d.vouchers[v]]

(* What of request_red_tea_redeem the proofs speak of.                     *)
LEMMA RequestFacts ==
  ASSUME NEW s \in Session, Request(s)
  PROVE  \E d \in tx[s], c \in Checkout, o \in Order, v \in Voucher :
           /\ Redeemable(d.vouchers, v)
           /\ d.checkouts[c].state = "lookup_verified"
           /\ KeyIsFree(d, c, AskedFor(d, c, o, v))
           /\ Committed(s, {}, {<<"checkout", c>>})
           /\ db' = [db EXCEPT !.checkouts[c] = AskedFor(d, c, o, v)]
           /\ UNCHANGED <<ledger, now, histVars, writes>>
  <1>1. PICK d \in tx[s], c \in Checkout, o \in Order, v \in Voucher :
          LET q == [d.checkouts[c] EXCEPT
                      !.state = "pending_owner_confirmation", !.order = o,
                      !.voucher = v, !.preimage = d.vouchers[v]] IN
          /\ d.gate
          /\ d.checkouts[c].state = "lookup_verified"
          /\ d.checkouts[c].count = Cardinality(Available(d.vouchers))
          /\ d.checkouts[c].count = Exact
          /\ IsFirst(d.vouchers, v)
          /\ KeyIsFree(d, c, q)
          /\ Committed(s, {}, {<<"checkout", c>>})
          /\ db' = [db EXCEPT !.checkouts[c] = q]
          /\ UNCHANGED <<ledger, now, histVars, writes>>
    BY Zenon DEF Request
  <1>2. /\ KeyIsFree(d, c, AskedFor(d, c, o, v))
        /\ db' = [db EXCEPT !.checkouts[c] = AskedFor(d, c, o, v)]
    BY <1>1 DEF AskedFor
  <1>3. Redeemable(d.vouchers, v)
    BY <1>1 DEF IsFirst, Available
  <1> QED BY <1>1, <1>2, <1>3

(* A requested checkout is a record, and pending.                          *)
LEMMA AskedForType ==
  ASSUME NEW d \in Database, NEW c \in Checkout, NEW o \in Order, NEW v \in Voucher
  PROVE  /\ AskedFor(d, c, o, v) \in CheckoutRecord
         /\ AskedFor(d, c, o, v).state = "pending_owner_confirmation"
         /\ AskedFor(d, c, o, v).voucher = v
         /\ AskedFor(d, c, o, v).order = o
         /\ AskedFor(d, c, o, v).seat = d.checkouts[c].seat
         /\ Key(AskedFor(d, c, o, v)) = <<d.checkouts[c].seat, o, v, d.vouchers[v]>>
  <1>1. d.checkouts[c] \in CheckoutRecord /\ d.vouchers[v] \in VoucherRecord
    BY DEF Database
  <1> QED BY <1>1 DEF AskedFor, CheckoutRecord, Key

(* Requesting takes a key no other requested checkout has.                 *)
LEMMA RequestStep ==
  ASSUME IInv, NEW s \in Session, Request(s)
  PROVE  IInv'
  <1>1. PICK d \in tx[s], c \in Checkout, o \in Order, v \in Voucher :
          /\ Redeemable(d.vouchers, v)
          /\ d.checkouts[c].state = "lookup_verified"
          /\ KeyIsFree(d, c, AskedFor(d, c, o, v))
          /\ Committed(s, {}, {<<"checkout", c>>})
          /\ db' = [db EXCEPT !.checkouts[c] = AskedFor(d, c, o, v)]
          /\ UNCHANGED <<ledger, now, histVars, writes>>
    BY RequestFacts
  <1> DEFINE q == AskedFor(d, c, o, v)
  <1>2. d \in Database
    BY SnapshotType DEF IInv
  <1>3. q \in CheckoutRecord
    BY <1>2, AskedForType
  <1>4. /\ q.state = "pending_owner_confirmation" /\ q.voucher = v /\ q.order = o
        /\ q.seat = d.checkouts[c].seat
    BY <1>2, AskedForType
  <1>5. KeyIsFree(d, c, q) /\ db' = [db EXCEPT !.checkouts[c] = q]
    BY <1>1
  <1> HIDE DEF q
  <1>6. CheckoutCall(c, q)
    BY <1>1, <1>3, <1>5, CheckoutWritten DEF IInv
  <1>7. /\ db.checkouts[c].state = "lookup_verified"
        /\ d.checkouts[c] = db.checkouts[c]
    BY <1>1, RowIsCurrent DEF IInv
  <1>8. SnapshotInv' /\ tx' \in [Session -> SUBSET Database]
    BY <1>1, <1>6, CommitKeepsSnapshots DEF IInv, CheckoutCall
  <1>9. TypeOK'
    BY <1>1, <1>6, <1>8 DEF IInv, TypeOK, CheckoutCall
  <1>10. \A w : ConsumedBy(w)' = ConsumedBy(w)
    BY <1>3, <1>4, <1>6, <1>7, SameConsumed DEF IInv
  <1>11. RedeemInv' /\ GrantedInv' /\ RedeemedByCheckout'
    BY <1>6, <1>10 DEF IInv, RedeemInv, GrantedInv, RedeemedByCheckout, CheckoutCall
  <1>12. DecidedOnce'
    BY <1>1, <1>4, <1>6, <1>7 DEF IInv, DecidedOnce, CheckoutCall
  <1>13. OneCheckoutPerKey'
    BY <1>5, <1>6 DEF IInv, OneCheckoutPerKey, CheckoutCall, KeyIsFree
  <1>14. NamesVoucher'
    BY <1>4, <1>6, <1>7 DEF IInv, NamesVoucher, CheckoutCall
  <1> QED BY <1>8, <1>9, <1>11, <1>12, <1>13, <1>14 DEF IInv

(* A denial ends a pending checkout.                                       *)
LEMMA DenyStep ==
  ASSUME IInv, NEW s \in Session, Deny(s)
  PROVE  IInv'
  <1>1. PICK d \in tx[s], c \in Checkout :
          /\ d.checkouts[c].state = "pending_owner_confirmation"
          /\ Committed(s, {}, {<<"checkout", c>>})
          /\ db' = [db EXCEPT !.checkouts[c].state = "rejected"]
          /\ Decided(c, "DENY")
          /\ UNCHANGED <<now, histVars, writes>>
    BY DEF Deny
  <1> DEFINE old == db.checkouts[c]
             q == [old EXCEPT !.state = "rejected"]
  <1>2. old \in CheckoutRecord
    BY DEF IInv, TypeOK, Database
  <1>3. /\ q \in CheckoutRecord /\ q.state = "rejected"
        /\ q.voucher = old.voucher /\ q.order = old.order /\ q.seat = old.seat
        /\ Key(q) = Key(old)
    BY <1>2 DEF CheckoutRecord, Key
  <1>4. db' = [db EXCEPT !.checkouts[c] = q]
    BY <1>1 DEF IInv, TypeOK, Database
  <1> HIDE DEF q
  <1>6. CheckoutCall(c, q)
    BY <1>1, <1>3, <1>4, CheckoutWritten DEF IInv
  <1>7. old.state = "pending_owner_confirmation"
    BY <1>1, RowIsCurrent DEF IInv
  <1>8. SnapshotInv' /\ tx' \in [Session -> SUBSET Database]
    BY <1>1, <1>6, CommitKeepsSnapshots DEF IInv, CheckoutCall
  <1>9. /\ ledger'[c] = <<"DENY">>
        /\ \A b \in Checkout \ {c} : ledger'[b] = ledger[b]
        /\ ledger' \in [Checkout -> Seq({"CONSENT", "DENY"})]
    BY <1>1, <1>7, LedgerWritten DEF IInv
  <1>10. TypeOK'
    BY <1>1, <1>6, <1>8, <1>9 DEF IInv, TypeOK, CheckoutCall
  <1>11. \A v : ConsumedBy(v)' = ConsumedBy(v)
    BY <1>3, <1>6, <1>7, SameConsumed DEF IInv
  <1>12. RedeemInv' /\ GrantedInv' /\ RedeemedByCheckout'
    BY <1>6, <1>11 DEF IInv, RedeemInv, GrantedInv, RedeemedByCheckout, CheckoutCall
  <1>13. DecidedOnce'
    BY <1>3, <1>6, <1>9 DEF IInv, DecidedOnce, CheckoutCall
  <1>14. OneCheckoutPerKey'
    BY <1>3, <1>6, <1>7 DEF IInv, OneCheckoutPerKey, CheckoutCall, Requested
  <1>15. NamesVoucher'
    BY <1>3, <1>6, <1>7 DEF IInv, NamesVoucher, CheckoutCall, Requested
  <1> QED BY <1>8, <1>10, <1>12, <1>13, <1>14, <1>15 DEF IInv

(* What a consent writes: its checkout and the voucher it redeems.         *)
RedeemCall(c, q, v, w) ==
  /\ db'.checkouts = [db.checkouts EXCEPT ![c] = q]
  /\ db'.vouchers = [db.vouchers EXCEPT ![v] = w]
  /\ db' \in Database
  /\ UNCHANGED histVars

(* What a consent of checkout c does to voucher v, told of the database.   *)
ConsentCall(s, d, c, q, v, w) ==
  LET old == db.checkouts[c] IN
  /\ old.state = "pending_owner_confirmation" /\ old.voucher = v
  /\ d.vouchers[v] = db.vouchers[v] /\ Executable(d, old)
  /\ q = [old EXCEPT !.state = "consumed", !.after = old.count - 1]
  /\ w = [db.vouchers[v] EXCEPT !.state = "redeemed"]
  /\ Committed(s, {<<"voucher", v>>}, {<<"checkout", c>>, <<"voucher", v>>})
  /\ RedeemCall(c, q, v, w)
  /\ Decided(c, "CONSENT")
  /\ UNCHANGED <<now, histVars, writes>>

(* Every consent is such a step.                                           *)
LEMMA ConsentFacts ==
  ASSUME IInv, NEW s \in Session, Consent(s)
  PROVE  \E d \in tx[s], c \in Checkout, q \in CheckoutRecord, v \in Voucher,
            w \in VoucherRecord : ConsentCall(s, d, c, q, v, w)
  <1>1. PICK d \in tx[s], c \in Checkout :
          LET q == d.checkouts[c] IN
          /\ q.state = "pending_owner_confirmation"
          /\ Executable(d, q)
          /\ Committed(s, {<<"voucher", q.voucher>>},
                       {<<"checkout", c>>, <<"voucher", q.voucher>>})
          /\ db' = [db EXCEPT !.checkouts[c].state = "consumed",
                              !.checkouts[c].after = q.count - 1,
                              !.vouchers[q.voucher].state = "redeemed"]
          /\ Decided(c, "CONSENT")
          /\ UNCHANGED <<now, histVars, writes>>
    BY DEF Consent
  <1> DEFINE old == db.checkouts[c]
  <1>2. d \in Database /\ db \in Database
    BY SnapshotType DEF IInv, TypeOK
  <1>3. d.checkouts[c] = old
    <2>1. PICK row : Committed(s, {row}, {<<"checkout", c>>, row})
      BY <1>1
    <2> DEFINE locked == {row}
               written == {<<"checkout", c>>, row}
    <2>2. <<"checkout", c>> \in locked \cup written
      OBVIOUS
    <2>3. Committed(s, locked, written)
      BY <2>1
    <2> HIDE DEF locked, written
    <2> QED BY <2>2, <2>3, RowIsCurrent DEF IInv
  <1>4. PICK v : v = old.voucher
    OBVIOUS
  <1>5. /\ old.state = "pending_owner_confirmation" /\ Executable(d, old)
        /\ Committed(s, {<<"voucher", v>>}, {<<"checkout", c>>, <<"voucher", v>>})
        /\ db' = [db EXCEPT !.checkouts[c].state = "consumed",
                            !.checkouts[c].after = old.count - 1,
                            !.vouchers[v].state = "redeemed"]
    BY <1>1, <1>3, <1>4
  <1>6. v \in Voucher /\ d.vouchers[v] = db.vouchers[v]
    <2>1. v \in Voucher
      BY <1>4, <1>5 DEF IInv, NamesVoucher, Requested
    <2> QED BY <1>5, <2>1, RowIsCurrent DEF IInv
  <1>7. old \in CheckoutRecord /\ db.vouchers[v] \in VoucherRecord
    BY <1>2, <1>6 DEF Database
  <1>8. old.count - 1 \in Nat
    BY <1>5, <1>7, VoucherAssumption DEF Executable, CheckoutRecord
  <1>9. PICK q \in CheckoutRecord :
          q = [old EXCEPT !.state = "consumed", !.after = old.count - 1]
    BY <1>7, <1>8 DEF CheckoutRecord
  <1>10. PICK w \in VoucherRecord : w = [db.vouchers[v] EXCEPT !.state = "redeemed"]
    BY <1>7, VoucherAssumption DEF VoucherRecord
  <1>11. db' = [checkouts |-> [db.checkouts EXCEPT ![c] = q],
                vouchers |-> [db.vouchers EXCEPT ![v] = w], gate |-> db.gate]
    BY <1>2, <1>5, <1>6, <1>9, <1>10 DEF Database
  <1>12. db' \in Database
    BY <1>2, <1>6, <1>11 DEF Database
  <1>13. RedeemCall(c, q, v, w)
    <2>1. /\ db'.checkouts = [db.checkouts EXCEPT ![c] = q]
          /\ db'.vouchers = [db.vouchers EXCEPT ![v] = w]
      BY <1>11
    <2>2. UNCHANGED histVars
      BY <1>1
    <2> QED BY <1>12, <2>1, <2>2 DEF RedeemCall
  <1>14. ConsentCall(s, d, c, q, v, w)
    BY <1>1, <1>4, <1>5, <1>6, <1>9, <1>10, <1>13 DEF ConsentCall
  <1> QED BY <1>6, <1>14

(* What the calls do to RedeemInv: one checkout more is consumed.          *)
LEMMA OneMoreConsumed ==
  ASSUME TypeOK, NEW c \in Checkout, NEW q \in CheckoutRecord, NEW v \in Voucher, NEW w,
         RedeemCall(c, q, v, w), q.state = "consumed", q.voucher = v,
         db.checkouts[c].state # "consumed"
  PROVE  /\ ConsumedBy(v)' = ConsumedBy(v) \cup {c}
         /\ Cardinality(ConsumedBy(v)') = Cardinality(ConsumedBy(v)) + 1
         /\ \A u \in Voucher \ {v} : ConsumedBy(u)' = ConsumedBy(u)
  <1>1. db'.checkouts[c] = q /\ \A b \in Checkout \ {c} : db'.checkouts[b] = db.checkouts[b]
    BY DEF TypeOK, Database, RedeemCall
  <1>2. ConsumedBy(v)' = ConsumedBy(v) \cup {c} /\ c \notin ConsumedBy(v)
    BY <1>1 DEF ConsumedBy
  <1>3. Cardinality(ConsumedBy(v) \cup {c}) = Cardinality(ConsumedBy(v)) + 1
    BY <1>2, FiniteRows, FS_AddElement
  <1>4. \A u \in Voucher \ {v} : ConsumedBy(u)' = ConsumedBy(u)
    BY <1>1 DEF ConsumedBy
  <1> QED BY <1>2, <1>3, <1>4

(* A consent consumes its checkout and redeems the voucher it names.       *)
LEMMA ConsentStep ==
  ASSUME IInv, NEW s \in Session, Consent(s)
  PROVE  IInv'
  <1>1. PICK d \in tx[s], c \in Checkout, q \in CheckoutRecord, v \in Voucher,
             w \in VoucherRecord : ConsentCall(s, d, c, q, v, w)
    BY ConsentFacts
  <1>2. db.checkouts[c] \in CheckoutRecord /\ db.vouchers[v] \in VoucherRecord
    BY <1>1 DEF IInv, TypeOK, Database
  <1>3. /\ q.state = "consumed" /\ q.voucher = v /\ Key(q) = Key(db.checkouts[c])
        /\ q.order = db.checkouts[c].order /\ q.seat = db.checkouts[c].seat
    BY <1>1, <1>2 DEF ConsentCall, CheckoutRecord, Key
  <1>4. w.state = "redeemed" /\ db.vouchers[v].state # "redeemed"
    BY <1>1, <1>2 DEF ConsentCall, VoucherRecord, Executable, Redeemable
  <1>5. /\ db.checkouts[c].state = "pending_owner_confirmation"
        /\ RedeemCall(c, q, v, w)
        /\ Committed(s, {<<"voucher", v>>}, {<<"checkout", c>>, <<"voucher", v>>})
        /\ Decided(c, "CONSENT") /\ UNCHANGED <<now, histVars, writes>>
    BY <1>1 DEF ConsentCall
  <1>6. /\ db'.checkouts[c] = q /\ db'.vouchers[v] = w /\ db' \in Database
        /\ \A b \in Checkout \ {c} : db'.checkouts[b] = db.checkouts[b]
        /\ \A u \in Voucher \ {v} : db'.vouchers[u] = db.vouchers[u]
    BY <1>5 DEF IInv, TypeOK, Database, RedeemCall
  <1>7. SnapshotInv' /\ tx' \in [Session -> SUBSET Database]
    <2> DEFINE written == {<<"checkout", c>>, <<"voucher", v>>}
    <2>1. /\ \A b \in Checkout : <<"checkout", b>> \notin written
                                   => db'.checkouts[b] = db.checkouts[b]
          /\ \A u \in Voucher : <<"voucher", u>> \notin written
                                   => db'.vouchers[u] = db.vouchers[u]
      BY <1>6
    <2> QED BY <1>5, <2>1, CommitKeepsSnapshots DEF IInv
  <1>8. /\ ledger'[c] = <<"CONSENT">>
        /\ \A b \in Checkout \ {c} : ledger'[b] = ledger[b]
        /\ ledger' \in [Checkout -> Seq({"CONSENT", "DENY"})]
    BY <1>5, LedgerWritten DEF IInv
  <1>9. TypeOK'
    BY <1>5, <1>6, <1>7, <1>8 DEF IInv, TypeOK
  <1>10. /\ ConsumedBy(v)' = ConsumedBy(v) \cup {c}
         /\ Cardinality(ConsumedBy(v)') = Cardinality(ConsumedBy(v)) + 1
         /\ \A u \in Voucher \ {v} : ConsumedBy(u)' = ConsumedBy(u)
    BY <1>3, <1>5, OneMoreConsumed DEF IInv
  <1>11. RedeemInv'
    <2>1. \A u \in Voucher :
            /\ Cardinality(ConsumedBy(u)) \in Nat /\ reissued[u] \in Nat
            /\ reissued'[u] = reissued[u]
            /\ Cardinality(ConsumedBy(u)) <= 1 + reissued[u]
            /\ db.vouchers[u].state # "redeemed" \/ u \in granted
                 => Cardinality(ConsumedBy(u)) <= reissued[u]
      BY <1>5, FiniteRows, FS_CardinalityType DEF IInv, TypeOK, RedeemInv
    <2>2. /\ Cardinality(ConsumedBy(v)') <= 1 + reissued'[v]
          /\ db'.vouchers[v].state = "redeemed" /\ v \notin granted'
      BY <1>4, <1>5, <1>6, <1>10, <2>1 DEF IInv, GrantedInv
    <2>3. \A u \in Voucher \ {v} :
            /\ Cardinality(ConsumedBy(u)') <= 1 + reissued'[u]
            /\ db'.vouchers[u].state # "redeemed" \/ u \in granted'
                 => Cardinality(ConsumedBy(u)') <= reissued'[u]
      BY <1>5, <1>6, <1>10, <2>1
    <2> QED BY <2>2, <2>3 DEF RedeemInv
  <1>12. RedeemedByCheckout' /\ GrantedInv'
    BY <1>4, <1>5, <1>6, <1>10 DEF IInv, RedeemedByCheckout, GrantedInv, TypeOK
  <1>13. DecidedOnce'
    BY <1>3, <1>6, <1>8 DEF IInv, DecidedOnce
  <1>14. OneCheckoutPerKey'
    BY <1>3, <1>5, <1>6 DEF IInv, OneCheckoutPerKey, Requested
  <1>15. NamesVoucher'
    BY <1>3, <1>5, <1>6 DEF IInv, NamesVoucher, Requested
  <1> QED BY <1>7, <1>9, <1>11, <1>12, <1>13, <1>14, <1>15 DEF IInv

-----------------------------------------------------------------------------
(* What becomes of the history when voucher v is written as w.             *)
Recorded(v, w) ==
  LET old == db.vouchers[v].state IN
  \/ (w.state = "redeemed") = (old = "redeemed") /\ UNCHANGED histVars
  \/ old = "redeemed" /\ w.state # "redeemed" /\ Reopened(v)
  \/ /\ old # "redeemed" /\ w.state = "redeemed"
     /\ granted' = granted \cup {v} /\ UNCHANGED reissued

(* A voucher written by anybody but a consenting member: a redemption that *)
(* it had is counted as undone, one that it is given as granted.           *)
LEMMA VoucherStep ==
  ASSUME IInv, NEW s \in Session, NEW v \in Voucher, NEW w \in VoucherRecord,
         Committed(s, {}, {<<"voucher", v>>}),
         db' = [db EXCEPT !.vouchers[v] = w], Recorded(v, w),
         writes' \in Nat, UNCHANGED <<ledger, now>>
  PROVE  IInv'
  <1>1. /\ db' \in Database /\ db'.checkouts = db.checkouts /\ db'.vouchers[v] = w
        /\ \A u \in Voucher \ {v} : db'.vouchers[u] = db.vouchers[u]
    BY DEF IInv, TypeOK, Database
  <1>2. SnapshotInv' /\ tx' \in [Session -> SUBSET Database]
    BY <1>1, CommitKeepsSnapshots DEF IInv
  <1>3. reissued' \in [Voucher -> Nat] /\ granted' \subseteq Voucher
    BY DEF IInv, TypeOK, Recorded, Reopened
  <1>4. TypeOK'
    BY <1>1, <1>2, <1>3 DEF IInv, TypeOK
  <1>5. \A u : ConsumedBy(u)' = ConsumedBy(u)
    BY <1>1 DEF ConsumedBy
  <1>6. \A u \in Voucher \ {v} :
          reissued'[u] = reissued[u] /\ (u \in granted' <=> u \in granted)
    BY DEF IInv, TypeOK, Recorded, Reopened
  <1>7. RedeemInv'
    <2>1. \A u \in Voucher :
            /\ Cardinality(ConsumedBy(u)) \in Nat /\ reissued[u] \in Nat
            /\ Cardinality(ConsumedBy(u)) <= 1 + reissued[u]
            /\ db.vouchers[u].state # "redeemed" \/ u \in granted
                 => Cardinality(ConsumedBy(u)) <= reissued[u]
      BY FiniteRows, FS_CardinalityType DEF IInv, TypeOK, RedeemInv
    <2>2. /\ Cardinality(ConsumedBy(v)) <= 1 + reissued'[v]
          /\ w.state # "redeemed" \/ v \in granted'
               => Cardinality(ConsumedBy(v)) <= reissued'[v]
      <3>1. CASE Reopened(v) /\ v \notin granted
        <4>1. reissued'[v] = reissued[v] + 1
          BY <3>1 DEF IInv, TypeOK, Reopened
        <4> QED BY <2>1, <4>1
      <3>2. CASE ~(Reopened(v) /\ v \notin granted)
        BY <2>1, <3>2 DEF Recorded, Reopened
      <3> QED BY <3>1, <3>2
    <2>3. \A u \in Voucher \ {v} :
            /\ Cardinality(ConsumedBy(u)') <= 1 + reissued'[u]
            /\ db'.vouchers[u].state # "redeemed" \/ u \in granted'
                 => Cardinality(ConsumedBy(u)') <= reissued'[u]
      BY <1>1, <1>5, <1>6, <2>1
    <2> QED BY <1>1, <1>5, <2>2, <2>3 DEF RedeemInv
  <1>8. GrantedInv' /\ RedeemedByCheckout'
    <2>1. /\ v \in granted' => w.state = "redeemed"
          /\ w.state = "redeemed" /\ v \notin granted' => ConsumedBy(v) # {}
      BY DEF IInv, GrantedInv, RedeemedByCheckout, Recorded, Reopened
    <2> QED
      BY <1>1, <1>3, <1>5, <1>6, <2>1 DEF IInv, GrantedInv, RedeemedByCheckout
  <1>9. DecidedOnce' /\ OneCheckoutPerKey' /\ NamesVoucher'
    BY <1>1 DEF IInv, DecidedOnce, OneCheckoutPerKey, NamesVoucher
  <1> QED BY <1>2, <1>4, <1>7, <1>8, <1>9 DEF IInv

(* What issue_from_authority and a manager's create() do.                  *)
LEMMA CreationFacts ==
  ASSUME IInv, NEW s \in Session, Issue(s) \/ ManagerCreate(s)
  PROVE  \E w \in VoucherRecord : Created(s, w)
  <1>1. CASE Issue(s)
    <2>1. \A e \in Expiry : Issued(e) \in VoucherRecord
      BY VoucherAssumption DEF Issued, VoucherRecord
    <2> QED BY <1>1, <2>1 DEF Issue
  <1>2. CASE ManagerCreate(s)
    <2>1. \A state \in VoucherState, e \in Expiry :
            [state |-> state, expires |-> e] \in VoucherRecord
      BY DEF VoucherRecord
    <2> QED BY <1>2, <2>1 DEF ManagerCreate
  <1> QED BY <1>1, <1>2

(* A created voucher fills a record that was empty.                        *)
LEMMA CreateStep ==
  ASSUME IInv, NEW s \in Session, NEW w \in VoucherRecord, Created(s, w)
  PROVE  IInv'
  <1>1. PICK v \in Voucher :
          /\ db.vouchers[v] = NoVoucher
          /\ Committed(s, {}, {<<"voucher", v>>})
          /\ db' = [db EXCEPT !.vouchers[v] = w]
          /\ granted' = IF w.state = "redeemed" THEN granted \cup {v} ELSE granted
          /\ UNCHANGED <<ledger, now, reissued, writes>>
    BY DEF Created
  <1>2. db.vouchers[v].state # "redeemed"
    BY <1>1 DEF NoVoucher
  <1>3. Recorded(v, w)
    BY <1>1, <1>2 DEF Recorded
  <1>4. writes' \in Nat
    BY <1>1 DEF IInv, TypeOK
  <1> QED BY <1>1, <1>3, <1>4, VoucherStep

(* What a manager's write() does, told of the database.                    *)
ManagerCall(s, v, w) ==
  /\ w.state = "redeemed" => db.vouchers[v].state = "redeemed"
  /\ Recorded(v, w)
  /\ Committed(s, {}, {<<"voucher", v>>})
  /\ db' = [db EXCEPT !.vouchers[v] = w]
  /\ writes' \in Nat
  /\ UNCHANGED <<ledger, now>>

(* A manager's write redeems nothing that was not.                         *)
LEMMA ManagerFacts ==
  ASSUME IInv, NEW s \in Session, ManagerWrite(s)
  PROVE  \E v \in Voucher, w \in VoucherRecord : ManagerCall(s, v, w)
  <1>1. PICK d \in tx[s], v \in Voucher, e \in Expiry :
          \E state \in Writable(d.vouchers[v]) :
            /\ writes < MaxWrites
            /\ d.vouchers[v] # NoVoucher
            /\ Committed(s, {}, {<<"voucher", v>>})
            /\ db' = [db EXCEPT !.vouchers[v] = [state |-> state, expires |-> e]]
            /\ IF d.vouchers[v].state = "redeemed" /\ state # "redeemed"
               THEN Reopened(v) ELSE UNCHANGED histVars
            /\ writes' = writes + 1
            /\ UNCHANGED <<ledger, now>>
    BY Zenon DEF ManagerWrite
  <1>2. d.vouchers[v] = db.vouchers[v]
    <2>1. Committed(s, {}, {<<"voucher", v>>})
      BY <1>1
    <2> QED BY <2>1, RowIsCurrent DEF IInv
  <1>3. PICK state \in Writable(db.vouchers[v]) :
          /\ Committed(s, {}, {<<"voucher", v>>})
          /\ db' = [db EXCEPT !.vouchers[v] = [state |-> state, expires |-> e]]
          /\ IF db.vouchers[v].state = "redeemed" /\ state # "redeemed"
             THEN Reopened(v) ELSE UNCHANGED histVars
          /\ writes' = writes + 1
          /\ UNCHANGED <<ledger, now>>
    BY <1>1, <1>2
  <1>4. db.vouchers[v] \in VoucherRecord
    BY DEF IInv, TypeOK, Database
  <1>5. PICK w \in VoucherRecord : w = [state |-> state, expires |-> e]
    BY <1>4 DEF Writable, VoucherRecord
  <1>6. /\ w.state = state
        /\ w.state = "redeemed" => db.vouchers[v].state = "redeemed"
    BY <1>5 DEF Writable
  <1>7. Recorded(v, w)
    BY <1>3, <1>6 DEF Recorded
  <1>8. writes' \in Nat
    BY <1>3 DEF IInv, TypeOK
  <1>9. ManagerCall(s, v, w)
    BY <1>3, <1>5, <1>6, <1>7, <1>8 DEF ManagerCall
  <1> QED BY <1>9

(* A manager's write is a write of one voucher.                            *)
LEMMA ManagerStep ==
  ASSUME IInv, NEW s \in Session, ManagerWrite(s)
  PROVE  IInv'
  BY ManagerFacts, VoucherStep DEF ManagerCall

(* A step that leaves the rows as they are.                                *)
LEMMA RowsStay ==
  ASSUME IInv, db' \in Database,
         db'.checkouts = db.checkouts, db'.vouchers = db.vouchers,
         SnapshotInv', tx' \in [Session -> SUBSET Database],
         UNCHANGED <<ledger, histVars>>, now' \in 0..MaxTime, writes' \in Nat
  PROVE  IInv'
  <1>1. TypeOK'
    BY DEF IInv, TypeOK
  <1>2. \A v : ConsumedBy(v)' = ConsumedBy(v)
    BY DEF ConsumedBy
  <1>3. RedeemInv' /\ GrantedInv' /\ RedeemedByCheckout'
    BY <1>2 DEF IInv, RedeemInv, GrantedInv, RedeemedByCheckout
  <1>4. DecidedOnce' /\ OneCheckoutPerKey' /\ NamesVoucher'
    BY DEF IInv, DecidedOnce, OneCheckoutPerKey, NamesVoucher
  <1> QED BY <1>1, <1>3, <1>4 DEF IInv

(* The other steps, stuttering among them, leave them so.                  *)
LEMMA OtherSteps ==
  ASSUME IInv,
         \/ Tick \/ UNCHANGED vars
         \/ \E s \in Session : Open(s) \/ Abort(s) \/ SetGate(s)
  PROVE  IInv'
  <1>1. CASE Tick
    <2>1. SnapshotInv' /\ tx' \in [Session -> SUBSET Database] /\ now' \in 0..MaxTime
      BY <1>1, VoucherAssumption DEF IInv, TypeOK, Tick, SnapshotInv, SnapshotOf
    <2> QED BY <1>1, <2>1, RowsStay DEF IInv, TypeOK, Tick
  <1>2. CASE UNCHANGED vars
    <2>1. SnapshotInv'
      BY <1>2 DEF IInv, vars, SnapshotInv, SnapshotOf
    <2> QED BY <1>2, <2>1, RowsStay DEF IInv, TypeOK, vars
  <1>3. ASSUME NEW s \in Session, Open(s) PROVE IInv'
    <2>1. /\ db' = db /\ tx' = [tx EXCEPT ![s] = {db}] /\ stale' = stale
          /\ UNCHANGED <<ledger, now, histVars, writes>>
      BY <1>3 DEF Open, Opened
    <2>2. tx' \in [Session -> SUBSET Database]
      BY <2>1 DEF IInv, TypeOK
    <2>3. ASSUME NEW t \in Session, NEW d \in tx'[t] PROVE SnapshotOf(t, d)'
      <3>1. d = db \/ d \in tx[t]
        BY <2>1, <2>3 DEF IInv, TypeOK
      <3>2. SnapshotOf(t, d)
        BY <3>1 DEF IInv, SnapshotInv, SnapshotOf
      <3> QED BY <2>1, <3>2 DEF SnapshotOf
    <2>4. SnapshotInv'
      BY <2>3 DEF SnapshotInv
    <2> QED BY <2>1, <2>2, <2>4, RowsStay DEF IInv, TypeOK
  <1>4. ASSUME NEW s \in Session, Abort(s) PROVE IInv'
    <2>1. /\ db' = db /\ tx' = [tx EXCEPT ![s] = {}]
          /\ stale' = [stale EXCEPT ![s] = {}]
          /\ UNCHANGED <<ledger, now, histVars, writes>>
      BY <1>4 DEF Abort, RolledBack
    <2>2. tx' \in [Session -> SUBSET Database]
      BY <2>1 DEF IInv, TypeOK
    <2>3. ASSUME NEW t \in Session, NEW d \in tx'[t] PROVE SnapshotOf(t, d)'
      <3>1. t # s /\ d \in tx[t] /\ SnapshotOf(t, d)
        BY <2>1, <2>3 DEF IInv, TypeOK, SnapshotInv
      <3>2. \A row : row \notin stale'[t] => row \notin stale[t]
        BY <2>1, <3>1
      <3> QED BY <2>1, <3>1, <3>2 DEF SnapshotOf
    <2>4. SnapshotInv'
      BY <2>3 DEF SnapshotInv
    <2> QED BY <2>1, <2>2, <2>4, RowsStay DEF IInv, TypeOK
  <1>5. ASSUME NEW s \in Session, SetGate(s) PROVE IInv'
    <2>1. PICK d \in tx[s] :
            /\ Committed(s, {}, {<<"gate">>})
            /\ db' = [db EXCEPT !.gate = ~d.gate]
            /\ writes' = writes + 1
            /\ UNCHANGED <<ledger, now, histVars>>
      BY <1>5 DEF SetGate
    <2>2. db' \in Database /\ db'.checkouts = db.checkouts /\ db'.vouchers = db.vouchers
      BY <2>1, SnapshotType DEF IInv, TypeOK, Database
    <2>3. SnapshotInv' /\ tx' \in [Session -> SUBSET Database]
      BY <2>1, <2>2, CommitKeepsSnapshots DEF IInv
    <2> QED BY <2>1, <2>2, <2>3, RowsStay DEF IInv, TypeOK
  <1> QED BY <1>1, <1>2, <1>3, <1>4, <1>5

-----------------------------------------------------------------------------
(* The initial states satisfy the invariant.                               *)
LEMMA InitIInv == Init => IInv
  <1> SUFFICES ASSUME Init PROVE IInv
    OBVIOUS
  <1>1. MaxTime + 1 \in Expiry /\ 0 \in 0..MaxTime
    BY VoucherAssumption DEF Expiry
  <1>2. Issued(MaxTime + 1) \in VoucherRecord /\ Issued(MaxTime + 1).state = "issued"
    BY <1>1, VoucherAssumption DEF Issued, VoucherRecord
  <1>3. /\ db \in Database
        /\ \A c \in Checkout : db.checkouts[c].state = "none"
        /\ \A v \in Voucher : db.vouchers[v].state # "redeemed"
    <2>1. NoCheckout.state = "none" /\ NoVoucher.state = "none"
      BY DEF NoCheckout, NoVoucher
    <2> QED BY <1>2, <2>1, EmptyRecords DEF Init, Database
  <1>4. TypeOK
    BY <1>1, <1>3 DEF Init, TypeOK, NoTransaction
  <1>5. SnapshotInv
    BY DEF Init, NoTransaction, SnapshotInv
  <1>6. \A v : ConsumedBy(v) = {}
    BY <1>3 DEF ConsumedBy
  <1>7. RedeemInv
    <2>1. Cardinality({}) = 0
      BY FS_EmptySet
    <2>2. \A v \in Voucher : Cardinality(ConsumedBy(v)) = 0 /\ reissued[v] = 0
      BY <1>6, <2>1 DEF Init
    <2> QED BY <2>2 DEF RedeemInv
  <1>8. GrantedInv /\ RedeemedByCheckout /\ NamesVoucher /\ OneCheckoutPerKey
    BY <1>3 DEF Init, GrantedInv, RedeemedByCheckout, NamesVoucher,
      OneCheckoutPerKey, Requested
  <1>9. DecidedOnce
    BY <1>3 DEF Init, DecidedOnce
  <1> QED BY <1>4, <1>5, <1>7, <1>8, <1>9 DEF IInv

(* Every step preserves the invariant.                                     *)
LEMMA Inductive == IInv /\ [Next]_vars => IInv'
  <1> SUFFICES ASSUME IInv, [Next]_vars PROVE IInv'
    OBVIOUS
  <1>1. CASE UNCHANGED vars \/ Tick
    BY <1>1, OtherSteps
  <1>2. ASSUME NEW s \in Session,
               \/ Open(s) \/ Abort(s)
               \/ Preview(s) \/ Request(s) \/ Consent(s) \/ Deny(s)
               \/ Issue(s) \/ ManagerCreate(s) \/ ManagerWrite(s) \/ SetGate(s)
        PROVE  IInv'
    <2>1. CASE Open(s) \/ Abort(s) \/ SetGate(s)
      BY <2>1, OtherSteps
    <2>2. CASE Preview(s)
      BY <2>2, PreviewStep
    <2>3. CASE Request(s)
      BY <2>3, RequestStep
    <2>4. CASE Consent(s)
      BY <2>4, ConsentStep
    <2>5. CASE Deny(s)
      BY <2>5, DenyStep
    <2>6. CASE Issue(s) \/ ManagerCreate(s)
      BY <2>6, CreationFacts, CreateStep
    <2>7. CASE ManagerWrite(s)
      BY <2>7, ManagerStep
    <2> QED BY <1>2, <2>1, <2>2, <2>3, <2>4, <2>5, <2>6, <2>7
  <1> QED BY <1>1, <1>2 DEF Next

(* The invariant holds in every reachable state.                           *)
LEMMA Invariance == Spec => []IInv
  <1> QED BY InitIInv, Inductive, PTL DEF Spec

(* The type invariant: after every call the rows, the snapshots, the       *)
(* ledger and the clock are what the fields declare.                       *)
THEOREM TypeCorrect == Spec => []TypeOK
  <1>1. IInv => TypeOK
    BY DEF IInv
  <1> QED BY Invariance, <1>1, PTL

(* A voucher is redeemed once, whatever competes for it, and once more for *)
(* each time a manager undid a redemption.                                 *)
THEOREM RedeemsOnce == Spec => []RedeemedOnce
  <1>1. IInv => RedeemedOnce
    BY DEF IInv, RedeemInv, RedeemedOnce
  <1> QED BY Invariance, <1>1, PTL

(* No voucher is redeemed without a consumed checkout, unless a manager    *)
(* created it so, and no checkout is consumed without exactly the member's *)
(* consent.                                                                *)
THEOREM RedeemsByConsent == Spec => []RedeemedByConsent
  <1>1. IInv => RedeemedByConsent
    BY DEF IInv, RedeemedByConsent
  <1> QED BY Invariance, <1>1, PTL

(* A repeated request never makes a second checkout at one seat for one    *)
(* order and one state of a voucher.                                       *)
THEOREM KeysAreUnique == Spec => []OneCheckoutPerKey
  <1>1. IInv => OneCheckoutPerKey
    BY DEF IInv
  <1> QED BY Invariance, <1>1, PTL

-----------------------------------------------------------------------------
(* Only a member's consent consumes a checkout.                            *)
LEMMA OnlyConsentConsumes ==
  ASSUME IInv, [Next]_vars, NEW c \in Checkout, BecomesConsumed(c)
  PROVE  \E s \in Session : Consent(s)
  <1>1. db \in Database
    BY DEF IInv, TypeOK
  <1>2. ~(Tick \/ UNCHANGED vars)
    BY DEF BecomesConsumed, Tick, vars
  <1>3. PICK s \in Session :
          \/ Open(s) \/ Abort(s)
          \/ Preview(s) \/ Request(s) \/ Consent(s) \/ Deny(s)
          \/ Issue(s) \/ ManagerCreate(s) \/ ManagerWrite(s) \/ SetGate(s)
    BY <1>2 DEF Next
  <1>4. ~(Open(s) \/ Abort(s) \/ SetGate(s))
    BY <1>1 DEF BecomesConsumed, Open, Abort, SetGate, Database
  <1>5. ~(Issue(s) \/ ManagerCreate(s) \/ ManagerWrite(s))
    <2>1. ASSUME NEW v \in Voucher, NEW w, db' = [db EXCEPT !.vouchers[v] = w]
          PROVE  FALSE
      BY <1>1, <2>1 DEF BecomesConsumed, Database
    <2>2. ~ManagerWrite(s)
      BY <2>1, ManagerFacts DEF ManagerCall
    <2>3. ~(Issue(s) \/ ManagerCreate(s))
      BY <2>1, CreationFacts DEF Created
    <2> QED BY <2>2, <2>3
  <1>6. ~Deny(s)
    <2> SUFFICES ASSUME Deny(s) PROVE FALSE
      OBVIOUS
    <2>1. PICK b \in Checkout : db' = [db EXCEPT !.checkouts[b].state = "rejected"]
      BY DEF Deny
    <2> QED BY <1>1, <2>1 DEF BecomesConsumed, Database, CheckoutRecord
  <1>7. ~Preview(s)
    <2> SUFFICES ASSUME Preview(s) PROVE FALSE
      OBVIOUS
    <2>1. PICK b \in Checkout :
            \E a, n : db' = [db EXCEPT !.checkouts[b].state = "lookup_verified",
                                       !.checkouts[b].seat = a,
                                       !.checkouts[b].count = n]
      BY DEF Preview
    <2> QED BY <1>1, <2>1 DEF BecomesConsumed, Database, CheckoutRecord
  <1>8. ~Request(s)
    <2> SUFFICES ASSUME Request(s) PROVE FALSE
      OBVIOUS
    <2>1. PICK d \in tx[s], b \in Checkout, o \in Order, v \in Voucher :
            /\ Redeemable(d.vouchers, v)
            /\ d.checkouts[b].state = "lookup_verified"
            /\ KeyIsFree(d, b, AskedFor(d, b, o, v))
            /\ Committed(s, {}, {<<"checkout", b>>})
            /\ db' = [db EXCEPT !.checkouts[b] = AskedFor(d, b, o, v)]
            /\ UNCHANGED <<ledger, now, histVars, writes>>
      BY Zenon, RequestFacts
    <2> DEFINE q == AskedFor(d, b, o, v)
    <2>2. d \in Database
      BY SnapshotType DEF IInv
    <2>3. q.state = "pending_owner_confirmation"
      BY <2>2, AskedForType
    <2>4. db' = [db EXCEPT !.checkouts[b] = q]
      BY <2>1
    <2> HIDE DEF q
    <2> QED BY <1>1, <2>3, <2>4 DEF BecomesConsumed, Database
  <1> QED BY <1>3, <1>4, <1>5, <1>6, <1>7, <1>8

(* A step that consumes checkout c is a consent to c.                      *)
LEMMA ConsumedByCall ==
  ASSUME IInv, [Next]_vars, NEW c \in Checkout, BecomesConsumed(c)
  PROVE  \E s \in Session : \E d \in tx[s], q \in CheckoutRecord, v \in Voucher,
                                w \in VoucherRecord : ConsentCall(s, d, c, q, v, w)
  <1>1. PICK s \in Session : Consent(s)
    BY OnlyConsentConsumes
  <1>2. PICK d \in tx[s], b \in Checkout, q \in CheckoutRecord, v \in Voucher,
             w \in VoucherRecord : ConsentCall(s, d, b, q, v, w)
    BY <1>1, ConsentFacts
  <1>3. b = c
    BY <1>2 DEF IInv, TypeOK, Database, ConsentCall, RedeemCall, BecomesConsumed
  <1> QED BY <1>2, <1>3

(* What is redeemed is the voucher the member was asked about, unchanged   *)
(* since and not expired.                                                  *)
THEOREM ConsentIsToTheVoucher == Spec => RedeemsWhatWasRequested
  <1>1. ASSUME IInv, [Next]_vars, NEW c \in Checkout, BecomesConsumed(c)
        PROVE  LET q == db.checkouts[c] IN
               /\ db.vouchers[q.voucher] = q.preimage
               /\ q.preimage.expires >= now
               /\ db'.vouchers = [db.vouchers EXCEPT ![q.voucher].state = "redeemed"]
    <2> PICK s \in Session : \E d \in tx[s], q \in CheckoutRecord, v \in Voucher,
                                w \in VoucherRecord : ConsentCall(s, d, c, q, v, w)
      BY <1>1, ConsumedByCall
    <2>1. PICK d \in tx[s], q \in CheckoutRecord, v \in Voucher, w \in VoucherRecord :
            ConsentCall(s, d, c, q, v, w)
      OBVIOUS
    <2>2. /\ db.checkouts[c].voucher = v
          /\ d.vouchers[v] = db.vouchers[v]
          /\ d.vouchers[v] = db.checkouts[c].preimage /\ d.vouchers[v].expires >= now
      BY <2>1 DEF ConsentCall, Executable, Redeemable
    <2>3. db'.vouchers = [db.vouchers EXCEPT ![v].state = "redeemed"]
      BY <2>1 DEF ConsentCall, RedeemCall
    <2> QED BY <2>2, <2>3
  <1> DEFINE Right == \A c \in Checkout :
               LET q == db.checkouts[c] IN
               BecomesConsumed(c) =>
                 /\ db.vouchers[q.voucher] = q.preimage
                 /\ q.preimage.expires >= now
                 /\ db'.vouchers = [db.vouchers EXCEPT ![q.voucher].state = "redeemed"]
  <1>2. IInv /\ [Next]_vars => Right
    BY <1>1
  <1> QED BY Invariance, <1>2, PTL DEF Spec, RedeemsWhatWasRequested

(* The evidence of a redemption counts the vouchers right, if the snapshot *)
(* it counted them in was current.                                         *)
THEOREM CountsAreExact == Spec => EffectIsExact
  <1>1. ASSUME IInv, [Next]_vars, NEW c \in Checkout, NEW s \in Session,
               BecomesConsumed(c), tx[s] # {}, tx'[s] = {},
               stale[s] \cap {<<"voucher", v>> : v \in Voucher} = {}
        PROVE  /\ Cardinality(Available(db.vouchers)) = Exact
               /\ Cardinality(Available(db'.vouchers)) = db'.checkouts[c].after
    <2> PICK t \in Session : \E d \in tx[t], q \in CheckoutRecord, v \in Voucher,
                                w \in VoucherRecord : ConsentCall(t, d, c, q, v, w)
      BY <1>1, ConsumedByCall
    <2>1. PICK d \in tx[t], q \in CheckoutRecord, v \in Voucher, w \in VoucherRecord :
            ConsentCall(t, d, c, q, v, w)
      OBVIOUS
    <2>2. s = t
      BY <1>1, <2>1 DEF IInv, TypeOK, ConsentCall, Committed
    <2>3. d \in Database /\ db \in Database
      BY <1>1, SnapshotType DEF IInv, TypeOK
    <2>4. \A u \in Voucher : d.vouchers[u] = db.vouchers[u]
      <3>1. SnapshotOf(s, d)
        BY <1>1, <2>1, <2>2 DEF IInv, SnapshotInv
      <3>2. \A u \in Voucher : <<"voucher", u>> \notin stale[s]
        BY <1>1
      <3> QED BY <3>1, <3>2 DEF SnapshotOf
    <2>5. d.vouchers = db.vouchers
      BY <2>3, <2>4 DEF Database
    <2>6. /\ Cardinality(Available(db.vouchers)) = db.checkouts[c].count
          /\ db.checkouts[c].count = Exact
          /\ v \in Available(db.vouchers)
      BY <2>1, <2>5 DEF ConsentCall, Executable, Available, Redeemable
    <2>7. db.checkouts[c] \in CheckoutRecord /\ db.vouchers[v] \in VoucherRecord
      BY <2>3 DEF Database
    <2>8. db'.checkouts[c] = q /\ q.after = db.checkouts[c].count - 1
      <3>1. /\ q = [db.checkouts[c] EXCEPT !.state = "consumed",
                                           !.after = db.checkouts[c].count - 1]
            /\ db'.checkouts = [db.checkouts EXCEPT ![c] = q]
        BY <2>1 DEF ConsentCall, RedeemCall
      <3>2. q.after = db.checkouts[c].count - 1
        BY <3>1, <2>7 DEF CheckoutRecord
      <3>3. db.checkouts \in [Checkout -> CheckoutRecord]
        BY <2>3 DEF Database
      <3> QED BY <3>1, <3>2, <3>3
    <2>9. PICK f : f = db'.vouchers
      OBVIOUS
    <2>10. Available(f) = Available(db.vouchers) \ {v}
      <3>1. f = [db.vouchers EXCEPT ![v] = w] /\ w.state = "redeemed"
        BY <2>1, <2>7, <2>9 DEF ConsentCall, RedeemCall, VoucherRecord
      <3>2. db.vouchers \in [Voucher -> VoucherRecord]
        BY <2>3 DEF Database
      <3>3. \A u \in Voucher \ {v} : f[u] = db.vouchers[u]
        BY <3>1, <3>2
      <3>4. f[v].state = "redeemed"
        BY <3>1, <3>2
      <3> QED BY <3>3, <3>4 DEF Available, Redeemable
    <2>11. Cardinality(Available(f)) = Cardinality(Available(db.vouchers)) - 1
      <3>1. IsFiniteSet(Available(db.vouchers)) /\ v \in Available(db.vouchers)
        BY <2>6, FiniteRows
      <3>2. Cardinality(Available(db.vouchers) \ {v}) =
              IF v \in Available(db.vouchers) THEN Cardinality(Available(db.vouchers)) - 1
              ELSE Cardinality(Available(db.vouchers))
        BY Zenon, <3>1, FS_RemoveElement
      <3> QED BY Zenon, <2>10, <3>1, <3>2
    <2> QED BY <2>6, <2>8, <2>9, <2>11
  <1> DEFINE Right == \A c \in Checkout, s \in Session :
               /\ BecomesConsumed(c)
               /\ tx[s] # {} /\ tx'[s] = {}
               /\ stale[s] \cap {<<"voucher", v>> : v \in Voucher} = {}
               => /\ Cardinality(Available(db.vouchers)) = Exact
                  /\ Cardinality(Available(db'.vouchers)) = db'.checkouts[c].after
  <1>2. IInv /\ [Next]_vars => Right
    BY <1>1
  <1> QED BY Invariance, <1>2, PTL DEF Spec, EffectIsExact

-----------------------------------------------------------------------------
(* The calls implement VoucherSpec.                                        *)

(* What a question is to VoucherSpec.                                      *)
Question(q) == IF Requested(q) THEN {Key(q)} ELSE {}

(* A call that writes one checkout changes its question only.              *)
LEMMA QuestionWritten ==
  ASSUME NEW c \in Checkout, NEW old, NEW new,
         \A b \in Checkout \ {c} : new[b] = old[b]
  PROVE  Asked(new) = [Asked(old) EXCEPT ![c] = Question(new[c])]
  <1>1. Asked(new) = [b \in Checkout |-> Question(new[b])]
    BY DEF Asked, Question
  <1>2. Asked(old) = [b \in Checkout |-> Question(old[b])]
    BY DEF Asked, Question
  <1> QED
    BY <1>1, <1>2

(* A call that asks nothing leaves the questions as they are.              *)
LEMMA QuestionsStay ==
  ASSUME NEW c \in Checkout, NEW old, NEW new,
         \A b \in Checkout \ {c} : new[b] = old[b],
         Question(new[c]) = Question(old[c])
  PROVE  Asked(new) = Asked(old)
  <1>1. Asked(new) = [b \in Checkout |-> Question(new[b])]
    BY DEF Asked, Question
  <1>2. Asked(old) = [b \in Checkout |-> Question(old[b])]
    BY DEF Asked, Question
  <1> QED
    BY <1>1, <1>2

(* The answer to a pending question is the first.                          *)
LEMMA FirstAnswer ==
  ASSUME DecidedOnce, NEW c \in Checkout, NEW answer, Decided(c, answer),
         db.checkouts[c].state = "pending_owner_confirmation"
  PROVE  ledger[c] = <<>> /\ ledger' = [ledger EXCEPT ![c] = <<answer>>]
  <1>1. ledger[c] = <<>>
    BY DEF DecidedOnce
  <1>2. Append(<<>>, answer) = <<answer>>
    OBVIOUS
  <1> QED
    BY <1>1, <1>2 DEF Decided

(* Nothing is asked or answered at first.                                  *)
LEMMA InitIsPromised == Init => Promise!Init
  <1> SUFFICES ASSUME Init PROVE Promise!Init
    OBVIOUS
  <1>1. \A c \in Checkout : ~Requested(db.checkouts[c])
    BY DEF Init, NoCheckout, Requested
  <1>2. Asked(db.checkouts) = [c \in Checkout |-> {}]
    BY <1>1 DEF Asked
  <1>3. \A v \in Voucher : db.vouchers[v].state # "redeemed"
    BY DEF Init, Issued, NoVoucher
  <1> QED
    BY <1>2, <1>3 DEF Init, Promise!Init

(* A look-up asks nothing.                                                 *)
LEMMA PreviewIsPromised ==
  ASSUME IInv, NEW s \in Session, Preview(s)
  PROVE  UNCHANGED Promise!specVars
  <1>1. PICK d \in tx[s], c \in Checkout, seat \in Seat :
          /\ db.checkouts[c] = NoCheckout
          /\ db' = [db EXCEPT !.checkouts[c].state = "lookup_verified",
                 !.checkouts[c].seat = seat,
                 !.checkouts[c].count = Cardinality(Available(d.vouchers))]
          /\ UNCHANGED <<ledger, now>>
    BY DEF Preview
  <1>2. db \in Database /\ db.checkouts[c] \in CheckoutRecord
    BY DEF IInv, TypeOK, Database
  <1>3. /\ db'.vouchers = db.vouchers
        /\ db'.checkouts[c].state = "lookup_verified"
        /\ \A b \in Checkout \ {c} : db'.checkouts[b] = db.checkouts[b]
    BY <1>1, <1>2 DEF Database, CheckoutRecord
  <1>4. Question(db'.checkouts[c]) = Question(db.checkouts[c])
    BY <1>1, <1>3 DEF Question, Requested, NoCheckout
  <1>5. Asked(db'.checkouts) = Asked(db.checkouts)
    BY <1>3, <1>4, QuestionsStay
  <1> QED
    BY <1>1, <1>3, <1>5 DEF Promise!specVars

(* A request asks a question nobody else was asked.                        *)
LEMMA RequestIsPromised ==
  ASSUME IInv, NEW s \in Session, Request(s)
  PROVE  Promise!Next
  <1>1. PICK d \in tx[s], c \in Checkout, o \in Order, v \in Voucher :
          /\ Redeemable(d.vouchers, v)
          /\ d.checkouts[c].state = "lookup_verified"
          /\ KeyIsFree(d, c, AskedFor(d, c, o, v))
          /\ Committed(s, {}, {<<"checkout", c>>})
          /\ db' = [db EXCEPT !.checkouts[c] = AskedFor(d, c, o, v)]
          /\ UNCHANGED <<ledger, now, histVars, writes>>
    BY RequestFacts
  <1> DEFINE q == AskedFor(d, c, o, v)
             record == d.vouchers[v]
             seat == d.checkouts[c].seat
  <1>2. d \in Database /\ db \in Database
    BY SnapshotType DEF IInv, TypeOK
  <1>3. /\ q.state = "pending_owner_confirmation"
        /\ Key(q) = <<seat, o, v, record>>
    BY <1>2, AskedForType
  <1>4. record \in VoucherRecord
    BY <1>2 DEF Database
  <1>5. Promise!Spendable(record)
    BY <1>1 DEF Redeemable, Promise!Spendable
  <1>6. db.checkouts[c].state = "lookup_verified" /\ seat \in Seat
    BY <1>1, RowIsCurrent DEF IInv, NamesVoucher
  <1>7. \A b \in Checkout :
          Requested(db.checkouts[b]) => Key(db.checkouts[b]) # <<seat, o, v, record>>
    BY <1>1, <1>3, <1>6 DEF KeyIsFree, Requested
  <1>8. /\ db'.vouchers = db.vouchers /\ db'.checkouts[c] = q
        /\ \A b \in Checkout \ {c} : db'.checkouts[b] = db.checkouts[b]
    BY <1>1, <1>2 DEF Database
  <1> HIDE DEF q, record, seat
  <1>9. Question(q) = {<<seat, o, v, record>>}
    BY <1>3 DEF Question, Requested
  <1>10. Asked(db'.checkouts)
           = [Asked(db.checkouts) EXCEPT ![c] = {<<seat, o, v, record>>}]
    BY <1>8, <1>9, QuestionWritten
  <1>11. /\ Asked(db.checkouts)[c] = {}
         /\ \A b \in Checkout : <<seat, o, v, record>> \notin Asked(db.checkouts)[b]
    BY <1>6, <1>7 DEF Asked, Requested
  <1>12. Promise!Ask(c, seat, o, v, record)
    BY <1>1, <1>5, <1>8, <1>10, <1>11 DEF Promise!Ask
  <1> QED
    BY <1>4, <1>6, <1>12 DEF Promise!Next

(* A denial refuses the question of its checkout, unanswered so far.       *)
LEMMA DenyIsPromised ==
  ASSUME IInv, NEW s \in Session, Deny(s)
  PROVE  Promise!Next
  <1>1. PICK d \in tx[s], c \in Checkout :
          /\ d.checkouts[c].state = "pending_owner_confirmation"
          /\ Committed(s, {}, {<<"checkout", c>>})
          /\ db' = [db EXCEPT !.checkouts[c].state = "rejected"]
          /\ Decided(c, "DENY")
          /\ UNCHANGED <<now, histVars, writes>>
    BY DEF Deny
  <1>2. db \in Database /\ db.checkouts[c] \in CheckoutRecord
    BY DEF IInv, TypeOK, Database
  <1>3. db.checkouts[c].state = "pending_owner_confirmation"
    BY <1>1, RowIsCurrent DEF IInv
  <1>4. /\ db'.vouchers = db.vouchers
        /\ db'.checkouts[c] = [db.checkouts[c] EXCEPT !.state = "rejected"]
        /\ \A b \in Checkout \ {c} : db'.checkouts[b] = db.checkouts[b]
    BY <1>1, <1>2 DEF Database
  <1>5. Question(db'.checkouts[c]) = Question(db.checkouts[c])
    BY <1>2, <1>3, <1>4 DEF Question, Requested, Key, CheckoutRecord
  <1>6. Asked(db'.checkouts) = Asked(db.checkouts)
    BY <1>4, <1>5, QuestionsStay
  <1>7. ledger' = [ledger EXCEPT ![c] = <<"DENY">>] /\ ledger[c] = <<>>
    BY <1>1, <1>3, FirstAnswer DEF IInv
  <1>8. Asked(db.checkouts)[c] # {}
    BY <1>3 DEF Asked, Requested
  <1>9. Promise!Refuse(c)
    BY <1>1, <1>4, <1>6, <1>7, <1>8 DEF Promise!Refuse, Promise!Answer
  <1> QED
    BY <1>9 DEF Promise!Next

(* A consent spends the voucher its checkout asked for.                    *)
LEMMA ConsentIsPromised ==
  ASSUME IInv, NEW s \in Session, Consent(s)
  PROVE  Promise!Next
  <1>1. PICK d \in tx[s], c \in Checkout, q \in CheckoutRecord, v \in Voucher,
             w \in VoucherRecord : ConsentCall(s, d, c, q, v, w)
    BY ConsentFacts
  <1> DEFINE old == db.checkouts[c]
             record == db.vouchers[v]
  <1>2. db \in Database /\ old \in CheckoutRecord /\ record \in VoucherRecord
    BY DEF IInv, TypeOK, Database
  <1>3. /\ old.state = "pending_owner_confirmation" /\ old.voucher = v
        /\ old.preimage = record
        /\ q = [old EXCEPT !.state = "consumed", !.after = old.count - 1]
        /\ RedeemCall(c, q, v, w) /\ w = [record EXCEPT !.state = "redeemed"]
        /\ Decided(c, "CONSENT") /\ UNCHANGED now
    BY <1>1 DEF ConsentCall, Executable
  <1>4. Promise!Spendable(record)
    BY <1>1 DEF ConsentCall, Executable, Redeemable, Promise!Spendable
  <1>5. /\ db'.vouchers = [db.vouchers EXCEPT ![v].state = "redeemed"]
        /\ db'.checkouts[c] = q
        /\ \A b \in Checkout \ {c} : db'.checkouts[b] = db.checkouts[b]
    BY <1>2, <1>3 DEF RedeemCall, Database
  <1>6. Question(q) = Question(old)
    BY <1>2, <1>3 DEF Question, Requested, Key, CheckoutRecord
  <1>7. Asked(db'.checkouts) = Asked(db.checkouts)
    BY <1>5, <1>6, QuestionsStay
  <1>8. Asked(db.checkouts)[c] = {<<old.seat, old.order, v, record>>}
    BY <1>3 DEF Asked, Requested, Key
  <1>9. ledger' = [ledger EXCEPT ![c] = <<"CONSENT">>] /\ ledger[c] = <<>>
    BY <1>3, FirstAnswer DEF IInv
  <1> HIDE DEF record
  <1>10. Promise!Spend(c, old.seat, old.order, v, record)
    BY <1>3, <1>4, <1>5, <1>7, <1>8, <1>9
    DEF record, Promise!Spend, Promise!Answer
  <1>11. old.order \in Order /\ old.seat \in Seat
    BY <1>3 DEF IInv, NamesVoucher, Requested
  <1> QED
    BY <1>2, <1>10, <1>11 DEF record, Promise!Next

(* A voucher that is created, or rewritten by a manager, is managed.       *)
LEMMA ManageIsPromised ==
  ASSUME IInv, NEW s \in Session, Issue(s) \/ ManagerCreate(s) \/ ManagerWrite(s)
  PROVE  Promise!Next
  <1>1. PICK v \in Voucher, w \in VoucherRecord :
          /\ w.state = "redeemed" => db.vouchers[v].state \in {"none", "redeemed"}
          /\ db' = [db EXCEPT !.vouchers[v] = w]
          /\ UNCHANGED <<ledger, now>>
    <2>1. ASSUME NEW w \in VoucherRecord, Created(s, w)
          PROVE  \E v \in Voucher :
                   /\ db.vouchers[v].state = "none"
                   /\ db' = [db EXCEPT !.vouchers[v] = w]
                   /\ UNCHANGED <<ledger, now>>
      <3>1. PICK v \in Voucher :
              /\ db.vouchers[v] = NoVoucher
              /\ db' = [db EXCEPT !.vouchers[v] = w]
              /\ UNCHANGED <<ledger, now>>
        BY <2>1 DEF Created
      <3>2. db.vouchers[v].state = "none"
        BY <3>1 DEF NoVoucher
      <3> QED BY <3>1, <3>2
    <2>2. CASE Issue(s) \/ ManagerCreate(s)
      <3>1. PICK w \in VoucherRecord : Created(s, w)
        BY <2>2, CreationFacts
      <3> QED BY <2>1, <3>1
    <2>3. CASE ManagerWrite(s)
      <3>1. PICK v \in Voucher, w \in VoucherRecord : ManagerCall(s, v, w)
        BY <2>3, ManagerFacts
      <3> QED BY <3>1 DEF ManagerCall
    <2> QED BY <2>2, <2>3
  <1>2. /\ db'.vouchers = [db.vouchers EXCEPT ![v] = w]
        /\ db'.checkouts = db.checkouts
    BY <1>1 DEF IInv, TypeOK, Database
  <1>3. Promise!Manage(v, w)
    BY <1>1, <1>2 DEF Promise!Manage
  <1> QED
    BY <1>3 DEF Promise!Next

(* Opening, abandoning and gating calls touch nothing of it.               *)
LEMMA OthersArePromised ==
  ASSUME IInv,
         \/ UNCHANGED vars
         \/ \E s \in Session : Open(s) \/ Abort(s) \/ SetGate(s)
  PROVE  UNCHANGED Promise!specVars
  <1>1. /\ db'.vouchers = db.vouchers /\ db'.checkouts = db.checkouts
        /\ UNCHANGED <<ledger, now>>
    BY DEF IInv, TypeOK, Database, vars, Open, Abort, SetGate
  <1> QED
    BY <1>1 DEF Promise!specVars

(* Every step is one VoucherSpec allows, or none to it.                    *)
LEMMA StepIsPromised ==
  IInv /\ [Next]_vars => [Promise!Next]_(Promise!specVars)
  <1> SUFFICES ASSUME IInv, [Next]_vars
               PROVE  Promise!Next \/ UNCHANGED Promise!specVars
    OBVIOUS
  <1>1. CASE Tick
    <2>1. Promise!Tick
      BY <1>1 DEF Tick, Promise!Tick
    <2> QED
      BY <2>1 DEF Promise!Next
  <1> QED
    BY <1>1, PreviewIsPromised, RequestIsPromised, DenyIsPromised,
       ConsentIsPromised, ManageIsPromised, OthersArePromised DEF Next

(* The calls with their snapshots and conflicts implement the vouchers,    *)
(* questions and answers of VoucherSpec.                                   *)
THEOREM ImplementsPromise == Spec => KeepsPromise
  <1>1. Init => Promise!Init
    BY InitIsPromised
  <1>2. IInv /\ [Next]_vars => [Promise!Next]_(Promise!specVars)
    BY StepIsPromised
  <1> QED
    BY <1>1, <1>2, Invariance, PTL DEF Spec, KeepsPromise, Promise!Spec
==============================================================================
