SPECIFICATION Spec
CONSTANTS
  o1 = o1
  s1 = s1
  s2 = s2
  a1 = a1
  a2 = a2
  Session = {s1, s2}
  MaxCheckouts = 2
  MaxVouchers = 3
  Initially = 2
  VoucherState = {"issued", "reserved", "redeemed", "void"}
  Order = {o1}
  NoOrder = NoOrder
  Seat = {a1, a2}
  NoSeat = NoSeat
  Exact = 2
  MaxTime = 1
  MaxWrites = 1
SYMMETRY Symmetric
INVARIANTS RedeemedOnce RedeemedByConsent OneCheckoutPerKey
PROPERTIES KeepsPromise EffectIsExact
