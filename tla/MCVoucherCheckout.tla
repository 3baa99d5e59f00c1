-------------------------- MODULE MCVoucherCheckout --------------------------
EXTENDS VoucherCheckout, TLC

CONSTANTS o1, s1, s2, a1, a2

Symmetric == Permutations({s1, s2}) \cup Permutations({a1, a2})
==============================================================================
