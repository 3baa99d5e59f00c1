---------------------------- MODULE MCMenuChange -----------------------------
EXTENDS MenuChange, TLC

CONSTANTS u1, u2, p1, p2, i1, i2, price, image, v1, v2, s1, s2

BindingDef == {[user |-> u1, person |-> p1], [user |-> u2, person |-> p2]}
ProposalDef == {price :> v2}
EditDef == {image :> v2}
NewItemDef == {price :> v1 @@ image :> v1}

Symmetric == Permutations({s1, s2})
==============================================================================
