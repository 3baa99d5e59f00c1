SPECIFICATION QueueSpec
CONSTANTS
  p1 = p1
  p2 = p2
  i1 = i1
  i2 = i2
  Producer = {p1, p2}
  Intent = {i1, i2}
  MaxVersion = 1
  MaxDeaths = 1
SYMMETRY Symm
INVARIANTS OneChain AcceptedIsCurrent
