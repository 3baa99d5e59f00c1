SPECIFICATION Spec
CONSTANTS
  p1 = p1
  p2 = p2
  p3 = p3
  Proc = {p1, p2, p3}
  NoProc = NoProc
  Text = {"plain", "separator"}
  Actor = {"named", "empty"}
  MaxEvents = 3
  MaxTears = 3
SYMMETRY Symm
INVARIANTS AckedFormOneChain ValidMeansComplete CalmLedgerVerifies
PROPERTIES ValidIsAppendOnly
CHECK_DEADLOCK FALSE
