SPECIFICATION Spec
CONSTANTS
  Operator = {p1, p2}
  Thread = {t1, t2}
  Page = {a, b}
  OldReceipt = OldReceipt
  Window = 1
  MaxCeremonies = 1
  MaxTime = 1
  MaxRuns = 2
CHECK_DEADLOCK FALSE
INVARIANTS
  ToldIsSaved
  ProofVerifies
  ReportIsTrue
PROPERTIES
  KeepsPromise
  ReceiptFollowsProof
  RunEnds
