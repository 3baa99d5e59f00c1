SPECIFICATION Spec
CONSTANTS
  p1 = p1
  p2 = p2
  p3 = p3
  d1 = d1
  d2 = d2
  Proc = {p1, p2, p3}
  Syncer = {p1}
  Refresher = {p1, p2}
  Talker = {p3}
  Decision = {d1, d2}
  NoProc = NoProc
  MaxSaves = 2
SYMMETRY Symm
INVARIANT EvidenceIsConsistent
PROPERTIES SyncKeepsDecision SyncFollowsLedger
