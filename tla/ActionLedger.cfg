SPECIFICATION Spec
CONSTANTS
  ActionId = {a1, a2}
  Key = {k1, k2}
  ResumePoint = {r1}
  r1 = r1
  NoKey = NoKey
  None = None
  Keep = Keep
  Proc = {p1, p2}
  NoProc = NoProc
  Changes <- MCChanges
  MaxDepth = 2
  MaxCalls = 4
SYMMETRY Symm
INVARIANTS ClaimedOnce FileLoadable NoLostUpdate
PROPERTY KeepsPromise
