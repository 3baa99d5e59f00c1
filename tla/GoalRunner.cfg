SPECIFICATION Spec
CONSTANTS
  f1 = f1
  f2 = f2
  k1 = k1
  k2 = k2
  k3 = k3
  r1 = r1
  r2 = r2
  ActionId = {r1, r2}
  Key = {k1, k2, k3}
  ResumePoint = {"REWORK", "LAND_CANDIDATE", "CHECK_ACTUAL_EFFECT"}
  NoKey = NoKey
  None = None
  Keep = Keep
  File = {f1, f2}
  Effectful = {k1, k2}
  DeleteGoals = {k1}
  NoRun = NoRun
  MaxEdits = 1
SYMMETRY Symm
INVARIANTS
  LandsOnSnapshot
  LandingIsAnnounced
  RollbackIsComplete
  ClaimsFollowLedger
PROPERTIES
  DoneIsLive
  MissingProcessNeverMeansRerun
  KeepsPromise
CHECK_DEADLOCK FALSE
