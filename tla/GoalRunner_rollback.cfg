SPECIFICATION Spec
CONSTANTS
  f1 = f1
  f2 = f2
  k1 = k1
  r1 = r1
  r2 = r2
  ActionId = {r1, r2}
  Key = {k1}
  ResumePoint = {"REWORK", "LAND_CANDIDATE", "CHECK_ACTUAL_EFFECT"}
  NoKey = NoKey
  None = None
  Keep = Keep
  File = {f1, f2}
  Effectful = {k1}
  DeleteGoals = {k1}
  NoRun = NoRun
  MaxEdits = 0
INVARIANT FailedLandingRollsBack
CHECK_DEADLOCK FALSE
