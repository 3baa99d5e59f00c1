SPECIFICATION FairSpec
CONSTANTS
  f1 = f1
  f2 = f2
  k1 = k1
  k2 = k2
  r1 = r1
  r2 = r2
  ActionId = {r1, r2}
  Key = {k1, k2}
  ResumePoint = {"REWORK", "LAND_CANDIDATE", "CHECK_ACTUAL_EFFECT"}
  NoKey = NoKey
  None = None
  Keep = Keep
  File = {f1, f2}
  Effectful = {k1}
  DeleteGoals = {}
  NoRun = NoRun
  MaxEdits = 0
PROPERTY RunEnds
CHECK_DEADLOCK FALSE
