SPECIFICATION Spec
CONSTANTS
  Task = {t1, t2}
  Evidence = {e1}
  Blocker = {b1}
  Keep = Keep
  Proc = {p1, p2}
  Scoped = {p1}
  NoProc = NoProc
  NewTasks <- MCNewTasks
  TaskChanges <- MCTaskChanges
  MaxCalls = 3
SYMMETRY Symm
PROPERTY ClosedNeedsReopen
