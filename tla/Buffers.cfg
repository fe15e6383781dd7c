SPECIFICATION FairSpec
CONSTANTS
  Procs = {p1, p2}
  None = None
  NBUF = 2
  Blocks = {1, 2, 3}
  Values = {0, 1}
INVARIANTS
  FreshData
  NoMissedWakeup
PROPERTY
  RequestServed
CHECK_DEADLOCK FALSE
