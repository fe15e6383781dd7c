SPECIFICATION Spec
CONSTANTS
  Procs = {p1, p2, p3}
  None = None
  Blocks = {b1, b2, b3, b4}
  Values = {0, 1}
  MAXOPBLOCKS = 1
  LOGSIZE = 3
SYMMETRY Interchangeable
INVARIANTS
  NoMissedWakeup
  Durable
PROPERTY
  AllOrNothing
CHECK_DEADLOCK FALSE
