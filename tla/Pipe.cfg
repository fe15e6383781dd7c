SPECIFICATION FairSpec
CONSTANTS
  Procs = {p1, p2, p3}
  None = None
  PIPESIZE = 2
  Wrap = 4
  ReadSizes = {1, 2}
  WriteSizes = {3}
  MaxKilled = 1
  MaxBytes = 2
INVARIANTS
  Stream
  NoMissedWakeup
PROPERTY
  EndOfFile
CHECK_DEADLOCK FALSE
