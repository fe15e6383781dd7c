SPECIFICATION Spec
CONSTANTS
  NPROC = 3
  NCPU = 2
  MaxPid = 4
  MaxTicks = 2
  Priorities = {60}
INVARIANTS RunningOnOneCpu ParentIsAlive NoMissedWakeup RtimeOffByOne
CHECK_DEADLOCK FALSE
