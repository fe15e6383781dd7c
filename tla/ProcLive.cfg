SPECIFICATION FairSpec
CONSTANTS
  NPROC = 3
  NCPU = 2
  MaxPid = 4
  MaxTicks = 0
  Priorities = {}
PROPERTIES KilledExits OrphansReaped NoStarvation
CHECK_DEADLOCK FALSE
