SPECIFICATION DevicesSpec
CONSTANTS
  Procs = {p1, p2}
  None = None
  Sleepers = {p2}
  INPUT_BUF = 2
  Wrap = 4
  Letters = {"a"}
  ReadSizes = {2}
  Delays <- MCDelays
  MaxKilled = 1
PROPERTIES InputDiscipline SleepsLongEnough WaitsEnd
CHECK_DEADLOCK FALSE
