SPECIFICATION Spec
CONSTANTS
  BSIZE = 2
  NDIRECT = 1
  NBLOCKS = 12
  NINODES = 5
  Procs = {p1, p2}
  None = None
  NINODE = 5
  NFILE = 2
  NOFILE = 2
  MaxCalls = 3
  MaxCrashes = 1
  MaxWrite = 1
  Calls <- MCCalls
  Kinds = {"dir", "file"}
SYMMETRY Interchangeable
INVARIANTS
  BlocksExact
  ContentKept
  NoDanglingName
  RefsExact
  CacheCoherent
  PanicsExplained
CHECK_DEADLOCK FALSE
