SPECIFICATION MutexFairSpec
CONSTANTS
  Procs = {1, 2, 3}
  None = None
  MaxMutexes = 2
CONSTRAINT
  Explored
INVARIANT
  MutexExclusion
PROPERTY
  FreeMutexTaken
CHECK_DEADLOCK FALSE
