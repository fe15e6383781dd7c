SPECIFICATION Spec
CONSTANTS
  Procs = {p1, p2, p3}
  Frames = {f1, f2, f3, f4, f5}
  Ids = {i1}
  Values = {v1}
  UserTop = 3
SYMMETRY
  Interchangeable
INVARIANTS
  FramesExact
  SharedUntilFreed
CHECK_DEADLOCK FALSE
