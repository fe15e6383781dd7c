SPECIFICATION Spec
CONSTANTS
  Procs = {p1, p2}
  Pages = {g1, g2, g3, g4}
  Keys = {1}
  Types = {1, 2}
  MaxIds = 2
  MaxSends = 3
  None = None
INVARIANTS
  NodeOwnedOnce
  NoMissedMessage
PROPERTY
  TypedFifo
SYMMETRY
  Interchangeable
CHECK_DEADLOCK FALSE
