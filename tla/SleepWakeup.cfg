SPECIFICATION Spec
CONSTANTS
  Procs = {p1, p2, p3}
  NCPU = 2
  None = None
INVARIANTS
  NoPanic
  InterruptsComeBack
  NoSpinDeadlock
PROPERTY
  AtomicSleep
