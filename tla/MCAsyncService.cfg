SPECIFICATION Spec
CONSTANTS
  Threads = {w1, w2, w3}
  Tasks = {t1, t2, t3}
  Null = Null
  Limits <- UpTo3
  PipeCapacity = 1
  MaxFailures = 0
SYMMETRY Symmetry
INVARIANTS
  TypeOK
  NoLostWakeup
  OnePlace
  CallbackMatches
  CloseLeavesNothing
PROPERTIES
  ImplementsPool
