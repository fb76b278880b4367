SPECIFICATION Spec
CONSTANTS
  Threads = {w1, w2}
  Tasks = {t1, t2, t3}
  Null = Null
  Limits <- UpTo2
  PipeCapacity = 1
  MaxFailures = 2
SYMMETRY Symmetry
INVARIANTS
  CountersAccounted
  EnoughThreads
CHECK_DEADLOCK FALSE
