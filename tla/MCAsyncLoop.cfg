SPECIFICATION LoopSpec
CONSTANTS
  Threads = {w1, w2}
  Tasks = {t1, t2, t3}
  Null = Null
  Limits <- LoopLimits
  PipeCapacity = 2
  MaxFailures = 0
INVARIANTS
  NeverMissed
  NothingCancelled
PROPERTIES
  LoopEnds
