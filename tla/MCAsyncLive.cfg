SPECIFICATION FairSpec
CONSTANTS
  Threads = {w1, w2}
  Tasks = {t1, t2}
  Null = Null
  Limits <- Working
  PipeCapacity = 1
  MaxFailures = 0
PROPERTIES
  EventuallyCalled
  CloseReturns
  ImplementsFairPool
