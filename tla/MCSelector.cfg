SPECIFICATION BothSpec
CONSTANTS
  f1 = f1
  f2 = f2
  Fd <- MCFd
  Signals <- MCSignals
  Wanted <- MCWanted
  Fragile <- MCFragile
  InitialSize = 1
  MaxSize = 4
PROPERTY ImplementsSelector
PROPERTY ReadyReported
