SPECIFICATION Spec
CONSTANTS
  Num = {0, 1}
  Obj = {o1, o2}
SYMMETRY Symmetry
INVARIANTS
  ErrorIsTheCalls
  NothingLost
  FlagsBeforeSignals
  ClosesOwn
