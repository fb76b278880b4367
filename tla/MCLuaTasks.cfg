SPECIFICATION Spec
CONSTANTS
  Tasks = {t1, t2, t3}
INVARIANTS
  AliveWhileInFlight
  AnchoredExactly
PROPERTIES
  Collected
