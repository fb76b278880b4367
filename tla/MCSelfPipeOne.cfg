SPECIFICATION FairSpec
CONSTANTS
  Clients = {c1}
  Pipes = {p1, p2}
  Self = Self
  None = None
  Fds = {3, 4, 5, 6, 7, 8}
  PipeCapacity = 2
INVARIANTS
  TriggerTargetsSelf
PROPERTIES
  SignalSeen
  CallsReturn
