SPECIFICATION Spec
CONSTANTS
  Clients = {c1, c2}
  Pipes = {p1, p2}
  Self = Self
  None = None
  Fds = {3, 4, 5, 6, 7, 8}
  PipeCapacity = 1
SYMMETRY Symmetry
INVARIANTS
  SubscribersMatch
  PublisherTargetsLive
  AllOrNothing
  NoLeak
