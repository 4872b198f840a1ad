CONSTANTS
  c1 = c1
  c2 = c2
  c3 = c3
  k1 = k1
  k2 = k2
  None = None
  Conns = {c1, c2, c3}
  Clients = {k1}
  Auth = "file"
  Clean <- AnyKind
  Subscribers = {k1}
  MaxPackets = 1
  MaxPublishes = 0
SPECIFICATION Spec
SYMMETRY Symmetry
INVARIANTS
  ClosedIsPersistent
  OneEndDue
  WillUnlessDisconnect
  NoDanglingSession
  SubscriptionsAreCurrent
CHECK_DEADLOCK FALSE
