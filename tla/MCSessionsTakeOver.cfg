CONSTANTS
  c1 = c1
  c2 = c2
  c3 = c3
  k1 = k1
  k2 = k2
  None = None
  Conns = {c1, c2}
  Clients = {k1}
  Auth = "anonymous"
  Clean <- AnyKind
  Subscribers = {}
  MaxPackets = 0
  MaxPublishes = 0
SPECIFICATION Spec
INVARIANTS
  RefsExact
CHECK_DEADLOCK FALSE
