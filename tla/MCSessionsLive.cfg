CONSTANTS
  c1 = c1
  c2 = c2
  c3 = c3
  k1 = k1
  k2 = k2
  None = None
  Conns = {c1, c2}
  Clients = {k1, k2}
  Auth = "mysql"
  Clean <- OneKind
  Subscribers = {k2}
  MaxPackets = 1
  MaxPublishes = 1
SPECIFICATION FairSpec
INVARIANTS
  RefsExact
PROPERTIES
  EveryConnectAnswered
  LostSessionsClose
CHECK_DEADLOCK FALSE
