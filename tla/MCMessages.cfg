CONSTANTS
  inflight_window_size = 2
  Qos = {0, 1, 2}
  IdSpace = 3
  MaxMsgs = 4
  MaxDrops = 2
  k1 = k1
  k2 = k2
  m1 = m1
  m2 = m2
  rule = rule
  None = None
  Filters <- MCFilters
  Topics <- MCTopics
  Clients = {k1, k2}
  Messages = {m1, m2}
  Listeners = {rule}
  Members = {}
  MaxSubs = 3
  MaxRetained = 1
  MaxRegistered = 1
SPECIFICATION PartsSpec
SYMMETRY Symmetry
INVARIANTS
  WindowInv
  AtMostOnce
  DiscardsOnlyRedeliveries
  NothingLost
  NoOrphanIds
  RecipientsExact
  RetainedExact
  NoUselessNodes
CHECK_DEADLOCK FALSE
