CONSTANTS
  k1 = k1
  k2 = k2
  m1 = m1
  m2 = m2
  rule = rule
  None = None
  Filters <- SmallFilters
  Topics <- SmallTopics
  Clients = {k1}
  Messages = {m1}
  Listeners = {rule}
  Members = {}
  MaxSubs = 2
  MaxRetained = 1
  MaxRegistered = 1
SPECIFICATION TreeSpec
PROPERTIES
  RegistrationsKept
CHECK_DEADLOCK FALSE
