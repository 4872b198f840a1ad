CONSTANTS
  inflight_window_size = 2
  Qos = {2}
  IdSpace = 2
  MaxMsgs = 3
  MaxDrops = 0
SPECIFICATION Spec
INVARIANTS
  DiscardsOnlyRedeliveries
CHECK_DEADLOCK FALSE
