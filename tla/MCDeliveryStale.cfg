CONSTANTS
  inflight_window_size = 1
  Qos = {1, 2}
  IdSpace = 4
  MaxMsgs = 2
  MaxDrops = 1
SPECIFICATION FairSpec
PROPERTIES
  AllArrive
CHECK_DEADLOCK FALSE
