CONSTANTS
  inflight_window_size = 2
  trigger = 4
  Limit = 2
  MaxMessages = 7
  MaxFaults = 1
  Timers = {1, 2, 3, 4, 5}
  TIMER_HEAP_INITIAL_SIZE = 5
  Cancelable = {1}
  Timeouts = {1, 3}
  Repeatable = {1}
  MaxTime = 2
  Nodes = {"n1", "n2"}
  Filters = {"f1", "f2"}
  Fickle = {"n2"}
  Wanted <- ClientsWant
  Published <- ClientsPublish
  MaxSubs <- SubsInLife
  MaxTunnelled = 1
  MaxClusterFaults = 1
SPECIFICATION PartsSpec
INVARIANTS
  HandedAsSent
  NothingStuck
  TimersArmed
  StoredInOrder
  NothingWaitsForever
  DecisionsBacked
  CallsAsRules
  RoutesSpread
  TunnelledOnce
  RouteHasMember
CHECK_DEADLOCK FALSE
