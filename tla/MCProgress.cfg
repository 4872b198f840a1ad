CONSTANTS
  c1 = c1
  c2 = c2
  Posters <- MCPosters
  max_pri = 1
  MaxPosts = 5
  inflight_window_size = 1
  Qos = {1, 2}
  IdSpace = 4
  MaxMsgs = 3
  MaxDrops = 2
  Workers = {w1, w2, w3}
  MaxTasks = 3
SPECIFICATION PartsSpec
INVARIANTS
  FifoPerPriority
  TaskTotalExact
  NoLostWakeup
  FirstCopiesInOrder
  PoolFifo
PROPERTIES
  PriorityRespected
  EveryTaskRuns
  ImplementsTaskQueues
  AllArriveUnlessStale
  DestroyReturns
CHECK_DEADLOCK FALSE
