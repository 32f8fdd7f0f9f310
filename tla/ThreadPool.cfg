SPECIFICATION PoolFairSpec
CONSTANTS
  MinThr = 1
  MaxThr = 2
  QueueMax = 1
  SpareThr = 1
  CreateMax = 2
  Lines = 1
  NTasks = 4
  CreateMayFail = TRUE
INVARIANTS PoolTypeOK EachTaskOnce BusyExact SlotsOfThreads FreeIsLast
PROPERTY EveryTaskReturns
CHECK_DEADLOCK FALSE
