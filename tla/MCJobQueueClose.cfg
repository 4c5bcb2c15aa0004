SPECIFICATION FairSpec
CONSTANTS
  Threads = {t1, t2, t3}
  Dequeuers = {t1}
  PoolSize = 2
  Depth = 2
  RefMax = 1
  WaiterMax = 2
  Faults = {"lock", "wait"}
  NoJob = NoJob
INVARIANT TokensMatchJobs
PROPERTY ClosedQueueFreesWaiters
CHECK_DEADLOCK FALSE
