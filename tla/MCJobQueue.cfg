SPECIFICATION Spec
CONSTANTS
  Threads = {t1, t2, t3}
  Dequeuers = {t1, t2, t3}
  PoolSize = 3
  Depth = 2
  RefMax = 2
  WaiterMax = 3
  Faults = {"wait", "post", "destroy"}
  NoJob = NoJob
SYMMETRY ThreadSymmetry
INVARIANTS TypeOK FreeStackExact SingleOwner NoJobLeaked TokensMatchJobs DestroyOnlyQuiet
PROPERTY ImplementsChannel
CHECK_DEADLOCK FALSE
