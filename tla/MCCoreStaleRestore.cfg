SPECIFICATION Spec
CONSTANTS
  Apps = {a1}
  PoolSize = 2
  MaxCalls = 4
  Faults = {}
  NoJob = NoJob
INVARIANTS ReadyMeansIdle
CHECK_DEADLOCK FALSE
