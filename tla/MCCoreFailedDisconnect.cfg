SPECIFICATION Spec
CONSTANTS
  Apps = {a1}
  PoolSize = 4
  MaxCalls = 4
  Faults = {"cloud"}
  NoJob = NoJob
INVARIANTS ConnectedHasSession
CHECK_DEADLOCK FALSE
