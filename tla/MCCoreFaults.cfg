SPECIFICATION Spec
CONSTANTS
  Apps = {a1, a2}
  PoolSize = 2
  MaxCalls = 8
  Faults = {"start", "dequeue", "stop", "cloud", "release", "lock", "drop"}
  NoJob = NoJob
SYMMETRY AppSymmetry
INVARIANTS TypeOK OneTeardown UninitQuiet DismantleAfterService DeinitJobClaimed
CHECK_DEADLOCK FALSE
