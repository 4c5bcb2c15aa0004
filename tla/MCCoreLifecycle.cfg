SPECIFICATION FairSpec
CONSTANTS
  Apps = {a1, a2}
  PoolSize = 8
  MaxCalls = 9
  Faults = {"release"}
  NoJob = NoJob
INVARIANTS ReadyMeansIdle ConnectedHasSession HelpersJoined
INVARIANTS FinalizingOwned PendingRetryable EveryJobAccounted
PROPERTIES AcceptedCallsBack DeinitReturns
CHECK_DEADLOCK FALSE
