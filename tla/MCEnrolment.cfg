CONSTANTS
  MaxMint = 2
  DownlinkCap = 1
SPECIFICATION Spec
INVARIANTS TypeOK MarkerHasKey AnswersSound IdentityUsable
