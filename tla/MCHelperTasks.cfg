SPECIFICATION Spec
CONSTANTS
  Pushers = {callback}
  Poppers = {downlink}
  Capacity = 2
  MaxPush = 3
  NoThread = NoThread
  Users = {ntp_task, service}
  Offsets <- OffsetValues
  MaxOffset = 1
  NoUser = NoUser
INVARIANTS TypeOK QueueSound FreedOnlyQuiet
PROPERTIES TeardownsEnd
CHECK_DEADLOCK FALSE
