CONSTANTS
  Callers = {caller}
  Handlers = {downlink}
  Owners = {owner}
SPECIFICATION Spec
INVARIANTS NoCircularWait
CHECK_DEADLOCK FALSE
