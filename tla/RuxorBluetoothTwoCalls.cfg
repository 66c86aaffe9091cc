SPECIFICATION Spec
CONSTANTS
  Connects = {k1, k2}
  Accepts = {}
  NULL = NULL
  Bytes = {}
  Matching = 1
  OrderlyCalls = FALSE
  MaxCalls = 2
  MaxMessages = 1
PROPERTIES CancelledInLoopEnds ReadersEnd
CHECK_DEADLOCK FALSE
