SPECIFICATION Spec
CONSTANTS
  Connects = {k1, k2}
  Accepts = {a1, a2}
  NULL = NULL
  Bytes = {b1, b2}
  Matching = 1
  OrderlyCalls = FALSE
  MaxCalls = 1
  MaxMessages = 2
INVARIANTS DeliveredAsRead
CHECK_DEADLOCK FALSE
