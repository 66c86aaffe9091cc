SPECIFICATION Spec
CONSTANTS
  Connects = {k1, k2}
  Accepts = {a1, a2}
  NULL = NULL
  Bytes = {b1}
  Matching = 1
  OrderlyCalls = TRUE
  MaxCalls = 2
  MaxMessages = 1
INVARIANTS TypeOK OneConnection LinkIsReachable NothingThrows DisconnectIsOfTheLink
PROPERTIES LostIsRetried ClientKeepsTrying
CHECK_DEADLOCK FALSE
