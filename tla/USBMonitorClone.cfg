SPECIFICATION Spec
CONSTANTS
  Device = {d1}
  Block = {b1, b2, b3}
  None = None
  MaxCalls = 3
PROPERTIES ClonesAreNotHandled
CHECK_DEADLOCK FALSE
