SPECIFICATION Spec
CONSTANTS
  Device = {d1}
  Block = {b1, b2, b3, b4}
  None = None
  MaxCalls = 4
INVARIANTS TypeOK ClosedBlockLeaves CameraHasConnection RegisteredIsChecked AnswersAreOwed
PROPERTIES ConnectIsAnswered KeepsPromise
CHECK_DEADLOCK FALSE
