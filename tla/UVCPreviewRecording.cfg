SPECIFICATION Spec
CONSTANTS
  CaptureThreads = {c1}
  App = app
  Callbacks = {}
  Windows = {w}
  NULL = NULL
  Garbage = Garbage
  MaxFrame = 1
  FramePoolSize = 1
  Mjpeg = FALSE
INVARIANTS FramesAccountedFor
PROPERTIES CaptureJoinReturns FullQueueDrains
CHECK_DEADLOCK FALSE
