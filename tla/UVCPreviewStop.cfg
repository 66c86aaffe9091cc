SPECIFICATION Spec
CONSTANTS
  CaptureThreads = {c1}
  App = app
  Callbacks = {}
  Windows = {}
  NULL = NULL
  Garbage = Garbage
  MaxFrame = 1
  FramePoolSize = 1
  Mjpeg = TRUE
PROPERTIES PreviewJoinReturns
CHECK_DEADLOCK FALSE
