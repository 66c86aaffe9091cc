SPECIFICATION Spec
CONSTANTS
  CaptureThreads = {c1}
  App = app
  Callbacks = {cb}
  Windows = {}
  NULL = NULL
  Garbage = Garbage
  MaxFrame = 1
  FramePoolSize = 1
  Mjpeg = FALSE
INVARIANTS CalleeIsInstalled
CHECK_DEADLOCK FALSE
