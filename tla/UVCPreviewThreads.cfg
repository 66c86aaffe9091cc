SPECIFICATION Spec
CONSTANTS
  CaptureThreads = {c1, c2}
  App = app
  Callbacks = {cb}
  Windows = {}
  NULL = NULL
  Garbage = Garbage
  MaxFrame = 1
  FramePoolSize = 1
  Mjpeg = TRUE
SYMMETRY Symmetry
INVARIANTS TypeOK PreviewNotAsleepOnFrame CaptureNotAsleepOnFrame StoppedIsQuiet
CHECK_DEADLOCK FALSE
