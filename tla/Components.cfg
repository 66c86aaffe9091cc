SPECIFICATION Spec
CONSTANTS
  AudioClients = {c1, c2}
  MaxPosts = 3
  MaxGets = 1
  Names = {n1, n2}
  Ports = {p1, p2}
  NoPort = NoPort
  MaxDrivers = 2
  MaxConnects = 3
  Cameras = {k1, k2}
  NoCamera = NoCamera
  MaxQueue = 2
  Users = {u1, u2, u3}
  Owner = u0
  MaxOpens = 3
INVARIANTS AudioTypeOK NoLostWakeup SerialTypeOK NoReadOfClosedPort SensorTypeOK TaskSurvivesConnects CameraTypeOK FramesAreThere ObjectIsHeld UVCSourceTypeOK SurfaceOfMode OnlyFailedOpensLeak
PROPERTIES GettersAreWoken MessagesAreHandled ClearClosesTheMap EverySensorIsRead CloseEnds
CHECK_DEADLOCK FALSE
