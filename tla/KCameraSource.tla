----------------------------- MODULE KCameraSource -----------------------------
(***************************************************************************)
(* The built-in camera: KCameraSource on the thread of the application and  *)
(* on its background thread, which runs the callbacks of the camera, of the *)
(* capture session and of the image reader.                                *)
(*                                                                         *)
(* closeCamera holds the semaphore while it closes, but nothing acquires it *)
(* to open: the callbacks only release it. So its steps interleave with     *)
(* those of a callback, and what keeps them apart in the end is the join of *)
(* the background thread. The application opens the camera again only after *)
(* it has closed it.                                                       *)
(***************************************************************************)
EXTENDS Naturals, Sequences

CONSTANTS
  Cameras,      \* identities of CameraDevice objects
  NoCamera,
  MaxQueue      \* bound: callbacks waiting for the background thread

ASSUME CameraConstants == NoCamera \notin Cameras /\ MaxQueue \in Nat

VARIABLES
  app,                            \* the call the application is in
  background,                     \* the background thread, its callback and its queue
  cameraDevice, cameraCaptureSession, imageReader,
  cameras,                        \* the camera service's devices
  permits,                        \* of the semaphore
  byteBufferStreamList            \* its size

fields == <<cameraDevice, cameraCaptureSession, imageReader>>
cameraVars == <<app, background, fields, cameras, permits, byteBufferStreamList>>

Callbacks == {"opened", "gone", "configured", "image"}

CameraTypeOK ==
  /\ app \in {"idle", "record", "acquire", "session", "device", "forget", "reader", "release",
              "quit", "join", "clear"}
  /\ background \in
       [thread: {"none", "running", "quitting"},
        pc: {"idle", "preview", "release", "deliver", "goneClose", "goneForget"},
        queue: Seq(Callbacks \X (Cameras \cup {NoCamera}))]
  /\ cameraDevice \in Cameras \cup {NoCamera}
  /\ cameraCaptureSession \in BOOLEAN /\ imageReader \in BOOLEAN
  /\ cameras \in [Cameras -> {"unused", "requested", "open", "gone", "closed"}]
  /\ permits \in Nat
  /\ byteBufferStreamList \in 0..3

CameraInit ==
  /\ app = "idle"
  /\ background = [thread |-> "none", pc |-> "idle", queue |-> <<>>]
  /\ cameraDevice = NoCamera /\ cameraCaptureSession = FALSE /\ imageReader = FALSE
  /\ cameras = [c \in Cameras |-> "unused"]
  /\ permits = 1
  /\ byteBufferStreamList = 0

-----------------------------------------------------------------------------
(* The camera service posts callbacks to the background thread; a thread    *)
(* that quits takes no more.                                               *)

Callback(what, c) ==
  background' = IF background.thread = "running"
                THEN [background EXCEPT !.queue = Append(@, <<what, c>>)] ELSE background

Service(c, from, to, what) ==
  /\ cameras[c] = from /\ Len(background.queue) < MaxQueue
  /\ cameras' = [cameras EXCEPT ![c] = to]
  /\ Callback(what, c)
  /\ UNCHANGED <<app, fields, permits, byteBufferStreamList>>

CameraOpens(c) == Service(c, "requested", "open", "opened")

\* onDisconnected or onError.
CameraGoes(c) == Service(c, "requested", "gone", "gone") \/ Service(c, "open", "gone", "gone")

ImageComes ==
  /\ cameraCaptureSession /\ imageReader
  /\ Len(background.queue) < MaxQueue /\ background.thread = "running"
  /\ Callback("image", NoCamera)
  /\ UNCHANGED <<app, fields, cameras, permits, byteBufferStreamList>>

-----------------------------------------------------------------------------
(* openCamera and closeCamera.                                             *)

\* checkCameraDevice may have found no camera.
OpenBuiltIn ==
  /\ app = "idle" /\ background.thread = "none"
  /\ byteBufferStreamList' = 0
  /\ background' = [background EXCEPT !.thread = "running"]
  /\ imageReader' = TRUE
  /\ \/ UNCHANGED cameras
     \/ \E c \in Cameras :
          /\ cameras[c] = "unused"
          /\ cameras' = [cameras EXCEPT ![c] = "requested"]
  /\ UNCHANGED <<app, cameraDevice, cameraCaptureSession, permits>>

CloseBuiltIn ==
  /\ app = "idle" /\ background.thread = "running"
  /\ app' = "acquire"
  /\ UNCHANGED <<background, fields, cameras, permits, byteBufferStreamList>>

AcquirePermit ==
  /\ app = "acquire" /\ permits > 0
  /\ app' = "session"
  /\ permits' = permits - 1
  /\ UNCHANGED <<background, fields, cameras, byteBufferStreamList>>

ClosePreviewSession ==
  /\ app = "session"
  /\ app' = "device"
  /\ cameraCaptureSession' = FALSE
  /\ UNCHANGED <<background, cameraDevice, imageReader, cameras, permits, byteBufferStreamList>>

\* cameraDevice?.close()
DeviceClosed == cameras' = [c \in Cameras |-> IF c = cameraDevice THEN "closed" ELSE cameras[c]]

CloseCameraDevice ==
  /\ app = "device"
  /\ app' = "forget"
  /\ DeviceClosed
  /\ UNCHANGED <<background, fields, permits, byteBufferStreamList>>

ForgetCameraDevice ==
  /\ app = "forget"
  /\ app' = "reader"
  /\ cameraDevice' = NoCamera
  /\ UNCHANGED <<background, cameraCaptureSession, imageReader, cameras, permits, byteBufferStreamList>>

CloseImageReader ==
  /\ app = "reader"
  /\ app' = "release"
  /\ imageReader' = FALSE
  /\ UNCHANGED <<background, cameraDevice, cameraCaptureSession, cameras, permits, byteBufferStreamList>>

ReleasePermit ==
  /\ app = "release"
  /\ app' = "quit"
  /\ permits' = permits + 1
  /\ UNCHANGED <<background, fields, cameras, byteBufferStreamList>>

\* Mutant: the frames are dropped while the background thread still runs.
ClearBeforeJoin ==
  /\ app = "quit"
  /\ app' = "join"
  /\ background' = [background EXCEPT !.thread = "quitting"]
  /\ byteBufferStreamList' = 0
  /\ UNCHANGED <<fields, cameras, permits>>

QuitSafely ==
  /\ app = "quit"
  /\ app' = "join"
  /\ background' = [background EXCEPT !.thread = "quitting"]
  /\ UNCHANGED <<fields, cameras, permits, byteBufferStreamList>>

\* The thread ends when it has run the callbacks it had.
JoinBackground ==
  /\ app = "join" /\ background.pc = "idle" /\ background.queue = <<>>
  /\ app' = "clear"
  /\ background' = [background EXCEPT !.thread = "none"]
  /\ UNCHANGED <<fields, cameras, permits, byteBufferStreamList>>

ClearFrames ==
  /\ app = "clear"
  /\ app' = "idle"
  /\ byteBufferStreamList' = 0
  /\ UNCHANGED <<background, fields, cameras, permits>>

-----------------------------------------------------------------------------
(* startRecord and stopRecord, on the application's thread.                 *)

\* A new session for the device, if there is one; the service announces it, or that it
\* failed.
NewSession(pc) ==
  /\ cameraCaptureSession' = FALSE
  /\ \E configured \in BOOLEAN :
       background' = [background EXCEPT !.pc = pc, !.queue =
         IF configured /\ cameraDevice # NoCamera /\ background.thread = "running"
         THEN Append(@, <<"configured", NoCamera>>) ELSE @]
  /\ UNCHANGED <<cameraDevice, imageReader, cameras, permits, byteBufferStreamList>>

\* The recorder is made and prepared, or prepare() throws to the application.
StartRecord ==
  /\ app = "idle"
  /\ app' \in {"record", "idle"}
  /\ cameraCaptureSession' = FALSE
  /\ UNCHANGED <<background, cameraDevice, imageReader, cameras, permits, byteBufferStreamList>>

StartRecordPreview ==
  /\ app = "record" /\ Len(background.queue) < MaxQueue
  /\ app' = "idle"
  /\ NewSession(background.pc)

\* The recorder, which nothing has started, throws; the preview starts again.
StopRecord ==
  /\ app = "idle" /\ Len(background.queue) < MaxQueue
  /\ NewSession(background.pc)
  /\ UNCHANGED app

-----------------------------------------------------------------------------
(* The callbacks.                                                          *)

RunCallback(what, pc) ==
  /\ background.thread # "none" /\ background.pc = "idle"
  /\ background.queue # <<>> /\ Head(background.queue)[1] = what
  /\ background' = [background EXCEPT !.pc = pc, !.queue = Tail(@)]
  /\ UNCHANGED app

OnOpened ==
  /\ RunCallback("opened", "preview")
  /\ cameraDevice' = Head(background.queue)[2]
  /\ UNCHANGED <<cameraCaptureSession, imageReader, cameras, permits, byteBufferStreamList>>

StartLivePreview ==
  /\ background.pc = "preview"
  /\ NewSession("release")
  /\ UNCHANGED app

\* Mutant: onOpened acquires the semaphore.
OnOpenedAcquires ==
  /\ background.pc = "release" /\ permits > 0
  /\ background' = [background EXCEPT !.pc = "idle"]
  /\ permits' = permits - 1
  /\ UNCHANGED <<app, fields, cameras, byteBufferStreamList>>

OnOpenedReleases ==
  /\ background.pc = "release"
  /\ background' = [background EXCEPT !.pc = "idle"]
  /\ permits' = permits + 1
  /\ UNCHANGED <<app, fields, cameras, byteBufferStreamList>>

\* onDisconnected and onError: the permit, close, and null, between the steps of closeCamera.
OnGone ==
  /\ RunCallback("gone", "goneClose")
  /\ permits' = permits + 1
  /\ UNCHANGED <<fields, cameras, byteBufferStreamList>>

OnGoneCloses ==
  /\ background.pc = "goneClose"
  /\ background' = [background EXCEPT !.pc = "goneForget"]
  /\ DeviceClosed
  /\ UNCHANGED <<app, fields, permits, byteBufferStreamList>>

OnGoneForgets ==
  /\ background.pc = "goneForget"
  /\ background' = [background EXCEPT !.pc = "idle"]
  /\ cameraDevice' = NoCamera
  /\ UNCHANGED <<app, cameraCaptureSession, imageReader, cameras, permits, byteBufferStreamList>>

OnConfigured ==
  /\ RunCallback("configured", "idle")
  /\ cameraCaptureSession' = TRUE
  /\ UNCHANGED <<cameraDevice, imageReader, cameras, permits, byteBufferStreamList>>

\* imageReaderAvailable: no image, or one that is added; the third one is delivered.
OnImage ==
  /\ \/ /\ RunCallback("image", "idle")
        /\ UNCHANGED byteBufferStreamList
     \/ /\ RunCallback("image", IF byteBufferStreamList >= 2 THEN "deliver" ELSE "idle")
        /\ byteBufferStreamList' = byteBufferStreamList + 1
  /\ UNCHANGED <<fields, cameras, permits>>

\* Mutant: the delivered frame stays in the list.
DeliverFrameKeeps ==
  /\ background.pc = "deliver"
  /\ background' = [background EXCEPT !.pc = "idle"]
  /\ byteBufferStreamList' = byteBufferStreamList
  /\ UNCHANGED <<app, fields, cameras, permits>>

DeliverFrame ==
  /\ background.pc = "deliver"
  /\ background' = [background EXCEPT !.pc = "idle"]
  /\ byteBufferStreamList' = byteBufferStreamList - 1
  /\ UNCHANGED <<app, fields, cameras, permits>>

-----------------------------------------------------------------------------

CloseStep ==
  \/ AcquirePermit \/ ClosePreviewSession \/ CloseCameraDevice \/ ForgetCameraDevice
  \/ CloseImageReader
  \/ ReleasePermit \/ QuitSafely \/ JoinBackground \/ ClearFrames

BackgroundStep ==
  \/ OnOpened \/ StartLivePreview \/ OnOpenedReleases
  \/ OnGone \/ OnGoneCloses \/ OnGoneForgets \/ OnConfigured
  \/ OnImage \/ DeliverFrame

CameraNext ==
  \/ \E c \in Cameras : CameraOpens(c) \/ CameraGoes(c)
  \/ ImageComes \/ OpenBuiltIn \/ CloseBuiltIn
  \/ StartRecord \/ StartRecordPreview \/ StopRecord
  \/ CloseStep \/ BackgroundStep

CameraSpec == CameraInit /\ [][CameraNext]_cameraVars

-----------------------------------------------------------------------------
(* Properties.                                                             *)

\* The frames an image callback has counted are there when it delivers one: neither
\* openCamera nor closeCamera clears the list under it, though they take no lock.
FramesAreThere == background.pc = "deliver" => byteBufferStreamList = 3

\* closeCamera comes to its end, whatever callbacks are running and waiting.
CloseEnds == (app \notin {"idle", "record"}) ~> (app = "idle")
=============================================================================
