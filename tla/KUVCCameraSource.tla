--------------------------- MODULE KUVCCameraSource ---------------------------
(***************************************************************************)
(* The USB camera of the application: KUVCCameraSource with the UVCCamera,  *)
(* the control block and the MediaRecorder it holds.                       *)
(*                                                                         *)
(* Its calls and the permission broadcast run on the main thread; frames    *)
(* come on the capture thread of the native preview, which locks the list   *)
(* of frames, while openUVCCamera and closeUVCCamera clear it without the    *)
(* lock. An exception of the recorder goes to the caller and leaves the call *)
(* where it was; one of pause or stop has changed nothing.                  *)
(* A camera is opened only when the last one is closed and no permission is  *)
(* asked for. Nothing sets autoRecord, so a recording is never split.        *)
(***************************************************************************)
EXTENDS Naturals

CONSTANT MaxOpens    \* bound: calls of openUVCCamera

ASSUME UVCSourceConstants == MaxOpens \in Nat

VARIABLES
  source,             \* permission, the call that is under way and what is left of it, opens,
                      \* and whether the recording was started without an open camera
  uvcCamera,          \* the camera object: what it shows, and to which surface
  usbControlBlock,
  isVideoRecording, mediaRecorder,
  clones,             \* clones of control blocks that are open; those a failed open made
  frames              \* byteBufferStreamList: its size, the frame in hand

connection    == <<uvcCamera, usbControlBlock, clones>>
recording     == <<isVideoRecording, mediaRecorder>>
uvcSourceVars == <<source, connection, recording, frames>>

UVCSourceTypeOK ==
  /\ source \in [permission: {"none", "asked", "granted"},
                 call: {"none", "show", "showFirst", "clear", "close"},
                 opens: 0..MaxOpens, early: BOOLEAN]
  /\ uvcCamera \in [state: {"null", "open", "closed"}, preview: BOOLEAN,
                    window: {"none", "reader", "recorder"}, callback: BOOLEAN]
  /\ usbControlBlock \in {"null", "open", "closed"}
  /\ isVideoRecording \in BOOLEAN /\ mediaRecorder \in {"null", "made", "started"}
  /\ clones \in [open: 0..MaxOpens, failed: 0..MaxOpens]
  /\ frames \in [size: 0..3, pc: {"idle", "get", "remove"}]

UVCSourceInit ==
  /\ source = [permission |-> "none", call |-> "none", opens |-> 0, early |-> FALSE]
  /\ uvcCamera = [state |-> "null", preview |-> FALSE, window |-> "none", callback |-> FALSE]
  /\ usbControlBlock = "null"
  /\ isVideoRecording = FALSE /\ mediaRecorder = "null"
  /\ clones = [open |-> 0, failed |-> 0]
  /\ frames = [size |-> 0, pc |-> "idle"]

-----------------------------------------------------------------------------
(* UVCCamera, used through uvcCamera?.                                     *)

PreviewStopped(c) == [c EXCEPT !.preview = FALSE, !.callback = FALSE]

\* setPreviewDisplay, setFrameCallback and startPreview: nothing without a connection, and
\* the native start fails without a word.
Shown(c, surface, started) ==
  IF c.state = "open"
  THEN [c EXCEPT !.window = surface, !.callback = TRUE, !.preview = started] ELSE c

\* The surface changes while the preview is stopped.
ShowAt(surface) ==
  \E started \in BOOLEAN : uvcCamera' = Shown(PreviewStopped(uvcCamera), surface, started)

\* The main thread is in no call.
Ready == source.call = "none"

-----------------------------------------------------------------------------
(* openUVCCamera and connectUVCCamera.                                     *)

\* openDevice gives the block that is open or a new one, or throws.
BlockOpened == usbControlBlock' = "open"

\* connectUVCCamera catches every exception: nothing is opened, or the block, or the block
\* and the clone of a camera object that is not assigned, or all but the preview.
ConnectUVCCamera ==
  /\ frames' = [frames EXCEPT !.size = 0]
  /\ \/ UNCHANGED connection
     \/ BlockOpened /\ UNCHANGED <<uvcCamera, clones>>
     \/ /\ BlockOpened
        /\ clones' = [clones EXCEPT !.open = @ + 1, !.failed = @ + 1]
        /\ UNCHANGED uvcCamera
     \/ /\ BlockOpened
        /\ clones' = [clones EXCEPT !.open = @ + 1]
        /\ \E sized, started \in BOOLEAN :
             LET new == [state |-> "open", preview |-> FALSE, window |-> "none", callback |-> FALSE]
             IN  uvcCamera' = IF sized THEN Shown(new, "reader", started) ELSE new

OpenUVCCamera ==
  /\ Ready /\ source.opens < MaxOpens
  /\ uvcCamera.state # "open" /\ source.permission # "asked"
  /\ source' = [source EXCEPT !.opens = @ + 1,
                  !.permission = IF @ = "granted" THEN @ ELSE "asked"]
  /\ IF source.permission = "granted" THEN ConnectUVCCamera
     ELSE frames' = [frames EXCEPT !.size = 0] /\ UNCHANGED connection
  /\ UNCHANGED recording

\* The permission receiver opens the camera, even one that was closed meanwhile.
PermissionGranted ==
  /\ Ready /\ source.permission = "asked"
  /\ source' = [source EXCEPT !.permission = "granted"]
  /\ ConnectUVCCamera
  /\ UNCHANGED recording

PermissionDenied ==
  /\ Ready /\ source.permission = "asked"
  /\ source' = [source EXCEPT !.permission = "none"]
  /\ UNCHANGED <<connection, recording, frames>>

-----------------------------------------------------------------------------
(* Recording.                                                              *)

\* stopPreview, then the recorder is prepared and gives its surface, the preview starts on it,
\* and the recorder starts. A recorder that throws is kept as it is, by a preview that has
\* stopped or, when start throws, by one that draws to it.
StartRecordVideo ==
  /\ Ready /\ ~isVideoRecording
  /\ \/ /\ uvcCamera' = PreviewStopped(uvcCamera)
        /\ mediaRecorder' = "made" /\ UNCHANGED <<source, isVideoRecording>>
     \/ /\ ShowAt("recorder")
        /\ mediaRecorder' = "made" /\ UNCHANGED <<source, isVideoRecording>>
     \/ /\ ShowAt("recorder")
        /\ mediaRecorder' = "started" /\ isVideoRecording' = TRUE
        /\ source' = [source EXCEPT !.early = uvcCamera.state # "open"]
  /\ UNCHANGED <<usbControlBlock, clones, frames>>

\* The recorder is stopped and released, if there is a recording.
RecorderReleased ==
  /\ isVideoRecording' = FALSE
  /\ mediaRecorder' = IF isVideoRecording THEN "null" ELSE mediaRecorder

\* Mutant: the surface stays the recorder's.
StopRecordVideoOnly ==
  /\ Ready
  /\ RecorderReleased
  /\ source' = [source EXCEPT !.early = FALSE]
  /\ UNCHANGED <<connection, frames>>

StopRecordVideo ==
  /\ Ready
  /\ RecorderReleased
  /\ source' = [source EXCEPT !.early = FALSE, !.call = "show"]
  /\ UNCHANGED <<connection, frames>>

\* Also without a recording the preview starts again, on the reader.
ShowOnReader ==
  /\ source.call \in {"show", "showFirst"}
  /\ source' = [source EXCEPT !.call = IF @ = "show" THEN "none" ELSE "clear"]
  /\ ShowAt("reader")
  /\ UNCHANGED <<usbControlBlock, clones, recording, frames>>

-----------------------------------------------------------------------------
(* closeUVCCamera.                                                         *)

\* A recording is stopped first, as stopRecordVideo does.
CloseUVCCamera ==
  /\ Ready
  /\ RecorderReleased
  /\ source' = [source EXCEPT !.early = FALSE,
                  !.call = IF isVideoRecording THEN "showFirst" ELSE "clear"]
  /\ UNCHANGED <<connection, frames>>

\* The preview is still running.
ClearStream ==
  /\ source.call = "clear"
  /\ source' = [source EXCEPT !.call = "close"]
  /\ frames' = [frames EXCEPT !.size = 0]
  /\ UNCHANGED <<connection, recording>>

Closed(s) == IF s = "open" THEN "closed" ELSE s

\* Mutant: only the block the source was given is closed.
CloseBlockOnly ==
  /\ source.call = "close"
  /\ source' = [source EXCEPT !.call = "none"]
  /\ uvcCamera' = [PreviewStopped(uvcCamera) EXCEPT !.state = Closed(@)]
  /\ usbControlBlock' = Closed(usbControlBlock)
  /\ UNCHANGED <<clones, recording, frames>>

\* UVCCamera.close, which closes its clone, then the block. A callback may be under way:
\* stopping the preview may miss its thread.
CloseConnections ==
  /\ source.call = "close"
  /\ source' = [source EXCEPT !.call = "none"]
  /\ uvcCamera' = [PreviewStopped(uvcCamera) EXCEPT !.state = Closed(@), !.window = "none"]
  /\ clones' = IF uvcCamera.state = "open" THEN [clones EXCEPT !.open = @ - 1] ELSE clones
  /\ usbControlBlock' = Closed(usbControlBlock)
  /\ UNCHANGED <<recording, frames>>

-----------------------------------------------------------------------------
(* iFrameCallback, on the capture thread.                                   *)

AddFrame ==
  /\ uvcCamera.preview /\ uvcCamera.callback /\ frames.pc = "idle"
  /\ frames' = [size |-> frames.size + 1, pc |-> IF frames.size + 1 > 2 THEN "get" ELSE "idle"]
  /\ UNCHANGED <<source, connection, recording>>

\* list[1] throws when the list was cleared meanwhile; the native code drops the exception.
GetFrame ==
  /\ frames.pc = "get"
  /\ frames' = [frames EXCEPT !.pc = IF frames.size > 1 THEN "remove" ELSE "idle"]
  /\ UNCHANGED <<source, connection, recording>>

\* Mutant: the delivered frame stays in the list.
RemoveNoFrame ==
  /\ frames.pc = "remove"
  /\ frames' = [frames EXCEPT !.pc = "idle"]
  /\ UNCHANGED <<source, connection, recording>>

\* removeAt(0) throws when the list was cleared meanwhile.
RemoveFrame ==
  /\ frames.pc = "remove"
  /\ frames' = [size |-> IF frames.size > 0 THEN frames.size - 1 ELSE 0, pc |-> "idle"]
  /\ UNCHANGED <<source, connection, recording>>

-----------------------------------------------------------------------------

UVCSourceNext ==
  \/ OpenUVCCamera \/ PermissionGranted \/ PermissionDenied
  \/ StartRecordVideo \/ StopRecordVideo \/ ShowOnReader
  \/ CloseUVCCamera \/ ClearStream \/ CloseConnections
  \/ AddFrame \/ GetFrame \/ RemoveFrame

UVCSourceSpec == UVCSourceInit /\ [][UVCSourceNext]_uvcSourceVars

-----------------------------------------------------------------------------
(* Properties.                                                             *)

\* A running preview reports its frames to the callback and, but for the moment between the
\* release of a recorder and the restart on the reader, draws where the flags say: on the
\* recorder's surface during a recording, on the reader's otherwise, whatever calls,
\* permissions and failures came before. A recording that was started without a camera never
\* sees the camera that connects later, and a recorder whose start has failed may be drawn to
\* without a recording.
SurfaceOfMode ==
  uvcCamera.preview =>
    /\ uvcCamera.callback
    /\ isVideoRecording => uvcCamera.window = IF source.early THEN "reader" ELSE "recorder"
    /\ ~isVideoRecording /\ source.call \notin {"show", "showFirst"} =>
         uvcCamera.window = "reader" \/ mediaRecorder = "made"

\* Of all the clones that cameras have opened, only those of a failed open are left when
\* the camera is closed, however far connectUVCCamera came.
OnlyFailedOpensLeak ==
  clones.open = clones.failed + (IF uvcCamera.state = "open" THEN 1 ELSE 0)
=============================================================================
