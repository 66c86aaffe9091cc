------------------------------ MODULE UVCPreview ------------------------------
(***************************************************************************)
(* The native preview engine of libuvc: class UVCPreview of               *)
(* UVCCamera/UVCPreview.cpp, together with the Java calls of               *)
(* com.jiangdg.uvc.UVCCamera that drive it.                                *)
(*                                                                         *)
(* Four kinds of threads share one object.                                 *)
(*   app      the thread that calls UVCCamera.startPreview, stopPreview,   *)
(*            setFrameCallback, startCapture, stopCapture and destroy      *)
(*   stream   libuvc's callback thread, alive between                      *)
(*            uvc_start_streaming and uvc_stop_streaming                   *)
(*   preview  preview_thread, created by startPreview                      *)
(*   capture  capture_thread, created by the preview thread; the code may  *)
(*            leave one running and create the next, so there are several  *)
(*                                                                         *)
(* A critical section of preview_mutex, capture_mutex or pool_mutex is one *)
(* step, split where it waits on a condition variable. Accesses made       *)
(* without the mutex (the flags, mFrameCallbackObj, mCaptureWindow) are    *)
(* steps of their own.                                                     *)
(*                                                                         *)
(* A frame is counted, not named: mem.live is the number of uvc_frame_t    *)
(* allocated and not freed, mem.pool the number in mFramePool.             *)
(***************************************************************************)
EXTENDS Integers, FiniteSets

CONSTANTS
  CaptureThreads,  \* identities for capture threads; pthread_create fails when all are alive
  App,             \* the application thread, as a waiter on capture_sync
  Callbacks,       \* the IFrameCallback objects the application may install
  Windows,         \* the Surfaces it may pass to startCapture
  NULL,            \* no object, no window, a null thread handle
  Garbage,         \* the value of capture_thread before anything is stored in it
  MaxFrame,        \* MAX_FRAME, the capacity of previewFrames
  FramePoolSize,   \* FRAME_POOL_SZ, the capacity of mFramePool
  Mjpeg            \* requestMode: the camera streams MJPEG rather than YUYV

ASSUME PreviewConstants ==
  /\ IsFiniteSet(CaptureThreads)
  /\ App \notin CaptureThreads
  /\ NULL \notin CaptureThreads \cup Callbacks \cup Windows
  /\ Garbage \notin CaptureThreads \cup {NULL}
  /\ MaxFrame \in Nat \ {0}
  /\ FramePoolSize \in Nat \ {0}
  /\ Mjpeg \in BOOLEAN

VARIABLES
  mIsRunning, mIsCapturing, mHasCapturing,  \* the three volatile flags
  capture_thread,     \* the handle stopPreview joins
  mFrameCallbackObj,  \* the installed IFrameCallback
  mPreviewWindow,     \* whether there is a window to draw the preview on
  mCaptureWindow,     \* the window frames are copied to for recording
  previewFrames,      \* the number of frames queued for the preview thread
  captureQueu,        \* whether a frame waits for the capture thread
  mem,                \* [pool |-> frames in the pool, live |-> frames allocated]
  streaming,          \* whether libuvc delivers frames
  app,                \* what the application thread is doing
  newCallback, newWindow,  \* the argument of its setFrameCallback or startCapture that waits
  stream,             \* what the stream callback thread is doing
  preview,            \* what the preview thread is doing
  previewWaits,       \* whether the preview thread waits on preview_sync
  captureWaiters,     \* the threads that wait on capture_sync
  capture             \* what each capture thread is doing

flags   == <<mIsRunning, mIsCapturing, mHasCapturing>>
objects == <<mFrameCallbackObj, mPreviewWindow, mCaptureWindow>>
frames  == <<previewFrames, captureQueu, mem>>
pending == <<newCallback, newWindow>>
waits   == <<previewWaits, captureWaiters>>
vars    == <<flags, capture_thread, objects, frames, streaming, app, pending,
             stream, preview, waits, capture>>

AppPcs ==
  {"idle", "startCreate", "startFail", "callbackWait", "displayWait",
   "stopCallbackWait", "stopFlag", "stopSignal", "stopCheckCapture",
   "joinCapture", "joinPreview", "stopClear", "stopRelease", "destroyed"}
PreviewPcs ==
  {"dead", "prepare", "start", "clear", "create", "created", "check", "wait",
   "blocked", "decode", "draw", "addCapture", "endSignal", "stopStream"}
CapturePcs ==
  {"dead", "clear", "running", "setCapturing", "select", "loop", "wait",
   "blocked", "surfaceDraw", "callback", "invoke", "call", "inCall",
   "surfaceEnd", "notify"}

CaptureState ==
  [pc: CapturePcs, surface: BOOLEAN, converted: BOOLEAN,
   callee: Callbacks \cup {NULL}]

CaptureStates == [CaptureThreads -> CaptureState]
Memory == [pool: 0..FramePoolSize, live: Int]

TypeOK ==
  /\ mIsRunning \in BOOLEAN /\ mIsCapturing \in BOOLEAN /\ mHasCapturing \in BOOLEAN
  /\ capture_thread \in CaptureThreads \cup {NULL, Garbage}
  /\ mFrameCallbackObj \in Callbacks \cup {NULL}
  /\ mPreviewWindow \in BOOLEAN
  /\ mCaptureWindow \in Windows \cup {NULL}
  /\ previewFrames \in 0..MaxFrame
  /\ captureQueu \in BOOLEAN
  /\ mem \in Memory
  /\ streaming \in BOOLEAN
  /\ app \in AppPcs
  /\ newCallback \in Callbacks \cup {NULL}
  /\ newWindow \in Windows \cup {NULL}
  /\ stream \in {"idle", "adding"}
  /\ preview \in PreviewPcs
  /\ previewWaits \in BOOLEAN
  /\ captureWaiters \subseteq CaptureThreads \cup {App}
  /\ capture \in CaptureStates

Dead == [pc |-> "dead", surface |-> FALSE, converted |-> FALSE, callee |-> NULL]

\* The constructor leaves mHasCapturing and capture_thread uninitialized.
Init ==
  /\ mIsRunning = FALSE /\ mIsCapturing = FALSE
  /\ mHasCapturing \in BOOLEAN
  /\ capture_thread \in {NULL, Garbage}
  /\ mFrameCallbackObj = NULL /\ mPreviewWindow = FALSE /\ mCaptureWindow = NULL
  /\ previewFrames = 0 /\ captureQueu = FALSE
  /\ mem = [pool |-> 0, live |-> 0]
  /\ streaming = FALSE
  /\ app = "idle" /\ newCallback = NULL /\ newWindow = NULL
  /\ stream = "idle"
  /\ preview = "dead"
  /\ previewWaits = FALSE /\ captureWaiters = {}
  /\ capture = [t \in CaptureThreads |-> Dead]

-----------------------------------------------------------------------------
(* The frame pool. Each operator maps mem to mem, so a handler's calls      *)
(* compose in the order the code makes them.                                *)

\* get_frame: the last frame of the pool, or a new one.
GetFrame(m) == IF m.pool > 0 THEN [m EXCEPT !.pool = @ - 1]
                             ELSE [m EXCEPT !.live = @ + 1]

\* recycle_frame, n times: back to the pool while there is room, else freed.
Recycle(m, n) ==
  LET kept == IF m.pool + n <= FramePoolSize THEN n ELSE FramePoolSize - m.pool
  IN  [pool |-> m.pool + kept, live |-> m.live - (n - kept)]

Count(b) == IF b THEN 1 ELSE 0

\* pthread_cond_signal on capture_sync: one waiter is released, any of them.
Signalled(waiters) ==
  IF waiters = {} THEN {{}} ELSE {waiters \ {t} : t \in waiters}

-----------------------------------------------------------------------------
(* The application thread.                                                  *)

SetPreviewDisplay ==
  /\ app = "idle"
  /\ mPreviewWindow' \in BOOLEAN
  /\ UNCHANGED <<flags, capture_thread, mFrameCallbackObj, mCaptureWindow, frames,
                 streaming, app, pending, stream, preview, waits, capture>>

StartPreview ==
  /\ app = "idle"
  /\ ~mIsRunning
  /\ mIsRunning' = TRUE
  /\ app' = "startCreate"
  /\ UNCHANGED <<mIsCapturing, mHasCapturing, capture_thread, objects, frames,
                 streaming, pending, stream, preview, waits, capture>>

\* The preview thread is created only when there is a window; either that or
\* pthread_create may fail.
StartCreate ==
  /\ app = "startCreate"
  /\ \/ /\ mPreviewWindow
        /\ preview' = "prepare"
        /\ app' = "idle"
     \/ /\ app' = "startFail"
        /\ UNCHANGED preview
  /\ UNCHANGED <<flags, capture_thread, objects, frames, streaming, pending,
                 stream, waits, capture>>

StartFail ==
  /\ app = "startFail"
  /\ mIsRunning' = FALSE
  /\ previewWaits' = FALSE
  /\ app' = "idle"
  /\ UNCHANGED <<mIsCapturing, mHasCapturing, capture_thread, objects, frames,
                 streaming, pending, stream, preview, captureWaiters, capture>>

\* The common beginning of setFrameCallback and setCaptureDisplay: ask the
\* capture thread to leave its loop and, if there is an old object, wait for it.
AskCapturing(old, waitPc, donePc) ==
  /\ mIsCapturing' = (mIsCapturing /\ ~mIsRunning)
  /\ IF mIsRunning /\ mIsCapturing /\ old # NULL
       THEN /\ \E w \in Signalled(captureWaiters) : captureWaiters' = w \cup {App}
            /\ app' = waitPc
       ELSE /\ app' = donePc
            /\ UNCHANGED captureWaiters

SetFrameCallback ==
  /\ app = "idle"
  /\ \E cb \in Callbacks \cup {NULL} :
       /\ AskCapturing(mFrameCallbackObj, "callbackWait", "idle")
       /\ IF app' = "idle" THEN /\ mFrameCallbackObj' = cb
                                /\ UNCHANGED newCallback
                           ELSE /\ newCallback' = cb
                                /\ UNCHANGED mFrameCallbackObj
  /\ UNCHANGED <<mIsRunning, mHasCapturing, capture_thread, mPreviewWindow,
                 mCaptureWindow, frames, streaming, stream, preview,
                 previewWaits, capture, newWindow>>

\* pthread_cond_wait has returned: install the object without asking again.
SetFrameCallbackResume ==
  /\ app = "callbackWait"
  /\ App \notin captureWaiters
  /\ mFrameCallbackObj' = newCallback
  /\ newCallback' = NULL
  /\ app' = "idle"
  /\ UNCHANGED <<flags, capture_thread, mPreviewWindow, mCaptureWindow, frames,
                 streaming, stream, preview, waits, capture, newWindow>>

\* startCapture and stopCapture: a window, or null. previewFormat is always
\* RGBA_8888, so the branch that refuses an RGB_565 mismatch is never taken.
SetCaptureDisplay ==
  /\ app = "idle"
  /\ \E w \in Windows \cup {NULL} :
       /\ AskCapturing(mCaptureWindow, "displayWait", "idle")
       /\ IF app' = "idle" THEN /\ mCaptureWindow' = w
                                /\ UNCHANGED newWindow
                           ELSE /\ newWindow' = w
                                /\ UNCHANGED mCaptureWindow
  /\ UNCHANGED <<mIsRunning, mHasCapturing, capture_thread, mFrameCallbackObj,
                 mPreviewWindow, frames, streaming, stream, preview,
                 previewWaits, capture, newCallback>>

SetCaptureDisplayResume ==
  /\ app = "displayWait"
  /\ App \notin captureWaiters
  /\ mCaptureWindow' = newWindow
  /\ newWindow' = NULL
  /\ app' = "idle"
  /\ UNCHANGED <<flags, capture_thread, mFrameCallbackObj, mPreviewWindow, frames,
                 streaming, stream, preview, waits, capture, newCallback>>

\* UVCCamera.stopPreview: setFrameCallback(null, 0), then nativeStopPreview.
StopPreview ==
  /\ app = "idle"
  /\ AskCapturing(mFrameCallbackObj, "stopCallbackWait", "stopFlag")
  /\ mFrameCallbackObj' = IF app' = "stopFlag" THEN NULL ELSE mFrameCallbackObj
  /\ UNCHANGED <<mIsRunning, mHasCapturing, capture_thread, mPreviewWindow,
                 mCaptureWindow, frames, streaming, pending, stream, preview,
                 previewWaits, capture>>

StopCallbackResume ==
  /\ app = "stopCallbackWait"
  /\ App \notin captureWaiters
  /\ mFrameCallbackObj' = NULL
  /\ app' = "stopFlag"
  /\ UNCHANGED <<flags, capture_thread, mPreviewWindow, mCaptureWindow, frames,
                 streaming, pending, stream, preview, waits, capture>>

\* UVCPreview::stopPreview. Neither the flag nor the signals are under a mutex.
StopFlag ==
  /\ app = "stopFlag"
  /\ mIsRunning' = FALSE
  /\ app' = IF mIsRunning THEN "stopSignal" ELSE "stopClear"
  /\ UNCHANGED <<mIsCapturing, mHasCapturing, capture_thread, objects, frames,
                 streaming, pending, stream, preview, waits, capture>>

StopSignal ==
  /\ app = "stopSignal"
  /\ previewWaits' = FALSE
  /\ app' = "stopCheckCapture"
  /\ UNCHANGED <<flags, capture_thread, objects, frames, streaming, pending,
                 stream, preview, captureWaiters, capture>>

StopCheckCapture ==
  /\ app = "stopCheckCapture"
  /\ IF mHasCapturing THEN /\ captureWaiters' \in Signalled(captureWaiters)
                           /\ app' = "joinCapture"
                      ELSE /\ app' = "joinPreview"
                           /\ UNCHANGED captureWaiters
  /\ UNCHANGED <<flags, capture_thread, objects, frames, streaming, pending,
                 stream, preview, previewWaits, capture>>

\* A null handle is skipped, joining a handle that names no thread fails at once.
JoinCapture ==
  /\ app = "joinCapture"
  /\ capture_thread \in CaptureThreads => capture[capture_thread].pc = "dead"
  /\ app' = "joinPreview"
  /\ UNCHANGED <<flags, capture_thread, objects, frames, streaming, pending,
                 stream, preview, waits, capture>>

\* Mutant: stopPreview goes on without joining the preview thread.
JoinPreviewSkipped ==
  /\ app = "joinPreview"
  /\ app' = "stopClear"
  /\ UNCHANGED <<flags, capture_thread, objects, frames, streaming, pending,
                 stream, preview, waits, capture>>

\* The join, then clearDisplay, which changes pixels only.
JoinPreview ==
  /\ app = "joinPreview"
  /\ preview = "dead"
  /\ app' = "stopClear"
  /\ UNCHANGED <<flags, capture_thread, objects, frames, streaming, pending,
                 stream, preview, waits, capture>>

\* mHasCapturing = false; clearPreviewFrame(); clearCaptureFrame().
StopClear ==
  /\ app = "stopClear"
  /\ mHasCapturing' = FALSE
  /\ mem' = Recycle(mem, previewFrames + Count(captureQueu))
  /\ previewFrames' = 0
  /\ captureQueu' = FALSE
  /\ app' = "stopRelease"
  /\ UNCHANGED <<mIsRunning, mIsCapturing, capture_thread, objects, streaming,
                 pending, stream, preview, waits, capture>>

StopRelease ==
  /\ app = "stopRelease"
  /\ mPreviewWindow' = FALSE
  /\ mCaptureWindow' = NULL
  /\ app' = "idle"
  /\ UNCHANGED <<flags, capture_thread, mFrameCallbackObj, frames, streaming,
                 pending, stream, preview, waits, capture>>

\* UVCCamera::release after UVCCamera.close() has stopped the preview: the
\* destructor frees the queued and pooled frames. Nothing is modelled beyond it.
Destroy ==
  /\ app = "idle"
  /\ ~mIsRunning
  /\ app' = "destroyed"
  /\ mPreviewWindow' = FALSE
  /\ mCaptureWindow' = NULL
  /\ mem' = [pool |-> 0,
             live |-> mem.live - (mem.pool + previewFrames + Count(captureQueu))]
  /\ previewFrames' = 0
  /\ captureQueu' = FALSE
  /\ UNCHANGED <<flags, capture_thread, mFrameCallbackObj, streaming, pending,
                 stream, preview, waits, capture>>

\* POSIX allows pthread_cond_wait to return unprompted.
AppSpuriousWakeup ==
  /\ App \in captureWaiters
  /\ captureWaiters' = captureWaiters \ {App}
  /\ UNCHANGED <<flags, capture_thread, objects, frames, streaming, app, pending,
                 stream, preview, previewWaits, capture>>

AppCall ==
  \/ SetPreviewDisplay \/ StartPreview \/ SetFrameCallback \/ SetCaptureDisplay
  \/ StopPreview \/ Destroy

AppStep ==
  \/ StartCreate \/ StartFail \/ SetFrameCallbackResume
  \/ SetCaptureDisplayResume \/ StopCallbackResume \/ StopFlag \/ StopSignal
  \/ StopCheckCapture \/ JoinCapture \/ JoinPreview \/ StopClear \/ StopRelease

-----------------------------------------------------------------------------
(* The stream callback thread: uvc_preview_frame_callback.                  *)

\* A frame arrives while the preview runs, and is copied to one from the pool;
\* a broken frame or one that arrives when not running changes nothing.
FrameArrives ==
  /\ streaming
  /\ stream = "idle"
  /\ mIsRunning
  /\ mem' = GetFrame(mem)
  /\ stream' = "adding"
  /\ UNCHANGED <<flags, capture_thread, objects, previewFrames, captureQueu,
                 streaming, app, pending, preview, waits, capture>>

\* uvc_duplicate_frame fails.
DuplicateFails ==
  /\ stream = "adding"
  /\ mem' = Recycle(mem, 1)
  /\ stream' = "idle"
  /\ UNCHANGED <<flags, capture_thread, objects, previewFrames, captureQueu,
                 streaming, app, pending, preview, waits, capture>>

\* Mutant: the capacity test admits one frame too many.
AddPreviewFrameOffByOne ==
  /\ stream = "adding"
  /\ stream' = "idle"
  /\ IF mIsRunning /\ previewFrames <= MaxFrame
       THEN /\ previewFrames' = previewFrames + 1
            /\ previewWaits' = FALSE
            /\ UNCHANGED mem
       ELSE /\ mem' = Recycle(mem, 1)
            /\ UNCHANGED <<previewFrames, previewWaits>>
  /\ UNCHANGED <<flags, capture_thread, objects, captureQueu, streaming, app,
                 pending, preview, captureWaiters, capture>>

\* Mutant: the put does not signal preview_sync.
AddPreviewFrameNoSignal ==
  /\ stream = "adding"
  /\ stream' = "idle"
  /\ IF mIsRunning /\ previewFrames < MaxFrame
       THEN /\ previewFrames' = previewFrames + 1
            /\ UNCHANGED mem
       ELSE /\ mem' = Recycle(mem, 1)
            /\ UNCHANGED previewFrames
  /\ UNCHANGED <<flags, capture_thread, objects, captureQueu, streaming, app,
                 pending, preview, waits, capture>>

\* addPreviewFrame queues the frame and signals, or recycles it when the queue
\* is full or the preview has been stopped meanwhile.
AddPreviewFrame ==
  /\ stream = "adding"
  /\ stream' = "idle"
  /\ IF mIsRunning /\ previewFrames < MaxFrame
       THEN /\ previewFrames' = previewFrames + 1
            /\ previewWaits' = FALSE
            /\ UNCHANGED mem
       ELSE /\ mem' = Recycle(mem, 1)
            /\ UNCHANGED <<previewFrames, previewWaits>>
  /\ UNCHANGED <<flags, capture_thread, objects, captureQueu, streaming, app,
                 pending, preview, captureWaiters, capture>>

StreamStep == DuplicateFails \/ AddPreviewFrame

-----------------------------------------------------------------------------
(* The preview thread.                                                      *)

\* A step of the preview thread that moves it and nothing else.
PreviewGoes(from, to) ==
  /\ preview = from
  /\ preview' = to
  /\ UNCHANGED <<capture_thread, objects, streaming, app, pending, stream>>

\* The format may not be negotiable: the thread ends and mIsRunning stays set.
PreparePreview ==
  /\ \/ PreviewGoes("prepare", "start")
     \/ PreviewGoes("prepare", "dead")
  /\ UNCHANGED <<flags, frames, waits, capture>>

\* uvc_start_streaming_bandwidth, then mHasCapturing = false whatever it returned.
StartStreaming ==
  /\ preview = "start"
  /\ mHasCapturing' = FALSE
  /\ \/ preview' = "clear" /\ streaming' = TRUE
     \/ preview' = "dead" /\ UNCHANGED streaming
  /\ UNCHANGED <<mIsRunning, mIsCapturing, capture_thread, objects, frames, app,
                 pending, stream, waits, capture>>

ClearPreviewFrame ==
  /\ PreviewGoes("clear", "create")
  /\ mem' = Recycle(mem, previewFrames)
  /\ previewFrames' = 0
  /\ UNCHANGED <<flags, captureQueu, waits, capture>>

CreateCapture ==
  /\ preview = "create"
  /\ \/ /\ preview' = "created"
        /\ \E t \in CaptureThreads :
             /\ capture[t].pc = "dead"
             /\ capture' = [capture EXCEPT ![t].pc = "clear"]
             /\ capture_thread' = t
     \/ /\ preview' = "check"
        /\ UNCHANGED <<capture, capture_thread>>
  /\ UNCHANGED <<flags, objects, frames, streaming, app, pending, stream, waits>>

SetHasCapturing ==
  /\ PreviewGoes("created", "check")
  /\ mHasCapturing' = TRUE
  /\ UNCHANGED <<mIsRunning, mIsCapturing, frames, waits, capture>>

\* for ( ; isRunning() ; )
PreviewCheck ==
  /\ PreviewGoes("check", IF mIsRunning THEN "wait" ELSE "endSignal")
  /\ UNCHANGED <<flags, frames, waits, capture>>

\* The end of waitPreviewFrame's critical section, from the test of isRunning.
TakePreviewFrame(from) ==
  LET taken == mIsRunning /\ previewFrames > 0
      next  == IF Mjpeg THEN "decode" ELSE "draw"
  IN  /\ PreviewGoes(from, IF taken THEN next ELSE "check")
      /\ previewFrames' = previewFrames - Count(taken)
      /\ UNCHANGED <<flags, captureQueu, mem, waits, capture>>

\* pthread_cond_wait in waitPreviewFrame: no timeout, and no loop around it.
WaitPreviewFrame ==
  IF previewFrames = 0
    THEN /\ PreviewGoes("wait", "blocked")
         /\ previewWaits' = TRUE
         /\ UNCHANGED <<flags, frames, captureWaiters, capture>>
    ELSE TakePreviewFrame("wait")

WaitPreviewFrameResume == ~previewWaits /\ TakePreviewFrame("blocked")

\* uvc_mjpeg2yuyv into a frame of its own; the MJPEG frame is recycled, and on
\* an error the other frame too.
DecodeMjpeg ==
  LET decoded == Recycle(GetFrame(mem), 1)
  IN  /\ \/ PreviewGoes("decode", "draw") /\ mem' = decoded
         \/ PreviewGoes("decode", "check") /\ mem' = Recycle(decoded, 1)
      /\ UNCHANGED <<flags, previewFrames, captureQueu, waits, capture>>

\* draw_preview_one: a frame for the converted picture is taken and returned.
DrawPreview ==
  /\ PreviewGoes("draw", "addCapture")
  /\ mem' = IF mPreviewWindow THEN Recycle(GetFrame(mem), 1) ELSE mem
  /\ UNCHANGED <<flags, previewFrames, captureQueu, waits, capture>>

\* Mutant: addCaptureFrame wakes one waiter only.
AddCaptureFrameSignal ==
  /\ PreviewGoes("addCapture", "check")
  /\ IF mIsRunning
       THEN /\ mem' = Recycle(mem, Count(captureQueu))
            /\ captureQueu' = TRUE
            /\ captureWaiters' \in Signalled(captureWaiters)
       ELSE /\ mem' = Recycle(mem, 1)
            /\ UNCHANGED <<captureQueu, captureWaiters>>
  /\ UNCHANGED <<flags, previewFrames, previewWaits, capture>>

\* addCaptureFrame keeps only the latest frame, and wakes every waiter.
AddCaptureFrame ==
  /\ PreviewGoes("addCapture", "check")
  /\ IF mIsRunning
       THEN /\ mem' = Recycle(mem, Count(captureQueu))
            /\ captureQueu' = TRUE
            /\ captureWaiters' = {}
       ELSE /\ mem' = Recycle(mem, 1)
            /\ UNCHANGED <<captureQueu, captureWaiters>>
  /\ UNCHANGED <<flags, previewFrames, previewWaits, capture>>

EndSignal ==
  /\ PreviewGoes("endSignal", "stopStream")
  /\ captureWaiters' \in Signalled(captureWaiters)
  /\ UNCHANGED <<flags, frames, previewWaits, capture>>

\* uvc_stop_streaming joins the callback thread.
StopStreaming ==
  /\ preview = "stopStream"
  /\ stream = "idle"
  /\ preview' = "dead"
  /\ streaming' = FALSE
  /\ UNCHANGED <<flags, capture_thread, objects, frames, app, pending, stream,
                 waits, capture>>

PreviewSpuriousWakeup ==
  /\ previewWaits
  /\ previewWaits' = FALSE
  /\ UNCHANGED <<flags, capture_thread, objects, frames, streaming, app, pending,
                 stream, preview, captureWaiters, capture>>

PreviewStep ==
  \/ PreparePreview \/ StartStreaming \/ ClearPreviewFrame \/ CreateCapture
  \/ SetHasCapturing \/ PreviewCheck \/ WaitPreviewFrame
  \/ WaitPreviewFrameResume \/ DecodeMjpeg \/ DrawPreview \/ AddCaptureFrame
  \/ EndSignal \/ StopStreaming

-----------------------------------------------------------------------------
(* The capture threads. One left behind reads freed memory once the object  *)
(* is destroyed, and is not followed further.                               *)

\* Thread t is at from, and goes to to with the fields of its record changed.
CaptureBecomes(t, from, new) ==
  /\ app # "destroyed"
  /\ capture[t].pc = from
  /\ capture' = [capture EXCEPT ![t] = new]
  /\ UNCHANGED <<mIsRunning, mHasCapturing, capture_thread, mFrameCallbackObj,
                 mPreviewWindow, previewFrames, streaming, app, pending, stream,
                 preview, previewWaits>>

CaptureGoes(t, from, to) ==
  CaptureBecomes(t, from, [capture[t] EXCEPT !.pc = to])

\* clearCaptureFrame() and callbackPixelFormatChanged().
CaptureClear(t) ==
  /\ CaptureGoes(t, "clear", "running")
  /\ mem' = Recycle(mem, Count(captureQueu))
  /\ captureQueu' = FALSE
  /\ UNCHANGED <<mIsCapturing, mCaptureWindow, captureWaiters>>

\* for (; isRunning() ;) of do_capture; the thread ends when it is false.
CaptureRunning(t) ==
  /\ IF mIsRunning THEN CaptureGoes(t, "running", "setCapturing")
                   ELSE CaptureBecomes(t, "running", Dead)
  /\ UNCHANGED <<mIsCapturing, mCaptureWindow, captureQueu, mem, captureWaiters>>

CaptureSetCapturing(t) ==
  /\ CaptureGoes(t, "setCapturing", "select")
  /\ mIsCapturing' = TRUE
  /\ UNCHANGED <<mCaptureWindow, captureQueu, mem, captureWaiters>>

\* do_capture_surface when there is a window, else do_capture_idle_loop.
CaptureSelect(t) ==
  /\ CaptureBecomes(t, "select",
       [capture[t] EXCEPT !.pc = "loop", !.surface = (mCaptureWindow # NULL)])
  /\ UNCHANGED <<mIsCapturing, mCaptureWindow, captureQueu, mem, captureWaiters>>

\* for (; isRunning() && isCapturing() ;)
CaptureLoop(t) ==
  LET left == IF capture[t].surface THEN "surfaceEnd" ELSE "notify"
  IN  /\ CaptureGoes(t, "loop", IF mIsRunning /\ mIsCapturing THEN "wait" ELSE left)
      /\ UNCHANGED <<mIsCapturing, mCaptureWindow, captureQueu, mem, captureWaiters>>

\* The end of waitCaptureFrame's critical section.
TakeCaptureFrame(t, from) ==
  LET taken == mIsRunning /\ captureQueu
      next  == IF capture[t].surface THEN "surfaceDraw" ELSE "callback"
  IN  /\ CaptureGoes(t, from, IF taken THEN next ELSE "loop")
      /\ captureQueu' = (captureQueu /\ ~taken)
      /\ UNCHANGED <<mIsCapturing, mCaptureWindow, mem, captureWaiters>>

WaitCaptureFrame(t) ==
  IF captureQueu
    THEN TakeCaptureFrame(t, "wait")
    ELSE /\ CaptureGoes(t, "wait", "blocked")
         /\ captureWaiters' = captureWaiters \cup {t}
         /\ UNCHANGED <<mIsCapturing, mCaptureWindow, captureQueu, mem>>

WaitCaptureFrameResume(t) ==
  t \notin captureWaiters /\ TakeCaptureFrame(t, "blocked")

\* Mutant: the pthread_cond_wait that the code has commented out.
CaptureNeverTimesOut(t) == FALSE

\* pthread_cond_timedwait gives up after a second, or wakes unprompted.
CaptureTimeout(t) ==
  /\ t \in captureWaiters
  /\ CaptureGoes(t, "blocked", "blocked")
  /\ captureWaiters' = captureWaiters \ {t}
  /\ UNCHANGED <<mIsCapturing, mCaptureWindow, captureQueu, mem>>

\* Draw on mCaptureWindow, through a frame kept until the loop is left.
CaptureSurfaceDraw(t) ==
  LET first == mIsCapturing /\ ~capture[t].converted
  IN  /\ CaptureBecomes(t, "surfaceDraw",
           [capture[t] EXCEPT !.pc = "callback", !.converted = @ \/ first])
      /\ mem' = IF first THEN GetFrame(mem) ELSE mem
      /\ UNCHANGED <<mIsCapturing, mCaptureWindow, captureQueu, captureWaiters>>

\* do_capture_callback up to the call: when an object is installed the frame is
\* passed on as it is, or converted to a new one, or its conversion fails.
CaptureConvert(t) ==
  /\ \/ /\ mFrameCallbackObj = NULL
        /\ CaptureGoes(t, "callback", "loop")
        /\ mem' = Recycle(mem, 1)
     \/ /\ mFrameCallbackObj # NULL
        /\ CaptureGoes(t, "callback", "invoke")
        /\ mem' \in {mem, Recycle(GetFrame(mem), 1)}
     \/ /\ mFrameCallbackObj # NULL
        /\ CaptureGoes(t, "callback", "loop")
        /\ mem' = Recycle(Recycle(GetFrame(mem), 1), 1)
  /\ UNCHANGED <<mIsCapturing, mCaptureWindow, captureQueu, captureWaiters>>

\* if (iframecallback_fields.onFrame): set exactly when an object is installed.
CaptureInvoke(t) ==
  /\ IF mFrameCallbackObj = NULL
       THEN CaptureGoes(t, "invoke", "loop") /\ mem' = Recycle(mem, 1)
       ELSE CaptureGoes(t, "invoke", "call") /\ UNCHANGED mem
  /\ UNCHANGED <<mIsCapturing, mCaptureWindow, captureQueu, captureWaiters>>

\* CallVoidMethod reads mFrameCallbackObj a second time.
CaptureCall(t) ==
  /\ CaptureBecomes(t, "call",
       [capture[t] EXCEPT !.pc = "inCall", !.callee = mFrameCallbackObj])
  /\ UNCHANGED <<mIsCapturing, mCaptureWindow, captureQueu, mem, captureWaiters>>

\* The Java method returns, and the frame is recycled.
CaptureReturn(t) ==
  /\ CaptureBecomes(t, "inCall",
       [capture[t] EXCEPT !.pc = "loop", !.callee = NULL])
  /\ mem' = Recycle(mem, 1)
  /\ UNCHANGED <<mIsCapturing, mCaptureWindow, captureQueu, captureWaiters>>

\* Mutant: the frame kept for drawing is not recycled.
CaptureSurfaceEndLeak(t) ==
  /\ CaptureBecomes(t, "surfaceEnd",
       [capture[t] EXCEPT !.pc = "notify", !.converted = FALSE])
  /\ mCaptureWindow' = NULL
  /\ UNCHANGED <<mIsCapturing, captureQueu, mem, captureWaiters>>

\* do_capture_surface gives its window up whenever it leaves its loop.
CaptureSurfaceEnd(t) ==
  /\ CaptureBecomes(t, "surfaceEnd",
       [capture[t] EXCEPT !.pc = "notify", !.converted = FALSE])
  /\ mem' = Recycle(mem, Count(capture[t].converted))
  /\ mCaptureWindow' = NULL
  /\ UNCHANGED <<mIsCapturing, captureQueu, captureWaiters>>

CaptureNotify(t) ==
  /\ CaptureGoes(t, "notify", "running")
  /\ captureWaiters' = {}
  /\ UNCHANGED <<mIsCapturing, mCaptureWindow, captureQueu, mem>>

CaptureStep(t) ==
  \/ CaptureClear(t) \/ CaptureRunning(t) \/ CaptureSetCapturing(t)
  \/ CaptureSelect(t) \/ CaptureLoop(t) \/ WaitCaptureFrame(t)
  \/ WaitCaptureFrameResume(t) \/ CaptureTimeout(t) \/ CaptureSurfaceDraw(t)
  \/ CaptureConvert(t) \/ CaptureInvoke(t) \/ CaptureCall(t)
  \/ CaptureReturn(t) \/ CaptureSurfaceEnd(t)
  \/ CaptureNotify(t)

-----------------------------------------------------------------------------
Next ==
  \/ AppCall \/ AppStep \/ AppSpuriousWakeup
  \/ FrameArrives \/ StreamStep
  \/ PreviewStep \/ PreviewSpuriousWakeup
  \/ \E t \in CaptureThreads : CaptureStep(t)

\* Every created thread runs on and a call in progress proceeds. The calls of
\* the application, the arrival of frames and spurious wakeups are not promised.
Fairness ==
  /\ WF_vars(AppStep)
  /\ WF_vars(StreamStep)
  /\ WF_vars(PreviewStep)
  /\ \A t \in CaptureThreads : WF_vars(CaptureStep(t))

Spec == Init /\ [][Next]_vars /\ Fairness

-----------------------------------------------------------------------------
(* Properties.                                                              *)

HoldsFrame == {"surfaceDraw", "callback", "invoke", "call", "inCall"}
FrameHolders == {t \in CaptureThreads : capture[t].pc \in HoldsFrame}
ConvertedHolders == {t \in CaptureThreads : capture[t].converted}

\* Every uvc_frame_t allocated and not freed is in exactly one place: the pool,
\* previewFrames, captureQueu, or the hands of the thread that took it. A frame
\* dropped on some path (what addCaptureFrame's "this can solve native leak" is
\* about) or recycled twice breaks the equation.
FramesAccountedFor ==
  mem.live = mem.pool + previewFrames + Count(captureQueu)
             + Count(stream = "adding")
             + Count(preview \in {"decode", "draw", "addCapture"})
             + Cardinality(FrameHolders) + Cardinality(ConvertedHolders)

\* addPreviewFrame never leaves the preview thread asleep beside a queued frame:
\* the test of the queue and the wait are in the section that the put excludes.
PreviewNotAsleepOnFrame == previewWaits => previewFrames = 0

\* A capture thread never sleeps while a frame is in captureQueu, although the
\* application waits on the same condition variable: addCaptureFrame broadcasts.
CaptureNotAsleepOnFrame ==
  captureQueu => captureWaiters \cap CaptureThreads = {}

\* Between two calls of the application, a preview that does not run has left
\* nothing behind: no preview thread, no stream that could call back into the
\* object, and no frame of the finished session in a queue.
StoppedIsQuiet ==
  app \in {"idle", "destroyed"} /\ ~mIsRunning
    => /\ preview = "dead" /\ ~streaming /\ stream = "idle"
       /\ previewFrames = 0 /\ ~captureQueu

\* stopPreview gets past the join of the capture thread whatever signals that
\* thread missed: waitCaptureFrame's wait is bounded by a second.
CaptureJoinReturns == app = "joinCapture" ~> app = "joinPreview"

\* A full previewFrames, from which addPreviewFrame drops every frame the camera
\* sends, does not stay full: the preview thread takes from it, or the stop that
\* interrupts the thread empties it.
FullQueueDrains == previewFrames = MaxFrame ~> previewFrames < MaxFrame

-----------------------------------------------------------------------------
(* What the code or its comments promise, and TLC refutes.                  *)

\* UVCCamera.stopPreview stops the preview: it gets past the join of the preview
\* thread. That thread may have tested isRunning() before StopFlag and wait after
\* StopSignal, for a signal nobody will send.
PreviewJoinReturns == app = "joinPreview" ~> app = "stopClear"

\* setFrameCallback's "wait finishing capturing": the object being called back
\* is the installed one, not one that setFrameCallback has deleted meanwhile.
CalleeIsInstalled ==
  \A t \in CaptureThreads :
    capture[t].pc = "inCall" => capture[t].callee = mFrameCallbackObj

\* mHasCapturing is meant to "confirm capture_thread was be created", so that
\* stopPreview joins it: no capture thread is left once stopPreview has returned.
NoCaptureAfterStop ==
  app \in {"idle", "destroyed"} /\ ~mIsRunning
    => \A t \in CaptureThreads : capture[t].pc = "dead"

=============================================================================
