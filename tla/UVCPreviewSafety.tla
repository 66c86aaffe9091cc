--------------------------- MODULE UVCPreviewSafety ---------------------------
(***************************************************************************)
(* Proofs of the safety properties of UVCPreview. The properties are not   *)
(* inductive: each section states the facts that make them so. What a      *)
(* stopped preview leaves behind needs the life cycle of the preview       *)
(* thread and of the stream, and so do the others, since startPreview may  *)
(* create a preview thread only because the last one has ended. The last   *)
(* sections prove what liveness needs besides fairness: the threads a stop *)
(* joins run down, and a full queue is served.                             *)
(***************************************************************************)
EXTENDS UVCPreviewProof

-----------------------------------------------------------------------------
(* The life cycle of the preview thread and the stream.                     *)

\* Between the clearing of mIsRunning and the join of the preview thread.
Joining == {"stopSignal", "stopCheckCapture", "joinCapture", "joinPreview"}

NotYetCreated == app \in {"startCreate", "startFail"} => mIsRunning /\ preview = "dead"
StopsStopped ==
  app \in Joining \cup {"stopClear", "stopRelease", "destroyed"} => ~mIsRunning
StoppedIsJoined == ~mIsRunning /\ app \notin Joining => preview = "dead"
StreamIsOwned == streaming <=> preview \notin {"dead", "prepare", "start"}
AddingIsStreaming == stream = "adding" => streaming
QueuesCleared ==
  \/ app \in {"startCreate", "startFail"}
  \/ ~mIsRunning /\ app \notin Joining \cup {"stopClear"}
  => previewFrames = 0 /\ ~captureQueu

Lifecycle ==
  /\ NotYetCreated /\ StopsStopped /\ StoppedIsJoined
  /\ StreamIsOwned /\ AddingIsStreaming /\ QueuesCleared

\* A preview thread sleeps in its own wait only, on an empty queue.
SleepsOnEmpty == previewWaits => preview = "blocked" /\ previewFrames = 0

\* A capture thread owns a frame to draw with only between its first draw and
\* the end of do_capture_surface's loop.
ConvertedIsDrawing ==
  \A t \in CaptureThreads :
    /\ capture[t].converted =>
         /\ capture[t].surface
         /\ capture[t].pc \notin {"dead", "clear", "running", "setCapturing",
                                  "select", "notify"}
    /\ capture[t].pc = "surfaceDraw" => capture[t].surface

\* The application thread keeps the life cycle.
LEMMA AppLifecycle ==
  ASSUME TypeOK, Lifecycle, AppCall \/ AppStep \/ AppSpuriousWakeup
  PROVE  Lifecycle'
<1> USE DEF flags, objects, frames, pending, waits
<1>1. CASE SetPreviewDisplay
  BY <1>1 DEF Lifecycle, NotYetCreated, StopsStopped, StoppedIsJoined, StreamIsOwned, AddingIsStreaming, QueuesCleared, Joining, TypeOK, SetPreviewDisplay
<1>2. CASE StartPreview
  BY <1>2 DEF Lifecycle, NotYetCreated, StopsStopped, StoppedIsJoined, StreamIsOwned, AddingIsStreaming, QueuesCleared, Joining, TypeOK, StartPreview
<1>3. CASE SetFrameCallback
  BY <1>3 DEF Lifecycle, NotYetCreated, StopsStopped, StoppedIsJoined, StreamIsOwned, AddingIsStreaming, QueuesCleared, Joining, TypeOK, SetFrameCallback, AskCapturing
<1>4. CASE SetCaptureDisplay
  BY <1>4 DEF Lifecycle, NotYetCreated, StopsStopped, StoppedIsJoined, StreamIsOwned, AddingIsStreaming, QueuesCleared, Joining, TypeOK, SetCaptureDisplay, AskCapturing
<1>5. CASE StopPreview
  BY <1>5 DEF Lifecycle, NotYetCreated, StopsStopped, StoppedIsJoined, StreamIsOwned, AddingIsStreaming, QueuesCleared, Joining, TypeOK, StopPreview, AskCapturing
<1>6. CASE Destroy
  BY <1>6 DEF Lifecycle, NotYetCreated, StopsStopped, StoppedIsJoined, StreamIsOwned, AddingIsStreaming, QueuesCleared, Joining, TypeOK, Destroy
<1>7. CASE StartCreate
  BY <1>7 DEF Lifecycle, NotYetCreated, StopsStopped, StoppedIsJoined, StreamIsOwned, AddingIsStreaming, QueuesCleared, Joining, TypeOK, StartCreate
<1>8. CASE StartFail
  BY <1>8 DEF Lifecycle, NotYetCreated, StopsStopped, StoppedIsJoined, StreamIsOwned, AddingIsStreaming, QueuesCleared, Joining, TypeOK, StartFail
<1>9. CASE SetFrameCallbackResume
  BY <1>9 DEF Lifecycle, NotYetCreated, StopsStopped, StoppedIsJoined, StreamIsOwned, AddingIsStreaming, QueuesCleared, Joining, TypeOK, SetFrameCallbackResume
<1>10. CASE SetCaptureDisplayResume
  BY <1>10 DEF Lifecycle, NotYetCreated, StopsStopped, StoppedIsJoined, StreamIsOwned, AddingIsStreaming, QueuesCleared, Joining, TypeOK, SetCaptureDisplayResume
<1>11. CASE StopCallbackResume
  BY <1>11 DEF Lifecycle, NotYetCreated, StopsStopped, StoppedIsJoined, StreamIsOwned, AddingIsStreaming, QueuesCleared, Joining, TypeOK, StopCallbackResume
<1>12. CASE StopFlag
  BY <1>12 DEF Lifecycle, NotYetCreated, StopsStopped, StoppedIsJoined, StreamIsOwned, AddingIsStreaming, QueuesCleared, Joining, TypeOK, StopFlag
<1>13. CASE StopSignal
  BY <1>13 DEF Lifecycle, NotYetCreated, StopsStopped, StoppedIsJoined, StreamIsOwned, AddingIsStreaming, QueuesCleared, Joining, TypeOK, StopSignal
<1>14. CASE StopCheckCapture
  BY <1>14 DEF Lifecycle, NotYetCreated, StopsStopped, StoppedIsJoined, StreamIsOwned, AddingIsStreaming, QueuesCleared, Joining, TypeOK, StopCheckCapture
<1>15. CASE JoinCapture
  BY <1>15 DEF Lifecycle, NotYetCreated, StopsStopped, StoppedIsJoined, StreamIsOwned, AddingIsStreaming, QueuesCleared, Joining, TypeOK, JoinCapture
<1>16. CASE JoinPreview
  BY <1>16 DEF Lifecycle, NotYetCreated, StopsStopped, StoppedIsJoined, StreamIsOwned, AddingIsStreaming, QueuesCleared, Joining, TypeOK, JoinPreview
<1>17. CASE StopClear
  BY <1>17 DEF Lifecycle, NotYetCreated, StopsStopped, StoppedIsJoined, StreamIsOwned, AddingIsStreaming, QueuesCleared, Joining, TypeOK, StopClear
<1>18. CASE StopRelease
  BY <1>18 DEF Lifecycle, NotYetCreated, StopsStopped, StoppedIsJoined, StreamIsOwned, AddingIsStreaming, QueuesCleared, Joining, TypeOK, StopRelease
<1>19. CASE AppSpuriousWakeup
  BY <1>19 DEF Lifecycle, NotYetCreated, StopsStopped, StoppedIsJoined, StreamIsOwned, AddingIsStreaming, QueuesCleared, Joining, TypeOK, AppSpuriousWakeup
<1> QED
  BY <1>1, <1>2, <1>3, <1>4, <1>5, <1>6, <1>7, <1>8, <1>9, <1>10, <1>11, <1>12, <1>13, <1>14, <1>15, <1>16, <1>17, <1>18, <1>19 DEF AppCall, AppStep

\* The stream callback thread keeps the life cycle.
LEMMA StreamLifecycle ==
  ASSUME TypeOK, Lifecycle, FrameArrives \/ StreamStep
  PROVE  Lifecycle'
<1> USE DEF flags, objects, frames, pending, waits
<1>1. CASE FrameArrives
  BY <1>1 DEF Lifecycle, NotYetCreated, StopsStopped, StoppedIsJoined, StreamIsOwned, AddingIsStreaming, QueuesCleared, Joining, TypeOK, FrameArrives
<1>2. CASE DuplicateFails
  BY <1>2 DEF Lifecycle, NotYetCreated, StopsStopped, StoppedIsJoined, StreamIsOwned, AddingIsStreaming, QueuesCleared, Joining, TypeOK, DuplicateFails
<1>3. CASE AddPreviewFrame
  BY <1>3 DEF Lifecycle, NotYetCreated, StopsStopped, StoppedIsJoined, StreamIsOwned, AddingIsStreaming, QueuesCleared, Joining, TypeOK, AddPreviewFrame
<1> QED
  BY <1>1, <1>2, <1>3 DEF StreamStep

\* The preview thread keeps the life cycle.
LEMMA PreviewLifecycle ==
  ASSUME TypeOK, Lifecycle, PreviewStep \/ PreviewSpuriousWakeup
  PROVE  Lifecycle'
<1> USE DEF flags, objects, frames, pending, waits
<1>1. CASE PreparePreview
  BY <1>1 DEF Lifecycle, NotYetCreated, StopsStopped, StoppedIsJoined, StreamIsOwned, AddingIsStreaming, QueuesCleared, Joining, TypeOK, PreparePreview, PreviewGoes
<1>2. CASE StartStreaming
  BY <1>2 DEF Lifecycle, NotYetCreated, StopsStopped, StoppedIsJoined, StreamIsOwned, AddingIsStreaming, QueuesCleared, Joining, TypeOK, StartStreaming
<1>3. CASE ClearPreviewFrame
  BY <1>3 DEF Lifecycle, NotYetCreated, StopsStopped, StoppedIsJoined, StreamIsOwned, AddingIsStreaming, QueuesCleared, Joining, TypeOK, ClearPreviewFrame, PreviewGoes
<1>4. CASE CreateCapture
  BY <1>4 DEF Lifecycle, NotYetCreated, StopsStopped, StoppedIsJoined, StreamIsOwned, AddingIsStreaming, QueuesCleared, Joining, TypeOK, CreateCapture
<1>5. CASE SetHasCapturing
  BY <1>5 DEF Lifecycle, NotYetCreated, StopsStopped, StoppedIsJoined, StreamIsOwned, AddingIsStreaming, QueuesCleared, Joining, TypeOK, SetHasCapturing, PreviewGoes
<1>6. CASE PreviewCheck
  BY <1>6 DEF Lifecycle, NotYetCreated, StopsStopped, StoppedIsJoined, StreamIsOwned, AddingIsStreaming, QueuesCleared, Joining, TypeOK, PreviewCheck, PreviewGoes
<1>7. CASE WaitPreviewFrame
  BY <1>7 DEF Lifecycle, NotYetCreated, StopsStopped, StoppedIsJoined, StreamIsOwned, AddingIsStreaming, QueuesCleared, Joining, TypeOK, WaitPreviewFrame, TakePreviewFrame, PreviewGoes
<1>8. CASE WaitPreviewFrameResume
  BY <1>8 DEF Lifecycle, NotYetCreated, StopsStopped, StoppedIsJoined, StreamIsOwned, AddingIsStreaming, QueuesCleared, Joining, TypeOK, WaitPreviewFrameResume, TakePreviewFrame, PreviewGoes
<1>9. CASE DecodeMjpeg
  BY <1>9 DEF Lifecycle, NotYetCreated, StopsStopped, StoppedIsJoined, StreamIsOwned, AddingIsStreaming, QueuesCleared, Joining, TypeOK, DecodeMjpeg, PreviewGoes
<1>10. CASE DrawPreview
  BY <1>10 DEF Lifecycle, NotYetCreated, StopsStopped, StoppedIsJoined, StreamIsOwned, AddingIsStreaming, QueuesCleared, Joining, TypeOK, DrawPreview, PreviewGoes
<1>11. CASE AddCaptureFrame
  BY <1>11 DEF Lifecycle, NotYetCreated, StopsStopped, StoppedIsJoined, StreamIsOwned, AddingIsStreaming, QueuesCleared, Joining, TypeOK, AddCaptureFrame, PreviewGoes
<1>12. CASE EndSignal
  BY <1>12 DEF Lifecycle, NotYetCreated, StopsStopped, StoppedIsJoined, StreamIsOwned, AddingIsStreaming, QueuesCleared, Joining, TypeOK, EndSignal, PreviewGoes
<1>13. CASE StopStreaming
  BY <1>13 DEF Lifecycle, NotYetCreated, StopsStopped, StoppedIsJoined, StreamIsOwned, AddingIsStreaming, QueuesCleared, Joining, TypeOK, StopStreaming
<1>14. CASE PreviewSpuriousWakeup
  BY <1>14 DEF Lifecycle, NotYetCreated, StopsStopped, StoppedIsJoined, StreamIsOwned, AddingIsStreaming, QueuesCleared, Joining, TypeOK, PreviewSpuriousWakeup
<1> QED
  BY <1>1, <1>2, <1>3, <1>4, <1>5, <1>6, <1>7, <1>8, <1>9, <1>10, <1>11, <1>12, <1>13, <1>14 DEF PreviewStep

\* No step of a capture thread puts a frame in captureQueu.
LEMMA QueueOnlyTaken ==
  ASSUME TypeOK, NEW t \in CaptureThreads, CaptureStep(t)
  PROVE  captureQueu' => captureQueu
<1>1. CASE CaptureClear(t)
  BY <1>1 DEF CaptureGoes, CaptureBecomes, CaptureClear
<1>2. CASE CaptureRunning(t)
  BY <1>2 DEF CaptureGoes, CaptureBecomes, CaptureRunning
<1>3. CASE CaptureSetCapturing(t)
  BY <1>3 DEF CaptureGoes, CaptureBecomes, CaptureSetCapturing
<1>4. CASE CaptureSelect(t)
  BY <1>4 DEF CaptureGoes, CaptureBecomes, CaptureSelect
<1>5. CASE CaptureLoop(t)
  BY <1>5 DEF CaptureGoes, CaptureBecomes, CaptureLoop
<1>6. CASE WaitCaptureFrame(t)
  BY <1>6 DEF CaptureGoes, CaptureBecomes, WaitCaptureFrame, TakeCaptureFrame
<1>7. CASE WaitCaptureFrameResume(t)
  BY <1>7 DEF CaptureGoes, CaptureBecomes, WaitCaptureFrameResume, TakeCaptureFrame
<1>8. CASE CaptureTimeout(t)
  BY <1>8 DEF CaptureGoes, CaptureBecomes, CaptureTimeout
<1>9. CASE CaptureSurfaceDraw(t)
  BY <1>9 DEF CaptureGoes, CaptureBecomes, CaptureSurfaceDraw
<1>10. CASE CaptureConvert(t)
  BY <1>10 DEF CaptureGoes, CaptureBecomes, CaptureConvert
<1>11. CASE CaptureInvoke(t)
  BY <1>11 DEF CaptureGoes, CaptureBecomes, CaptureInvoke
<1>12. CASE CaptureCall(t)
  BY <1>12 DEF CaptureGoes, CaptureBecomes, CaptureCall
<1>13. CASE CaptureReturn(t)
  BY <1>13 DEF CaptureGoes, CaptureBecomes, CaptureReturn
<1>14. CASE CaptureSurfaceEnd(t)
  BY <1>14 DEF CaptureGoes, CaptureBecomes, CaptureSurfaceEnd
<1>15. CASE CaptureNotify(t)
  BY <1>15 DEF CaptureGoes, CaptureBecomes, CaptureNotify
<1> QED
  BY <1>1, <1>2, <1>3, <1>4, <1>5, <1>6, <1>7, <1>8, <1>9, <1>10, <1>11, <1>12, <1>13, <1>14, <1>15 DEF CaptureStep

LEMMA InitLifecycle == Init => Lifecycle
BY DEF Init, Lifecycle, NotYetCreated, StopsStopped, StoppedIsJoined, StreamIsOwned,
         AddingIsStreaming, QueuesCleared, Joining

LEMMA NextLifecycle ==
  ASSUME TypeOK, Lifecycle, [Next]_vars
  PROVE  Lifecycle'
<1>1. CASE AppCall \/ AppStep \/ AppSpuriousWakeup
  BY <1>1, AppLifecycle
<1>2. CASE FrameArrives \/ StreamStep
  BY <1>2, StreamLifecycle
<1>3. CASE PreviewStep \/ PreviewSpuriousWakeup
  BY <1>3, PreviewLifecycle
<1>4. ASSUME NEW t \in CaptureThreads, CaptureStep(t)
      PROVE  Lifecycle'
  <2>1. CaptureLeavesAlone /\ (captureQueu' => captureQueu)
    BY <1>4, CaptureType, QueueOnlyTaken
  <2> QED
    BY <2>1 DEF CaptureLeavesAlone, Lifecycle, NotYetCreated, StopsStopped, StoppedIsJoined, StreamIsOwned,
         AddingIsStreaming, QueuesCleared, Joining
<1>5. CASE UNCHANGED vars
  <2>1. UNCHANGED <<mIsRunning, preview, app, streaming, stream, previewFrames, captureQueu>>
    BY <1>5 DEF vars, flags, frames
  <2> QED
    BY <2>1 DEF Lifecycle, NotYetCreated, StopsStopped, StoppedIsJoined, StreamIsOwned,
         AddingIsStreaming, QueuesCleared, Joining
<1> QED
  BY <1>1, <1>2, <1>3, <1>4, <1>5 DEF Next

\* The preview thread and the stream live and end as the life cycle says: startPreview
\* creates a preview thread only when the last one has ended, and what it left in
\* the queues has been cleared (startPreview and stopPreview of UVCPreview.cpp).
THEOREM LifecycleHolds == Spec => []Lifecycle
<1> QED
  BY TypeCorrect, InitLifecycle, NextLifecycle, PTL DEF Spec

\* stopPreview, a failed startPreview and the destructor leave nothing of the
\* session behind: whatever the order of the last frame's arrival and the stop,
\* neither queue holds a frame and no thread is left that could put one there.
THEOREM StopQuiet == Spec => []StoppedIsQuiet
<1>1. TypeOK /\ Lifecycle => StoppedIsQuiet
  BY DEF TypeOK, StoppedIsQuiet, Lifecycle, NotYetCreated, StopsStopped, StoppedIsJoined, StreamIsOwned,
         AddingIsStreaming, QueuesCleared, Joining
<1> QED
  BY <1>1, TypeCorrect, LifecycleHolds, PTL

-----------------------------------------------------------------------------
(* The two condition variables.                                             *)

LEMMA NextSleepsOnEmpty ==
  ASSUME TypeOK, Lifecycle, SleepsOnEmpty, [Next]_vars
  PROVE  SleepsOnEmpty'
<1> USE DEF flags, objects, frames, pending, waits, SleepsOnEmpty
<1>1. CASE SetPreviewDisplay
  BY <1>1 DEF SetPreviewDisplay
<1>2. CASE StartPreview
  BY <1>2 DEF StartPreview
<1>3. CASE SetFrameCallback
  BY <1>3 DEF SetFrameCallback, AskCapturing
<1>4. CASE SetCaptureDisplay
  BY <1>4 DEF SetCaptureDisplay, AskCapturing
<1>5. CASE StopPreview
  BY <1>5 DEF StopPreview, AskCapturing
<1>6. CASE Destroy
  BY <1>6 DEF Destroy
<1>7. CASE StartCreate
  BY <1>7 DEF StartCreate, Lifecycle, NotYetCreated
<1>8. CASE StartFail
  BY <1>8 DEF StartFail
<1>9. CASE SetFrameCallbackResume
  BY <1>9 DEF SetFrameCallbackResume
<1>10. CASE SetCaptureDisplayResume
  BY <1>10 DEF SetCaptureDisplayResume
<1>11. CASE StopCallbackResume
  BY <1>11 DEF StopCallbackResume
<1>12. CASE StopFlag
  BY <1>12 DEF StopFlag
<1>13. CASE StopSignal
  BY <1>13 DEF StopSignal
<1>14. CASE StopCheckCapture
  BY <1>14 DEF StopCheckCapture
<1>15. CASE JoinCapture
  BY <1>15 DEF JoinCapture
<1>16. CASE JoinPreview
  BY <1>16 DEF JoinPreview
<1>17. CASE StopClear
  BY <1>17 DEF StopClear
<1>18. CASE StopRelease
  BY <1>18 DEF StopRelease
<1>19. CASE AppSpuriousWakeup
  BY <1>19 DEF AppSpuriousWakeup
<1>20. CASE FrameArrives
  BY <1>20 DEF FrameArrives
<1>21. CASE DuplicateFails
  BY <1>21 DEF DuplicateFails
<1>22. CASE AddPreviewFrame
  BY <1>22 DEF AddPreviewFrame
<1>23. CASE PreparePreview
  BY <1>23 DEF PreparePreview, PreviewGoes
<1>24. CASE StartStreaming
  BY <1>24 DEF StartStreaming
<1>25. CASE ClearPreviewFrame
  BY <1>25 DEF ClearPreviewFrame, PreviewGoes
<1>26. CASE CreateCapture
  BY <1>26 DEF CreateCapture
<1>27. CASE SetHasCapturing
  BY <1>27 DEF SetHasCapturing, PreviewGoes
<1>28. CASE PreviewCheck
  BY <1>28 DEF PreviewCheck, PreviewGoes
<1>29. CASE WaitPreviewFrame
  BY <1>29 DEF WaitPreviewFrame, TakePreviewFrame, PreviewGoes
<1>30. CASE WaitPreviewFrameResume
  BY <1>30 DEF WaitPreviewFrameResume, TakePreviewFrame, PreviewGoes
<1>31. CASE DecodeMjpeg
  BY <1>31 DEF DecodeMjpeg, PreviewGoes
<1>32. CASE DrawPreview
  BY <1>32 DEF DrawPreview, PreviewGoes
<1>33. CASE AddCaptureFrame
  BY <1>33 DEF AddCaptureFrame, PreviewGoes
<1>34. CASE EndSignal
  BY <1>34 DEF EndSignal, PreviewGoes
<1>35. CASE StopStreaming
  BY <1>35 DEF StopStreaming
<1>36. CASE PreviewSpuriousWakeup
  BY <1>36 DEF PreviewSpuriousWakeup
<1>37. ASSUME NEW t \in CaptureThreads, CaptureStep(t)
      PROVE  SleepsOnEmpty'
  BY <1>37, CaptureType DEF CaptureLeavesAlone
<1>38. CASE UNCHANGED vars
  BY <1>38 DEF vars
<1> QED
  BY <1>1, <1>2, <1>3, <1>4, <1>5, <1>6, <1>7, <1>8, <1>9, <1>10, <1>11, <1>12, <1>13, <1>14, <1>15, <1>16, <1>17, <1>18, <1>19, <1>20, <1>21, <1>22, <1>23, <1>24, <1>25, <1>26, <1>27, <1>28, <1>29, <1>30, <1>31, <1>32, <1>33, <1>34, <1>35, <1>36, <1>37, <1>38
     DEF Next, AppCall, AppStep, StreamStep, PreviewStep

\* The preview thread is never asleep with a frame in its queue: no put can slip
\* between its test of the queue and its wait, and only the thread itself or a
\* finished preview starts it again.
THEOREM PreviewAwake == Spec => []PreviewNotAsleepOnFrame
<1>1. Init => SleepsOnEmpty
  BY DEF Init, SleepsOnEmpty
<1>2. SleepsOnEmpty => PreviewNotAsleepOnFrame
  BY DEF SleepsOnEmpty, PreviewNotAsleepOnFrame
<1> QED
  BY <1>1, <1>2, NextSleepsOnEmpty, TypeCorrect, LifecycleHolds, PTL DEF Spec

LEMMA NextCaptureAwake ==
  ASSUME TypeOK, CaptureNotAsleepOnFrame, [Next]_vars
  PROVE  CaptureNotAsleepOnFrame'
<1> USE DEF flags, objects, frames, pending, waits, CaptureNotAsleepOnFrame
<1>1. CASE SetPreviewDisplay
  BY <1>1 DEF SetPreviewDisplay
<1>2. CASE StartPreview
  BY <1>2 DEF StartPreview
<1>3. CASE SetFrameCallback
  BY <1>3, SignalledSubset, PreviewConstants DEF SetFrameCallback, AskCapturing
<1>4. CASE SetCaptureDisplay
  BY <1>4, SignalledSubset, PreviewConstants DEF SetCaptureDisplay, AskCapturing
<1>5. CASE StopPreview
  BY <1>5, SignalledSubset, PreviewConstants DEF StopPreview, AskCapturing
<1>6. CASE Destroy
  BY <1>6 DEF Destroy
<1>7. CASE StartCreate
  BY <1>7 DEF StartCreate
<1>8. CASE StartFail
  BY <1>8 DEF StartFail
<1>9. CASE SetFrameCallbackResume
  BY <1>9 DEF SetFrameCallbackResume
<1>10. CASE SetCaptureDisplayResume
  BY <1>10 DEF SetCaptureDisplayResume
<1>11. CASE StopCallbackResume
  BY <1>11 DEF StopCallbackResume
<1>12. CASE StopFlag
  BY <1>12 DEF StopFlag
<1>13. CASE StopSignal
  BY <1>13 DEF StopSignal
<1>14. CASE StopCheckCapture
  BY <1>14, SignalledSubset DEF StopCheckCapture
<1>15. CASE JoinCapture
  BY <1>15 DEF JoinCapture
<1>16. CASE JoinPreview
  BY <1>16 DEF JoinPreview
<1>17. CASE StopClear
  BY <1>17 DEF StopClear
<1>18. CASE StopRelease
  BY <1>18 DEF StopRelease
<1>19. CASE AppSpuriousWakeup
  BY <1>19 DEF AppSpuriousWakeup
<1>20. CASE FrameArrives
  BY <1>20 DEF FrameArrives
<1>21. CASE DuplicateFails
  BY <1>21 DEF DuplicateFails
<1>22. CASE AddPreviewFrame
  BY <1>22 DEF AddPreviewFrame
<1>23. CASE PreparePreview
  BY <1>23 DEF PreparePreview, PreviewGoes
<1>24. CASE StartStreaming
  BY <1>24 DEF StartStreaming
<1>25. CASE ClearPreviewFrame
  BY <1>25 DEF ClearPreviewFrame, PreviewGoes
<1>26. CASE CreateCapture
  BY <1>26 DEF CreateCapture
<1>27. CASE SetHasCapturing
  BY <1>27 DEF SetHasCapturing, PreviewGoes
<1>28. CASE PreviewCheck
  BY <1>28 DEF PreviewCheck, PreviewGoes
<1>29. CASE WaitPreviewFrame
  BY <1>29 DEF WaitPreviewFrame, TakePreviewFrame, PreviewGoes
<1>30. CASE WaitPreviewFrameResume
  BY <1>30 DEF WaitPreviewFrameResume, TakePreviewFrame, PreviewGoes
<1>31. CASE DecodeMjpeg
  BY <1>31 DEF DecodeMjpeg, PreviewGoes
<1>32. CASE DrawPreview
  BY <1>32 DEF DrawPreview, PreviewGoes
<1>33. CASE AddCaptureFrame
  BY <1>33 DEF AddCaptureFrame, PreviewGoes
<1>34. CASE EndSignal
  BY <1>34, SignalledSubset DEF EndSignal, PreviewGoes
<1>35. CASE StopStreaming
  BY <1>35 DEF StopStreaming
<1>36. CASE PreviewSpuriousWakeup
  BY <1>36 DEF PreviewSpuriousWakeup
<1>37. ASSUME NEW t \in CaptureThreads, CaptureStep(t)
      PROVE  CaptureNotAsleepOnFrame'
  <2>1. CASE CaptureClear(t)
    BY <2>1 DEF CaptureClear, CaptureGoes, CaptureBecomes
  <2>2. CASE CaptureRunning(t)
    BY <2>2 DEF CaptureRunning, CaptureGoes, CaptureBecomes
  <2>3. CASE CaptureSetCapturing(t)
    BY <2>3 DEF CaptureSetCapturing, CaptureGoes, CaptureBecomes
  <2>4. CASE CaptureSelect(t)
    BY <2>4 DEF CaptureSelect, CaptureGoes, CaptureBecomes
  <2>5. CASE CaptureLoop(t)
    BY <2>5 DEF CaptureLoop, CaptureGoes, CaptureBecomes
  <2>6. CASE WaitCaptureFrame(t)
    BY <2>6 DEF WaitCaptureFrame, TakeCaptureFrame, CaptureGoes, CaptureBecomes
  <2>7. CASE WaitCaptureFrameResume(t)
    BY <2>7 DEF WaitCaptureFrameResume, TakeCaptureFrame, CaptureGoes, CaptureBecomes
  <2>8. CASE CaptureTimeout(t)
    BY <2>8 DEF CaptureTimeout, CaptureGoes, CaptureBecomes
  <2>9. CASE CaptureSurfaceDraw(t)
    BY <2>9 DEF CaptureSurfaceDraw, CaptureGoes, CaptureBecomes
  <2>10. CASE CaptureConvert(t)
    BY <2>10 DEF CaptureConvert, CaptureGoes, CaptureBecomes
  <2>11. CASE CaptureInvoke(t)
    BY <2>11 DEF CaptureInvoke, CaptureGoes, CaptureBecomes
  <2>12. CASE CaptureCall(t)
    BY <2>12 DEF CaptureCall, CaptureGoes, CaptureBecomes
  <2>13. CASE CaptureReturn(t)
    BY <2>13 DEF CaptureReturn, CaptureGoes, CaptureBecomes
  <2>14. CASE CaptureSurfaceEnd(t)
    BY <2>14 DEF CaptureSurfaceEnd, CaptureGoes, CaptureBecomes
  <2>15. CASE CaptureNotify(t)
    BY <2>15 DEF CaptureNotify, CaptureGoes, CaptureBecomes
  <2> QED
    BY <1>37, <2>1, <2>2, <2>3, <2>4, <2>5, <2>6, <2>7, <2>8, <2>9, <2>10, <2>11, <2>12, <2>13, <2>14, <2>15 DEF CaptureStep
<1>38. CASE UNCHANGED vars
  BY <1>38 DEF vars
<1> QED
  BY <1>1, <1>2, <1>3, <1>4, <1>5, <1>6, <1>7, <1>8, <1>9, <1>10, <1>11, <1>12, <1>13, <1>14, <1>15, <1>16, <1>17, <1>18, <1>19, <1>20, <1>21, <1>22, <1>23, <1>24, <1>25, <1>26, <1>27, <1>28, <1>29, <1>30, <1>31, <1>32, <1>33, <1>34, <1>35, <1>36, <1>37, <1>38
     DEF Next, AppCall, AppStep, StreamStep, PreviewStep

\* A capture thread is never asleep with a frame in captureQueu, however many
\* threads wait on capture_sync and whoever the signals of setFrameCallback,
\* stopPreview and the ending preview thread wake.
THEOREM CaptureAwake == Spec => []CaptureNotAsleepOnFrame
<1>1. Init => CaptureNotAsleepOnFrame
  BY DEF Init, CaptureNotAsleepOnFrame
<1> QED
  BY <1>1, NextCaptureAwake, TypeCorrect, PTL DEF Spec

-----------------------------------------------------------------------------
(* The accounting of frames.                                                *)

\* Two finite sets that differ in t at most.
LEMMA SwapCount ==
  ASSUME NEW S, NEW T, NEW t, IsFiniteSet(S), T \ {t} = S \ {t}
  PROVE  /\ IsFiniteSet(T)
         /\ Cardinality(T) + Count(t \in S) = Cardinality(S) + Count(t \in T)
<1>1. IsFiniteSet(T)
  <2>1. IsFiniteSet(S \ {t}) /\ IsFiniteSet((S \ {t}) \cup {t})
    BY FS_RemoveElement, FS_AddElement
  <2>2. CASE t \in T
    <3>1. T = (S \ {t}) \cup {t}
      BY <2>2
    <3> QED
      BY <2>1, <3>1
  <2>3. CASE t \notin T
    <3>1. T = S \ {t}
      BY <2>3
    <3> QED
      BY <2>1, <3>1
  <2> QED
    BY <2>2, <2>3
<1>2. Cardinality(S) \in Nat /\ Cardinality(T) \in Nat
  BY <1>1, FS_CardinalityType
<1>3. Cardinality(S \ {t}) = Cardinality(S) - Count(t \in S)
  BY <1>2, FS_RemoveElement DEF Count
<1>4. Cardinality(T \ {t}) = Cardinality(T) - Count(t \in T)
  BY <1>1, <1>2, FS_RemoveElement DEF Count
<1>5. Count(t \in S) \in 0..1 /\ Count(t \in T) \in 0..1
  BY DEF Count
<1>6. Cardinality(S) - Count(t \in S) = Cardinality(T) - Count(t \in T)
  BY <1>3, <1>4, Zenon
<1>7. Cardinality(T) + Count(t \in S) = Cardinality(S) + Count(t \in T)
  BY <1>2, <1>5, <1>6
<1> QED
  BY <1>1, <1>7

LEMMA HoldersFinite ==
  /\ IsFiniteSet(FrameHolders) /\ Cardinality(FrameHolders) \in Nat
  /\ IsFiniteSet(ConvertedHolders) /\ Cardinality(ConvertedHolders) \in Nat
<1>1. FrameHolders \in SUBSET CaptureThreads /\ ConvertedHolders \in SUBSET CaptureThreads
  BY DEF FrameHolders, ConvertedHolders
<1> QED
  BY <1>1, FS_Subset, FS_CardinalityType, PreviewConstants

\* The frames held by capture threads when one of them becomes new.
LEMMA HoldersChange ==
  ASSUME TypeOK, NEW t \in CaptureThreads, NEW new \in CaptureState,
         capture' = [capture EXCEPT ![t] = new]
  PROVE  /\ Cardinality(FrameHolders') + Count(capture[t].pc \in HoldsFrame)
              = Cardinality(FrameHolders) + Count(new.pc \in HoldsFrame)
         /\ Cardinality(ConvertedHolders') + Count(capture[t].converted)
              = Cardinality(ConvertedHolders) + Count(new.converted)
         /\ Cardinality(FrameHolders') \in Nat
         /\ Cardinality(ConvertedHolders') \in Nat
<1>1. \A u \in CaptureThreads : capture'[u] = IF u = t THEN new ELSE capture[u]
  BY DEF TypeOK, CaptureStates
<1>2. FrameHolders' \ {t} = FrameHolders \ {t}
  BY <1>1 DEF FrameHolders
<1>3. ConvertedHolders' \ {t} = ConvertedHolders \ {t}
  BY <1>1 DEF ConvertedHolders
<1>4. /\ (t \in FrameHolders) = (capture[t].pc \in HoldsFrame)
      /\ (t \in FrameHolders') = (new.pc \in HoldsFrame)
  BY <1>1 DEF FrameHolders
<1>5. capture[t].converted \in BOOLEAN /\ new.converted \in BOOLEAN
  BY DEF TypeOK, CaptureStates, CaptureState
<1>6. /\ (t \in ConvertedHolders) = capture[t].converted
      /\ (t \in ConvertedHolders') = new.converted
  BY <1>1, <1>5 DEF ConvertedHolders
<1>7. /\ IsFiniteSet(FrameHolders')
      /\ Cardinality(FrameHolders') + Count(t \in FrameHolders)
           = Cardinality(FrameHolders) + Count(t \in FrameHolders')
  BY <1>2, HoldersFinite, SwapCount
<1>8. /\ IsFiniteSet(ConvertedHolders')
      /\ Cardinality(ConvertedHolders') + Count(t \in ConvertedHolders)
           = Cardinality(ConvertedHolders) + Count(t \in ConvertedHolders')
  BY <1>3, HoldersFinite, SwapCount
<1>9. Cardinality(FrameHolders') \in Nat /\ Cardinality(ConvertedHolders') \in Nat
  BY <1>7, <1>8, FS_CardinalityType
<1> QED
  BY <1>4, <1>6, <1>7, <1>8, <1>9

\* Only the creation of a capture thread and the threads themselves change capture.
LEMMA CaptureUntouched ==
  ASSUME \/ AppCall \/ AppStep \/ AppSpuriousWakeup
         \/ FrameArrives \/ StreamStep
         \/ PreviewStep /\ ~CreateCapture
         \/ PreviewSpuriousWakeup
  PROVE  capture' = capture
<1> USE DEF flags, objects, frames, pending, waits
<1>1. CASE SetPreviewDisplay
  BY <1>1 DEF SetPreviewDisplay
<1>2. CASE StartPreview
  BY <1>2 DEF StartPreview
<1>3. CASE SetFrameCallback
  BY <1>3 DEF SetFrameCallback, AskCapturing
<1>4. CASE SetCaptureDisplay
  BY <1>4 DEF SetCaptureDisplay, AskCapturing
<1>5. CASE StopPreview
  BY <1>5 DEF StopPreview, AskCapturing
<1>6. CASE Destroy
  BY <1>6 DEF Destroy
<1>7. CASE StartCreate
  BY <1>7 DEF StartCreate
<1>8. CASE StartFail
  BY <1>8 DEF StartFail
<1>9. CASE SetFrameCallbackResume
  BY <1>9 DEF SetFrameCallbackResume
<1>10. CASE SetCaptureDisplayResume
  BY <1>10 DEF SetCaptureDisplayResume
<1>11. CASE StopCallbackResume
  BY <1>11 DEF StopCallbackResume
<1>12. CASE StopFlag
  BY <1>12 DEF StopFlag
<1>13. CASE StopSignal
  BY <1>13 DEF StopSignal
<1>14. CASE StopCheckCapture
  BY <1>14 DEF StopCheckCapture
<1>15. CASE JoinCapture
  BY <1>15 DEF JoinCapture
<1>16. CASE JoinPreview
  BY <1>16 DEF JoinPreview
<1>17. CASE StopClear
  BY <1>17 DEF StopClear
<1>18. CASE StopRelease
  BY <1>18 DEF StopRelease
<1>19. CASE AppSpuriousWakeup
  BY <1>19 DEF AppSpuriousWakeup
<1>20. CASE FrameArrives
  BY <1>20 DEF FrameArrives
<1>21. CASE DuplicateFails
  BY <1>21 DEF DuplicateFails
<1>22. CASE AddPreviewFrame
  BY <1>22 DEF AddPreviewFrame
<1>23. CASE PreparePreview
  BY <1>23 DEF PreparePreview, PreviewGoes
<1>24. CASE StartStreaming
  BY <1>24 DEF StartStreaming
<1>25. CASE ClearPreviewFrame
  BY <1>25 DEF ClearPreviewFrame, PreviewGoes
<1>26. CASE SetHasCapturing
  BY <1>26 DEF SetHasCapturing, PreviewGoes
<1>27. CASE PreviewCheck
  BY <1>27 DEF PreviewCheck, PreviewGoes
<1>28. CASE WaitPreviewFrame
  BY <1>28 DEF WaitPreviewFrame, TakePreviewFrame, PreviewGoes
<1>29. CASE WaitPreviewFrameResume
  BY <1>29 DEF WaitPreviewFrameResume, TakePreviewFrame, PreviewGoes
<1>30. CASE DecodeMjpeg
  BY <1>30 DEF DecodeMjpeg, PreviewGoes
<1>31. CASE DrawPreview
  BY <1>31 DEF DrawPreview, PreviewGoes
<1>32. CASE AddCaptureFrame
  BY <1>32 DEF AddCaptureFrame, PreviewGoes
<1>33. CASE EndSignal
  BY <1>33 DEF EndSignal, PreviewGoes
<1>34. CASE StopStreaming
  BY <1>34 DEF StopStreaming
<1>35. CASE PreviewSpuriousWakeup
  BY <1>35 DEF PreviewSpuriousWakeup
<1> QED
  BY <1>1, <1>2, <1>3, <1>4, <1>5, <1>6, <1>7, <1>8, <1>9, <1>10, <1>11, <1>12, <1>13, <1>14, <1>15, <1>16, <1>17, <1>18, <1>19, <1>20, <1>21, <1>22, <1>23, <1>24, <1>25, <1>26, <1>27, <1>28, <1>29, <1>30, <1>31, <1>32, <1>33, <1>34, <1>35
     DEF AppCall, AppStep, StreamStep, PreviewStep

LEMMA NextConverted ==
  ASSUME TypeOK, ConvertedIsDrawing, [Next]_vars
  PROVE  ConvertedIsDrawing'
<1>1. CASE capture' = capture
  BY <1>1 DEF ConvertedIsDrawing
<1>2. CASE CreateCapture
  BY <1>2 DEF CreateCapture, ConvertedIsDrawing, TypeOK, CaptureStates, CaptureState
<1>3. ASSUME NEW t \in CaptureThreads, CaptureStep(t)
      PROVE  ConvertedIsDrawing'
  <2> USE DEF ConvertedIsDrawing, TypeOK, CaptureStates, CaptureState, CaptureGoes, CaptureBecomes
  <2>1. CASE CaptureClear(t)
    BY <2>1 DEF CaptureClear
  <2>2. CASE CaptureRunning(t)
    BY <2>2 DEF CaptureRunning, Dead
  <2>3. CASE CaptureSetCapturing(t)
    BY <2>3 DEF CaptureSetCapturing
  <2>4. CASE CaptureSelect(t)
    BY <2>4 DEF CaptureSelect
  <2>5. CASE CaptureLoop(t)
    BY <2>5 DEF CaptureLoop
  <2>6. CASE WaitCaptureFrame(t)
    BY <2>6 DEF WaitCaptureFrame, TakeCaptureFrame
  <2>7. CASE WaitCaptureFrameResume(t)
    BY <2>7 DEF WaitCaptureFrameResume, TakeCaptureFrame
  <2>8. CASE CaptureTimeout(t)
    BY <2>8 DEF CaptureTimeout
  <2>9. CASE CaptureSurfaceDraw(t)
    BY <2>9 DEF CaptureSurfaceDraw
  <2>10. CASE CaptureConvert(t)
    BY <2>10 DEF CaptureConvert
  <2>11. CASE CaptureInvoke(t)
    BY <2>11 DEF CaptureInvoke
  <2>12. CASE CaptureCall(t)
    BY <2>12 DEF CaptureCall
  <2>13. CASE CaptureReturn(t)
    BY <2>13 DEF CaptureReturn
  <2>14. CASE CaptureSurfaceEnd(t)
    BY <2>14 DEF CaptureSurfaceEnd
  <2>15. CASE CaptureNotify(t)
    BY <2>15 DEF CaptureNotify
  <2> QED
    BY <1>3, <2>1, <2>2, <2>3, <2>4, <2>5, <2>6, <2>7, <2>8, <2>9, <2>10, <2>11, <2>12, <2>13, <2>14, <2>15 DEF CaptureStep
<1>4. CASE UNCHANGED vars
  BY <1>4, <1>1 DEF vars
<1> QED
  BY <1>1, <1>2, <1>3, <1>4, CaptureUntouched DEF Next, PreviewStep

\* The equation, read as: the frames out of the pool are those somebody holds.
HandledByPreview == preview \in {"decode", "draw", "addCapture"}
Taken == Cardinality(FrameHolders) + Cardinality(ConvertedHolders)

HeldFrames == previewFrames + Count(captureQueu) + Count(stream = "adding")
              + Count(HandledByPreview) + Taken
OutsideIsHeld == Outside(mem) = HeldFrames

LEMMA Equation == TypeOK => (FramesAccountedFor <=> OutsideIsHeld)
<1> SUFFICES ASSUME TypeOK PROVE FramesAccountedFor <=> OutsideIsHeld
  OBVIOUS
<1>1. /\ Cardinality(FrameHolders) \in Int /\ Cardinality(ConvertedHolders) \in Int
      /\ mem.live \in Int /\ mem.pool \in Int /\ previewFrames \in Int
  BY HoldersFinite, PreviewConstants DEF TypeOK, Memory
<1>2. /\ Count(captureQueu) \in Int /\ Count(stream = "adding") \in Int
      /\ Count(HandledByPreview) \in Int
  BY DEF Count
<1> QED
  BY <1>1, <1>2
     DEF FramesAccountedFor, OutsideIsHeld, HeldFrames, Outside, HandledByPreview, Taken

\* A step that leaves the capture threads alone.
LEMMA FramesOfOthers ==
  ASSUME TypeOK, TypeOK', Lifecycle, FramesAccountedFor, capture' = capture,
         \/ AppCall \/ AppStep \/ AppSpuriousWakeup
         \/ FrameArrives \/ StreamStep
         \/ PreviewStep /\ ~CreateCapture
         \/ PreviewSpuriousWakeup
  PROVE  FramesAccountedFor'
<1> USE DEF flags, objects, frames, pending, waits
<1>h. Taken' = Taken /\ Taken \in Nat
  BY HoldersFinite DEF Taken, FrameHolders, ConvertedHolders
<1>m. mem \in Memory /\ previewFrames \in Nat /\ captureQueu \in BOOLEAN
  BY PreviewConstants DEF TypeOK
<1>o. Outside(mem) \in Int
  BY <1>m, PreviewConstants DEF Memory, Outside
<1>e. Outside(mem) = HeldFrames
  BY Equation DEF OutsideIsHeld
<1>q. TypeOK' => (FramesAccountedFor' <=> OutsideIsHeld')
  BY Equation, PTL
<1> SUFFICES Outside(mem') = HeldFrames'
  BY <1>q DEF OutsideIsHeld
<1>1. CASE SetPreviewDisplay
  BY <1>1, <1>e, <1>h, <1>m, <1>o DEF SetPreviewDisplay, Count, HandledByPreview, HeldFrames
<1>2. CASE StartPreview
  BY <1>2, <1>e, <1>h, <1>m, <1>o DEF StartPreview, Count, HandledByPreview, HeldFrames
<1>3. CASE SetFrameCallback
  BY <1>3, <1>e, <1>h, <1>m, <1>o DEF SetFrameCallback, AskCapturing, Count, HandledByPreview, HeldFrames
<1>4. CASE SetCaptureDisplay
  BY <1>4, <1>e, <1>h, <1>m, <1>o DEF SetCaptureDisplay, AskCapturing, Count, HandledByPreview, HeldFrames
<1>5. CASE StopPreview
  BY <1>5, <1>e, <1>h, <1>m, <1>o DEF StopPreview, AskCapturing, Count, HandledByPreview, HeldFrames
<1>6. CASE Destroy
  BY <1>6, <1>e, <1>h, <1>m, <1>o, PreviewConstants DEF Destroy, Count, HandledByPreview, HeldFrames, Outside, Memory
<1>7. CASE StartCreate
  BY <1>7, <1>e, <1>h, <1>m, <1>o DEF StartCreate, Count, HandledByPreview, HeldFrames, Lifecycle, NotYetCreated
<1>8. CASE StartFail
  BY <1>8, <1>e, <1>h, <1>m, <1>o DEF StartFail, Count, HandledByPreview, HeldFrames
<1>9. CASE SetFrameCallbackResume
  BY <1>9, <1>e, <1>h, <1>m, <1>o DEF SetFrameCallbackResume, Count, HandledByPreview, HeldFrames
<1>10. CASE SetCaptureDisplayResume
  BY <1>10, <1>e, <1>h, <1>m, <1>o DEF SetCaptureDisplayResume, Count, HandledByPreview, HeldFrames
<1>11. CASE StopCallbackResume
  BY <1>11, <1>e, <1>h, <1>m, <1>o DEF StopCallbackResume, Count, HandledByPreview, HeldFrames
<1>12. CASE StopFlag
  BY <1>12, <1>e, <1>h, <1>m, <1>o DEF StopFlag, Count, HandledByPreview, HeldFrames
<1>13. CASE StopSignal
  BY <1>13, <1>e, <1>h, <1>m, <1>o DEF StopSignal, Count, HandledByPreview, HeldFrames
<1>14. CASE StopCheckCapture
  BY <1>14, <1>e, <1>h, <1>m, <1>o DEF StopCheckCapture, Count, HandledByPreview, HeldFrames
<1>15. CASE JoinCapture
  BY <1>15, <1>e, <1>h, <1>m, <1>o DEF JoinCapture, Count, HandledByPreview, HeldFrames
<1>16. CASE JoinPreview
  BY <1>16, <1>e, <1>h, <1>m, <1>o DEF JoinPreview, Count, HandledByPreview, HeldFrames
<1>17. CASE StopClear
  BY <1>17, <1>e, <1>h, <1>m, <1>o, RecycleOutside DEF StopClear, Count, HandledByPreview, HeldFrames
<1>18. CASE StopRelease
  BY <1>18, <1>e, <1>h, <1>m, <1>o DEF StopRelease, Count, HandledByPreview, HeldFrames
<1>19. CASE AppSpuriousWakeup
  BY <1>19, <1>e, <1>h, <1>m, <1>o DEF AppSpuriousWakeup, Count, HandledByPreview, HeldFrames
<1>20. CASE FrameArrives
  BY <1>20, <1>e, <1>h, <1>m, <1>o, GetFrameOutside DEF FrameArrives, Count, HandledByPreview, HeldFrames
<1>21. CASE DuplicateFails
  BY <1>21, <1>e, <1>h, <1>m, <1>o, RecycleOutside DEF DuplicateFails, Count, HandledByPreview, HeldFrames
<1>22. CASE AddPreviewFrame
  <2>1. CASE mIsRunning /\ previewFrames < MaxFrame
    BY <1>22, <2>1, <1>e, <1>h, <1>m, <1>o, RecycleOutside DEF AddPreviewFrame, Count, HandledByPreview, HeldFrames
  <2>2. CASE ~(mIsRunning /\ previewFrames < MaxFrame)
    <3>1. mem' = Recycle(mem, 1) /\ previewFrames' = previewFrames
      BY <1>22, <2>2 DEF AddPreviewFrame
    <3>2. Outside(mem') = Outside(mem) - 1
      BY <3>1, <1>m, RecycleOutside
    <3> QED
      BY <1>22, <3>1, <3>2, <1>e, <1>h, <1>m, <1>o
         DEF AddPreviewFrame, Count, HandledByPreview, HeldFrames
  <2> QED
    BY <2>1, <2>2
<1>23. CASE PreparePreview
  BY <1>23, <1>e, <1>h, <1>m, <1>o DEF PreparePreview, PreviewGoes, Count, HandledByPreview, HeldFrames
<1>24. CASE StartStreaming
  BY <1>24, <1>e, <1>h, <1>m, <1>o DEF StartStreaming, Count, HandledByPreview, HeldFrames
<1>25. CASE ClearPreviewFrame
  BY <1>25, <1>e, <1>h, <1>m, <1>o, RecycleOutside DEF ClearPreviewFrame, PreviewGoes, Count, HandledByPreview, HeldFrames
<1>26. CASE SetHasCapturing
  BY <1>26, <1>e, <1>h, <1>m, <1>o DEF SetHasCapturing, PreviewGoes, Count, HandledByPreview, HeldFrames
<1>27. CASE PreviewCheck
  BY <1>27, <1>e, <1>h, <1>m, <1>o DEF PreviewCheck, PreviewGoes, Count, HandledByPreview, HeldFrames
<1>28. CASE WaitPreviewFrame
  BY <1>28, <1>e, <1>h, <1>m, <1>o DEF WaitPreviewFrame, TakePreviewFrame, PreviewGoes, Count, HandledByPreview, HeldFrames
<1>29. CASE WaitPreviewFrameResume
  BY <1>29, <1>e, <1>h, <1>m, <1>o DEF WaitPreviewFrameResume, TakePreviewFrame, PreviewGoes, Count, HandledByPreview, HeldFrames
<1>30. CASE DecodeMjpeg
  BY <1>30, <1>e, <1>h, <1>m, <1>o, GetFrameOutside, RecycleOutside DEF DecodeMjpeg, PreviewGoes, Count, HandledByPreview, HeldFrames
<1>31. CASE DrawPreview
  <2>1. CASE mPreviewWindow
    BY <1>31, <2>1, <1>e, <1>h, <1>m, <1>o, GetFrameOutside, RecycleOutside DEF DrawPreview, PreviewGoes, Count, HandledByPreview, HeldFrames
  <2>2. CASE ~(mPreviewWindow)
    BY <1>31, <2>2, <1>e, <1>h, <1>m, <1>o, GetFrameOutside, RecycleOutside DEF DrawPreview, PreviewGoes, Count, HandledByPreview, HeldFrames
  <2> QED
    BY <2>1, <2>2
<1>32. CASE AddCaptureFrame
  <2>1. CASE mIsRunning
    BY <1>32, <2>1, <1>e, <1>h, <1>m, <1>o, RecycleOutside DEF AddCaptureFrame, PreviewGoes, Count, HandledByPreview, HeldFrames
  <2>2. CASE ~(mIsRunning)
    BY <1>32, <2>2, <1>e, <1>h, <1>m, <1>o, RecycleOutside DEF AddCaptureFrame, PreviewGoes, Count, HandledByPreview, HeldFrames
  <2> QED
    BY <2>1, <2>2
<1>33. CASE EndSignal
  BY <1>33, <1>e, <1>h, <1>m, <1>o DEF EndSignal, PreviewGoes, Count, HandledByPreview, HeldFrames
<1>34. CASE StopStreaming
  BY <1>34, <1>e, <1>h, <1>m, <1>o DEF StopStreaming, Count, HandledByPreview, HeldFrames
<1>35. CASE PreviewSpuriousWakeup
  BY <1>35, <1>e, <1>h, <1>m, <1>o DEF PreviewSpuriousWakeup, Count, HandledByPreview, HeldFrames
<1> QED
  BY <1>1, <1>2, <1>3, <1>4, <1>5, <1>6, <1>7, <1>8, <1>9, <1>10, <1>11, <1>12, <1>13, <1>14, <1>15, <1>16, <1>17, <1>18, <1>19, <1>20, <1>21, <1>22, <1>23, <1>24, <1>25, <1>26, <1>27, <1>28, <1>29, <1>30, <1>31, <1>32, <1>33, <1>34, <1>35
     DEF AppCall, AppStep, StreamStep, PreviewStep

\* A capture thread's step keeps the equation when it balances the books itself.
Balanced(t, new) ==
  Outside(mem') + Count(captureQueu) + Count(capture[t].pc \in HoldsFrame)
    + Count(capture[t].converted)
  = Outside(mem) + Count(captureQueu') + Count(new.pc \in HoldsFrame)
    + Count(new.converted)

LEMMA BalancedKeeps ==
  ASSUME TypeOK, TypeOK', FramesAccountedFor, NEW t \in CaptureThreads,
         NEW new \in CaptureState, capture' = [capture EXCEPT ![t] = new],
         previewFrames' = previewFrames, stream' = stream,
         HandledByPreview' = HandledByPreview, Balanced(t, new)
  PROVE  FramesAccountedFor'
<1>1. Cardinality(FrameHolders) \in Int /\ Cardinality(ConvertedHolders) \in Int
  BY HoldersFinite
<1>2. Cardinality(FrameHolders') \in Int /\ Cardinality(ConvertedHolders') \in Int
  <2>1. Cardinality(FrameHolders') \in Nat /\ Cardinality(ConvertedHolders') \in Nat
    BY HoldersChange, Zenon
  <2> QED
    BY <2>1
<1>3. /\ Count(capture[t].pc \in HoldsFrame) \in Int /\ Count(new.pc \in HoldsFrame) \in Int
      /\ Count(capture[t].converted) \in Int /\ Count(new.converted) \in Int
      /\ Count(captureQueu) \in Int /\ Count(captureQueu') \in Int
      /\ Count(stream = "adding") \in Int /\ Count(HandledByPreview) \in Int
  BY DEF Count
<1>4. previewFrames \in Int /\ Outside(mem) \in Int /\ Outside(mem') \in Int
  BY PreviewConstants DEF TypeOK, Memory, Outside
<1>5. OutsideIsHeld
  BY Equation
<1>6. TypeOK' => (FramesAccountedFor' <=> OutsideIsHeld')
  BY Equation, PTL
<1>7. /\ Taken' = Cardinality(FrameHolders') + Cardinality(ConvertedHolders')
      /\ Taken = Cardinality(FrameHolders) + Cardinality(ConvertedHolders)
  BY DEF Taken
<1>8. Taken' + Count(capture[t].pc \in HoldsFrame) + Count(capture[t].converted)
       = Taken + Count(new.pc \in HoldsFrame) + Count(new.converted)
  <2> DEFINE h == Cardinality(FrameHolders)   h1 == Cardinality(FrameHolders')
             c == Cardinality(ConvertedHolders)   c1 == Cardinality(ConvertedHolders')
             p == Count(capture[t].pc \in HoldsFrame)   p1 == Count(new.pc \in HoldsFrame)
             q == Count(capture[t].converted)   q1 == Count(new.converted)
  <2>1. h1 + p = h + p1 /\ c1 + q = c + q1
    BY HoldersChange
  <2>2. h \in Int /\ h1 \in Int /\ c \in Int /\ c1 \in Int
        /\ p \in Int /\ p1 \in Int /\ q \in Int /\ q1 \in Int
    BY <1>1, <1>2, <1>3
  <2>3. Taken' = h1 + c1 /\ Taken = h + c
    BY <1>7
  <2> HIDE DEF h, h1, c, c1, p, p1, q, q1
  <2>4. Taken' + p + q = Taken + p1 + q1
    BY <2>1, <2>2, <2>3
  <2> QED
    BY <2>4 DEF p, p1, q, q1
<1>9. Outside(mem') = previewFrames + Count(captureQueu') + Count(stream = "adding")
                      + Count(HandledByPreview) + Taken'
  <2> DEFINE o == Outside(mem)   o1 == Outside(mem')
             a == Count(captureQueu)   a1 == Count(captureQueu')
             p == Count(capture[t].pc \in HoldsFrame)   p1 == Count(new.pc \in HoldsFrame)
             q == Count(capture[t].converted)   q1 == Count(new.converted)
             s == Count(stream = "adding")   v == Count(HandledByPreview)   k == Taken   k1 == Taken'
  <2>1. o1 + a + p + q = o + a1 + p1 + q1
    BY DEF Balanced
  <2>2. o = previewFrames + a + s + v + k
    BY <1>5 DEF OutsideIsHeld, HeldFrames
  <2>3. k1 + p + q = k + p1 + q1
    BY <1>8
  <2>4. o \in Int /\ o1 \in Int /\ a \in Int /\ a1 \in Int /\ p \in Int /\ p1 \in Int
        /\ q \in Int /\ q1 \in Int /\ s \in Int /\ v \in Int
    BY <1>3, <1>4
  <2>5. previewFrames \in Int
    BY <1>4
  <2>6. k \in Int /\ k1 \in Int
    BY <1>1, <1>2, <1>7
  <2> HIDE DEF o, o1, a, a1, p, p1, q, q1, s, v, k, k1
  <2>7. o1 = previewFrames + a1 + s + v + k1
    <3>1. o1 + a + (p + q) = previewFrames + a + s + v + k + a1 + (p1 + q1)
      BY <2>1, <2>2, <2>4, <2>5, <2>6
    <3>2. k + (p1 + q1) = k1 + (p + q)
      BY <2>3, <2>4, <2>6
    <3> QED
      BY <3>1, <3>2, <2>4, <2>5, <2>6
  <2> QED
    BY <2>7 DEF o1, a1, s, v, k1
<1> QED
  BY <1>6, <1>9 DEF OutsideIsHeld, HeldFrames

LEMMA FramesOfCreate ==
  ASSUME TypeOK, TypeOK', ConvertedIsDrawing, FramesAccountedFor, CreateCapture
  PROVE  FramesAccountedFor'
<1> USE DEF flags, objects, frames, pending, waits
<1>1. /\ HandledByPreview' = HandledByPreview
      /\ previewFrames' = previewFrames /\ stream' = stream
      /\ Outside(mem') = Outside(mem) /\ captureQueu' = captureQueu
  BY DEF CreateCapture, HandledByPreview
<1>2. CASE capture' = capture
  <2>1. Taken' = Taken
    BY <1>2 DEF Taken, FrameHolders, ConvertedHolders
  <2>2. TypeOK' => (FramesAccountedFor' <=> OutsideIsHeld')
    BY Equation, PTL
  <2> QED
    BY <1>1, <2>1, <2>2, Equation DEF OutsideIsHeld, HeldFrames
<1>3. ASSUME NEW t \in CaptureThreads, capture[t].pc = "dead",
             capture' = [capture EXCEPT ![t].pc = "clear"]
      PROVE  FramesAccountedFor'
  <2> DEFINE new == [capture[t] EXCEPT !.pc = "clear"]
  <2>1. new \in CaptureState /\ new.pc = "clear" /\ new.converted = capture[t].converted
    BY DEF TypeOK, CaptureStates, CaptureState, CapturePcs
  <2>2. capture' = [capture EXCEPT ![t] = new]
    BY <1>3
  <2>3. Balanced(t, new)
    BY <1>1, <1>3, <2>1 DEF Balanced, HoldsFrame
  <2> HIDE DEF new
  <2> QED
    BY <1>1, <2>1, <2>2, <2>3, BalancedKeeps
<1> QED
  BY <1>2, <1>3 DEF CreateCapture

LEMMA FramesOfCapture ==
  ASSUME TypeOK, TypeOK', ConvertedIsDrawing, FramesAccountedFor,
         NEW t \in CaptureThreads, CaptureStep(t)
  PROVE  FramesAccountedFor'
<1> USE DEF pending
<1>m. mem \in Memory /\ Outside(mem) \in Int /\ captureQueu \in BOOLEAN
  BY PreviewConstants DEF TypeOK, Memory, Outside
<1>t. /\ capture[t] \in CaptureState /\ capture[t].converted \in BOOLEAN
      /\ capture[t].surface \in BOOLEAN
  BY DEF TypeOK, CaptureStates, CaptureState
<1>d. /\ capture[t].converted => capture[t].surface
      /\ capture[t].pc \in {"running", "setCapturing", "select", "notify"}
           => ~capture[t].converted
      /\ capture[t].pc = "surfaceDraw" => capture[t].surface
  BY DEF ConvertedIsDrawing
<1>b. ASSUME NEW from, NEW new \in CaptureState, CaptureBecomes(t, from, new), Balanced(t, new)
      PROVE  FramesAccountedFor'
  <2>1. /\ capture' = [capture EXCEPT ![t] = new]
        /\ previewFrames' = previewFrames /\ stream' = stream
        /\ HandledByPreview' = HandledByPreview
    BY <1>b DEF CaptureBecomes, HandledByPreview
  <2> QED
    BY <1>b, <2>1, BalancedKeeps
<1>g. ASSUME NEW from, NEW to \in CapturePcs, CaptureGoes(t, from, to),
             Outside(mem') + Count(captureQueu) + Count(from \in HoldsFrame)
               = Outside(mem) + Count(captureQueu') + Count(to \in HoldsFrame)
      PROVE  FramesAccountedFor'
  <2> DEFINE new == [capture[t] EXCEPT !.pc = to]
  <2>1. new \in CaptureState /\ new.pc = to /\ new.converted = capture[t].converted
    BY <1>t DEF CaptureState
  <2>2. CaptureBecomes(t, from, new) /\ capture[t].pc = from
    BY <1>g DEF CaptureGoes, CaptureBecomes
  <2>3. Balanced(t, new)
    BY <1>g, <2>1, <2>2 DEF Balanced
  <2> HIDE DEF new
  <2> QED
    BY <2>1, <2>2, <2>3, <1>b
<1>1. CASE CaptureClear(t)
  <2>1. CaptureGoes(t, "clear", "running") /\ mem' = Recycle(mem, Count(captureQueu)) /\ captureQueu' = FALSE
    BY <1>1 DEF CaptureClear
  <2>2. Outside(mem') = Outside(mem) - Count(captureQueu)
    BY <2>1, <1>m, RecycleOutside, CountNat
  <2> QED
    BY <2>1, <2>2, <1>g, <1>m DEF CapturePcs, HoldsFrame, Count
<1>2. CASE CaptureRunning(t)
  <2>1. mem' = mem /\ captureQueu' = captureQueu
    BY <1>2 DEF CaptureRunning
  <2>2. CASE mIsRunning
    <3>1. CaptureGoes(t, "running", "setCapturing")
      BY <1>2, <2>2 DEF CaptureRunning
    <3> QED
      BY <2>1, <3>1, <1>g, <1>m DEF CapturePcs, HoldsFrame
  <2>3. CASE ~mIsRunning
    <3>1. CaptureBecomes(t, "running", Dead) /\ capture[t].pc = "running"
      BY <1>2, <2>3 DEF CaptureRunning, CaptureBecomes
    <3>2. Balanced(t, Dead)
      BY <2>1, <3>1, <1>m, <1>d DEF Balanced, Dead, HoldsFrame, Count
    <3> QED
      BY <3>1, <3>2, <1>b, DeadType
  <2> QED
    BY <2>2, <2>3
<1>3. CASE CaptureSetCapturing(t)
  <2>1. CaptureGoes(t, "setCapturing", "select") /\ mem' = mem /\ captureQueu' = captureQueu
    BY <1>3 DEF CaptureSetCapturing
  <2> QED
    BY <2>1, <1>g, <1>m DEF CapturePcs, HoldsFrame
<1>4. CASE CaptureSelect(t)
  <2> DEFINE new == [capture[t] EXCEPT !.pc = "loop", !.surface = (mCaptureWindow # NULL)]
  <2>1. CaptureBecomes(t, "select", new) /\ capture[t].pc = "select"
        /\ mem' = mem /\ captureQueu' = captureQueu
    BY <1>4 DEF CaptureSelect, CaptureBecomes
  <2>2. new \in CaptureState /\ new.pc = "loop" /\ new.converted = capture[t].converted
    BY <1>t DEF CaptureState, CapturePcs
  <2> HIDE DEF new
  <2>3. Balanced(t, new)
    BY <2>1, <2>2, <1>m DEF Balanced, HoldsFrame
  <2> QED
    BY <2>1, <2>2, <2>3, <1>b
<1>5. CASE CaptureLoop(t)
  <2>1. \E to \in {"wait", "surfaceEnd", "notify"} : CaptureGoes(t, "loop", to)
    BY <1>5 DEF CaptureLoop
  <2>2. mem' = mem /\ captureQueu' = captureQueu
    BY <1>5 DEF CaptureLoop
  <2> QED
    BY <2>1, <2>2, <1>g, <1>m DEF CapturePcs, HoldsFrame
<1>w. ASSUME NEW from \in {"wait", "blocked"}, TakeCaptureFrame(t, from)
      PROVE  FramesAccountedFor'
  <2>1. mem' = mem
    BY <1>w DEF TakeCaptureFrame
  <2>2. CASE mIsRunning /\ captureQueu
    <3>1. \E to \in {"surfaceDraw", "callback"} : CaptureGoes(t, from, to)
      BY <1>w, <2>2 DEF TakeCaptureFrame
    <3>2. captureQueu' = FALSE /\ captureQueu = TRUE
      BY <1>w, <2>2, <1>m DEF TakeCaptureFrame
    <3> QED
      BY <3>1, <3>2, <2>1, <1>g, <1>m DEF CapturePcs, HoldsFrame, Count
  <2>3. CASE ~(mIsRunning /\ captureQueu)
    <3>1. CaptureGoes(t, from, "loop")
      BY <1>w, <2>3 DEF TakeCaptureFrame
    <3>2. captureQueu' = captureQueu
      BY <1>w, <2>3, <1>m DEF TakeCaptureFrame
    <3> QED
      BY <3>1, <3>2, <2>1, <1>g, <1>m DEF CapturePcs, HoldsFrame
  <2> QED
    BY <2>2, <2>3
<1>6. CASE WaitCaptureFrame(t)
  <2>1. CASE captureQueu
    BY <1>6, <2>1, <1>w DEF WaitCaptureFrame
  <2>2. CASE ~captureQueu
    <3>1. CaptureGoes(t, "wait", "blocked") /\ mem' = mem /\ captureQueu' = captureQueu
      BY <1>6, <2>2 DEF WaitCaptureFrame
    <3> QED
      BY <3>1, <1>g, <1>m DEF CapturePcs, HoldsFrame
  <2> QED
    BY <2>1, <2>2
<1>7. CASE WaitCaptureFrameResume(t)
  BY <1>7, <1>w DEF WaitCaptureFrameResume
<1>8. CASE CaptureTimeout(t)
  <2>1. CaptureGoes(t, "blocked", "blocked") /\ mem' = mem /\ captureQueu' = captureQueu
    BY <1>8 DEF CaptureTimeout
  <2> QED
    BY <2>1, <1>g, <1>m DEF CapturePcs, HoldsFrame
<1>9. CASE CaptureSurfaceDraw(t)
  <2> DEFINE first == mIsCapturing /\ ~capture[t].converted
             new == [capture[t] EXCEPT !.pc = "callback", !.converted = @ \/ first]
  <2>1. CaptureBecomes(t, "surfaceDraw", new) /\ capture[t].pc = "surfaceDraw"
        /\ captureQueu' = captureQueu /\ mem' = IF first THEN GetFrame(mem) ELSE mem
    BY <1>9 DEF CaptureSurfaceDraw, CaptureBecomes
  <2>2. new \in CaptureState
    BY <1>t DEF CaptureState, CapturePcs
  <2>3. new.pc = "callback" /\ new.converted = (capture[t].converted \/ first)
    BY <1>t DEF CaptureState
  <2>4. Outside(mem') = Outside(mem) + Count(first)
    BY <2>1, <1>m, GetFrameOutside DEF Count
  <2>5. Balanced(t, new)
    <3>1. CASE first
      <4>1. Outside(mem') = Outside(mem) + 1 /\ new.converted /\ ~capture[t].converted
        BY <2>3, <2>4, <3>1, <1>m DEF Count
      <4> QED
        BY <2>1, <2>3, <4>1, <1>m DEF Balanced, HoldsFrame, Count
    <3>2. CASE ~first
      BY <2>1, <2>3, <2>4, <3>2, <1>m, <1>t DEF Balanced, HoldsFrame, Count
    <3> QED
      BY <3>1, <3>2
  <2> HIDE DEF new
  <2> QED
    BY <2>1, <2>2, <2>5, <1>b
<1>10. CASE CaptureConvert(t)
  <2>1. captureQueu' = captureQueu
    BY <1>10 DEF CaptureConvert
  <2>2. GetFrame(mem) \in Memory /\ Outside(GetFrame(mem)) = Outside(mem) + 1
    BY <1>m, GetFrameOutside
  <2>3. /\ Recycle(GetFrame(mem), 1) \in Memory
        /\ Outside(Recycle(GetFrame(mem), 1)) = Outside(mem)
    BY <1>m, <2>2, RecycleOutside
  <2>4. /\ Outside(Recycle(mem, 1)) = Outside(mem) - 1
        /\ Outside(Recycle(Recycle(GetFrame(mem), 1), 1)) = Outside(mem) - 1
    BY <1>m, <2>3, RecycleOutside
  <2>5. CASE CaptureGoes(t, "callback", "loop") /\ mem' = Recycle(mem, 1)
    BY <2>1, <2>4, <2>5, <1>g, <1>m DEF CapturePcs, HoldsFrame, Count
  <2>6. CASE CaptureGoes(t, "callback", "invoke") /\ mem' \in {mem, Recycle(GetFrame(mem), 1)}
    BY <2>1, <2>3, <2>6, <1>g, <1>m DEF CapturePcs, HoldsFrame
  <2>7. CASE CaptureGoes(t, "callback", "loop") /\ mem' = Recycle(Recycle(GetFrame(mem), 1), 1)
    BY <2>1, <2>4, <2>7, <1>g, <1>m DEF CapturePcs, HoldsFrame, Count
  <2> QED
    BY <1>10, <2>5, <2>6, <2>7 DEF CaptureConvert
<1>11. CASE CaptureInvoke(t)
  <2>1. captureQueu' = captureQueu
    BY <1>11 DEF CaptureInvoke
  <2>2. CASE CaptureGoes(t, "invoke", "loop") /\ mem' = Recycle(mem, 1)
    <3>1. Outside(mem') = Outside(mem) - 1
      BY <2>2, <1>m, RecycleOutside
    <3> QED
      BY <2>1, <2>2, <3>1, <1>g, <1>m DEF CapturePcs, HoldsFrame, Count
  <2>3. CASE CaptureGoes(t, "invoke", "call") /\ mem' = mem
    BY <2>1, <2>3, <1>g, <1>m DEF CapturePcs, HoldsFrame
  <2> QED
    BY <1>11, <2>2, <2>3 DEF CaptureInvoke
<1>12. CASE CaptureCall(t)
  <2> DEFINE new == [capture[t] EXCEPT !.pc = "inCall", !.callee = mFrameCallbackObj]
  <2>1. CaptureBecomes(t, "call", new) /\ capture[t].pc = "call"
        /\ mem' = mem /\ captureQueu' = captureQueu
    BY <1>12 DEF CaptureCall, CaptureBecomes
  <2>2. new \in CaptureState
    BY <1>t DEF TypeOK, CaptureState, CapturePcs
  <2>3. new.pc = "inCall" /\ new.converted = capture[t].converted
    BY <1>t DEF CaptureState
  <2>4. Balanced(t, new)
    BY <2>1, <2>3, <1>m DEF Balanced, HoldsFrame
  <2> HIDE DEF new
  <2> QED
    BY <2>1, <2>2, <2>4, <1>b
<1>13. CASE CaptureReturn(t)
  <2> DEFINE new == [capture[t] EXCEPT !.pc = "loop", !.callee = NULL]
  <2>1. CaptureBecomes(t, "inCall", new) /\ capture[t].pc = "inCall"
        /\ mem' = Recycle(mem, 1) /\ captureQueu' = captureQueu
    BY <1>13 DEF CaptureReturn, CaptureBecomes
  <2>2. new \in CaptureState
    BY <1>t DEF CaptureState, CapturePcs
  <2>3. new.pc = "loop" /\ new.converted = capture[t].converted
    BY <1>t DEF CaptureState
  <2>4. Outside(mem') = Outside(mem) - 1
    BY <2>1, <1>m, RecycleOutside
  <2>5. Balanced(t, new)
    BY <2>1, <2>3, <2>4, <1>m DEF Balanced, HoldsFrame, Count
  <2> HIDE DEF new
  <2> QED
    BY <2>1, <2>2, <2>5, <1>b
<1>14. CASE CaptureSurfaceEnd(t)
  <2> DEFINE new == [capture[t] EXCEPT !.pc = "notify", !.converted = FALSE]
  <2>1. CaptureBecomes(t, "surfaceEnd", new) /\ capture[t].pc = "surfaceEnd"
        /\ mem' = Recycle(mem, Count(capture[t].converted)) /\ captureQueu' = captureQueu
    BY <1>14 DEF CaptureSurfaceEnd, CaptureBecomes
  <2>2. new \in CaptureState
    BY <1>t DEF CaptureState, CapturePcs
  <2>3. new.pc = "notify" /\ new.converted = FALSE
    BY <1>t DEF CaptureState
  <2>4. Outside(mem') = Outside(mem) - Count(capture[t].converted)
    BY <2>1, <1>m, <1>t, RecycleOutside, CountNat
  <2>5. Balanced(t, new)
    BY <2>1, <2>3, <2>4, <1>m, <1>t DEF Balanced, HoldsFrame, Count
  <2> HIDE DEF new
  <2> QED
    BY <2>1, <2>2, <2>5, <1>b
<1>15. CASE CaptureNotify(t)
  <2>1. CaptureGoes(t, "notify", "running") /\ mem' = mem /\ captureQueu' = captureQueu
    BY <1>15 DEF CaptureNotify
  <2> QED
    BY <2>1, <1>g, <1>m DEF CapturePcs, HoldsFrame
<1> QED
  BY <1>1, <1>2, <1>3, <1>4, <1>5, <1>6, <1>7, <1>8, <1>9, <1>10, <1>11, <1>12, <1>13, <1>14, <1>15 DEF CaptureStep

LEMMA NextFrames ==
  ASSUME TypeOK, TypeOK', Lifecycle, ConvertedIsDrawing, FramesAccountedFor, [Next]_vars
  PROVE  FramesAccountedFor'
<1>1. CASE UNCHANGED vars
  BY <1>1 DEF vars, frames, FramesAccountedFor, FrameHolders, ConvertedHolders
<1>2. CASE CreateCapture
  BY <1>2, FramesOfCreate
<1>3. ASSUME NEW t \in CaptureThreads, CaptureStep(t)
      PROVE  FramesAccountedFor'
  BY <1>3, FramesOfCapture
<1>4. CASE \/ AppCall \/ AppStep \/ AppSpuriousWakeup
           \/ FrameArrives \/ StreamStep
           \/ PreviewStep /\ ~CreateCapture
           \/ PreviewSpuriousWakeup
  BY <1>4, CaptureUntouched, FramesOfOthers
<1> QED
  BY <1>1, <1>2, <1>3, <1>4 DEF Next

LEMMA InitFrames == Init => FramesAccountedFor /\ ConvertedIsDrawing
<1> SUFFICES ASSUME Init PROVE FramesAccountedFor /\ ConvertedIsDrawing
  OBVIOUS
<1>1. FrameHolders = {} /\ ConvertedHolders = {}
  BY DEF Init, FrameHolders, ConvertedHolders, Dead, HoldsFrame
<1>2. Cardinality(FrameHolders) = 0 /\ Cardinality(ConvertedHolders) = 0
  BY <1>1, FS_EmptySet
<1>3. FramesAccountedFor
  BY <1>2 DEF Init, FramesAccountedFor, Count
<1>4. ConvertedIsDrawing
  BY DEF Init, ConvertedIsDrawing, Dead
<1> QED
  BY <1>3, <1>4

\* No frame is lost and none is recycled twice, whatever number of capture
\* threads an unfinished stop has left behind, however the pool and the queue
\* overflow, and whichever of the decoders and converters fails.
THEOREM FramesAreAccountedFor == Spec => []FramesAccountedFor
<1> QED
  BY InitFrames, NextFrames, NextConverted, TypeCorrect, LifecycleHolds, PTL DEF Spec

-----------------------------------------------------------------------------
(* What a stop waits for.                                                   *)

\* How far a capture thread is from its end once mIsRunning is false. Of the
\* frames still queued it takes none, and from its timed wait it goes back to
\* the test of its loop.
CaptureRestAt(pc) ==
  CASE pc = "surfaceDraw" -> 9
    [] pc = "callback" -> 8
    [] pc \in {"invoke", "wait"} -> 7
    [] pc \in {"call", "setCapturing"} -> 6
    [] pc \in {"inCall", "select"} -> 5
    [] pc = "blocked" -> 5
    [] pc = "loop" -> 4
    [] pc = "surfaceEnd" -> 3
    [] pc \in {"notify", "clear"} -> 2
    [] pc = "running" -> 1
    [] OTHER -> 0

CaptureRest(t) ==
  CaptureRestAt(capture[t].pc) + IF t \in captureWaiters THEN 1 ELSE 0

\* The same for the preview thread.
PreviewRest ==
  CASE preview = "prepare" -> 8
    [] preview = "start" -> 7
    [] preview \in {"clear", "decode"} -> 6
    [] preview \in {"create", "draw", "wait"} -> 5
    [] preview \in {"created", "addCapture", "blocked"} -> 4
    [] preview = "check" -> 3
    [] preview = "endSignal" -> 2
    [] preview = "stopStream" -> 1
    [] OTHER -> 0

LEMMA CaptureRests ==
  /\ CaptureRestAt("surfaceDraw") = 9 /\ CaptureRestAt("callback") = 8
  /\ CaptureRestAt("invoke") = 7 /\ CaptureRestAt("wait") = 7
  /\ CaptureRestAt("call") = 6 /\ CaptureRestAt("setCapturing") = 6
  /\ CaptureRestAt("inCall") = 5 /\ CaptureRestAt("select") = 5
  /\ CaptureRestAt("blocked") = 5 /\ CaptureRestAt("loop") = 4
  /\ CaptureRestAt("surfaceEnd") = 3 /\ CaptureRestAt("notify") = 2
  /\ CaptureRestAt("clear") = 2 /\ CaptureRestAt("running") = 1
  /\ CaptureRestAt("dead") = 0
BY DEF CaptureRestAt

LEMMA CaptureRestType == ASSUME NEW pc PROVE CaptureRestAt(pc) \in Nat
BY DEF CaptureRestAt

\* A thread that somebody wakes is no further from its end.
LEMMA UntouchedRests ==
  ASSUME NEW u \in CaptureThreads, capture'[u] = capture[u],
         u \in captureWaiters' => u \in captureWaiters
  PROVE  CaptureRest(u)' <= CaptureRest(u)
BY CaptureRestType DEF CaptureRest

\* A step of a capture thread moves that thread alone.
LEMMA CaptureMoves ==
  ASSUME TypeOK, NEW t \in CaptureThreads, NEW from, NEW new, CaptureBecomes(t, from, new)
  PROVE  /\ capture[t].pc = from /\ capture'[t] = new
         /\ \A u \in CaptureThreads \ {t} : capture'[u] = capture[u]
BY DEF CaptureBecomes, TypeOK, CaptureStates

LEMMA CaptureGoesTo ==
  ASSUME TypeOK, NEW t \in CaptureThreads, NEW from, NEW to, CaptureGoes(t, from, to)
  PROVE  /\ capture[t].pc = from /\ capture'[t].pc = to
         /\ \A u \in CaptureThreads \ {t} : capture'[u] = capture[u]
<1>1. capture[t] \in CaptureState
  BY DEF TypeOK, CaptureStates
<1> DEFINE new == [capture[t] EXCEPT !.pc = to]
<1>2. new.pc = to
  BY <1>1 DEF CaptureState
<1>3. CaptureBecomes(t, from, new)
  BY DEF CaptureGoes
<1> HIDE DEF new
<1> QED
  BY <1>2, <1>3, CaptureMoves

\* Once mIsRunning is false a capture thread comes nearer its end with every step.
LEMMA CaptureRunsDown ==
  ASSUME TypeOK, ~mIsRunning, NEW t \in CaptureThreads, CaptureStep(t)
  PROVE  /\ CaptureRest(t)' < CaptureRest(t)
         /\ \A u \in CaptureThreads \ {t} : capture'[u] = capture[u]
         /\ captureWaiters' \subseteq captureWaiters \cup {t}
         /\ UNCHANGED preview
<1> DEFINE now == IF t \in captureWaiters THEN 1 ELSE 0
           then == IF t \in captureWaiters' THEN 1 ELSE 0
<1>t. now \in 0..1 /\ then \in 0..1 /\ (captureWaiters' \subseteq captureWaiters => then <= now)
  OBVIOUS
<1>r. /\ CaptureRest(t) = CaptureRestAt(capture[t].pc) + now
      /\ CaptureRest(t)' = CaptureRestAt(capture'[t].pc) + then
  BY DEF CaptureRest
<1> HIDE DEF now, then
<1>1. CASE CaptureClear(t)
  <2>1. CaptureGoes(t, "clear", "running")
    BY <1>1 DEF CaptureClear
  <2>2. /\ capture[t].pc = "clear" /\ capture'[t].pc = "running"
        /\ \A u \in CaptureThreads \ {t} : capture'[u] = capture[u]
    BY <2>1, CaptureGoesTo
  <2> QED
    BY <1>1, <1>t, <1>r, <2>1, <2>2, CaptureRests DEF CaptureClear, CaptureGoes, CaptureBecomes
<1>2. CASE CaptureRunning(t)
  <2>1. CaptureBecomes(t, "running", Dead)
    BY <1>2 DEF CaptureRunning
  <2>2. capture[t].pc = "running" /\ capture'[t].pc = "dead"
    BY <2>1, CaptureMoves DEF Dead
  <2> QED
    BY <1>2, <1>t, <1>r, <2>1, <2>2, CaptureMoves, CaptureRests DEF CaptureRunning, CaptureBecomes
<1>3. CASE CaptureSetCapturing(t)
  <2>1. CaptureGoes(t, "setCapturing", "select")
    BY <1>3 DEF CaptureSetCapturing
  <2>2. /\ capture[t].pc = "setCapturing" /\ capture'[t].pc = "select"
        /\ \A u \in CaptureThreads \ {t} : capture'[u] = capture[u]
    BY <2>1, CaptureGoesTo
  <2> QED
    BY <1>3, <1>t, <1>r, <2>1, <2>2, CaptureRests DEF CaptureSetCapturing, CaptureGoes, CaptureBecomes
<1>4. CASE CaptureSelect(t)
  <2>0. capture[t] \in CaptureState
    BY DEF TypeOK, CaptureStates
  <2> DEFINE new == [capture[t] EXCEPT !.pc = "loop", !.surface = (mCaptureWindow # NULL)]
  <2>1. CaptureBecomes(t, "select", new) /\ new.pc = "loop"
    BY <1>4, <2>0 DEF CaptureSelect, CaptureState
  <2> HIDE DEF new
  <2>2. capture[t].pc = "select" /\ capture'[t].pc = "loop"
    BY <2>1, CaptureMoves
  <2> QED
    BY <1>4, <1>t, <1>r, <2>1, <2>2, CaptureMoves, CaptureRests DEF CaptureSelect, CaptureBecomes
<1>5. CASE CaptureLoop(t)
  <2>1. CaptureGoes(t, "loop", "surfaceEnd") \/ CaptureGoes(t, "loop", "notify")
    BY <1>5 DEF CaptureLoop
  <2>2. /\ capture[t].pc = "loop" /\ capture'[t].pc \in {"surfaceEnd", "notify"}
        /\ \A u \in CaptureThreads \ {t} : capture'[u] = capture[u]
    BY <2>1, CaptureGoesTo
  <2> QED
    BY <1>5, <1>t, <1>r, <2>1, <2>2, CaptureRests DEF CaptureLoop, CaptureGoes, CaptureBecomes
<1>6. CASE WaitCaptureFrame(t)
  <2>1. CASE captureQueu
    <3>1. CaptureGoes(t, "wait", "loop") /\ UNCHANGED captureWaiters
      BY <1>6, <2>1 DEF WaitCaptureFrame, TakeCaptureFrame
    <3>3. /\ capture[t].pc = "wait" /\ capture'[t].pc = "loop"
          /\ \A u \in CaptureThreads \ {t} : capture'[u] = capture[u]
      BY <3>1, CaptureGoesTo
    <3> QED
      BY <3>1, <3>3, <1>t, <1>r, CaptureRests DEF CaptureGoes, CaptureBecomes
  <2>2. CASE ~captureQueu
    <3>1. CaptureGoes(t, "wait", "blocked") /\ captureWaiters' = captureWaiters \cup {t}
      BY <1>6, <2>2 DEF WaitCaptureFrame
    <3>2. then = 1
      BY <3>1 DEF then
    <3>3. /\ capture[t].pc = "wait" /\ capture'[t].pc = "blocked"
          /\ \A u \in CaptureThreads \ {t} : capture'[u] = capture[u]
      BY <3>1, CaptureGoesTo
    <3> QED
      BY <3>1, <3>2, <3>3, <1>t, <1>r, CaptureRests DEF CaptureGoes, CaptureBecomes
  <2> QED
    BY <2>1, <2>2 DEF TypeOK
<1>7. CASE WaitCaptureFrameResume(t)
  <2>1. CaptureGoes(t, "blocked", "loop") /\ UNCHANGED captureWaiters /\ now = 0
    BY <1>7 DEF WaitCaptureFrameResume, TakeCaptureFrame, now
  <2>2. /\ capture[t].pc = "blocked" /\ capture'[t].pc = "loop"
        /\ \A u \in CaptureThreads \ {t} : capture'[u] = capture[u]
    BY <2>1, CaptureGoesTo
  <2> QED
    BY <2>1, <2>2, <1>t, <1>r, CaptureRests DEF CaptureGoes, CaptureBecomes
<1>8. CASE CaptureTimeout(t)
  <2>1. /\ CaptureGoes(t, "blocked", "blocked") /\ captureWaiters' = captureWaiters \ {t}
        /\ now = 1 /\ then = 0
    BY <1>8 DEF CaptureTimeout, now, then
  <2>2. /\ capture[t].pc = "blocked" /\ capture'[t].pc = "blocked"
        /\ \A u \in CaptureThreads \ {t} : capture'[u] = capture[u]
    BY <2>1, CaptureGoesTo
  <2> QED
    BY <2>1, <2>2, <1>t, <1>r, CaptureRests DEF CaptureGoes, CaptureBecomes
<1>9. CASE CaptureSurfaceDraw(t)
  <2>0. capture[t] \in CaptureState
    BY DEF TypeOK, CaptureStates
  <2> DEFINE first == mIsCapturing /\ ~capture[t].converted
             new == [capture[t] EXCEPT !.pc = "callback", !.converted = @ \/ first]
  <2>1. CaptureBecomes(t, "surfaceDraw", new) /\ new.pc = "callback"
    BY <1>9, <2>0 DEF CaptureSurfaceDraw, CaptureState
  <2> HIDE DEF new
  <2>2. capture[t].pc = "surfaceDraw" /\ capture'[t].pc = "callback"
    BY <2>1, CaptureMoves
  <2> QED
    BY <1>9, <1>t, <1>r, <2>1, <2>2, CaptureMoves, CaptureRests DEF CaptureSurfaceDraw, CaptureBecomes
<1>10. CASE CaptureConvert(t)
  <2>1. CaptureGoes(t, "callback", "loop") \/ CaptureGoes(t, "callback", "invoke")
    BY <1>10 DEF CaptureConvert
  <2>2. /\ capture[t].pc = "callback" /\ capture'[t].pc \in {"loop", "invoke"}
        /\ \A u \in CaptureThreads \ {t} : capture'[u] = capture[u]
    BY <2>1, CaptureGoesTo
  <2> QED
    BY <1>10, <1>t, <1>r, <2>1, <2>2, CaptureRests DEF CaptureConvert, CaptureGoes, CaptureBecomes
<1>11. CASE CaptureInvoke(t)
  <2>1. CaptureGoes(t, "invoke", "loop") \/ CaptureGoes(t, "invoke", "call")
    BY <1>11 DEF CaptureInvoke
  <2>2. /\ capture[t].pc = "invoke" /\ capture'[t].pc \in {"loop", "call"}
        /\ \A u \in CaptureThreads \ {t} : capture'[u] = capture[u]
    BY <2>1, CaptureGoesTo
  <2> QED
    BY <1>11, <1>t, <1>r, <2>1, <2>2, CaptureRests DEF CaptureInvoke, CaptureGoes, CaptureBecomes
<1>12. CASE CaptureCall(t)
  <2>0. capture[t] \in CaptureState
    BY DEF TypeOK, CaptureStates
  <2> DEFINE new == [capture[t] EXCEPT !.pc = "inCall", !.callee = mFrameCallbackObj]
  <2>1. CaptureBecomes(t, "call", new) /\ new.pc = "inCall"
    BY <1>12, <2>0 DEF CaptureCall, CaptureState
  <2> HIDE DEF new
  <2>2. capture[t].pc = "call" /\ capture'[t].pc = "inCall"
    BY <2>1, CaptureMoves
  <2> QED
    BY <1>12, <1>t, <1>r, <2>1, <2>2, CaptureMoves, CaptureRests DEF CaptureCall, CaptureBecomes
<1>13. CASE CaptureReturn(t)
  <2>0. capture[t] \in CaptureState
    BY DEF TypeOK, CaptureStates
  <2> DEFINE new == [capture[t] EXCEPT !.pc = "loop", !.callee = NULL]
  <2>1. CaptureBecomes(t, "inCall", new) /\ new.pc = "loop"
    BY <1>13, <2>0 DEF CaptureReturn, CaptureState
  <2> HIDE DEF new
  <2>2. capture[t].pc = "inCall" /\ capture'[t].pc = "loop"
    BY <2>1, CaptureMoves
  <2> QED
    BY <1>13, <1>t, <1>r, <2>1, <2>2, CaptureMoves, CaptureRests DEF CaptureReturn, CaptureBecomes
<1>14. CASE CaptureSurfaceEnd(t)
  <2>0. capture[t] \in CaptureState
    BY DEF TypeOK, CaptureStates
  <2> DEFINE new == [capture[t] EXCEPT !.pc = "notify", !.converted = FALSE]
  <2>1. CaptureBecomes(t, "surfaceEnd", new) /\ new.pc = "notify"
    BY <1>14, <2>0 DEF CaptureSurfaceEnd, CaptureState
  <2> HIDE DEF new
  <2>2. capture[t].pc = "surfaceEnd" /\ capture'[t].pc = "notify"
    BY <2>1, CaptureMoves
  <2> QED
    BY <1>14, <1>t, <1>r, <2>1, <2>2, CaptureMoves, CaptureRests DEF CaptureSurfaceEnd, CaptureBecomes
<1>15. CASE CaptureNotify(t)
  <2>1. CaptureGoes(t, "notify", "running")
    BY <1>15 DEF CaptureNotify
  <2>2. /\ capture[t].pc = "notify" /\ capture'[t].pc = "running"
        /\ \A u \in CaptureThreads \ {t} : capture'[u] = capture[u]
    BY <2>1, CaptureGoesTo
  <2> QED
    BY <1>15, <1>t, <1>r, <2>1, <2>2, CaptureRests DEF CaptureNotify, CaptureGoes, CaptureBecomes
<1> QED
  BY <1>1, <1>2, <1>3, <1>4, <1>5, <1>6, <1>7, <1>8, <1>9, <1>10, <1>11, <1>12, <1>13, <1>14, <1>15 DEF CaptureStep

LEMMA PreviewRests ==
  ASSUME PreviewGoes("prepare", "start") \/ PreviewGoes("prepare", "dead")
         \/ PreviewGoes("clear", "create") \/ PreviewGoes("created", "check")
         \/ PreviewGoes("check", "endSignal") \/ PreviewGoes("wait", "blocked")
         \/ PreviewGoes("wait", "check") \/ PreviewGoes("blocked", "check")
         \/ PreviewGoes("decode", "draw") \/ PreviewGoes("decode", "check")
         \/ PreviewGoes("draw", "addCapture") \/ PreviewGoes("addCapture", "check")
         \/ PreviewGoes("endSignal", "stopStream")
  PROVE  PreviewRest' < PreviewRest
BY DEF PreviewGoes, PreviewRest

\* Once mIsRunning is false the preview thread comes nearer its end with every step.
LEMMA PreviewRunsDown ==
  ASSUME ~mIsRunning, PreviewStep
  PROVE  PreviewRest' < PreviewRest
<1>1. CASE PreparePreview
  BY <1>1, PreviewRests DEF PreparePreview
<1>2. CASE StartStreaming
  BY <1>2 DEF StartStreaming, PreviewRest
<1>3. CASE ClearPreviewFrame
  BY <1>3, PreviewRests DEF ClearPreviewFrame
<1>4. CASE CreateCapture
  BY <1>4 DEF CreateCapture, PreviewRest
<1>5. CASE SetHasCapturing
  BY <1>5, PreviewRests DEF SetHasCapturing
<1>6. CASE PreviewCheck
  BY <1>6, PreviewRests DEF PreviewCheck
<1>7. CASE WaitPreviewFrame
  BY <1>7, PreviewRests DEF WaitPreviewFrame, TakePreviewFrame
<1>8. CASE WaitPreviewFrameResume
  BY <1>8, PreviewRests DEF WaitPreviewFrameResume, TakePreviewFrame
<1>9. CASE DecodeMjpeg
  BY <1>9, PreviewRests DEF DecodeMjpeg
<1>10. CASE DrawPreview
  BY <1>10, PreviewRests DEF DrawPreview
<1>11. CASE AddCaptureFrame
  BY <1>11, PreviewRests DEF AddCaptureFrame
<1>12. CASE EndSignal
  BY <1>12, PreviewRests DEF EndSignal
<1>13. CASE StopStreaming
  BY <1>13 DEF StopStreaming, PreviewRest
<1> QED
  BY <1>1, <1>2, <1>3, <1>4, <1>5, <1>6, <1>7, <1>8, <1>9, <1>10, <1>11, <1>12, <1>13 DEF PreviewStep

\* The preview thread wakes capture threads, and creates one at most.
LEMMA PreviewSparesCapture ==
  ASSUME PreviewStep, ~CreateCapture
  PROVE  UNCHANGED capture /\ captureWaiters' \subseteq captureWaiters
<1>1. CASE PreparePreview \/ StartStreaming \/ ClearPreviewFrame \/ SetHasCapturing \/ PreviewCheck
  BY <1>1 DEF PreparePreview, StartStreaming, ClearPreviewFrame, SetHasCapturing, PreviewCheck, waits
<1>2. CASE WaitPreviewFrame \/ WaitPreviewFrameResume
  BY <1>2 DEF WaitPreviewFrame, WaitPreviewFrameResume, TakePreviewFrame, waits
<1>3. CASE DecodeMjpeg \/ DrawPreview \/ StopStreaming
  BY <1>3 DEF DecodeMjpeg, DrawPreview, StopStreaming, waits
<1>4. CASE AddCaptureFrame
  BY <1>4 DEF AddCaptureFrame
<1>5. CASE EndSignal
  BY <1>5, SignalledSubset DEF EndSignal
<1> QED
  BY <1>1, <1>2, <1>3, <1>4, <1>5 DEF PreviewStep

\* The others: the application in its stop and the stream callback only wake.
LEMMA OthersSpareThreads ==
  ASSUME app \in Joining,
         \/ AppCall \/ AppStep \/ AppSpuriousWakeup
         \/ FrameArrives \/ StreamStep \/ PreviewSpuriousWakeup \/ UNCHANGED vars
  PROVE  UNCHANGED <<preview, capture>> /\ captureWaiters' \subseteq captureWaiters
<1>1. CASE AppCall
  BY <1>1 DEF AppCall, SetPreviewDisplay, StartPreview, SetFrameCallback, SetCaptureDisplay,
              StopPreview, Destroy, Joining
<1>2. CASE AppStep
  <2>1. CASE StopSignal \/ JoinCapture \/ JoinPreview
    BY <2>1 DEF StopSignal, JoinCapture, JoinPreview, waits
  <2>2. CASE StopCheckCapture
    BY <2>2, SignalledSubset DEF StopCheckCapture
  <2>3. ~(StartCreate \/ StartFail \/ SetFrameCallbackResume \/ SetCaptureDisplayResume
          \/ StopCallbackResume \/ StopFlag \/ StopClear \/ StopRelease)
    BY DEF StartCreate, StartFail, SetFrameCallbackResume, SetCaptureDisplayResume,
           StopCallbackResume, StopFlag, StopClear, StopRelease, Joining
  <2> QED
    BY <1>2, <2>1, <2>2, <2>3 DEF AppStep
<1>3. CASE AppSpuriousWakeup \/ PreviewSpuriousWakeup
  BY <1>3 DEF AppSpuriousWakeup, PreviewSpuriousWakeup
<1>4. CASE FrameArrives \/ StreamStep
  BY <1>4 DEF FrameArrives, StreamStep, DuplicateFails, AddPreviewFrame, waits
<1>5. CASE UNCHANGED vars
  BY <1>5 DEF vars, waits
<1> QED
  BY <1>1, <1>2, <1>3, <1>4, <1>5

\* While stopPreview waits for its threads (UVCPreview.cpp:363-379), every step of the
\* preview thread and of a capture thread, whatever frame, signal or timeout it meets,
\* takes that thread nearer its end, and no step of another takes either away from it,
\* but for the creation of a capture thread that the preview thread had still to come to.
StopRunsDown ==
  [][(app \in Joining) =>
       /\ PreviewStep => PreviewRest' < PreviewRest
       /\ PreviewRest' <= PreviewRest
       /\ \A t \in CaptureThreads :
            /\ CaptureStep(t) => CaptureRest(t)' < CaptureRest(t)
            /\ CaptureRest(t)' > CaptureRest(t) => preview = "create" /\ capture[t].pc = "dead"]_vars

\* So the joins of stopPreview wait for finitely many steps, whatever was queued when it
\* began; that the preview thread takes them is another matter, since its wait in
\* waitPreviewFrame has no timeout (UVCPreview.cpp, lines 373 and 377).
THEOREM StoppedThreadsRunDown == Spec => StopRunsDown
<1> DEFINE Falls(t) == CaptureRest(t)' <= CaptureRest(t)
           Down == /\ PreviewStep => PreviewRest' < PreviewRest
                   /\ PreviewRest' <= PreviewRest
                   /\ \A t \in CaptureThreads :
                        /\ CaptureStep(t) => CaptureRest(t)' < CaptureRest(t)
                        /\ CaptureRest(t)' > CaptureRest(t) => preview = "create" /\ capture[t].pc = "dead"
<1>1. ASSUME TypeOK, Lifecycle, [Next]_vars, app \in Joining
      PROVE  Down
  <2>1. ~mIsRunning
    BY <1>1 DEF Lifecycle, StopsStopped
  <2>2. /\ PreviewRest \in Nat
        /\ \A t \in CaptureThreads : CaptureRest(t) \in Nat /\ CaptureRest(t)' \in Nat
    BY CaptureRestType DEF PreviewRest, CaptureRest
  <2>3. /\ PreviewStep => PreviewRest' < PreviewRest
        /\ \A t \in CaptureThreads : CaptureStep(t) => CaptureRest(t)' < CaptureRest(t)
    BY <1>1, <2>1, PreviewRunsDown, CaptureRunsDown
  <2>4. PreviewRest' \in Nat /\ (UNCHANGED preview => PreviewRest' = PreviewRest)
    BY DEF PreviewRest
  <2>5. ASSUME UNCHANGED capture, captureWaiters' \subseteq captureWaiters
        PROVE  \A t \in CaptureThreads : Falls(t)
    BY <2>5, UntouchedRests
  <2>6. CASE \/ AppCall \/ AppStep \/ AppSpuriousWakeup
             \/ FrameArrives \/ StreamStep \/ PreviewSpuriousWakeup \/ UNCHANGED vars
    <3>1. UNCHANGED preview /\ \A t \in CaptureThreads : Falls(t)
      BY <1>1, <2>5, <2>6, OthersSpareThreads
    <3> QED
      BY <2>2, <2>3, <2>4, <3>1
  <2>7. CASE PreviewStep /\ ~CreateCapture
    <3>1. \A t \in CaptureThreads : Falls(t)
      BY <2>5, <2>7, PreviewSparesCapture
    <3> QED
      BY <2>2, <2>3, <2>4, <2>7, <3>1
  <2>8. CASE CreateCapture
    <3>1. PreviewStep /\ preview = "create"
      BY <2>8 DEF CreateCapture, PreviewStep
    <3>2. ASSUME NEW t \in CaptureThreads, capture[t].pc # "dead"
          PROVE  Falls(t)
      <4>1. capture'[t] = capture[t] /\ UNCHANGED captureWaiters
        BY <1>1, <2>8, <3>2 DEF CreateCapture, waits, TypeOK, CaptureStates
      <4> QED
        BY <4>1, UntouchedRests
    <3> QED
      BY <2>2, <2>3, <2>4, <3>1, <3>2
  <2>9. ASSUME NEW t \in CaptureThreads, CaptureStep(t)
        PROVE  Down
    <3>1. /\ CaptureRest(t)' < CaptureRest(t) /\ UNCHANGED preview
          /\ \A u \in CaptureThreads \ {t} : capture'[u] = capture[u]
          /\ captureWaiters' \subseteq captureWaiters \cup {t}
      BY <1>1, <2>1, <2>9, CaptureRunsDown
    <3>2. \A u \in CaptureThreads \ {t} : Falls(u)
      BY <3>1, UntouchedRests
    <3>3. \A u \in CaptureThreads : Falls(u)
      BY <2>2, <3>1, <3>2
    <3> QED
      BY <2>2, <2>3, <2>4, <3>1, <3>3
  <2> QED
    BY <1>1, <2>6, <2>7, <2>8, <2>9 DEF Next
<1>2. TypeOK /\ Lifecycle /\ [Next]_vars => [(app \in Joining) => Down]_vars
  BY <1>1
<1> QED
  BY <1>2, TypeCorrect, LifecycleHolds, PTL DEF Spec, StopRunsDown

-----------------------------------------------------------------------------
(* A full queue is served: FullQueueDrains without the fairness.            *)

\* The preview thread is between the start and the end of the stream's service.
Serving == {"clear", "create", "created", "check", "wait", "blocked", "decode",
            "draw", "addCapture"}

\* How many steps of its own the preview thread is from taking a frame of a full queue.
DrainRest ==
  CASE preview = "clear" -> 7
    [] preview \in {"create", "decode"} -> 6
    [] preview \in {"created", "draw"} -> 5
    [] preview = "addCapture" -> 4
    [] preview = "check" -> 3
    [] preview = "wait" -> 2
    [] OTHER -> 1

\* Frames are queued only while a preview thread serves the queue, and it ends only once
\* the flag is cleared.
QueueIsServed ==
  /\ mIsRunning /\ previewFrames > 0 => preview \in Serving
  /\ preview \in {"endSignal", "stopStream"} => ~mIsRunning

LEMMA AppServes ==
  ASSUME TypeOK, Lifecycle, QueueIsServed, AppCall \/ AppStep \/ AppSpuriousWakeup
  PROVE  /\ QueueIsServed'
         /\ mIsRunning /\ previewFrames > 0 => UNCHANGED <<preview, previewFrames>>
<1> USE DEF Lifecycle, NotYetCreated, StopsStopped, StoppedIsJoined, QueuesCleared, QueueIsServed,
            Serving, Joining, flags, frames, AskCapturing
<1>1. CASE SetPreviewDisplay \/ SetFrameCallback \/ SetCaptureDisplay
  BY <1>1 DEF SetPreviewDisplay, SetFrameCallback, SetCaptureDisplay
<1>2. CASE StartPreview
  BY <1>2 DEF StartPreview
<1>3. CASE StopPreview
  BY <1>3 DEF StopPreview
<1>4. CASE Destroy
  BY <1>4 DEF Destroy
<1>5. CASE StartCreate
  BY <1>5 DEF StartCreate
<1>6. CASE StartFail
  BY <1>6 DEF StartFail
<1>7. CASE SetFrameCallbackResume \/ SetCaptureDisplayResume \/ StopCallbackResume
  BY <1>7 DEF SetFrameCallbackResume, SetCaptureDisplayResume, StopCallbackResume
<1>8. CASE StopFlag
  BY <1>8 DEF StopFlag
<1>9. CASE StopSignal \/ StopCheckCapture \/ JoinCapture \/ JoinPreview
  BY <1>9 DEF StopSignal, StopCheckCapture, JoinCapture, JoinPreview
<1>10. CASE StopClear
  BY <1>10 DEF StopClear
<1>11. CASE StopRelease
  BY <1>11 DEF StopRelease
<1>12. CASE AppSpuriousWakeup
  BY <1>12 DEF AppSpuriousWakeup
<1> QED
  BY <1>1, <1>2, <1>3, <1>4, <1>5, <1>6, <1>7, <1>8, <1>9, <1>10, <1>11, <1>12 DEF AppCall, AppStep

\* With frames in the queue the preview thread takes one or gets on to it; the clearing
\* before its loop empties the queue.
LEMMA PreviewServes ==
  ASSUME TypeOK, Lifecycle, QueueIsServed, PreviewStep
  PROVE  /\ QueueIsServed'
         /\ mIsRunning /\ previewFrames > 0 => previewFrames' < previewFrames \/ DrainRest' < DrainRest
         /\ previewFrames' <= previewFrames
<1> USE DEF QueueIsServed, Serving, flags, frames, PreviewGoes
<1>t. /\ previewFrames \in Nat /\ mIsRunning \in BOOLEAN
      /\ preview \in {"prepare", "start"} /\ mIsRunning => ~(previewFrames > 0)
  BY PreviewConstants DEF TypeOK
<1>1. CASE PreparePreview
  BY <1>1, <1>t DEF PreparePreview
<1>2. CASE StartStreaming
  BY <1>2, <1>t DEF StartStreaming
<1>3. CASE ClearPreviewFrame
  BY <1>3, <1>t DEF ClearPreviewFrame
<1>4. CASE CreateCapture
  BY <1>4, <1>t DEF CreateCapture, DrainRest
<1>5. CASE SetHasCapturing
  BY <1>5, <1>t DEF SetHasCapturing, DrainRest
<1>6. CASE PreviewCheck
  BY <1>6, <1>t DEF PreviewCheck, DrainRest
<1>7. CASE WaitPreviewFrame \/ WaitPreviewFrameResume
  BY <1>7, <1>t DEF WaitPreviewFrame, WaitPreviewFrameResume, TakePreviewFrame, Count
<1>9. CASE DecodeMjpeg
  BY <1>9, <1>t DEF DecodeMjpeg, DrainRest
<1>10. CASE DrawPreview
  BY <1>10, <1>t DEF DrawPreview, DrainRest
<1>11. CASE AddCaptureFrame
  BY <1>11, <1>t DEF AddCaptureFrame, DrainRest
<1>12. CASE EndSignal
  BY <1>12, <1>t DEF EndSignal
<1>13. CASE StopStreaming
  BY <1>13, <1>t DEF StopStreaming
<1> QED
  BY <1>1, <1>2, <1>3, <1>4, <1>5, <1>6, <1>7, <1>9, <1>10, <1>11, <1>12, <1>13 DEF PreviewStep

LEMMA NextServes ==
  ASSUME TypeOK, Lifecycle, QueueIsServed, [Next]_vars
  PROVE  /\ QueueIsServed'
         /\ mIsRunning /\ previewFrames > 0 =>
              \/ previewFrames' < previewFrames
              \/ UNCHANGED preview /\ ~PreviewStep
              \/ DrainRest' < DrainRest
<1>1. CASE PreviewStep
  BY <1>1, PreviewServes
<1>2. CASE (AppCall \/ AppStep \/ AppSpuriousWakeup) /\ ~PreviewStep
  BY <1>2, AppServes
<1>3. CASE (FrameArrives \/ StreamStep \/ PreviewSpuriousWakeup \/ UNCHANGED vars) /\ ~PreviewStep
  <2>1. /\ UNCHANGED <<preview, mIsRunning>>
        /\ previewFrames' = previewFrames \/ stream = "adding"
    BY <1>3 DEF FrameArrives, StreamStep, DuplicateFails, AddPreviewFrame, PreviewSpuriousWakeup,
                vars, flags, frames
  <2>2. stream = "adding" /\ mIsRunning => preview \in Serving
    BY DEF Lifecycle, AddingIsStreaming, StreamIsOwned, QueueIsServed, Serving, TypeOK, PreviewPcs
  <2> QED
    BY <1>3, <2>1, <2>2 DEF QueueIsServed
<1>4. ASSUME NEW t \in CaptureThreads, CaptureStep(t), ~PreviewStep
      PROVE  QueueIsServed' /\ UNCHANGED preview
  BY <1>4, CaptureType DEF CaptureLeavesAlone, QueueIsServed
<1> QED
  BY <1>1, <1>2, <1>3, <1>4 DEF Next

\* While the preview runs with a full previewFrames, from which addPreviewFrame drops what
\* the camera sends, a preview thread is awake and each of its steps takes a frame or comes
\* nearer to it, and nothing puts it off (UVCPreview.cpp, lines 437-463).
FullQueueIsServed ==
  [][mIsRunning /\ previewFrames = MaxFrame =>
       /\ preview \in Serving /\ ~previewWaits
       /\ PreviewStep => previewFrames' < MaxFrame \/ DrainRest' < DrainRest
       /\ previewFrames' < MaxFrame \/ DrainRest' <= DrainRest]_vars

\* So a camera faster than the preview loses frames for a while only: from the first frame
\* that is dropped the preview thread is at most seven steps from making room again.
THEOREM FullQueueGetsRoom == Spec => FullQueueIsServed
<1>1. Init => QueueIsServed
  BY DEF Init, QueueIsServed
<1>2. TypeOK /\ Lifecycle /\ QueueIsServed /\ [Next]_vars => QueueIsServed'
  BY NextServes
<1> DEFINE Served ==
      mIsRunning /\ previewFrames = MaxFrame =>
        /\ preview \in Serving /\ ~previewWaits
        /\ PreviewStep => previewFrames' < MaxFrame \/ DrainRest' < DrainRest
        /\ previewFrames' < MaxFrame \/ DrainRest' <= DrainRest
<1>3. ASSUME TypeOK, Lifecycle, QueueIsServed, PreviewNotAsleepOnFrame, [Next]_vars,
             mIsRunning, previewFrames = MaxFrame
      PROVE  Served
  <2>1. previewFrames > 0 /\ MaxFrame \in Nat
    BY <1>3, PreviewConstants
  <2>2. preview \in Serving /\ ~previewWaits
    BY <1>3, <2>1, PreviewConstants DEF QueueIsServed, PreviewNotAsleepOnFrame
  <2>3. DrainRest \in Nat /\ (UNCHANGED preview => DrainRest' = DrainRest) /\ DrainRest' \in Nat
    BY DEF DrainRest
  <2> QED
    BY <1>3, <2>1, <2>2, <2>3, NextServes
<1>4. TypeOK /\ Lifecycle /\ QueueIsServed /\ PreviewNotAsleepOnFrame /\ [Next]_vars => [Served]_vars
  BY <1>3
<1> QED
  BY <1>1, <1>2, <1>4, TypeCorrect, LifecycleHolds, PreviewAwake, PTL DEF Spec, FullQueueIsServed

=============================================================================
