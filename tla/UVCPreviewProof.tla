--------------------------- MODULE UVCPreviewProof ---------------------------
(***************************************************************************)
(* Proofs about UVCPreview, for every set of capture threads, callbacks    *)
(* and windows and every capacity of the queue and the pool.               *)
(***************************************************************************)
EXTENDS UVCPreview, FiniteSetTheorems, TLAPS

\* The frames that are allocated and not in the pool.
Outside(m) == m.live - m.pool

-----------------------------------------------------------------------------
(* The frame pool.                                                          *)

\* get_frame hands out exactly one frame, from the pool or a new one.
LEMMA GetFrameOutside ==
  ASSUME NEW m \in Memory
  PROVE  /\ GetFrame(m) \in Memory
         /\ Outside(GetFrame(m)) = Outside(m) + 1
BY PreviewConstants, SMT DEF GetFrame, Memory, Outside

\* recycle_frame takes exactly one frame back each time, into the pool or freed.
LEMMA RecycleOutside ==
  ASSUME NEW m \in Memory, NEW n \in Nat
  PROVE  /\ Recycle(m, n) \in Memory
         /\ Outside(Recycle(m, n)) = Outside(m) - n
BY PreviewConstants, SMT DEF Recycle, Memory, Outside

LEMMA CountNat ==
  ASSUME NEW b \in BOOLEAN
  PROVE  Count(b) \in 0..1
BY DEF Count

LEMMA SignalledSubset ==
  ASSUME NEW S, NEW w \in Signalled(S)
  PROVE  w \subseteq S
BY DEF Signalled

-----------------------------------------------------------------------------
(* Type correctness.                                                        *)

LEMMA DeadType == Dead \in CaptureState
BY DEF Dead, CaptureState, CapturePcs

LEMMA InitType == Init => TypeOK
<1> SUFFICES ASSUME Init PROVE TypeOK
    OBVIOUS
<1>1. capture \in CaptureStates
  BY DeadType DEF Init, CaptureStates
<1>2. mem \in Memory /\ previewFrames \in 0..MaxFrame
  BY PreviewConstants DEF Init, Memory
<1> QED
  BY <1>1, <1>2 DEF Init, TypeOK, AppPcs, PreviewPcs

\* A step of the application thread.
LEMMA AppType ==
  ASSUME TypeOK
  PROVE  AppCall \/ AppStep \/ AppSpuriousWakeup => TypeOK'
<1> USE DEF flags, objects, frames, pending, waits
<1>m. mem \in Memory /\ previewFrames \in Nat /\ Count(captureQueu) \in 0..1
  BY CountNat, PreviewConstants DEF TypeOK
<1>1. SetPreviewDisplay => TypeOK'
  BY DEF TypeOK, SetPreviewDisplay
<1>2. StartPreview => TypeOK'
  <2>1. StartPreview => app' \in AppPcs
    BY DEF TypeOK, StartPreview, AppPcs
  <2> QED
    BY <2>1 DEF TypeOK, StartPreview
<1>3. SetFrameCallback => TypeOK'
  <2>1. SetFrameCallback => app' \in AppPcs /\ captureWaiters' \subseteq CaptureThreads \cup {App}
                              /\ newCallback' \in Callbacks \cup {NULL}
                              /\ mFrameCallbackObj' \in Callbacks \cup {NULL}
                              /\ mIsCapturing' \in BOOLEAN
    BY SignalledSubset DEF TypeOK, SetFrameCallback, AskCapturing, AppPcs
  <2> QED
    BY <2>1 DEF TypeOK, SetFrameCallback, AskCapturing
<1>4. SetCaptureDisplay => TypeOK'
  <2>1. SetCaptureDisplay => app' \in AppPcs /\ captureWaiters' \subseteq CaptureThreads \cup {App}
                               /\ newWindow' \in Windows \cup {NULL}
                               /\ mCaptureWindow' \in Windows \cup {NULL}
                               /\ mIsCapturing' \in BOOLEAN
    BY SignalledSubset DEF TypeOK, SetCaptureDisplay, AskCapturing, AppPcs
  <2> QED
    BY <2>1 DEF TypeOK, SetCaptureDisplay, AskCapturing
<1>5. StopPreview => TypeOK'
  <2>1. StopPreview => app' \in AppPcs /\ captureWaiters' \subseteq CaptureThreads \cup {App}
                         /\ mFrameCallbackObj' \in Callbacks \cup {NULL}
                         /\ mIsCapturing' \in BOOLEAN
    BY SignalledSubset DEF TypeOK, StopPreview, AskCapturing, AppPcs
  <2> QED
    BY <2>1 DEF TypeOK, StopPreview, AskCapturing
<1>6. Destroy => TypeOK'
  <2>1. Destroy => app' \in AppPcs /\ mem' \in Memory /\ previewFrames' \in 0..MaxFrame
    BY <1>m, PreviewConstants DEF TypeOK, Destroy, AppPcs, Memory
  <2> QED
    BY <2>1 DEF TypeOK, Destroy
<1>7. StartCreate => TypeOK'
  <2>1. StartCreate => app' \in AppPcs /\ preview' \in PreviewPcs
    BY DEF TypeOK, StartCreate, AppPcs, PreviewPcs
  <2> QED
    BY <2>1 DEF TypeOK, StartCreate
<1>8. StartFail => TypeOK'
  <2>1. StartFail => app' \in AppPcs
    BY DEF TypeOK, StartFail, AppPcs
  <2> QED
    BY <2>1 DEF TypeOK, StartFail
<1>9. SetFrameCallbackResume => TypeOK'
  <2>1. SetFrameCallbackResume => app' \in AppPcs
    BY DEF TypeOK, SetFrameCallbackResume, AppPcs
  <2> QED
    BY <2>1 DEF TypeOK, SetFrameCallbackResume
<1>10. SetCaptureDisplayResume => TypeOK'
  <2>1. SetCaptureDisplayResume => app' \in AppPcs
    BY DEF TypeOK, SetCaptureDisplayResume, AppPcs
  <2> QED
    BY <2>1 DEF TypeOK, SetCaptureDisplayResume
<1>11. StopCallbackResume => TypeOK'
  <2>1. StopCallbackResume => app' \in AppPcs
    BY DEF TypeOK, StopCallbackResume, AppPcs
  <2> QED
    BY <2>1 DEF TypeOK, StopCallbackResume
<1>12. StopFlag => TypeOK'
  <2>1. StopFlag => app' \in AppPcs
    BY DEF TypeOK, StopFlag, AppPcs
  <2> QED
    BY <2>1 DEF TypeOK, StopFlag
<1>13. StopSignal => TypeOK'
  <2>1. StopSignal => app' \in AppPcs
    BY DEF TypeOK, StopSignal, AppPcs
  <2> QED
    BY <2>1 DEF TypeOK, StopSignal
<1>14. StopCheckCapture => TypeOK'
  <2>1. StopCheckCapture => app' \in AppPcs /\ captureWaiters' \subseteq CaptureThreads \cup {App}
    BY SignalledSubset DEF TypeOK, StopCheckCapture, AppPcs
  <2> QED
    BY <2>1 DEF TypeOK, StopCheckCapture
<1>15. JoinCapture => TypeOK'
  <2>1. JoinCapture => app' \in AppPcs
    BY DEF TypeOK, JoinCapture, AppPcs
  <2> QED
    BY <2>1 DEF TypeOK, JoinCapture
<1>16. JoinPreview => TypeOK'
  <2>1. JoinPreview => app' \in AppPcs
    BY DEF TypeOK, JoinPreview, AppPcs
  <2> QED
    BY <2>1 DEF TypeOK, JoinPreview
<1>17. StopClear => TypeOK'
  <2>1. StopClear => app' \in AppPcs /\ mem' \in Memory /\ previewFrames' \in 0..MaxFrame
    BY <1>m, RecycleOutside, PreviewConstants DEF TypeOK, StopClear, AppPcs
  <2> QED
    BY <2>1 DEF TypeOK, StopClear
<1>18. StopRelease => TypeOK'
  <2>1. StopRelease => app' \in AppPcs
    BY DEF TypeOK, StopRelease, AppPcs
  <2> QED
    BY <2>1 DEF TypeOK, StopRelease
<1>19. AppSpuriousWakeup => TypeOK'
  BY DEF TypeOK, AppSpuriousWakeup
<1> QED
  BY <1>1, <1>2, <1>3, <1>4, <1>5, <1>6, <1>7, <1>8, <1>9, <1>10, <1>11, <1>12,
     <1>13, <1>14, <1>15, <1>16, <1>17, <1>18, <1>19 DEF AppCall, AppStep

\* A step of the stream callback thread.
LEMMA StreamType ==
  ASSUME TypeOK
  PROVE  FrameArrives \/ StreamStep => TypeOK'
<1> USE DEF flags, objects, frames, pending, waits
<1>m. mem \in Memory /\ previewFrames \in Nat /\ Count(captureQueu) \in 0..1
  BY CountNat, PreviewConstants DEF TypeOK
<1>1. FrameArrives => TypeOK'
  <2>1. FrameArrives => mem' \in Memory
    BY <1>m, GetFrameOutside DEF TypeOK, FrameArrives
  <2> QED
    BY <2>1 DEF TypeOK, FrameArrives
<1>2. DuplicateFails => TypeOK'
  <2>1. DuplicateFails => mem' \in Memory
    BY <1>m, RecycleOutside DEF TypeOK, DuplicateFails
  <2> QED
    BY <2>1 DEF TypeOK, DuplicateFails
<1>3. AddPreviewFrame => TypeOK'
  <2>1. AddPreviewFrame => mem' \in Memory
    BY <1>m, RecycleOutside DEF AddPreviewFrame
  <2>2. AddPreviewFrame => previewFrames' \in 0..MaxFrame
    BY PreviewConstants DEF TypeOK, AddPreviewFrame
  <2>3. AddPreviewFrame => previewWaits' \in BOOLEAN
    BY DEF TypeOK, AddPreviewFrame
  <2> QED
    BY <2>1, <2>2, <2>3 DEF TypeOK, AddPreviewFrame
<1> QED
  BY <1>1, <1>2, <1>3 DEF StreamStep

\* A step of the preview thread.
LEMMA PreviewType ==
  ASSUME TypeOK
  PROVE  PreviewStep \/ PreviewSpuriousWakeup => TypeOK'
<1> USE DEF flags, objects, frames, pending, waits
<1>m. mem \in Memory /\ previewFrames \in Nat /\ Count(captureQueu) \in 0..1
  BY CountNat, PreviewConstants DEF TypeOK
<1>t. ASSUME NEW from
      PROVE  TakePreviewFrame(from) => TypeOK'
  <2>1. TakePreviewFrame(from) => preview' \in PreviewPcs
    BY DEF TypeOK, TakePreviewFrame, PreviewGoes, PreviewPcs
  <2>2. TakePreviewFrame(from) => previewFrames' \in 0..MaxFrame
    BY <1>m, PreviewConstants DEF TypeOK, TakePreviewFrame, Count
  <2> QED
    BY <2>1, <2>2 DEF TypeOK, TakePreviewFrame, PreviewGoes
<1>1. PreparePreview => TypeOK'
  <2>1. PreparePreview => preview' \in PreviewPcs
    BY DEF TypeOK, PreparePreview, PreviewGoes, PreviewPcs
  <2> QED
    BY <2>1 DEF TypeOK, PreparePreview, PreviewGoes
<1>2. StartStreaming => TypeOK'
  <2>1. StartStreaming => preview' \in PreviewPcs /\ streaming' \in BOOLEAN
    BY DEF TypeOK, StartStreaming, PreviewGoes, PreviewPcs
  <2> QED
    BY <2>1 DEF TypeOK, StartStreaming, PreviewGoes
<1>3. ClearPreviewFrame => TypeOK'
  <2>1. ClearPreviewFrame => preview' \in PreviewPcs /\ mem' \in Memory /\ previewFrames' \in 0..MaxFrame
    BY <1>m, RecycleOutside, PreviewConstants DEF TypeOK, ClearPreviewFrame, PreviewGoes, PreviewPcs
  <2> QED
    BY <2>1 DEF TypeOK, ClearPreviewFrame, PreviewGoes
<1>4. CreateCapture => TypeOK'
  <2>1. CreateCapture => preview' \in PreviewPcs /\ capture' \in CaptureStates
                           /\ capture_thread' \in CaptureThreads \cup {NULL, Garbage}
    BY DEF TypeOK, CreateCapture, PreviewGoes, PreviewPcs, CaptureStates, CaptureState, CapturePcs
  <2> QED
    BY <2>1 DEF TypeOK, CreateCapture, PreviewGoes
<1>5. SetHasCapturing => TypeOK'
  <2>1. SetHasCapturing => preview' \in PreviewPcs
    BY DEF TypeOK, SetHasCapturing, PreviewGoes, PreviewPcs
  <2> QED
    BY <2>1 DEF TypeOK, SetHasCapturing, PreviewGoes
<1>6. PreviewCheck => TypeOK'
  <2>1. PreviewCheck => preview' \in PreviewPcs
    BY DEF TypeOK, PreviewCheck, PreviewGoes, PreviewPcs
  <2> QED
    BY <2>1 DEF TypeOK, PreviewCheck, PreviewGoes
<1>7. WaitPreviewFrame => TypeOK'
  <2>1. CASE previewFrames = 0
    <3>1. WaitPreviewFrame => preview' \in PreviewPcs
      BY <2>1 DEF WaitPreviewFrame, PreviewGoes, PreviewPcs
    <3> QED
      BY <2>1, <3>1 DEF TypeOK, WaitPreviewFrame, PreviewGoes
  <2>2. CASE previewFrames # 0
    BY <2>2, <1>t DEF WaitPreviewFrame
  <2> QED
    BY <2>1, <2>2
<1>8. WaitPreviewFrameResume => TypeOK'
  BY <1>t DEF TypeOK, WaitPreviewFrameResume
<1>9. DecodeMjpeg => TypeOK'
  <2>1. DecodeMjpeg => preview' \in PreviewPcs /\ mem' \in Memory
    BY <1>m, GetFrameOutside, RecycleOutside DEF TypeOK, DecodeMjpeg, PreviewGoes, PreviewPcs
  <2> QED
    BY <2>1 DEF TypeOK, DecodeMjpeg, PreviewGoes
<1>10. DrawPreview => TypeOK'
  <2>1. DrawPreview => preview' \in PreviewPcs /\ mem' \in Memory
    BY <1>m, GetFrameOutside, RecycleOutside DEF TypeOK, DrawPreview, PreviewGoes, PreviewPcs
  <2> QED
    BY <2>1 DEF TypeOK, DrawPreview, PreviewGoes
<1>11. AddCaptureFrame => TypeOK'
  <2>1. AddCaptureFrame => mem' \in Memory
    BY <1>m, RecycleOutside DEF AddCaptureFrame
  <2>2. AddCaptureFrame => preview' \in PreviewPcs /\ captureQueu' \in BOOLEAN
    BY DEF TypeOK, AddCaptureFrame, PreviewGoes, PreviewPcs
  <2>3. AddCaptureFrame => captureWaiters' \subseteq CaptureThreads \cup {App}
    BY DEF TypeOK, AddCaptureFrame
  <2> QED
    BY <2>1, <2>2, <2>3 DEF TypeOK, AddCaptureFrame, PreviewGoes
<1>12. EndSignal => TypeOK'
  <2>1. EndSignal => preview' \in PreviewPcs /\ captureWaiters' \subseteq CaptureThreads \cup {App}
    BY SignalledSubset DEF TypeOK, EndSignal, PreviewGoes, PreviewPcs
  <2> QED
    BY <2>1 DEF TypeOK, EndSignal, PreviewGoes
<1>13. StopStreaming => TypeOK'
  <2>1. StopStreaming => preview' \in PreviewPcs
    BY DEF TypeOK, StopStreaming, PreviewPcs
  <2> QED
    BY <2>1 DEF TypeOK, StopStreaming
<1>14. PreviewSpuriousWakeup => TypeOK'
  BY DEF TypeOK, PreviewSpuriousWakeup
<1> QED
  BY <1>1, <1>2, <1>3, <1>4, <1>5, <1>6, <1>7, <1>8, <1>9, <1>10, <1>11, <1>12,
     <1>13, <1>14 DEF PreviewStep

\* What every step of a capture thread leaves alone.
CaptureLeavesAlone ==
  UNCHANGED <<mIsRunning, mHasCapturing, capture_thread, mFrameCallbackObj,
              mPreviewWindow, previewFrames, streaming, app, pending, stream,
              preview, previewWaits>>

LEMMA CaptureBecomesType ==
  ASSUME TypeOK, NEW t \in CaptureThreads, NEW from, NEW new \in CaptureState,
         CaptureBecomes(t, from, new)
  PROVE  capture' \in CaptureStates /\ CaptureLeavesAlone
BY DEF CaptureBecomes, TypeOK, CaptureStates, CaptureLeavesAlone

LEMMA CaptureGoesType ==
  ASSUME TypeOK, NEW t \in CaptureThreads, NEW from, NEW to \in CapturePcs,
         CaptureGoes(t, from, to)
  PROVE  capture' \in CaptureStates /\ CaptureLeavesAlone
<1>1. [capture[t] EXCEPT !.pc = to] \in CaptureState
  BY DEF TypeOK, CaptureStates, CaptureState
<1> QED
  BY <1>1, CaptureBecomesType DEF CaptureGoes

\* A step of a capture thread.
LEMMA CaptureType ==
  ASSUME TypeOK, NEW t \in CaptureThreads, CaptureStep(t)
  PROVE  TypeOK' /\ CaptureLeavesAlone
<1> USE DEF flags, objects, frames, pending, waits
<1>m. mem \in Memory /\ Count(captureQueu) \in 0..1 /\ Recycle(GetFrame(mem), 1) \in Memory
  BY CountNat, GetFrameOutside, RecycleOutside DEF TypeOK
<1>c. Count(capture[t].converted) \in 0..1
  BY CountNat DEF TypeOK, CaptureStates, CaptureState
<1>k. ASSUME capture' \in CaptureStates, CaptureLeavesAlone,
             mIsCapturing' \in BOOLEAN, mCaptureWindow' \in Windows \cup {NULL},
             captureQueu' \in BOOLEAN, mem' \in Memory,
             captureWaiters' \subseteq CaptureThreads \cup {App}
      PROVE  TypeOK'
  BY <1>k DEF TypeOK, CaptureLeavesAlone
<1>1. CaptureClear(t) => TypeOK' /\ CaptureLeavesAlone
  <2> SUFFICES ASSUME CaptureClear(t) PROVE TypeOK' /\ CaptureLeavesAlone
    OBVIOUS
  <2>1. capture' \in CaptureStates /\ CaptureLeavesAlone
    BY CaptureGoesType DEF CaptureClear, CapturePcs
  <2>2. mem' \in Memory
    BY <1>m, RecycleOutside DEF CaptureClear
  <2>3. mIsCapturing' \in BOOLEAN /\ mCaptureWindow' \in Windows \cup {NULL}
        /\ captureQueu' \in BOOLEAN
        /\ captureWaiters' \subseteq CaptureThreads \cup {App}
    BY DEF TypeOK, CaptureClear
  <2> QED
    BY <2>1, <2>2, <2>3, <1>k
<1>2. CaptureRunning(t) => TypeOK' /\ CaptureLeavesAlone
  <2> SUFFICES ASSUME CaptureRunning(t) PROVE TypeOK' /\ CaptureLeavesAlone
    OBVIOUS
  <2>1. capture' \in CaptureStates /\ CaptureLeavesAlone
    BY CaptureGoesType, CaptureBecomesType, DeadType DEF CaptureRunning, CapturePcs
  <2>3. mIsCapturing' \in BOOLEAN /\ mCaptureWindow' \in Windows \cup {NULL}
        /\ captureQueu' \in BOOLEAN
        /\ mem' \in Memory
        /\ captureWaiters' \subseteq CaptureThreads \cup {App}
    BY DEF TypeOK, CaptureRunning
  <2> QED
    BY <2>1, <2>3, <1>k
<1>3. CaptureSetCapturing(t) => TypeOK' /\ CaptureLeavesAlone
  <2> SUFFICES ASSUME CaptureSetCapturing(t) PROVE TypeOK' /\ CaptureLeavesAlone
    OBVIOUS
  <2>1. capture' \in CaptureStates /\ CaptureLeavesAlone
    BY CaptureGoesType DEF CaptureSetCapturing, CapturePcs
  <2>2. mIsCapturing' \in BOOLEAN
    BY DEF TypeOK, CaptureSetCapturing
  <2>3. mCaptureWindow' \in Windows \cup {NULL} /\ captureQueu' \in BOOLEAN
        /\ mem' \in Memory
        /\ captureWaiters' \subseteq CaptureThreads \cup {App}
    BY DEF TypeOK, CaptureSetCapturing
  <2> QED
    BY <2>1, <2>2, <2>3, <1>k
<1>4. CaptureSelect(t) => TypeOK' /\ CaptureLeavesAlone
  <2> SUFFICES ASSUME CaptureSelect(t) PROVE TypeOK' /\ CaptureLeavesAlone
    OBVIOUS
  <2>1. capture' \in CaptureStates /\ CaptureLeavesAlone
    <3>1. [capture[t] EXCEPT !.pc = "loop", !.surface = (mCaptureWindow # NULL)] \in CaptureState
      BY DEF TypeOK, CaptureStates, CaptureState, CapturePcs
    <3> QED
      BY <3>1, CaptureBecomesType DEF CaptureSelect
  <2>3. mIsCapturing' \in BOOLEAN /\ mCaptureWindow' \in Windows \cup {NULL}
        /\ captureQueu' \in BOOLEAN
        /\ mem' \in Memory
        /\ captureWaiters' \subseteq CaptureThreads \cup {App}
    BY DEF TypeOK, CaptureSelect
  <2> QED
    BY <2>1, <2>3, <1>k
<1>5. CaptureLoop(t) => TypeOK' /\ CaptureLeavesAlone
  <2> SUFFICES ASSUME CaptureLoop(t) PROVE TypeOK' /\ CaptureLeavesAlone
    OBVIOUS
  <2>1. capture' \in CaptureStates /\ CaptureLeavesAlone
    BY CaptureGoesType DEF CaptureLoop, CapturePcs
  <2>3. mIsCapturing' \in BOOLEAN /\ mCaptureWindow' \in Windows \cup {NULL}
        /\ captureQueu' \in BOOLEAN
        /\ mem' \in Memory
        /\ captureWaiters' \subseteq CaptureThreads \cup {App}
    BY DEF TypeOK, CaptureLoop
  <2> QED
    BY <2>1, <2>3, <1>k
<1>6. WaitCaptureFrame(t) => TypeOK' /\ CaptureLeavesAlone
  <2> SUFFICES ASSUME WaitCaptureFrame(t) PROVE TypeOK' /\ CaptureLeavesAlone
    OBVIOUS
  <2>1. capture' \in CaptureStates /\ CaptureLeavesAlone
    BY CaptureGoesType DEF WaitCaptureFrame, TakeCaptureFrame, CapturePcs
  <2>2. captureQueu' \in BOOLEAN /\ captureWaiters' \subseteq CaptureThreads \cup {App}
    BY DEF TypeOK, WaitCaptureFrame, TakeCaptureFrame
  <2>3. mIsCapturing' \in BOOLEAN /\ mCaptureWindow' \in Windows \cup {NULL}
        /\ mem' \in Memory
    BY DEF TypeOK, WaitCaptureFrame, TakeCaptureFrame
  <2> QED
    BY <2>1, <2>2, <2>3, <1>k
<1>7. WaitCaptureFrameResume(t) => TypeOK' /\ CaptureLeavesAlone
  <2> SUFFICES ASSUME WaitCaptureFrameResume(t) PROVE TypeOK' /\ CaptureLeavesAlone
    OBVIOUS
  <2>1. capture' \in CaptureStates /\ CaptureLeavesAlone
    BY CaptureGoesType DEF WaitCaptureFrameResume, TakeCaptureFrame, CapturePcs
  <2>2. captureQueu' \in BOOLEAN
    BY DEF TypeOK, WaitCaptureFrameResume, TakeCaptureFrame
  <2>3. mIsCapturing' \in BOOLEAN /\ mCaptureWindow' \in Windows \cup {NULL}
        /\ mem' \in Memory
        /\ captureWaiters' \subseteq CaptureThreads \cup {App}
    BY DEF TypeOK, WaitCaptureFrameResume, TakeCaptureFrame
  <2> QED
    BY <2>1, <2>2, <2>3, <1>k
<1>8. CaptureTimeout(t) => TypeOK' /\ CaptureLeavesAlone
  <2> SUFFICES ASSUME CaptureTimeout(t) PROVE TypeOK' /\ CaptureLeavesAlone
    OBVIOUS
  <2>1. capture' \in CaptureStates /\ CaptureLeavesAlone
    BY CaptureGoesType DEF CaptureTimeout, CapturePcs
  <2>2. captureWaiters' \subseteq CaptureThreads \cup {App}
    BY DEF TypeOK, CaptureTimeout
  <2>3. mIsCapturing' \in BOOLEAN /\ mCaptureWindow' \in Windows \cup {NULL}
        /\ captureQueu' \in BOOLEAN
        /\ mem' \in Memory
    BY DEF TypeOK, CaptureTimeout
  <2> QED
    BY <2>1, <2>2, <2>3, <1>k
<1>9. CaptureSurfaceDraw(t) => TypeOK' /\ CaptureLeavesAlone
  <2> SUFFICES ASSUME CaptureSurfaceDraw(t) PROVE TypeOK' /\ CaptureLeavesAlone
    OBVIOUS
  <2>1. capture' \in CaptureStates /\ CaptureLeavesAlone
    <3>1. [capture[t] EXCEPT !.pc = "callback",
                             !.converted = @ \/ (mIsCapturing /\ ~capture[t].converted)] \in CaptureState
      BY DEF TypeOK, CaptureStates, CaptureState, CapturePcs
    <3> QED
      BY <3>1, CaptureBecomesType DEF CaptureSurfaceDraw
  <2>2. mem' \in Memory
    BY <1>m, GetFrameOutside, RecycleOutside DEF TypeOK, CaptureSurfaceDraw
  <2>3. mIsCapturing' \in BOOLEAN /\ mCaptureWindow' \in Windows \cup {NULL}
        /\ captureQueu' \in BOOLEAN
        /\ captureWaiters' \subseteq CaptureThreads \cup {App}
    BY DEF TypeOK, CaptureSurfaceDraw
  <2> QED
    BY <2>1, <2>2, <2>3, <1>k
<1>10. CaptureConvert(t) => TypeOK' /\ CaptureLeavesAlone
  <2> SUFFICES ASSUME CaptureConvert(t) PROVE TypeOK' /\ CaptureLeavesAlone
    OBVIOUS
  <2>1. capture' \in CaptureStates /\ CaptureLeavesAlone
    BY CaptureGoesType DEF CaptureConvert, CapturePcs
  <2>2. mem' \in Memory
    BY <1>m, GetFrameOutside, RecycleOutside DEF TypeOK, CaptureConvert
  <2>3. mIsCapturing' \in BOOLEAN /\ mCaptureWindow' \in Windows \cup {NULL}
        /\ captureQueu' \in BOOLEAN
        /\ captureWaiters' \subseteq CaptureThreads \cup {App}
    BY DEF TypeOK, CaptureConvert
  <2> QED
    BY <2>1, <2>2, <2>3, <1>k
<1>11. CaptureInvoke(t) => TypeOK' /\ CaptureLeavesAlone
  <2> SUFFICES ASSUME CaptureInvoke(t) PROVE TypeOK' /\ CaptureLeavesAlone
    OBVIOUS
  <2>1. capture' \in CaptureStates /\ CaptureLeavesAlone
    BY CaptureGoesType DEF CaptureInvoke, CapturePcs
  <2>2. mem' \in Memory
    BY <1>m, GetFrameOutside, RecycleOutside DEF TypeOK, CaptureInvoke
  <2>3. mIsCapturing' \in BOOLEAN /\ mCaptureWindow' \in Windows \cup {NULL}
        /\ captureQueu' \in BOOLEAN
        /\ captureWaiters' \subseteq CaptureThreads \cup {App}
    BY DEF TypeOK, CaptureInvoke
  <2> QED
    BY <2>1, <2>2, <2>3, <1>k
<1>12. CaptureCall(t) => TypeOK' /\ CaptureLeavesAlone
  <2> SUFFICES ASSUME CaptureCall(t) PROVE TypeOK' /\ CaptureLeavesAlone
    OBVIOUS
  <2>1. capture' \in CaptureStates /\ CaptureLeavesAlone
    <3>1. [capture[t] EXCEPT !.pc = "inCall", !.callee = mFrameCallbackObj] \in CaptureState
      BY DEF TypeOK, CaptureStates, CaptureState, CapturePcs
    <3> QED
      BY <3>1, CaptureBecomesType DEF CaptureCall
  <2>3. mIsCapturing' \in BOOLEAN /\ mCaptureWindow' \in Windows \cup {NULL}
        /\ captureQueu' \in BOOLEAN
        /\ mem' \in Memory
        /\ captureWaiters' \subseteq CaptureThreads \cup {App}
    BY DEF TypeOK, CaptureCall
  <2> QED
    BY <2>1, <2>3, <1>k
<1>13. CaptureReturn(t) => TypeOK' /\ CaptureLeavesAlone
  <2> SUFFICES ASSUME CaptureReturn(t) PROVE TypeOK' /\ CaptureLeavesAlone
    OBVIOUS
  <2>1. capture' \in CaptureStates /\ CaptureLeavesAlone
    <3>1. [capture[t] EXCEPT !.pc = "loop", !.callee = NULL] \in CaptureState
      BY DEF TypeOK, CaptureStates, CaptureState, CapturePcs
    <3> QED
      BY <3>1, CaptureBecomesType DEF CaptureReturn
  <2>2. mem' \in Memory
    BY <1>m, GetFrameOutside, RecycleOutside DEF TypeOK, CaptureReturn
  <2>3. mIsCapturing' \in BOOLEAN /\ mCaptureWindow' \in Windows \cup {NULL}
        /\ captureQueu' \in BOOLEAN
        /\ captureWaiters' \subseteq CaptureThreads \cup {App}
    BY DEF TypeOK, CaptureReturn
  <2> QED
    BY <2>1, <2>2, <2>3, <1>k
<1>14. CaptureSurfaceEnd(t) => TypeOK' /\ CaptureLeavesAlone
  <2> SUFFICES ASSUME CaptureSurfaceEnd(t) PROVE TypeOK' /\ CaptureLeavesAlone
    OBVIOUS
  <2>1. capture' \in CaptureStates /\ CaptureLeavesAlone
    <3>1. [capture[t] EXCEPT !.pc = "notify", !.converted = FALSE] \in CaptureState
      BY DEF TypeOK, CaptureStates, CaptureState, CapturePcs
    <3> QED
      BY <3>1, CaptureBecomesType DEF CaptureSurfaceEnd
  <2>2. mem' \in Memory /\ mCaptureWindow' \in Windows \cup {NULL}
    BY <1>m, <1>c, RecycleOutside DEF TypeOK, CaptureSurfaceEnd
  <2>3. mIsCapturing' \in BOOLEAN /\ captureQueu' \in BOOLEAN
        /\ captureWaiters' \subseteq CaptureThreads \cup {App}
    BY DEF TypeOK, CaptureSurfaceEnd
  <2> QED
    BY <2>1, <2>2, <2>3, <1>k
<1>15. CaptureNotify(t) => TypeOK' /\ CaptureLeavesAlone
  <2> SUFFICES ASSUME CaptureNotify(t) PROVE TypeOK' /\ CaptureLeavesAlone
    OBVIOUS
  <2>1. capture' \in CaptureStates /\ CaptureLeavesAlone
    BY CaptureGoesType DEF CaptureNotify, CapturePcs
  <2>2. captureWaiters' \subseteq CaptureThreads \cup {App}
    BY DEF TypeOK, CaptureNotify
  <2>3. mIsCapturing' \in BOOLEAN /\ mCaptureWindow' \in Windows \cup {NULL}
        /\ captureQueu' \in BOOLEAN
        /\ mem' \in Memory
    BY DEF TypeOK, CaptureNotify
  <2> QED
    BY <2>1, <2>2, <2>3, <1>k
<1> QED
  BY <1>1, <1>2, <1>3, <1>4, <1>5, <1>6, <1>7, <1>8, <1>9, <1>10, <1>11, <1>12,
     <1>13, <1>14, <1>15 DEF CaptureStep

LEMMA NextType ==
  ASSUME TypeOK, [Next]_vars
  PROVE  TypeOK'
<1>1. CASE Next
  BY <1>1, AppType, StreamType, PreviewType, CaptureType DEF Next
<1>2. CASE UNCHANGED vars
  <2>1. UNCHANGED <<flags, capture_thread, objects, frames, streaming, app, pending,
                    stream, preview, waits, capture>>
    BY <1>2 DEF vars
  <2> QED
    BY <2>1 DEF TypeOK, flags, objects, frames, pending, waits
<1> QED
  BY <1>1, <1>2

\* Whatever the interleaving, every field of the object holds a value of its
\* type; in particular previewFrames never exceeds MAX_FRAME nor mFramePool
\* FRAME_POOL_SZ, as the arrays behind them require.
THEOREM TypeCorrect == Spec => []TypeOK
<1> QED
  BY InitType, NextType, PTL DEF Spec

=============================================================================
