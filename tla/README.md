# Verification of RuxorComponentUnit

RuxorComponentUnit is a set of Android components in Kotlin (Bluetooth, serial and USB devices, cameras) on top of
`libuvc`, a Java and C++ library that streams video from USB cameras. This directory holds TLA+ modules that model its
concurrent parts, TLC configurations that check them on small instances, and theorems about them that TLAPS proves for
every value of the constants. Everything is translated from the source under `src/`; paths below are relative to
`src/app/src/main/java/com/ruxor/ruxorcomponentunit/` (APP), `src/libuvc/src/main/java/com/jiangdg/` (JD) and
`src/libuvc/src/main/jni/UVCCamera/` (JNI).

## 1. Inventory

| Component | State it keeps | Operations | What makes it correct |
|---|---|---|---|
| Native preview engine, `JNI/UVCPreview.cpp` | three flags, two thread handles, preview queue, one-frame capture queue, frame pool, callback object, two windows | start and stop of the preview, frame callback, recording surface; callback, preview and capture threads | no frame lost or used twice; no thread asleep beside its work; a stopped preview leaves nothing behind; stop returns; a deleted callback is not called |
| Bluetooth, `APP/component/bluetooth` | role, target, three thread fields, exit flag, handler queue | connectDevice, listen, write, release; messages; three threads | one connection at a time; a lost one is retried; cancelled threads end; bytes are delivered as read |
| `JD/usb/USBMonitor.java` | map of open control blocks, permission cache, registration | register, requestPermission, openDevice, clone and close of blocks, attach, detach and permission broadcasts, periodic check | every open block is known; detach closes what was opened; nothing survives destroy |
| `JD/uac/UACAudioHandler.java`, `UACAudio.java` | audio thread, its looper, released flag, recorder status | init, start, stop, release, blocking getters | no getter waits for ever; release ends the thread and stops recording |
| `JD/uvc/UVCCamera.java`, `JNI/UVCCamera.cpp` | cloned control block, native pointer, device handle, preview object | open, close, destroy, preview and capture calls | every open is closed once, also when a step fails |
| `APP/component/camera/KUVCCameraSource.kt` | camera, control block, recorder, image reader, recording flag | open, record, stop, close, timed split of recordings | the surface in use is the one of the mode the flags name |
| `KCameraSource.kt`, `KCameraAutoCloseable.kt` | camera device, session, semaphore, reference-counted images | open, preview, still capture, record, close; camera callbacks | open and close exclude each other; an image is closed once, after its last user |
| Serial, USB serial and sensor devices (`component/serialport`, `usb`, `sensor`) | ports, receive threads, the index of the next sensor | connect, disconnect, write, receive loops, scheduled reading | disconnect returns; no read on a closed port; the index stays in the list |
| `KViewFlipper.kt`, `JNI/objectarray.h` | current page; a growable array | swipes; add, remove, get | the right page, the right element |

`PROJECT.json` also lists what has no state of its own (permission helper, activity, device filters, vendored
libraries, code no makefile compiles) with the reason it is left out.

Interactions. The application calls the Kotlin components from the main thread. `KUVCCameraSource` asks `USBMonitor`
for a control block, hands it to `UVCCamera.open`, which clones it and gives the native code a file descriptor;
`startPreview` starts the engine of `UVCPreview`, whose capture thread calls back into Java for every frame. `USBMonitor`
reports through a listener on a handler thread of its own; Bluetooth's threads report through messages to the main
looper.

Hard behaviours: threads that share unlocked flags (preview, Bluetooth, receive loops), waits whose signal may come
first (preview, audio), objects deleted while another thread uses them (callback, window), messages that outlive what
they refer to (Bluetooth), disconnection racing a retry, failure between two steps of opening a camera. Nothing is
persisted, so there is no crash recovery.

## 2. The modules

| Module | Contents |
|---|---|
| `UVCPreview` | the preview engine; its properties and mutants |
| `UVCPreviewProof` | lemmas and the type invariant's proof |
| `UVCPreviewSafety` | the inductive invariants, the safety theorems, and what a stop waits for |
| `MCUVCPreview` | instance for TLC (symmetry of the capture threads) |
| `RuxorBluetooth`, `MCRuxorBluetooth` | the Bluetooth component and its instance |
| `RuxorBluetoothProof` | its type, and that cancelled makers and readers without a connection run down |
| `RuxorBluetoothSession` | the safety of orderly calls: one connection, reachable, its loss noticed and retried, a client never left idle |
| `USBMonitor`, `MCUSBMonitor` | the monitor, its control blocks and `UVCCamera.open` and `close` on a clone of one; the instance |
| `ControlBlocks` | abstract: what control blocks promise; `USBMonitor` implements it |
| `USBMonitorProof` | the theorems about `USBMonitor`, its refinement included |
| `USBMonitorAnswers` | the theorem that counts the answers owed to connects |
| `UACAudioHandler` | the audio thread and its getters |
| `RuxorSerialDevices` | the serial port and the USB serial component |
| `RuxorSensors` | the sensors and their scheduled task |
| `KCameraSource`, `KCameraAutoCloseable` | the built-in camera; the reference count |
| `KUVCCameraSource` | the USB camera of the application |
| `MCComponents` | one instance of each of the last six |
| `ComponentsProof`, `ComponentsTypeProof` | their safety theorems; their types, the receivers of closed ports, what `clear` closes, and what the audio thread and a camera's close have left to do |

Operators whose comment starts with `Mutant:` are not part of a specification: each is an action with a plausible
mistake, kept next to the action to show which property notices it.

### UVCPreview

Threads: `app` (the thread that calls `UVCCamera.startPreview`, `stopPreview`, `setFrameCallback`, `startCapture`,
`destroy`), `stream` (libuvc's callback thread), `preview` (`preview_thread_func`) and one or more capture threads
(`capture_thread_func`); a capture thread that was not joined may live beside its successor. Variables have the names
of the fields. A critical section is one step, split where it waits on a condition variable (`WaitPreviewFrame` /
`WaitPreviewFrameResume`, `WaitCaptureFrame` / ...`Resume`, `SetFrameCallback` / ...`Resume`); reads and writes of the
volatile flags outside a mutex are steps of their own (`StopFlag`, `StopSignal`, `StopCheckCapture`, `CreateCapture`,
`SetHasCapturing`). Condition variables are sets of waiters: `preview_sync` has one possible waiter (`previewWaits`),
`capture_sync` several (`captureWaiters`), since the application also waits on it in `setFrameCallback`. A signal
releases one waiter, a broadcast all; the application and the preview thread may wake spuriously, and the capture
thread's wait is the timed one. Frames are counted: `mem.live` allocated and not freed, `mem.pool` in the pool,
`previewFrames` and `captureQueu` queued, the others in the hands of a thread (its place in the code says whether it
holds one).

Abstractions and assumptions: one application thread (start, stop and close are `synchronized` in Java;
`setFrameCallback` and `startCapture` are not, and are taken to come from the same thread); `onFrame` returns; a frame's
pixels are not modelled, conversion may fail; `get_frame` does not run out of memory; the branch for a window whose
format is RGB_565 is never taken, as `previewFormat` is always RGBA. The constructor leaves `mHasCapturing` and
`capture_thread` uninitialized: `Init` admits every value that matters, and a join of a garbage handle fails.
`StopClear` and `StopRelease` each merge two sections that only the application's thread can still reach. After
`Destroy` the engine's threads are not followed.

### RuxorBluetooth

The main thread alternates application calls and messages of `bluetoothHandler`; makers (`ConnectThread`,
`AcceptThread`) obtain a connection and install a reader (`ConnectedThread`). A maker obtains at most one connection,
so the reader and its socket share its identity: `thread[t]` is a record of the maker's place in `run`, its socket, the
connection and the reader. `cancel` methods are operators on that function, so that a handler which cancels two things
composes them. Every access to `connectedThread` that another thread can precede is a step: a maker's test and cancel,
clear, assign and start (`CancelOldLink`, `NullOldLink`, `AssignLink`, `StartLink`), and the handler's (`HandleDisconnect`,
`HandlerNullLink`, `HandlerRestart`). A `cancel` is one step: its two effects on a maker are only observed by `run`, and
every interleaving with `run` ends as if it were atomic. A maker's test of `connectedThread` is one step with its
`cancel`: whoever clears the field in between has cancelled the same thread just before, so a merged step placed after
that cancel gives the same state. A message of a read refers to the reader (its `mmBuffer`) and
remembers, for the property only, which bytes were read.

External: `connect` and `accept` return or throw at any time, and `connect` throws on a socket that is closed or already
connected; the link may be lost at any time; a read throws once the link is not open. Not modelled: discovery (nothing
calls `scanBluetoothDevice`, so its receiver is never registered), `write` (its messages are ignored by the handler),
permission requests, and the creation of a socket that throws. `Free` decides when an identity may be used again: when
no running thread or message refers to the object,
`connectedThread` does not, and the role's field is about to be overwritten.

### USBMonitor and ControlBlocks

Three threads: `main` delivers broadcasts to `mUsbReceiver`, `handler` runs what is posted to `mAsyncHandler`, and `app`
makes the calls. `mCtrlBlocks` is a concurrent map that nothing else protects, so each access is a step: a thread finds
no block and opens one (`NewBlock`), stores it (`Put`), tests its connection (`CheckConnection`), tells the listener
(`TellConnect`); `close` takes the connection (`CloseConnection`) and then removes the entry (`Unmap`), whichever block
the device has there by then. `thread[t]` holds the place, the device and the block of the call in progress, and `then`
the place to go on at when a close made on behalf of a broadcast, of `destroy` or of a camera is over. `queue` holds the
messages that are due, `monitor.checks` the delayed checks that are posted. `block` records each object's connection:
`free` (no object yet), `open`, `null` (the device could not be opened) or `closed`. `waiting` counts, for the property
only, the connects posted and not yet answered.

`ControlBlocks` knows only connections, the table and who was told: a connection is closed once and its listener told
with it, a closed block never enters the table, and one that is in it leaves. `USBMonitor!Promise` instantiates it with
`block[b].conn`, `mCtrlBlocks` and the blocks whose `onDisconnect` was heard; `KeepsPromise` is its whole specification,
fairness included.

Abstractions: a `UsbDevice` equals another by the name of its node, and a device that is plugged in again gets a new
one, so a device of the model comes once and goes once. Filters, descriptors, interfaces and the vendor's names are left
out. Calls that would change nothing are left out. The iterator that `destroy` uses comes to each key there was once, may
or may not come to one added meanwhile, and does not come back (`monitor.keys`); `clear()` drops what is left, open as it
may be. The check of devices tests `destroyed` and then asks for the list, which throws when `destroy` came between: the
handler thread is `dead`. On Android an exception that nobody catches ends the whole application; here and in the other
modules the other threads go on, so that the behaviours of the model include the ones that stop there. The camera is used
by one thread, and the application holds on to its monitor: that the weak reference of a block to it is cleared, and
`close` then leaves the map alone, is not modelled.

### UACAudioHandler

The application's posts and its getters (one set of clients, each getter with or without a timeout) and the audio thread.
A post is two steps, the test for release (`CheckPost`) and the message (`SendPost`), which is dropped when the looper has
quit in between. A getter that waits has given up `mSync` and needs it again to go on; a getter that found an object tests and uses it in
one step. `handleInitAudioRecord` calls `isRecording`, which waits for the object on the thread that makes it:
`HandleInit`, `InitWaitTimesOut`, `MakeAudio`. The release handler takes no lock and is three steps. The list of data
callbacks is left out.

### RuxorSerialDevices and RuxorSensors

`kind` chooses the serial port or the USB serial component; both make a new object for each connect, put it in the map
over the old one, and close by clearing `isProcessing`, joining the receiver and closing the port.
`RuxorUsbDevice.openDevice` goes through the drivers of its product (`NextDriver`, `OpenPort`, `OpenThrows`,
`FinishConnect`), up to `MaxDrivers` of them: each opens a port and starts a receiver, the object keeps the last of both,
and an exception leaves an object outside the map with what it has opened. A serial port is the case of one descriptor or
none. `port[p].matched` is the number of drivers that match. An exception of the read or of the listener ends the receiver
(`ReadPort`, `TellListener`). `isProcessing` is not volatile, so `TestProcessing` may go on with the old value. A read
returns: 50 ms for USB; a serial port is opened by code whose termios settings are not modelled. A listener that closes its
own device, joining itself, is not modelled, and permission receivers that are registered twice act once.

In `RuxorSensors` connect, clear and the task are split at each access of the list, its size and the index; the increment of
the index is one step. `readLine` gives null for an empty file, which a `String` cannot hold: that exception, like one of the
listener, is not caught and ends the task (`ReadThrows`). `shutdown` cancels a task that waits and lets a run in progress go
on, which the task of a later executor may overlap: tasks are named for the connect that scheduled them.

### KCameraSource, KCameraAutoCloseable, KUVCCameraSource

`KCameraSource`: `closeCamera` step by step against the callbacks of the background thread, which runs them in the order
the service posted them (`onDisconnected` and `onError` are three steps: the permit, close, and null); `quitSafely` lets it finish those that are due. `startRecord` closes the session, prepares a recorder, which may throw, and asks for a new session;
nothing in the class starts the recorder. `OpenBuiltIn` requires that the last camera was
closed, which the code does not check. An exception that the camera service throws in a callback ends the program.
`KCameraAutoCloseable` counts users who close what they retained once.

`KUVCCameraSource`: the main thread's calls and the permission broadcast, and the frame callback on the native capture
thread. `ConnectUVCCamera` has one disjunct for each point its `catch` may have been reached from. `closeUVCCamera` and
`stopRecordVideo` are split where the frame callback may come between: the recorder is released, the preview starts again
on the reader, the list is cleared, and the camera and its block are closed. A recording may be started with or without a
camera (`source.early` remembers, for the property, that there was none) and may throw while it is prepared or at `start`,
after the preview has begun to draw to it: the exception goes to the caller, and the recorder stays `made`. It is assumed
that a camera is opened only when the last one is closed and no permission is asked for. An exception of `pause` or `stop`
comes before anything has changed. Nothing sets `autoRecord`, so the timed split of recordings is dead code. This component
never registers its monitor, so it hears of no detach.

## 3. Runs

| Run | Instance | Shows |
|---|---|---|
| `preview_threads` | 2 capture threads, MJPEG, one callback, queue and pool of 1; 2.1 million states | type, no thread asleep beside a frame, a stopped preview is quiet |
| `preview_recording` | YUYV, one window, one capture thread; 276 thousand states | frame accounting when drawn frames are kept for recording; the capture thread's join returns; a full queue drains |
| `preview_stop`, `preview_callback`, `preview_orphan` | one capture thread | the refuted claims, section 6 |
| `bluetooth_session` | 2 connectors, 2 acceptors, two calls at rest, one matching device; 197 thousand states | one connection at a time and reachable, no thread started twice, the handler acts on the disconnect of the link it cancels, lost links retried, clients that never give up |
| `bluetooth_two_calls` | 2 connectors, two calls, no data; 136 thousand states | with two makers racing for `connectedThread`, cancelled threads and the readers of finished connections still end |
| `bluetooth_cancel`, `bluetooth_read` | 2 connectors, 2 acceptors | the refuted claims, section 6 |
| `usb_camera` | one device, 4 blocks, 4 calls; 285 thousand states | a closed block leaves the map, a connected camera has its connection, every connect is answered, the check of devices never stops; `USBMonitor` implements `ControlBlocks` |
| `usb_clone` | one device, 3 blocks, 3 calls | the refuted claim, section 6 |
| `components` | see below; 235 thousand states | getters are woken, no read of a closed port where a product has one, connects never send the sensors' task out of the list and it reads every sensor, frames are there when delivered, closing ends, an image lives as long as a user, the preview draws where flag and recorder say, only failed opens leak a clone |

Why the bounds are enough. A queue and a pool of one reach empty, full and overflow, and every transition between
them; two capture threads are what it takes for an old thread to meet its successor. A callback and a window are not in
one run: the two kinds of capture loop exclude each other at `CaptureSelect` and the product exceeds the time of a run.
In Bluetooth a reconnection needs the old and the new maker of a role, and two calls let a second session follow a
release; `Free` gives the identity of an ended thread to the next, so that losses and retries are not bounded by it. With
a third connector, which lets the new connection be lost while the first thread still sleeps, the invariants were
checked too (2.6 million states). `MaxMessages` bounds only the data messages: disconnections are always queued.

The properties of `bluetooth_session` are about calls made at rest and one bonded device that matches: the constant
`OrderlyCalls`, an assumption on the caller and no guard of the code, lets the application call `connectDevice` or
`listen` only in `AtRest`, when every maker has ended or was cancelled in its loop, none has or obtains a connection,
no reader runs and no disconnect is due that the handler would act on, and `Matching = 1`. This is a requirement on
the caller that the code does not enforce; it leaves the application free to release at any time, and as often as it
likes to call again. The other three runs set `OrderlyCalls` to `FALSE`. A first call is always at rest
(`OneCallIsOrderly`). When `connectDevice` is called again earlier, or two bonded devices match the name, TLC finds
`OneConnection`, `LinkIsReachable` and `NothingThrows` violated within a dozen steps: two makers interleave their
unlocked test and assignment of `connectedThread`, and one of them starts a thread that has been started, an exception
that ends the application.

In `usb_camera` one device is enough for what several threads do to its entry; devices meet only in the count of the
check and in the loop of `destroy`. Four blocks are the original, its successor after a close, and a clone of each; four
calls reach register, open, camera open and a close of any of them. Five calls (1.6 million states) were checked for the
invariants too. `components` has 2 client threads and 3 messages (init, start or stop, release), 2 names and 2 device
objects (a name connected twice, or two names) of up to 2 drivers, 3 sensors, 2 cameras with 2 callbacks waiting and any
number of images, 3 users and 3 opens (a failed one between two others). The components share no state: `component` chooses the one that moves, so
that their states add up.

`CHECK_DEADLOCK FALSE` everywhere, because the systems do stop: a destroyed engine, a join that never returns, a
released Bluetooth component.

Fairness. Every thread that has been created makes progress (weak fairness of its steps), as the platform's scheduler
provides; a call in progress proceeds; the main looper handles its messages; `connect` returns and `accept` throws on a
closed socket, as the Bluetooth stack does. No fairness is assumed of application calls, arriving frames or data,
spurious wakeups, successful connections or the loss of one. `CaptureJoinReturns` uses the fairness of the timed wait's
expiry, which `pthread_cond_timedwait` guarantees. In `USBMonitor` each of the three threads is weakly fair; the handler
thread is also strongly fair to messages, as the check of the devices is posted with a delay and the messages before it
are due first. In `MCComponents` the audio thread, every getter, the sensors' task and a call of connect in progress, the
closing thread and the background thread are weakly fair: timeouts pass and threads are scheduled. Nothing is assumed of
devices, users, the camera service and the application.

## 4. Proofs

The theorems about the preview hold under `PreviewConstants` only: finitely many capture threads and positive
capacities.

* `TypeCorrect`. The type invariant is inductive alone; it bounds the queue by `MAX_FRAME` and the pool by
  `FRAME_POOL_SZ`.
* `LifecycleHolds`. `StoppedIsQuiet` says nothing between calls, so it is not inductive. `Lifecycle` adds what each
  phase guarantees: nothing exists before creation (`NotYetCreated`), the steps of stop run with the flag cleared
  (`StopsStopped`), what follows the join has no preview thread (`StoppedIsJoined`), the stream exists only while the
  preview thread owns it (`StreamIsOwned`, `AddingIsStreaming`), and the queues are empty after their clearing
  (`QueuesCleared`). It is inductive together with `TypeOK`, and implies `StoppedIsQuiet` (`StopQuiet`).
* `PreviewAwake`. `SleepsOnEmpty`, which places the sleeping thread at its wait and the queue empty, is inductive
  relative to `Lifecycle`.
* `CaptureAwake`. Inductive with `TypeOK`, because the put broadcasts; with several threads on one condition variable a
  single signal would not do.
* `FramesAreAccountedFor`. Needs `Lifecycle` (a stop clears the queues when no other thread holds them) and
  `ConvertedIsDrawing` (a frame kept for recording belongs to a thread that is drawing it). The argument compares the
  frames outside the pool with the number of holders: a lemma each for taking and recycling, and lemmas on
  cardinality for a thread that starts or ceases to hold a frame.

* `USBMonitorProof`, under `MonitorConstants` (finitely many devices). `MonitorTypeCorrect` first. The safety
  theorems share one inductive invariant: a block's closing has been heard exactly when it is closed, entries of the map
  are originals under their own device and the blocks threads hold are originals (`KnownBlocks`); a block about to be
  stored is known to nobody else and not closed (`NewBlocks`); the camera's clone is known only to the camera and to the
  thread that closes it (`CameraShape`); and which thread can be at which place (`ThreadShape`, `MonitorShape`).
  `PromiseIsSafe` maps each action to an action of `ControlBlocks` or to a stutter; `Put` is the step that needs the
  invariant, since only a block that is not closed may be published. The fairness of `ControlBlocks` is only
  model-checked.
* `USBMonitorAnswers`. `AnswersAreCounted`: lemmas on the number of connects in a queue that grows or loses its head
  (a bijection of index sets), and an invariant that places the handler: it has a device exactly between taking a connect
  and answering it.
* `RuxorBluetoothSession`, under `BluetoothConstants`, `Matching = 1` and `OrderlyCalls \/ MaxCalls = 1`, for any number of
  makers and messages and of calls at rest: one connection is open at most, it is reachable, no thread is started twice, and the handler acts on the
  disconnect of the link it cancels. None of the four is inductive. `SessionInv` says that every maker but the current one
  is `Spent`, with no open link and none to come, and that the current one is `OnItsWay` (no `connectedThread` yet),
  `Linked`, `Lost` (one disconnect message is due, or the handler is at it) or about to be replaced (`Restarting`), in
  that order and around again; between two sessions all of them are spent, which is where a call at rest begins. The
  proof follows each phase through the steps that can occur in it. `OneCallIsOrderly` shows that a single call
  is made at rest without being made to (`NoCall`), so all of this holds of one session without a condition on its caller.
* `ComponentsProof`. `GettersMissNoWakeup`: the only step that makes an object wakes all. `SensorTaskSurvives`
  needs that before clear the index never exceeds the size counted, nor that the size of the list, and that there is one
  task at most (`TaskShape`). `DeliveredFramesAreThere` needs that the list holds at
  most two frames but in a delivery, and that the application clears it only when no callback runs. `ImageIsHeld` is a
  lemma on cardinality: one more holder than the count says. `PreviewShowsItsMode` and `ClonesAreClosed` are inductive
  together (`UVCSourceInv`) with the shape of the camera object: while a recording is stopped or a camera closed nothing
  records, a recording that was not early has an open camera, and so has a preview. `SensorTypeCorrect` is of this module.
* `ComponentsTypeProof`. `AudioTypeOK` is inductive alone; it includes that the getter using the object holds `mSync`.
  The others are not: `SerialTypeOK` needs that a permission asked for is for a device, `CameraTypeOK` takes from
  `CameraInv` that the list has at most three frames, and `UVCSourceTypeOK` needs that clones and the permission asked
  for do not exceed the opens. `ClearClosesMapped`, an action property, needs that during clear
  every open entry of the map is still to be closed or being closed. `ClosedPortsAreNotRead` says nothing of two drivers and
  so needs to keep them apart: `ReceiversShape` says that the receivers of an object are those of the drivers its loop has
  been through, and that the one receiver of a product with one port is the one that `closeDevice` joins.

What eventually happens is out of the prover's reach, but a good part of the reason is not: that the system never moves
away from it. For each liveness property a theorem states this safety half, as an invariant or an action property of the
specification without its fairness; where something must end, a rank, a bound on the steps that are left, replaces
"eventually". What stays with TLC is that the steps are taken.

| Liveness property | Theorem | What is proved |
|---|---|---|
| `CaptureJoinReturns` | `StoppedThreadsRunDown` | while `stopPreview` joins, every step of the preview thread or of a capture thread lowers that thread's rank (`PreviewRest`, `CaptureRest`), timeouts of the wait included; no other step raises it, but the one creation of a capture thread that may be due. The flag is known to be false from `Lifecycle` |
| `FullQueueDrains` | `FullQueueGetsRoom` | while the preview runs with a full queue, a preview thread that serves it is awake, and each of its steps takes a frame or brings it nearer to taking one, which at most seven steps do; uses `Lifecycle` and `PreviewAwake` |
| `CancelledInLoopEnds` | `CancelledMakerRunsDown` | a maker cancelled in its loop stays cancelled and has at most eight steps left, of any calls and any number of threads (no condition on the caller) |
| `ReadersEnd` | `LinklessReaderRunsDown` | a reader without a connection gets none and has at most three steps left, although `isLoop` may be set after its `cancel`; needs that a running reader has had a link and keeps its identity (`ReaderHasLink`) |
| `LostIsRetried` | `SessionNoticesLoss`, `SessionRestartTries` | until release the reader of a lost link is about to throw, or its message is due, or the handler is at it; the handler's restart leaves a thread that tries (orderly calls) |
| `ClientKeepsTrying` | `ClientIsNeverIdle` | until release a client with a target has a thread that goes on trying, a connection, or a lost one that the handler restarts or will hear of; needs that no connection is closed but by release and the handler (`LinksLive`, orderly calls) |
| `ConnectIsAnswered` | `AnswersAreCounted` | the answers owed are those of the connects queued and of the one in progress, so none is lost or given twice |
| `CloseEnds` | `CloseGetsItsPermit`, `JoinWaitsForLess` | `closeCamera` finds its semaphore free, and the thread it joins has ever fewer callbacks to run |
| `MessagesAreHandled` | `AudioThreadGetsOn` | every step of the audio thread lowers its work, to which only a message that is sent (`SendPost`) adds |
| `GettersAreWoken` | `WaitersKeepTheirWake` | what will wake a getter stays due until it does |
| `EverySensorIsRead` | `SensorsAreReadInTurn` | the sensor read is the next one or the first, and the index starts anew only after the last, whatever connects come between; a sensor or the listener that throws ends the task, which the property allows |
| `KeepsPromise` | `PromiseIsSafe` | the safety part of `ControlBlocks` |

`StoppedThreadsRunDown` does not contradict `PreviewJoinReturns` of section 6: the rank of a preview thread that sleeps in
`waitPreviewFrame` is not 0, and nobody is obliged to wake it.

TLC checked the strengthenings and each of the action properties above on the runs' instances before they were proved. Only
model-checked: the liveness properties themselves, those of the table, since the prover has no rule for fairness and ENABLED; and Bluetooth under calls that are not at rest
(`bluetooth_two_calls`), where the theorems of `RuxorBluetoothProof` hold and those of `RuxorBluetoothSession` do not.

## 5. Not modelled

Pixel conversion and copying, camera controls (one libuvc call each), descriptors and formats, vendored libraries, the
user interface. Of the components that have a module: the timed split of USB recordings (dead code), the inside of
`UVCCamera.cpp`'s connect and release, the audio callbacks, Bluetooth's discovery and write. `KViewFlipper` is one index
on one thread. `PROJECT.json` gives the reason for each part and lists the hazards no property covers.

## 6. Disagreements between the code and what it says

* `PreviewJoinReturns`: `stopPreview` may wait for ever. It clears `mIsRunning` and signals without the mutex
  (UVCPreview.cpp:367-368), and the preview thread waits without a timeout and without testing the flag (455-456).
* `CalleeIsInstalled`: "wait finishing capturing" (227) does not keep `setFrameCallback` from deleting the object the
  capture thread is calling.
* `NoCaptureAfterStop`: the flag that should "confirm capture_thread was be created" (537) is set after the thread is
  created, so stop may miss the thread.
* `CancelFinishes`: `ConnectThread.cancel` "causes the thread to finish" (RuxorBluetoothImpl.kt:274), unless it comes
  before `run` sets `isLoop` (250).
* `ClonesAreNotHandled`: "USBMonitor never handle cloned UsbControlBlock" (USBMonitor.java:1086), but closing a clone
  removes the original from the map (1380). It stays open where neither a detach nor `destroy` finds it.
* `DeliveredAsRead`: "send the obtained bytes" (309): the message refers to a buffer the next read overwrites.

Three properties of `components` name what they except, and TLC refutes each without its exception: a device of a product
with two ports is read after its close (`NoReadOfClosedPort` without `matched = 1`; RuxorUsbDevice.kt:44-56); the preview of
a camera connected during a recording, of one whose recorder failed at its start, and of one whose recorder has just been
released do not draw where the flag says (`SurfaceOfMode`; KUVCCameraSource.kt:638-668); and a sensor task after `clear` and
a new connect reads past its list (`TaskSurvivesConnects`; RuxorSensorDeviceImpl.kt:21). No text of the repository speaks of
these cases, so they are hazards and not findings.

A related leak is not a property: `setFrameCallback` given the object already installed keeps the new global reference
it was handed.

## 7. What is left

1. For Bluetooth, an abstract link (connected, lost, trying) that `Spec` with orderly calls implements.
2. A run of the preview engine with a format that cannot be negotiated, and one with two recording surfaces.
3. Pure algorithms: rows written by `copyFrame`, `ObjectArray`.
