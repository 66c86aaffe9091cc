------------------------------ MODULE USBMonitor ------------------------------
(***************************************************************************)
(* The USB side of the library: USBMonitor, its UsbControlBlocks and the   *)
(* UVCCamera that is opened with one.                                      *)
(*                                                                         *)
(* Three threads run this code. "main" delivers the broadcasts of the USB   *)
(* service to mUsbReceiver; "handler" runs what is posted to mAsyncHandler; *)
(* "app" is the thread of the application that makes the calls. mCtrlBlocks *)
(* is a concurrent map and nothing else orders the three, so each access of *)
(* it is a step: testing the map, filling it, closing a connection and      *)
(* removing the entry. A UsbDevice equals another by the name of its node,  *)
(* which a device gets anew whenever it is plugged in: a Device comes once  *)
(* and goes once.                                                           *)
(***************************************************************************)
EXTENDS Integers, Sequences, FiniteSets

CONSTANTS
  Device,     \* USB devices
  Block,      \* identities of UsbControlBlock objects
  None,       \* no device, no block
  MaxCalls    \* bound: calls the application makes

ASSUME MonitorConstants ==
  IsFiniteSet(Device) /\ None \notin Device \cup Block /\ MaxCalls \in Nat

VARIABLES
  usb, dialog, inbox,    \* the USB service: devices, open permission requests, broadcasts
  monitor,               \* the other fields of USBMonitor
  mCtrlBlocks,
  queue,                 \* messages of mAsyncHandler that are due in order
  block,                 \* the UsbControlBlock objects
  waiting,               \* connects posted for a device that the listener has no answer to
  thread,                \* the call each thread is in
  client,                \* the application: the blocks it was given, its calls
  camera                 \* the application's UVCCamera

service == <<usb, dialog, inbox>>
blocks  == <<mCtrlBlocks, block>>
vars    == <<service, monitor, blocks, queue, waiting, thread, client, camera>>

Thread == {"app", "main", "handler"}

Pcs == {"idle", "put", "check", "tell", "close", "unmap", "detach", "destroy",
        "clone", "connect", "list", "compare", "dead"}

Message == [what: {"connect", "cancel", "attach", "detach"}, devs: SUBSET Device]
Broadcast == [what: {"attached", "granted", "denied", "detached"}, dev: Device]

MonitorState ==
  [registered: BOOLEAN, destroyed: BOOLEAN, quit: BOOLEAN, counts: Nat, known: SUBSET Device,
   checks: Nat, list: SUBSET Device, more: BOOLEAN,
   keys: [Device -> {"other", "listed", "visited"}]]
BlockState ==
  [conn: {"free", "open", "null", "closed"}, dev: Device \cup {None}, copy: BOOLEAN, heard: BOOLEAN]
ThreadState == [pc: Pcs, dev: Device \cup {None}, blk: Block \cup {None}, then: Pcs]

TypeOK ==
  /\ usb \in [Device -> {"absent", "plugged", "granted", "gone"}]
  /\ dialog \subseteq Device
  /\ inbox \in Seq(Broadcast)
  /\ monitor \in MonitorState
  /\ mCtrlBlocks \in [Device -> Block \cup {None}]
  /\ queue \in Seq(Message)
  /\ block \in [Block -> BlockState]
  /\ \A b \in Block : block[b].conn # "free" => block[b].dev \in Device
  /\ waiting \in [Device -> Int]
  /\ thread \in [Thread -> ThreadState]
  /\ client \in [held: SUBSET Block, calls: 0..MaxCalls]
  /\ camera \in [blk: Block \cup {None}, native: BOOLEAN]

Idle == [pc |-> "idle", dev |-> None, blk |-> None, then |-> "idle"]

Init ==
  /\ usb = [d \in Device |-> "absent"] /\ dialog = {} /\ inbox = <<>>
  /\ monitor = [registered |-> FALSE, destroyed |-> FALSE, quit |-> FALSE,
                counts |-> 0, known |-> {}, checks |-> 0,
                list |-> {}, more |-> FALSE, keys |-> [d \in Device |-> "other"]]
  /\ mCtrlBlocks = [d \in Device |-> None]
  /\ queue = <<>>
  /\ block = [b \in Block |-> [conn |-> "free", dev |-> None, copy |-> FALSE, heard |-> FALSE]]
  /\ waiting = [d \in Device |-> 0]
  /\ thread = [t \in Thread |-> Idle]
  /\ client = [held |-> {}, calls |-> 0]
  /\ camera = [blk |-> None, native |-> FALSE]

-----------------------------------------------------------------------------
(* What the handlers share.                                                *)

At(t, pc) == thread[t].pc = pc
Goto(t, pc) == thread' = [thread EXCEPT ![t].pc = pc]
Return(t) == thread' = [thread EXCEPT ![t] = Idle]
GoOn(t) == IF thread[t].then = "idle" THEN Return(t) ELSE Goto(t, thread[t].then)

Attached == {d \in Device : usb[d] \in {"plugged", "granted"}}

\* mAsyncHandler.post: refused once the looper has quit.
Post(what, devs) ==
  queue' = IF monitor.quit THEN queue ELSE Append(queue, [what |-> what, devs |-> devs])

\* updatePermission.
Known(d, permitted) == IF permitted THEN monitor.known \cup {d} ELSE monitor.known \ {d}

ProcessConnect(d) ==
  IF monitor.destroyed THEN UNCHANGED <<monitor, queue, waiting>>
  ELSE /\ monitor' = [monitor EXCEPT !.known = Known(d, TRUE)]
       /\ Post("connect", {d})
       /\ waiting' = [waiting EXCEPT ![d] = @ + 1]

ProcessCancel(d) ==
  /\ UNCHANGED waiting
  /\ IF monitor.destroyed THEN UNCHANGED <<monitor, queue>>
     ELSE /\ monitor' = [monitor EXCEPT !.known = Known(d, FALSE)]
          /\ Post("cancel", {d})

\* The UsbControlBlock constructors: UsbManager.openDevice, tried twice, may give no
\* connection; it gives none for a device that is gone or has no permission.
Opened(b, d, copy, c) ==
  /\ block[b].conn = "free"
  /\ b = CHOOSE x \in Block : block[x].conn = "free"
  /\ c = "open" => usb[d] = "granted"
  /\ block' = [block EXCEPT ![b] = [conn |-> c, dev |-> d, copy |-> copy, heard |-> FALSE]]

-----------------------------------------------------------------------------
(* The USB service and the user.                                           *)

\* Some devices never send the broadcast of an attached device.
PlugIn(d) ==
  /\ usb[d] = "absent"
  /\ \E s \in {"plugged", "granted"} : usb' = [usb EXCEPT ![d] = s]
  /\ inbox' \in {inbox, IF monitor.registered
                        THEN Append(inbox, [what |-> "attached", dev |-> d]) ELSE inbox}
  /\ UNCHANGED <<dialog, monitor, blocks, queue, waiting, thread, client, camera>>

Unplug(d) ==
  /\ d \in Attached
  /\ usb' = [usb EXCEPT ![d] = "gone"]
  /\ dialog' = dialog \ {d}
  /\ inbox' = IF monitor.registered
              THEN Append(inbox, [what |-> "detached", dev |-> d]) ELSE inbox
  /\ UNCHANGED <<monitor, blocks, queue, waiting, thread, client, camera>>

\* The user answers the permission dialog.
Decide(d, answer) ==
  /\ d \in dialog
  /\ dialog' = dialog \ {d}
  /\ usb' = [usb EXCEPT ![d] = IF answer = "granted" THEN "granted" ELSE @]
  /\ inbox' = IF monitor.registered
              THEN Append(inbox, [what |-> answer, dev |-> d]) ELSE inbox
  /\ UNCHANGED <<monitor, blocks, queue, waiting, thread, client, camera>>

-----------------------------------------------------------------------------
(* UsbControlBlock.close, by any thread. The thread has gone to "close"     *)
(* with the block and the place to go on at.                                *)

Closing(t, b, d, then) ==
  thread' = [thread EXCEPT ![t] = [pc |-> "close", dev |-> d, blk |-> b, then |-> then]]

\* Mutant: mConnection is not set to null.
CloseConnectionKeeps(t) ==
  /\ At(t, "close")
  /\ \A u \in Thread : ~(At(u, "unmap") /\ thread[u].blk = thread[t].blk)
  /\ block' = [block EXCEPT ![thread[t].blk].heard = TRUE]
  /\ Goto(t, "unmap")
  /\ UNCHANGED <<service, monitor, mCtrlBlocks, queue, waiting, client, camera>>

\* close is synchronized: the other threads wait until its holder has unmapped. The
\* listener hears onDisconnect of a connection that was open.
CloseConnection(t) ==
  /\ At(t, "close")
  /\ LET b == thread[t].blk IN
       /\ \A u \in Thread : ~(At(u, "unmap") /\ thread[u].blk = b)
       /\ IF block[b].conn = "open"
          THEN /\ block' = [block EXCEPT ![b].conn = "closed", ![b].heard = TRUE]
               /\ Goto(t, "unmap")
          ELSE /\ UNCHANGED block
               /\ GoOn(t)
  /\ UNCHANGED <<service, monitor, mCtrlBlocks, queue, waiting, client, camera>>

\* Mutant: close leaves the map to its caller.
UnmapNothing(t) ==
  /\ At(t, "unmap")
  /\ GoOn(t)
  /\ UNCHANGED <<service, monitor, blocks, queue, waiting, client, camera>>

\* mCtrlBlocks.remove(getDevice()): whatever block the device has in the map.
Unmap(t) ==
  /\ At(t, "unmap")
  /\ mCtrlBlocks' = [mCtrlBlocks EXCEPT ![block[thread[t].blk].dev] = None]
  /\ GoOn(t)
  /\ UNCHANGED <<service, monitor, queue, block, waiting, client, camera>>

\* openDevice, and the connect message, found no block: a new one.
NewBlock(t, d) ==
  \E b \in Block, c \in {"open", "null"} :
    /\ Opened(b, d, FALSE, c)
    /\ thread' = [thread EXCEPT ![t] = [Idle EXCEPT !.pc = "put", !.dev = d, !.blk = b]]

Put(t) ==
  /\ At(t, "put")
  /\ mCtrlBlocks' = [mCtrlBlocks EXCEPT ![thread[t].dev] = thread[t].blk]
  /\ IF t = "app"
     THEN /\ Return(t)
          /\ client' = [client EXCEPT !.held = @ \cup {thread[t].blk}]
     ELSE /\ Goto(t, "check")
          /\ UNCHANGED client
  /\ UNCHANGED <<service, monitor, queue, block, waiting, camera>>

-----------------------------------------------------------------------------
(* mUsbReceiver, on the main thread.                                       *)

Receive(what, d) ==
  /\ At("main", "idle") /\ monitor.registered
  /\ inbox # <<>> /\ Head(inbox) = [what |-> what, dev |-> d]
  /\ inbox' = Tail(inbox)
  /\ UNCHANGED <<usb, dialog, block, client, camera>>

OnAttached(d) ==
  /\ Receive("attached", d)
  /\ UNCHANGED <<mCtrlBlocks, waiting, thread>>
  /\ IF monitor.destroyed THEN UNCHANGED <<monitor, queue>>
     ELSE /\ monitor' = [monitor EXCEPT !.known = Known(d, usb[d] = "granted")]
          /\ Post("attach", {d})

OnPermission(d, answer) ==
  /\ Receive(answer, d)
  /\ UNCHANGED <<mCtrlBlocks, thread>>
  /\ IF answer = "granted" THEN ProcessConnect(d) ELSE ProcessCancel(d)

OnDetached(d) ==
  /\ Receive("detached", d)
  /\ UNCHANGED <<monitor, queue, waiting>>
  /\ IF monitor.destroyed THEN UNCHANGED <<mCtrlBlocks, thread>>
     ELSE /\ mCtrlBlocks' = [mCtrlBlocks EXCEPT ![d] = None]
          /\ IF mCtrlBlocks[d] # None THEN Closing("main", mCtrlBlocks[d], d, "detach")
             ELSE thread' = [thread EXCEPT !["main"] = [Idle EXCEPT !.pc = "detach", !.dev = d]]

\* The end of the detached broadcast: mDeviceCounts = 0 and processDettach.
Detach ==
  /\ At("main", "detach")
  /\ monitor' = [monitor EXCEPT !.counts = 0]
  /\ IF monitor.destroyed THEN UNCHANGED queue ELSE Post("detach", {thread["main"].dev})
  /\ Return("main")
  /\ UNCHANGED <<service, blocks, waiting, client, camera>>

-----------------------------------------------------------------------------
(* mAsyncHandler's thread.                                                 *)

\* The runnable processConnect posts: the block in the map, or a new one.
RunConnect ==
  /\ At("handler", "idle") /\ queue # <<>> /\ Head(queue).what = "connect"
  /\ queue' = Tail(queue)
  /\ \E d \in Head(queue).devs :
       IF mCtrlBlocks[d] = None THEN NewBlock("handler", d)
       ELSE /\ thread' = [thread EXCEPT !["handler"] =
                            [Idle EXCEPT !.pc = "check", !.dev = d, !.blk = mCtrlBlocks[d]]]
            /\ UNCHANGED block
  /\ UNCHANGED <<service, monitor, mCtrlBlocks, waiting, client, camera>>

\* The listener hears an answer to a connect of d.
Answer(d) == waiting' = [waiting EXCEPT ![d] = @ - 1]

\* Mutant: a failed open is tried again by another message.
CheckConnectionRetries ==
  /\ At("handler", "check")
  /\ IF block[thread["handler"].blk].conn = "open"
     THEN Goto("handler", "tell") /\ UNCHANGED queue
     ELSE Return("handler") /\ Post("connect", {thread["handler"].dev})
  /\ UNCHANGED <<service, monitor, blocks, waiting, client, camera>>

\* Mutant: a failed open returns without onCancel.
CheckConnectionSilent ==
  /\ At("handler", "check")
  /\ IF block[thread["handler"].blk].conn = "open" THEN Goto("handler", "tell") ELSE Return("handler")
  /\ UNCHANGED <<service, monitor, blocks, queue, waiting, client, camera>>

\* getConnection() == null: onCancel; the block stays in the map.
CheckConnection ==
  /\ At("handler", "check")
  /\ IF block[thread["handler"].blk].conn = "open"
     THEN Goto("handler", "tell") /\ UNCHANGED waiting
     ELSE Return("handler") /\ Answer(thread["handler"].dev)
  /\ UNCHANGED <<service, monitor, blocks, queue, client, camera>>

\* onConnect gives the block to the application.
TellConnect ==
  /\ At("handler", "tell")
  /\ Answer(thread["handler"].dev)
  /\ client' = [client EXCEPT !.held = @ \cup {thread["handler"].blk}]
  /\ Return("handler")
  /\ UNCHANGED <<service, monitor, blocks, queue, camera>>

\* onAttach, onDetach or onCancel.
RunNotice ==
  /\ At("handler", "idle") /\ queue # <<>> /\ Head(queue).what # "connect"
  /\ queue' = Tail(queue)
  /\ UNCHANGED <<service, monitor, blocks, waiting, thread, client, camera>>

\* mDeviceCheckRunnable: the test of destroyed.
CheckDevices ==
  /\ At("handler", "idle") /\ monitor.checks > 0
  /\ monitor' = [monitor EXCEPT !.checks = @ - 1]
  /\ IF monitor.destroyed THEN UNCHANGED thread ELSE Goto("handler", "list")
  /\ UNCHANGED <<service, blocks, queue, waiting, client, camera>>

\* As far as its second look at mHasPermissions. getDeviceList throws when the monitor has
\* been destroyed meanwhile, and the exception ends the thread.
ListDevices ==
  /\ At("handler", "list")
  /\ IF monitor.destroyed THEN Goto("handler", "dead") /\ UNCHANGED monitor
     ELSE LET permitted == {d \in Device : usb[d] = "granted"} IN
          /\ monitor' = [monitor EXCEPT !.list = Attached, !.known = permitted,
                           !.more = Cardinality(permitted) > Cardinality(monitor.known)]
          /\ Goto("handler", "compare")
  /\ UNCHANGED <<service, blocks, queue, waiting, client, camera>>

\* Mutant: the check is not posted again.
CompareDevicesOnce ==
  /\ At("handler", "compare")
  /\ monitor' = [monitor EXCEPT !.counts = Cardinality(monitor.list), !.list = {}, !.more = FALSE]
  /\ Return("handler")
  /\ UNCHANGED <<service, blocks, queue, waiting, client, camera>>

\* The rest of it: onAttach for every device when there are more, and once again later.
CompareDevices ==
  LET n == Cardinality(monitor.list)
      announce == n > monitor.counts \/ monitor.more IN
  /\ At("handler", "compare")
  /\ monitor' = [monitor EXCEPT !.counts = IF announce THEN n ELSE @, !.list = {}, !.more = FALSE,
                   !.checks = IF monitor.quit THEN @ ELSE @ + 1]
  /\ IF announce /\ n > 0 THEN Post("attach", monitor.list) ELSE UNCHANGED queue
  /\ Return("handler")
  /\ UNCHANGED <<service, blocks, waiting, client, camera>>

-----------------------------------------------------------------------------
(* The calls of the application. Those that would change nothing (register  *)
(* when it is registered or destroyed, closing what is closed, a device that *)
(* was never plugged in) are left out.                                       *)

Call ==
  /\ At("app", "idle") /\ client.calls < MaxCalls
  /\ UNCHANGED usb

Counted == client' = [client EXCEPT !.calls = @ + 1]

Register ==
  /\ Call /\ Counted
  /\ ~monitor.destroyed /\ ~monitor.registered
  /\ monitor' = [monitor EXCEPT !.registered = TRUE, !.counts = 0, !.checks = @ + 1]
  /\ UNCHANGED <<dialog, inbox, blocks, queue, waiting, thread, camera>>

\* The receiver is forgotten with what it has not received.
Unregistered ==
  [monitor EXCEPT !.registered = FALSE, !.counts = 0, !.checks = IF monitor.destroyed THEN @ ELSE 0]

Unregister ==
  /\ Call /\ Counted
  /\ monitor.registered \/ monitor.checks > 0
  /\ monitor' = Unregistered /\ inbox' = <<>>
  /\ UNCHANGED <<dialog, blocks, queue, waiting, thread, camera>>

\* UsbManager.requestPermission opens a dialog, or throws.
RequestPermission(d) ==
  /\ Call /\ Counted
  /\ usb[d] # "absent"
  /\ UNCHANGED <<inbox, blocks, thread, camera>>
  /\ \/ /\ monitor.registered /\ usb[d] = "granted"
        /\ ProcessConnect(d)
        /\ UNCHANGED dialog
     \/ /\ monitor.registered /\ usb[d] = "plugged"
        /\ dialog' = dialog \cup {d}
        /\ UNCHANGED <<monitor, queue, waiting>>
     \/ /\ ~monitor.registered \/ usb[d] # "granted"
        /\ ProcessCancel(d)
        /\ UNCHANGED dialog

\* openDevice: SecurityException, the block in the map, or a new one.
OpenDevice(d) ==
  LET permitted == usb[d] = "granted" IN
  /\ Call
  /\ usb[d] # "absent"
  /\ monitor' = IF monitor.destroyed THEN monitor ELSE [monitor EXCEPT !.known = Known(d, permitted)]
  /\ IF permitted /\ ~monitor.destroyed /\ mCtrlBlocks[d] = None
     THEN NewBlock("app", d) /\ Counted
     ELSE /\ UNCHANGED <<block, thread>>
          /\ client' = [client EXCEPT !.calls = @ + 1, !.held = @ \cup
                          IF permitted /\ ~monitor.destroyed THEN {mCtrlBlocks[d]} ELSE {}]
  /\ UNCHANGED <<dialog, inbox, mCtrlBlocks, queue, waiting, camera>>

CloseBlock(b) ==
  /\ Call /\ Counted
  /\ b \in client.held /\ block[b].conn = "open"
  /\ Closing("app", b, None, "idle")
  /\ UNCHANGED <<dialog, inbox, monitor, blocks, queue, waiting, camera>>

\* UVCCamera.close: stopPreview, nativeRelease, then the clone it holds is closed and
\* forgotten. Only this thread uses the camera, so it may forget the clone first.
ReleaseCamera(d, then) ==
  /\ camera' = [blk |-> None, native |-> FALSE]
  /\ IF camera.blk # None THEN Closing("app", camera.blk, d, then)
     ELSE thread' = [thread EXCEPT !["app"] = [Idle EXCEPT !.pc = then, !.dev = d]]

CloseCamera ==
  /\ Call /\ Counted
  /\ camera.blk # None
  /\ ReleaseCamera(None, "idle")
  /\ UNCHANGED <<dialog, inbox, monitor, blocks, queue, waiting>>

\* UVCCamera.open closes the camera and works on a clone of the block it is given.
OpenCamera(b) ==
  /\ Call /\ Counted
  /\ b \in client.held
  /\ ReleaseCamera(block[b].dev, "clone")
  /\ UNCHANGED <<dialog, inbox, monitor, blocks, queue, waiting>>

\* Mutant: the camera works on the block of the monitor.
CloneBlockShares ==
  /\ At("app", "clone")
  /\ mCtrlBlocks[thread["app"].dev] # None
  /\ camera' = [camera EXCEPT !.blk = mCtrlBlocks[thread["app"].dev]]
  /\ Goto("app", "connect")
  /\ UNCHANGED <<service, monitor, blocks, queue, waiting, client>>

\* Mutant: the copy constructor forgets the device.
CloneBlockForgets ==
  /\ At("app", "clone")
  /\ \E b \in Block :
       /\ block[b].conn = "free" /\ usb[thread["app"].dev] = "granted"
       /\ block' = [block EXCEPT ![b] = [conn |-> "open", dev |-> None, copy |-> TRUE, heard |-> FALSE]]
       /\ camera' = [camera EXCEPT !.blk = b]
  /\ Goto("app", "connect")
  /\ UNCHANGED <<service, monitor, mCtrlBlocks, queue, waiting, client>>

\* clone() throws when it gets no connection, and open throws.
CloneBlock ==
  /\ At("app", "clone")
  /\ \/ /\ Return("app")
        /\ UNCHANGED <<block, camera>>
     \/ \E b \in Block :
          /\ Opened(b, thread["app"].dev, TRUE, "open")
          /\ camera' = [camera EXCEPT !.blk = b]
          /\ Goto("app", "connect")
  /\ UNCHANGED <<service, monitor, mCtrlBlocks, queue, waiting, client>>

\* nativeConnect; when it fails open throws and the clone stays in mCtrlBlock.
NativeConnect ==
  /\ At("app", "connect")
  /\ \E ok \in BOOLEAN : camera' = [camera EXCEPT !.native = ok]
  /\ Return("app")
  /\ UNCHANGED <<service, monitor, blocks, queue, waiting, client>>

\* destroy: unregister, then the keys of the map are visited.
Destroy ==
  /\ Call /\ Counted
  /\ ~monitor.destroyed
  /\ monitor' = [Unregistered EXCEPT !.destroyed = TRUE,
       !.keys = [d \in Device |-> IF mCtrlBlocks[d] # None THEN "listed" ELSE "other"]]
  /\ inbox' = <<>>
  /\ Goto("app", "destroy")
  /\ UNCHANGED <<dialog, blocks, queue, waiting, camera>>

\* The iterator of a concurrent map comes to every key there was, once, and may or may not
\* come to one that was added since.
DestroyBlock(d) ==
  /\ At("app", "destroy")
  /\ \/ monitor.keys[d] = "listed"
     \/ monitor.keys[d] = "other" /\ mCtrlBlocks[d] # None
  /\ monitor' = [monitor EXCEPT !.keys[d] = "visited"]
  /\ mCtrlBlocks' = [mCtrlBlocks EXCEPT ![d] = None]
  /\ IF mCtrlBlocks[d] # None THEN Closing("app", mCtrlBlocks[d], None, "destroy")
     ELSE UNCHANGED thread
  /\ UNCHANGED <<service, queue, block, waiting, client, camera>>

\* clear() drops an entry that was added behind the iterator, open as it is, and the looper
\* quits with its messages.
EndDestroy ==
  /\ At("app", "destroy")
  /\ \A d \in Device : monitor.keys[d] # "listed"
  /\ mCtrlBlocks' = [d \in Device |-> None]
  /\ monitor' = [monitor EXCEPT !.quit = TRUE, !.checks = 0, !.keys = [d \in Device |-> "other"]]
  /\ queue' = <<>>
  /\ Return("app")
  /\ UNCHANGED <<service, block, waiting, client, camera>>

-----------------------------------------------------------------------------

Service ==
  \E d \in Device : PlugIn(d) \/ Unplug(d) \/ Decide(d, "granted") \/ Decide(d, "denied")

AppCall ==
  \/ Register \/ Unregister \/ CloseCamera \/ Destroy
  \/ \E d \in Device : RequestPermission(d) \/ OpenDevice(d)
  \/ \E b \in Block : CloseBlock(b) \/ OpenCamera(b)

\* What a thread does by itself once a call, a broadcast or a message has started.
AppStep ==
  \/ CloneBlock \/ NativeConnect \/ EndDestroy
  \/ \E d \in Device : DestroyBlock(d)

MainStep ==
  \/ Detach
  \/ \E d \in Device : OnAttached(d) \/ OnDetached(d) \/ OnPermission(d, "granted")
                       \/ OnPermission(d, "denied")

HandlerStep ==
  \/ RunConnect \/ CheckConnection \/ TellConnect \/ RunNotice
  \/ CheckDevices \/ ListDevices \/ CompareDevices

BlockStep(t) == CloseConnection(t) \/ Unmap(t) \/ Put(t)

Next ==
  \/ Service \/ AppCall \/ AppStep \/ MainStep \/ HandlerStep
  \/ \E t \in Thread : BlockStep(t)

\* Every thread is scheduled; a message is due before the next check of the devices,
\* which is posted with a delay. Nothing is assumed of the devices, the user and the
\* application.
Fairness ==
  /\ WF_vars(AppStep \/ BlockStep("app"))
  /\ WF_vars(MainStep \/ BlockStep("main"))
  /\ WF_vars(HandlerStep \/ BlockStep("handler"))
  /\ SF_vars(RunConnect \/ RunNotice)

Spec == Init /\ [][Next]_vars /\ Fairness

-----------------------------------------------------------------------------
(* Properties.                                                             *)

\* A closed block is in the map of open devices only while the thread that closed it
\* is about to remove it: no openDevice and no connect of a device finds a closed block
\* afterwards.
ClosedBlockLeaves ==
  \A d \in Device :
    mCtrlBlocks[d] # None /\ block[mCtrlBlocks[d]].conn = "closed"
      => \E t \in Thread : At(t, "unmap") /\ thread[t].blk = mCtrlBlocks[d]

\* A camera that is connected has its connection: detaching the device, closing the
\* block it was opened with and destroying the monitor leave the clone alone.
CameraHasConnection == camera.native => block[camera.blk].conn = "open"

\* As long as the monitor is registered a check of the devices is posted or running.
RegisteredIsChecked ==
  monitor.registered => monitor.checks > 0 \/ At("handler", "list") \/ At("handler", "compare")

\* The listener owes as many answers as there are connects in the queue and in progress,
\* and it owes none for ever unless the monitor is destroyed.
AnswersAreOwed ==
  ~monitor.quit =>
    \A d \in Device :
      waiting[d] = Cardinality({i \in DOMAIN queue : queue[i] = [what |-> "connect", devs |-> {d}]})
                   + (IF thread["handler"].dev = d THEN 1 ELSE 0)

ConnectIsAnswered ==
  (\E d \in Device : waiting[d] > 0) ~> (monitor.destroyed \/ \A d \in Device : waiting[d] = 0)

\* What the control blocks promise to whoever uses them.
Promise == INSTANCE ControlBlocks WITH
  conn  <- [b \in Block |-> block[b].conn],
  table <- mCtrlBlocks,
  heard <- {b \in Block : block[b].heard}

KeepsPromise == Promise!Spec

\* "USBMonitor never handle cloned UsbControlBlock": closing a clone leaves the map of
\* the monitor alone.
ClonesAreNotHandled ==
  [][\A t \in Thread : At(t, "unmap") /\ block[thread[t].blk].copy /\ thread'[t] # thread[t]
       => mCtrlBlocks' = mCtrlBlocks]_vars
=============================================================================
