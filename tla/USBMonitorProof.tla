---------------------------- MODULE USBMonitorProof ----------------------------
(***************************************************************************)
(* Theorems about USBMonitor for every set of devices and blocks and every  *)
(* number of calls: its type, what becomes of closed blocks, the connection *)
(* of the camera, the check of the devices, and that the detailed           *)
(* specification keeps the promise of ControlBlocks.                       *)
(*                                                                         *)
(* The inductive invariant says who knows a block: a new one is known to    *)
(* the one thread that is about to put it in the map, a clone to the camera *)
(* alone, and whatever anybody else holds has been opened as an original.   *)
(***************************************************************************)
EXTENDS USBMonitor, FiniteSetTheorems, TLAPS

\* What a thread keeps for the place it is at.
ThreadShape ==
  \A t \in Thread :
    /\ thread[t].pc \in {"put", "check", "tell", "close", "unmap"} => thread[t].blk \in Block
    /\ thread[t].pc \in {"put", "check", "tell", "clone", "detach"} => thread[t].dev \in Device
    /\ thread[t].pc \in {"close", "unmap"} =>
         \/ thread[t].then \in {"idle", "destroy"}
         \/ thread[t].then \in {"clone", "detach"} /\ thread[t].dev \in Device

Destroying ==
  \/ thread["app"].pc = "destroy"
  \/ thread["app"].pc \in {"close", "unmap"} /\ thread["app"].then = "destroy"

MonitorShape ==
  /\ monitor.registered => ~monitor.destroyed
  /\ monitor.quit => monitor.destroyed
  /\ Destroying => monitor.destroyed
  /\ RegisteredIsChecked

\* Whoever knows a block, it has been opened; only the camera and the thread that closes
\* it know a clone.
Original(b) == block[b].conn # "free" /\ ~block[b].copy

KnownBlocks ==
  /\ \A b \in Block : block[b].heard <=> block[b].conn = "closed"
  /\ \A d \in Device :
       mCtrlBlocks[d] # None => Original(mCtrlBlocks[d]) /\ block[mCtrlBlocks[d]].dev = d
  /\ \A b \in client.held : Original(b)
  /\ \A t \in Thread : thread[t].blk # None => block[thread[t].blk].conn # "free"
  /\ \A t \in Thread : thread[t].pc \in {"check", "tell"} => ~block[thread[t].blk].copy

\* A block that is about to be put in the map is known to nobody else.
NewBlocks ==
  \A t \in Thread : thread[t].pc = "put" =>
    /\ block[thread[t].blk].conn \in {"open", "null"}
    /\ ~block[thread[t].blk].copy
    /\ block[thread[t].blk].dev = thread[t].dev
    /\ thread[t].blk \notin client.held
    /\ \A d \in Device : mCtrlBlocks[d] # thread[t].blk
    /\ \A u \in Thread \ {t} : thread[u].blk # thread[t].blk

CameraShape ==
  /\ camera.blk # None => block[camera.blk].conn # "free" /\ block[camera.blk].copy
  /\ camera.native => camera.blk # None
  /\ thread["app"].pc = "connect" => camera.blk # None /\ block[camera.blk].conn = "open"
  /\ CameraHasConnection
  /\ \A t \in Thread : thread[t].pc \in {"close", "unmap"} => thread[t].blk # camera.blk

Shape == ThreadShape /\ KnownBlocks /\ NewBlocks /\ CameraShape /\ ClosedBlockLeaves

Inv == TypeOK /\ MonitorShape /\ Shape

-----------------------------------------------------------------------------
(* Type correctness.                                                        *)

LEMMA CountsType == ASSUME NEW S \in SUBSET Device PROVE Cardinality(S) \in Nat
BY MonitorConstants, FS_Subset, FS_CardinalityType

LEMMA PostType ==
  ASSUME TypeOK, NEW what \in {"connect", "cancel", "attach", "detach"},
         NEW devs \in SUBSET Device, Post(what, devs)
  PROVE  queue' \in Seq(Message)
<1>1. [what |-> what, devs |-> devs] \in Message
  BY DEF Message
<1> QED
  BY <1>1 DEF Post, TypeOK

LEMMA SendType ==
  ASSUME TypeOK, NEW what \in {"attached", "granted", "denied", "detached"}, NEW d \in Device
  PROVE  Append(inbox, [what |-> what, dev |-> d]) \in Seq(Broadcast)
<1>1. [what |-> what, dev |-> d] \in Broadcast
  BY DEF Broadcast
<1> QED
  BY <1>1 DEF TypeOK

LEMMA KnownType ==
  ASSUME TypeOK, NEW d \in Device, NEW permitted \in BOOLEAN
  PROVE  [monitor EXCEPT !.known = Known(d, permitted)] \in MonitorState
<1>1. monitor \in MonitorState
  BY DEF TypeOK
<1>2. Known(d, permitted) \in SUBSET Device
  BY <1>1 DEF Known, MonitorState
<1> QED
  BY <1>1, <1>2 DEF MonitorState

\* What a thread returns to, goes to or closes.
LEMMA ReturnType ==
  ASSUME TypeOK, NEW t \in Thread, Return(t)
  PROVE  thread' \in [Thread -> ThreadState]
BY DEF TypeOK, Return, Idle, ThreadState, Pcs

LEMMA GotoType ==
  ASSUME TypeOK, NEW t \in Thread, NEW pc \in Pcs, Goto(t, pc)
  PROVE  thread' \in [Thread -> ThreadState]
<1>1. thread[t] \in ThreadState
  BY DEF TypeOK
<1>2. [thread[t] EXCEPT !.pc = pc] \in ThreadState
  BY <1>1 DEF ThreadState
<1> QED
  BY <1>2 DEF TypeOK, Goto

LEMMA GoOnType ==
  ASSUME TypeOK, NEW t \in Thread, GoOn(t)
  PROVE  thread' \in [Thread -> ThreadState]
<1>1. thread[t].then \in Pcs
  BY DEF TypeOK, ThreadState
<1> QED
  BY <1>1, ReturnType, GotoType DEF GoOn

LEMMA ClosingType ==
  ASSUME TypeOK, NEW t \in Thread, NEW b \in Block, NEW d \in Device \cup {None},
         NEW then \in Pcs, Closing(t, b, d, then)
  PROVE  thread' \in [Thread -> ThreadState]
BY DEF TypeOK, Closing, ThreadState, Pcs

\* The block a constructor makes.
LEMMA OpenedType ==
  ASSUME TypeOK, NEW b \in Block, NEW d \in Device, NEW copy \in BOOLEAN,
         NEW c \in {"open", "null"}, Opened(b, d, copy, c)
  PROVE  /\ block' \in [Block -> BlockState]
         /\ \A x \in Block : block'[x].conn # "free" => block'[x].dev \in Device
BY DEF Opened, TypeOK, BlockState

LEMMA NewBlockType ==
  ASSUME TypeOK, NEW t \in Thread, NEW d \in Device, NewBlock(t, d)
  PROVE  /\ block' \in [Block -> BlockState]
         /\ \A x \in Block : block'[x].conn # "free" => block'[x].dev \in Device
         /\ thread' \in [Thread -> ThreadState]
<1> PICK b \in Block, c \in {"open", "null"} :
      /\ Opened(b, d, FALSE, c)
      /\ thread' = [thread EXCEPT ![t] = [Idle EXCEPT !.pc = "put", !.dev = d, !.blk = b]]
  BY DEF NewBlock
<1>1. [Idle EXCEPT !.pc = "put", !.dev = d, !.blk = b] \in ThreadState
  BY DEF Idle, ThreadState, Pcs
<1>2. thread' \in [Thread -> ThreadState]
  BY <1>1 DEF TypeOK
<1> QED
  BY <1>2, OpenedType

LEMMA InitType == Init => TypeOK
<1> SUFFICES ASSUME Init PROVE TypeOK
  OBVIOUS
<1>1. Idle \in ThreadState
  BY DEF Idle, ThreadState, Pcs
<1>2. /\ inbox \in Seq(Broadcast) /\ queue \in Seq(Message)
      /\ client \in [held: SUBSET Block, calls: 0..MaxCalls]
  BY MonitorConstants DEF Init
<1>3. /\ block \in [Block -> BlockState]
      /\ \A b \in Block : block[b].conn # "free" => block[b].dev \in Device
      /\ waiting \in [Device -> Int]
  BY DEF Init, BlockState
<1>4. monitor \in MonitorState
  <2>1. [d \in Device |-> "other"] \in [Device -> {"other", "listed", "visited"}]
    OBVIOUS
  <2> QED
    BY <2>1 DEF Init, MonitorState
<1>5. thread \in [Thread -> ThreadState]
  BY <1>1 DEF Init
<1> QED
  BY <1>2, <1>3, <1>4, <1>5 DEF Init, TypeOK

LEMMA ServiceType == TypeOK /\ Service => TypeOK'
<1> SUFFICES ASSUME TypeOK, NEW d \in Device,
               PlugIn(d) \/ Unplug(d) \/ Decide(d, "granted") \/ Decide(d, "denied")
             PROVE TypeOK'
  BY DEF Service
<1>1. CASE PlugIn(d)
  <2>1. usb' \in [Device -> {"absent", "plugged", "granted", "gone"}]
    BY <1>1 DEF PlugIn, TypeOK
  <2>2. inbox' \in Seq(Broadcast)
    <3>1. Append(inbox, [what |-> "attached", dev |-> d]) \in Seq(Broadcast) /\ inbox \in Seq(Broadcast)
      BY SendType DEF TypeOK
    <3>2. inbox' \in {inbox, Append(inbox, [what |-> "attached", dev |-> d])}
      BY <1>1 DEF PlugIn
    <3> QED
      BY <3>1, <3>2
  <2> QED
    BY <1>1, <2>1, <2>2 DEF PlugIn, TypeOK, blocks
<1>2. CASE Unplug(d)
  BY <1>2, SendType DEF Unplug, TypeOK, blocks
<1>3. CASE Decide(d, "granted")
  BY <1>3, SendType DEF Decide, TypeOK, blocks
<1>4. CASE Decide(d, "denied")
  BY <1>4, SendType DEF Decide, TypeOK, blocks
<1> QED
  BY <1>1, <1>2, <1>3, <1>4

LEMMA ProcessConnectType ==
  ASSUME TypeOK, NEW d \in Device, ProcessConnect(d)
  PROVE  monitor' \in MonitorState /\ queue' \in Seq(Message) /\ waiting' \in [Device -> Int]
<1>1. CASE monitor.destroyed
  BY <1>1 DEF ProcessConnect, TypeOK
<1>2. CASE ~monitor.destroyed
  <2>1. queue' \in Seq(Message)
    BY <1>2, PostType DEF ProcessConnect
  <2>2. monitor' \in MonitorState
    BY <1>2, KnownType DEF ProcessConnect
  <2>3. waiting' \in [Device -> Int]
    BY <1>2 DEF ProcessConnect, TypeOK
  <2> QED
    BY <2>1, <2>2, <2>3
<1> QED
  BY <1>1, <1>2

LEMMA ProcessCancelType ==
  ASSUME TypeOK, NEW d \in Device, ProcessCancel(d)
  PROVE  monitor' \in MonitorState /\ queue' \in Seq(Message) /\ waiting' \in [Device -> Int]
<1>1. CASE monitor.destroyed
  BY <1>1 DEF ProcessCancel, TypeOK
<1>2. CASE ~monitor.destroyed
  <2>1. queue' \in Seq(Message)
    BY <1>2, PostType DEF ProcessCancel
  <2>2. monitor' \in MonitorState
    BY <1>2, KnownType DEF ProcessCancel
  <2> QED
    BY <2>1, <2>2 DEF ProcessCancel, TypeOK
<1> QED
  BY <1>1, <1>2

LEMMA ReceiveType ==
  ASSUME TypeOK, NEW what, NEW d \in Device, Receive(what, d)
  PROVE  inbox' \in Seq(Broadcast)
BY DEF Receive, TypeOK

LEMMA MainType == TypeOK /\ ThreadShape /\ MainStep => TypeOK'
<1> SUFFICES ASSUME TypeOK, ThreadShape, MainStep PROVE TypeOK'
  OBVIOUS
<1>t. "main" \in Thread
  BY DEF Thread
<1>m. monitor \in MonitorState
  BY DEF TypeOK
<1>1. CASE Detach
  <2>1. queue' \in Seq(Message)
    <3>1. CASE monitor.destroyed
      BY <1>1, <3>1 DEF Detach, TypeOK
    <3>2. CASE ~monitor.destroyed
      <4>1. {thread["main"].dev} \in SUBSET Device
        BY <1>1 DEF Detach, At, ThreadShape, Thread
      <4> QED
        BY <1>1, <3>2, <4>1, PostType DEF Detach
    <3> QED
      BY <3>1, <3>2
  <2>2. monitor' \in MonitorState
    BY <1>1, <1>m DEF Detach, MonitorState
  <2> QED
    BY <1>1, <1>t, <2>1, <2>2, ReturnType DEF Detach, TypeOK, service, blocks
<1>2. ASSUME NEW d \in Device, OnAttached(d) PROVE TypeOK'
  <2>1. inbox' \in Seq(Broadcast)
    BY <1>2, ReceiveType DEF OnAttached
  <2>2. monitor' \in MonitorState /\ queue' \in Seq(Message)
    <3>1. CASE monitor.destroyed
      BY <1>2, <3>1 DEF OnAttached, TypeOK
    <3>2. CASE ~monitor.destroyed
      BY <1>2, <3>2, PostType, KnownType DEF OnAttached
    <3> QED
      BY <3>1, <3>2
  <2> QED
    BY <1>2, <2>1, <2>2 DEF OnAttached, Receive, TypeOK
<1>3. ASSUME NEW d \in Device, NEW answer, OnPermission(d, answer) PROVE TypeOK'
  <2>1. inbox' \in Seq(Broadcast)
    BY <1>3, ReceiveType DEF OnPermission
  <2> QED
    BY <1>3, <2>1, ProcessConnectType, ProcessCancelType DEF OnPermission, Receive, TypeOK
<1>4. ASSUME NEW d \in Device, OnDetached(d) PROVE TypeOK'
  <2>1. inbox' \in Seq(Broadcast)
    BY <1>4, ReceiveType DEF OnDetached
  <2>2. thread' \in [Thread -> ThreadState]
    <3>1. [Idle EXCEPT !.pc = "detach", !.dev = d] \in ThreadState
      BY DEF Idle, ThreadState, Pcs
    <3>2. mCtrlBlocks[d] # None => mCtrlBlocks[d] \in Block
      BY DEF TypeOK
    <3> QED
      BY <1>4, <1>t, <3>1, <3>2, ClosingType DEF OnDetached, TypeOK, Pcs
  <2>3. mCtrlBlocks' \in [Device -> Block \cup {None}]
    BY <1>4 DEF OnDetached, TypeOK
  <2> QED
    BY <1>4, <2>1, <2>2, <2>3 DEF OnDetached, Receive, TypeOK
<1> QED
  BY <1>1, <1>2, <1>3, <1>4 DEF MainStep

LEMMA HandlerType == TypeOK /\ ThreadShape /\ HandlerStep => TypeOK'
<1> SUFFICES ASSUME TypeOK, ThreadShape, HandlerStep PROVE TypeOK'
  OBVIOUS
<1>t. "handler" \in Thread
  BY DEF Thread
<1>m. monitor \in MonitorState
  BY DEF TypeOK
<1>a. ASSUME NEW d \in Device, Answer(d) PROVE waiting' \in [Device -> Int]
  BY <1>a DEF Answer, TypeOK
<1>1. CASE RunConnect
  <2>1. queue # <<>> /\ Head(queue) \in Message /\ queue' \in Seq(Message)
    BY <1>1 DEF RunConnect, TypeOK
  <2>2. PICK d \in Head(queue).devs :
          IF mCtrlBlocks[d] = None THEN NewBlock("handler", d)
          ELSE /\ thread' = [thread EXCEPT !["handler"] =
                            [Idle EXCEPT !.pc = "check", !.dev = d, !.blk = mCtrlBlocks[d]]]
               /\ UNCHANGED block
    BY <1>1 DEF RunConnect
  <2>3. d \in Device
    BY <2>1 DEF Message
  <2>4. CASE mCtrlBlocks[d] = None
    BY <1>1, <1>t, <2>1, <2>2, <2>3, <2>4, NewBlockType DEF RunConnect, TypeOK, service
  <2>5. CASE mCtrlBlocks[d] # None
    <3>1. mCtrlBlocks[d] \in Block
      BY <2>3, <2>5 DEF TypeOK
    <3>2. [Idle EXCEPT !.pc = "check", !.dev = d, !.blk = mCtrlBlocks[d]] \in ThreadState
      BY <2>3, <3>1 DEF Idle, ThreadState, Pcs
    <3> QED
      BY <1>1, <2>1, <2>2, <2>5, <3>2 DEF RunConnect, TypeOK, service
  <2> QED
    BY <2>4, <2>5
<1>2. CASE CheckConnection
  <2>1. "tell" \in Pcs
    BY DEF Pcs
  <2>2. thread' \in [Thread -> ThreadState] /\ waiting' \in [Device -> Int]
    <3>1. CASE block[thread["handler"].blk].conn = "open"
      BY <1>2, <1>t, <2>1, <3>1, GotoType DEF CheckConnection, TypeOK
    <3>2. CASE block[thread["handler"].blk].conn # "open"
      <4>1. thread["handler"].dev \in Device
        BY <1>2, <1>t DEF CheckConnection, At, ThreadShape
      <4> QED
        BY <1>2, <1>t, <1>a, <3>2, <4>1, ReturnType DEF CheckConnection
    <3> QED
      BY <3>1, <3>2
  <2> QED
    BY <1>2, <2>2 DEF CheckConnection, TypeOK, service, blocks
<1>3. CASE TellConnect
  <2>1. thread["handler"].blk \in Block /\ thread["handler"].dev \in Device
    BY <1>3 DEF TellConnect, At, ThreadShape, Thread
  <2>2. client' \in [held: SUBSET Block, calls: 0..MaxCalls]
    BY <1>3, <2>1 DEF TellConnect, TypeOK
  <2> QED
    BY <1>3, <1>t, <1>a, <2>1, <2>2, ReturnType DEF TellConnect, TypeOK, service, blocks
<1>4. CASE RunNotice
  BY <1>4 DEF RunNotice, TypeOK, service, blocks
<1>5. CASE CheckDevices
  <2>1. monitor' \in MonitorState
    <3>1. monitor' = [monitor EXCEPT !.checks = monitor.checks - 1] /\ monitor.checks - 1 \in Nat
      BY <1>5, <1>m DEF CheckDevices, MonitorState
    <3> QED
      BY <1>m, <3>1 DEF MonitorState
  <2>2. "list" \in Pcs
    BY DEF Pcs
  <2>3. thread' \in [Thread -> ThreadState]
    BY <1>5, <1>t, <2>2, GotoType DEF CheckDevices, TypeOK
  <2> QED
    BY <1>5, <2>1, <2>3 DEF CheckDevices, TypeOK, service, blocks
<1>7. CASE ListDevices
  <2>1. monitor' \in MonitorState
    <3>1. CASE monitor.destroyed
      BY <1>7, <1>m, <3>1 DEF ListDevices
    <3>2. CASE ~monitor.destroyed
      <4>1. Attached \in SUBSET Device
        BY DEF Attached
      <4> DEFINE permitted == {d \in Device : usb[d] = "granted"}
                 more == Cardinality(permitted) > Cardinality(monitor.known)
      <4>2. more \in BOOLEAN
        OBVIOUS
      <4>3. monitor' = [monitor EXCEPT !.list = Attached, !.known = permitted, !.more = more]
        BY <1>7, <3>2 DEF ListDevices
      <4> HIDE DEF permitted, more
      <4>4. permitted \in SUBSET Device
        BY DEF permitted
      <4> QED
        BY <1>m, <4>1, <4>2, <4>3, <4>4 DEF MonitorState
    <3> QED
      BY <3>1, <3>2
  <2>2. "compare" \in Pcs /\ "dead" \in Pcs
    BY DEF Pcs
  <2>3. thread' \in [Thread -> ThreadState]
    BY <1>7, <1>t, <2>2, GotoType DEF ListDevices, TypeOK
  <2> QED
    BY <1>7, <2>1, <2>3 DEF ListDevices, TypeOK, service, blocks
<1>6. CASE CompareDevices
  <2> DEFINE n == Cardinality(monitor.list)
             announce == n > monitor.counts \/ monitor.more
  <2>1. n \in Nat /\ monitor.list \in SUBSET Device
    BY <1>m, CountsType DEF MonitorState
  <2>2. monitor' = [monitor EXCEPT !.counts = IF announce THEN n ELSE @, !.list = {},
                      !.more = FALSE, !.checks = IF monitor.quit THEN @ ELSE @ + 1]
    BY <1>6 DEF CompareDevices
  <2>3. queue' \in Seq(Message)
    BY <1>6, <2>1, PostType DEF CompareDevices, TypeOK
  <2> HIDE DEF n, announce
  <2>c. (IF announce THEN n ELSE monitor.counts) \in Nat
    BY <1>m, <2>1 DEF MonitorState
  <2>k. (IF monitor.quit THEN monitor.checks ELSE monitor.checks + 1) \in Nat
    BY <1>m DEF MonitorState
  <2>4. monitor' \in MonitorState
    BY <1>m, <2>c, <2>k, <2>2 DEF MonitorState
  <2> QED
    BY <1>6, <1>t, <2>3, <2>4, ReturnType DEF CompareDevices, TypeOK, service, blocks
<1> QED
  BY <1>1, <1>2, <1>3, <1>4, <1>5, <1>6, <1>7 DEF HandlerStep

LEMMA BlockType ==
  ASSUME TypeOK, ThreadShape, NEW t \in Thread, BlockStep(t)
  PROVE  TypeOK'
<1>b. At(t, "close") \/ At(t, "put") \/ At(t, "unmap") => thread[t].blk \in Block
  BY DEF At, ThreadShape
<1>1. CASE CloseConnection(t)
  <2>1. "unmap" \in Pcs
    BY DEF Pcs
  <2>2. thread' \in [Thread -> ThreadState]
    BY <1>1, <2>1, GotoType, GoOnType DEF CloseConnection
  <2>3. /\ block' \in [Block -> BlockState]
        /\ \A b \in Block : block'[b].conn # "free" => block'[b].dev \in Device
    <3>1. thread[t].blk \in Block
      BY <1>1, <1>b DEF CloseConnection
    <3>2. \/ UNCHANGED block
          \/ /\ block[thread[t].blk].conn = "open"
             /\ block' = [block EXCEPT ![thread[t].blk].conn = "closed",
                                       ![thread[t].blk].heard = TRUE]
      BY <1>1 DEF CloseConnection
    <3>3. CASE UNCHANGED block
      BY <3>3 DEF TypeOK
    <3>4. CASE /\ block[thread[t].blk].conn = "open"
               /\ block' = [block EXCEPT ![thread[t].blk].conn = "closed",
                                         ![thread[t].blk].heard = TRUE]
      <4> DEFINE b == thread[t].blk
                 closed == [block[b] EXCEPT !.conn = "closed", !.heard = TRUE]
      <4>1. block' = [block EXCEPT ![b] = closed]
        BY <3>1, <3>4 DEF TypeOK
      <4>b. block[b] \in BlockState
        BY <3>1 DEF TypeOK
      <4>2. closed \in BlockState /\ closed.dev = block[b].dev
        BY <4>b DEF BlockState
      <4>3. block[b].dev \in Device
        BY <3>1, <3>4 DEF TypeOK
      <4> HIDE DEF closed, b
      <4> QED
        BY <4>1, <4>2, <4>3 DEF TypeOK
    <3> QED
      BY <3>2, <3>3, <3>4
  <2> QED
    BY <1>1, <2>2, <2>3 DEF CloseConnection, TypeOK, service
<1>2. CASE Unmap(t)
  BY <1>2, GoOnType DEF Unmap, TypeOK, service
<1>3. CASE Put(t)
  <2>1. "check" \in Pcs /\ thread[t].blk \in Block
    BY <1>3, <1>b DEF Pcs, Put
  <2>2. thread' \in [Thread -> ThreadState]
    BY <1>3, <2>1, GotoType, ReturnType DEF Put
  <2>3. client' \in [held: SUBSET Block, calls: 0..MaxCalls]
    <3>1. /\ client \in [held: SUBSET Block, calls: 0..MaxCalls]
          /\ UNCHANGED client \/ client' = [client EXCEPT !.held = @ \cup {thread[t].blk}]
      BY <1>3 DEF Put, TypeOK
    <3> QED
      BY <2>1, <3>1
  <2>4. mCtrlBlocks' \in [Device -> Block \cup {None}]
    BY <1>3, <2>1 DEF Put, TypeOK
  <2> QED
    BY <1>3, <2>2, <2>3, <2>4 DEF Put, TypeOK, service
<1> QED
  BY <1>1, <1>2, <1>3 DEF BlockStep

LEMMA CountedType ==
  ASSUME TypeOK, Call, Counted
  PROVE  client' \in [held: SUBSET Block, calls: 0..MaxCalls]
<1>1. client \in [held: SUBSET Block, calls: 0..MaxCalls]
  BY DEF TypeOK
<1>2. client.calls + 1 \in 0..MaxCalls
  BY <1>1, MonitorConstants DEF Call
<1>3. client' = [client EXCEPT !.calls = client.calls + 1]
  BY DEF Counted
<1> QED
  BY <1>1, <1>2, <1>3

LEMMA ReleaseCameraType ==
  ASSUME TypeOK, NEW d \in Device \cup {None}, NEW then \in Pcs, ReleaseCamera(d, then)
  PROVE  /\ camera' \in [blk: Block \cup {None}, native: BOOLEAN]
         /\ thread' \in [Thread -> ThreadState]
<1>1. camera' \in [blk: Block \cup {None}, native: BOOLEAN]
  BY DEF ReleaseCamera
<1>t. "app" \in Thread
  BY DEF Thread
<1>2. CASE camera.blk # None
  <2>1. camera.blk \in Block
    BY <1>2 DEF TypeOK
  <2> QED
    BY <1>t, <1>1, <1>2, <2>1, ClosingType DEF ReleaseCamera
<1>3. CASE camera.blk = None
  <2>1. [Idle EXCEPT !.pc = then, !.dev = d] \in ThreadState
    BY DEF Idle, ThreadState, Pcs
  <2> QED
    BY <1>1, <1>3, <2>1 DEF ReleaseCamera, TypeOK
<1> QED
  BY <1>2, <1>3

LEMMA UnregisteredType == TypeOK => Unregistered \in MonitorState
<1> SUFFICES ASSUME TypeOK PROVE Unregistered \in MonitorState
  OBVIOUS
<1>1. monitor \in MonitorState
  BY DEF TypeOK
<1>2. (IF monitor.destroyed THEN monitor.checks ELSE 0) \in Nat
  BY <1>1 DEF MonitorState
<1> QED
  BY <1>1, <1>2 DEF Unregistered, MonitorState

LEMMA AppCallType == TypeOK /\ KnownBlocks /\ AppCall => TypeOK'
<1> SUFFICES ASSUME TypeOK, KnownBlocks, AppCall PROVE TypeOK'
  OBVIOUS
<1>t. "app" \in Thread
  BY DEF Thread
<1>m. monitor \in MonitorState
  BY DEF TypeOK
<1>p. "idle" \in Pcs /\ "clone" \in Pcs /\ "destroy" \in Pcs
  BY DEF Pcs
<1>1. CASE Register
  <2>1. monitor' \in MonitorState
    <3>1. monitor.checks + 1 \in Nat
      BY <1>m DEF MonitorState
    <3>2. monitor' = [monitor EXCEPT !.registered = TRUE, !.counts = 0, !.checks = monitor.checks + 1]
      BY <1>1 DEF Register
    <3> QED
      BY <1>m, <3>1, <3>2 DEF MonitorState
  <2> QED
    BY <1>1, <2>1, CountedType DEF Register, Call, TypeOK, blocks
<1>2. CASE Unregister
  <2>1. monitor' \in MonitorState /\ inbox' \in Seq(Broadcast)
    BY <1>2, UnregisteredType DEF Unregister
  <2> QED
    BY <1>2, <2>1, CountedType DEF Unregister, Call, TypeOK, blocks
<1>3. CASE CloseCamera
  BY <1>3, <1>p, CountedType, ReleaseCameraType DEF CloseCamera, Call, TypeOK, blocks
<1>4. CASE Destroy
  <2> DEFINE keys == [d \in Device |-> IF mCtrlBlocks[d] # None THEN "listed" ELSE "other"]
  <2>1. /\ keys \in [Device -> {"other", "listed", "visited"}]
        /\ monitor' = [Unregistered EXCEPT !.destroyed = TRUE, !.keys = keys]
    BY <1>4 DEF Destroy
  <2> HIDE DEF keys
  <2>2. monitor' \in MonitorState
    BY <2>1, UnregisteredType DEF MonitorState
  <2>3. inbox' \in Seq(Broadcast)
    BY <1>4 DEF Destroy
  <2> QED
    BY <1>4, <1>t, <1>p, <2>2, <2>3, CountedType, GotoType DEF Destroy, Call, TypeOK, blocks
<1>5. ASSUME NEW d \in Device, RequestPermission(d) PROVE TypeOK'
  <2>1. UNCHANGED <<monitor, queue, waiting>> \/ ProcessConnect(d) \/ ProcessCancel(d)
    BY <1>5 DEF RequestPermission
  <2>2. monitor' \in MonitorState /\ queue' \in Seq(Message) /\ waiting' \in [Device -> Int]
    BY <2>1, ProcessConnectType, ProcessCancelType DEF TypeOK
  <2>3. dialog' \subseteq Device
    BY <1>5 DEF RequestPermission, TypeOK
  <2> QED
    BY <1>5, <2>2, <2>3, CountedType DEF RequestPermission, Call, TypeOK, blocks
<1>6. ASSUME NEW d \in Device, OpenDevice(d) PROVE TypeOK'
  <2>1. monitor' \in MonitorState
    BY <1>6, <1>m, KnownType DEF OpenDevice
  <2>2. CASE NewBlock("app", d) /\ Counted
    BY <1>6, <1>t, <2>1, <2>2, CountedType, NewBlockType DEF OpenDevice, Call, TypeOK
  <2>3. CASE /\ UNCHANGED <<block, thread>>
             /\ client' = [client EXCEPT !.calls = @ + 1, !.held = @ \cup
                   IF usb[d] = "granted" /\ ~monitor.destroyed THEN {mCtrlBlocks[d]} ELSE {}]
             /\ ~(usb[d] = "granted" /\ ~monitor.destroyed /\ mCtrlBlocks[d] = None)
    <3>1. (IF usb[d] = "granted" /\ ~monitor.destroyed THEN {mCtrlBlocks[d]} ELSE {}) \in SUBSET Block
      BY <2>3 DEF TypeOK
    <3>2. client.calls + 1 \in 0..MaxCalls
      BY <1>6, MonitorConstants DEF OpenDevice, Call, TypeOK
    <3>3. client' \in [held: SUBSET Block, calls: 0..MaxCalls]
      BY <2>3, <3>1, <3>2 DEF TypeOK
    <3> QED
      BY <1>6, <2>1, <2>3, <3>3 DEF OpenDevice, Call, TypeOK
  <2> QED
    BY <1>6, <2>2, <2>3 DEF OpenDevice
<1>7. ASSUME NEW b \in Block, CloseBlock(b) PROVE TypeOK'
  <2>1. thread' \in [Thread -> ThreadState]
    BY <1>7, <1>t, <1>p, ClosingType DEF CloseBlock
  <2> QED
    BY <1>7, <2>1, CountedType DEF CloseBlock, Call, TypeOK, blocks
<1>8. ASSUME NEW b \in Block, OpenCamera(b) PROVE TypeOK'
  <2>1. block[b].dev \in Device
    BY <1>8 DEF OpenCamera, KnownBlocks, Original, TypeOK
  <2> QED
    BY <1>8, <1>p, <2>1, CountedType, ReleaseCameraType DEF OpenCamera, Call, TypeOK, blocks
<1> QED
  BY <1>1, <1>2, <1>3, <1>4, <1>5, <1>6, <1>7, <1>8 DEF AppCall

LEMMA AppStepType == TypeOK /\ ThreadShape /\ AppStep => TypeOK'
<1> SUFFICES ASSUME TypeOK, ThreadShape, AppStep PROVE TypeOK'
  OBVIOUS
<1>t. "app" \in Thread
  BY DEF Thread
<1>p. "connect" \in Pcs /\ "destroy" \in Pcs
  BY DEF Pcs
<1>1. CASE CloneBlock
  <2>1. thread["app"].dev \in Device
    BY <1>1, <1>t DEF CloneBlock, At, ThreadShape
  <2>2. CASE Return("app") /\ UNCHANGED <<block, camera>>
    BY <1>1, <1>t, <2>2, ReturnType DEF CloneBlock, TypeOK, service
  <2>3. ASSUME NEW b \in Block, Opened(b, thread["app"].dev, TRUE, "open"),
               camera' = [camera EXCEPT !.blk = b], Goto("app", "connect")
        PROVE  TypeOK'
    <3>1. camera' \in [blk: Block \cup {None}, native: BOOLEAN]
      BY <2>3 DEF TypeOK
    <3> QED
      BY <1>1, <1>t, <1>p, <2>1, <2>3, <3>1, OpenedType, GotoType DEF CloneBlock, TypeOK, service
  <2> QED
    BY <1>1, <2>2, <2>3 DEF CloneBlock
<1>2. CASE NativeConnect
  <2>1. camera' \in [blk: Block \cup {None}, native: BOOLEAN]
    BY <1>2 DEF NativeConnect, TypeOK
  <2> QED
    BY <1>2, <1>t, <2>1, ReturnType DEF NativeConnect, TypeOK, service, blocks
<1>3. CASE EndDestroy
  <2> DEFINE keys == [d \in Device |-> "other"]
  <2>k. /\ keys \in [Device -> {"other", "listed", "visited"}]
        /\ monitor' = [monitor EXCEPT !.quit = TRUE, !.checks = 0, !.keys = keys]
    BY <1>3 DEF EndDestroy
  <2> HIDE DEF keys
  <2>1. monitor' \in MonitorState
    BY <2>k DEF TypeOK, MonitorState
  <2>2. queue' \in Seq(Message) /\ mCtrlBlocks' \in [Device -> Block \cup {None}]
    BY <1>3 DEF EndDestroy
  <2> QED
    BY <1>3, <1>t, <2>1, <2>2, ReturnType DEF EndDestroy, TypeOK, service
<1>4. ASSUME NEW d \in Device, DestroyBlock(d) PROVE TypeOK'
  <2>1. mCtrlBlocks[d] # None => mCtrlBlocks[d] \in Block
    BY <1>4 DEF TypeOK
  <2>2. thread' \in [Thread -> ThreadState]
    BY <1>4, <1>t, <1>p, <2>1, ClosingType DEF DestroyBlock, TypeOK
  <2>3. monitor' \in MonitorState
    BY <1>4 DEF DestroyBlock, TypeOK, MonitorState
  <2> QED
    BY <1>4, <2>2, <2>3 DEF DestroyBlock, TypeOK, service
<1> QED
  BY <1>1, <1>2, <1>3, <1>4 DEF AppStep

\* Every step keeps the type.
LEMMA NextType == TypeOK /\ ThreadShape /\ KnownBlocks /\ [Next]_vars => TypeOK'
<1> SUFFICES ASSUME TypeOK, ThreadShape, KnownBlocks, [Next]_vars PROVE TypeOK'
  OBVIOUS
<1>1. CASE UNCHANGED vars
  BY <1>1 DEF TypeOK, vars, service, blocks
<1> QED
  BY <1>1, ServiceType, AppCallType, AppStepType, MainType, HandlerType, BlockType DEF Next

-----------------------------------------------------------------------------
(* Who knows a block.                                                       *)

\* No thread but t is about to put b in the map.
NotNew(t, b) == \A u \in Thread \ {t} : thread[u].pc = "put" => thread[u].blk # b

\* Where a thread may move without a new block.
Placed(t, s) ==
  /\ s.pc \notin {"put", "connect"}
  /\ s.blk # None => block[s.blk].conn # "free" /\ NotNew(t, s.blk)
  /\ s.pc \in {"check", "tell"} => s.blk \in Block /\ s.dev \in Device /\ ~block[s.blk].copy
  /\ s.pc \in {"close", "unmap"} =>
       /\ s.blk \in Block
       /\ s.then \in {"idle", "destroy"} \/ (s.then \in {"clone", "detach"} /\ s.dev \in Device)
  /\ s.pc \in {"clone", "detach"} => s.dev \in Device

LEMMA SameKeeps ==
  ASSUME Inv, UNCHANGED <<blocks, thread, camera>>, client'.held = client.held
  PROVE  Shape'
<1>1. ThreadShape' /\ CameraShape' /\ ClosedBlockLeaves'
  BY DEF Inv, Shape, ThreadShape, CameraShape, CameraHasConnection, ClosedBlockLeaves, At, blocks
<1>2. KnownBlocks' /\ NewBlocks'
  BY DEF Inv, Shape, KnownBlocks, NewBlocks, Original, blocks
<1> QED
  BY <1>1, <1>2 DEF Shape

\* A thread goes to a place where it needs no new block; entries may leave the map, the
\* application may come to know more blocks and forget its camera.
LEMMA MoveKeeps ==
  ASSUME Inv, TypeOK', NEW t \in Thread, NEW s,
         thread' = [thread EXCEPT ![t] = s], Placed(t, s),
         UNCHANGED block,
         \A d \in Device : mCtrlBlocks'[d] \in {mCtrlBlocks[d], None},
         thread[t].pc = "unmap" => \A d \in Device : mCtrlBlocks'[d] # thread[t].blk,
         thread[t].pc = "unmap" /\ s.pc = "unmap" => FALSE,
         \A b \in client'.held :
           b \in client.held \/ (Original(b) /\ thread[t].pc # "put" /\ NotNew(t, b)),
         camera' = camera \/ (t = "app" /\ camera' = [blk |-> None, native |-> FALSE]),
         s.pc \in {"close", "unmap"} => s.blk # camera'.blk
  PROVE  Shape'
<1>t. thread'[t] = s /\ \A u \in Thread \ {t} : thread'[u] = thread[u]
  BY DEF Inv, TypeOK
<1>b. block' = block /\ None \notin Block
  BY MonitorConstants
<1>1. ThreadShape'
  BY <1>t DEF Inv, Shape, ThreadShape, Placed
<1>2. KnownBlocks'
  BY <1>t, <1>b DEF Inv, Shape, KnownBlocks, Original, Placed
<1>3. NewBlocks'
  BY <1>t, <1>b DEF Inv, Shape, NewBlocks, Placed, NotNew, ThreadShape
<1>4. CameraShape'
  <2>1. CASE camera' = camera
    BY <1>t, <1>b, <2>1 DEF Inv, Shape, CameraShape, CameraHasConnection, Placed, Thread
  <2>2. CASE t = "app" /\ camera' = [blk |-> None, native |-> FALSE]
    <3>1. \A u \in Thread : thread'[u].pc \in {"close", "unmap"} => thread'[u].blk \in Block
      BY <1>1 DEF ThreadShape
    <3>2. thread'["app"].pc # "connect"
      BY <1>t, <2>2 DEF Placed
    <3> QED
      BY <1>b, <2>2, <3>1, <3>2 DEF CameraShape, CameraHasConnection
  <2> QED
    BY <2>1, <2>2
<1>5. ClosedBlockLeaves'
  BY <1>t, <1>b DEF Inv, Shape, ClosedBlockLeaves, At
<1> QED
  BY <1>1, <1>2, <1>3, <1>4, <1>5 DEF Shape

\* A thread makes an original and is about to put it in the map.
LEMMA NewBlockKeeps ==
  ASSUME Inv, TypeOK', NEW t \in Thread, NEW d \in Device, NewBlock(t, d),
         thread[t].pc = "idle",
         UNCHANGED <<mCtrlBlocks, camera>>, client'.held = client.held
  PROVE  Shape'
<1> PICK b \in Block, c \in {"open", "null"} :
      /\ Opened(b, d, FALSE, c)
      /\ thread' = [thread EXCEPT ![t] = [Idle EXCEPT !.pc = "put", !.dev = d, !.blk = b]]
  BY DEF NewBlock
<1>t. /\ thread'[t].pc = "put" /\ thread'[t].dev = d /\ thread'[t].blk = b
      /\ thread'[t].then = "idle"
      /\ \A u \in Thread \ {t} : thread'[u] = thread[u]
  BY DEF Inv, TypeOK, Idle
<1>b. /\ block'[b] = [conn |-> c, dev |-> d, copy |-> FALSE, heard |-> FALSE]
      /\ \A x \in Block \ {b} : block'[x] = block[x]
      /\ block[b].conn = "free"
  BY DEF Opened, Inv, TypeOK
<1>n. None \notin Block
  BY MonitorConstants
<1>k. /\ b \notin client.held /\ b # camera.blk
      /\ \A x \in Device : mCtrlBlocks[x] # b
      /\ \A u \in Thread : thread[u].blk # b
  BY <1>b, <1>n DEF Inv, Shape, KnownBlocks, CameraShape, Original
<1>m. UNCHANGED <<mCtrlBlocks, camera>> /\ client'.held = client.held
  OBVIOUS
<1>y. /\ \A x \in Device : mCtrlBlocks[x] \in Block \cup {None}
      /\ \A u \in Thread : thread[u].blk \in Block \cup {None}
      /\ client.held \subseteq Block
      /\ camera.blk \in Block \cup {None}
  BY DEF Inv, TypeOK, ThreadState
<1>1. ThreadShape'
  BY <1>t DEF Inv, Shape, ThreadShape
<1>2. KnownBlocks'
  <2>1. \A x \in Block : block'[x].heard <=> block'[x].conn = "closed"
    BY <1>t, <1>b, <1>n, <1>k, <1>m, <1>y DEF Inv, Shape, KnownBlocks
  <2>2. \A x \in Device :
          mCtrlBlocks'[x] # None => Original(mCtrlBlocks[x])' /\ block'[mCtrlBlocks'[x]].dev = x
    BY <1>t, <1>b, <1>n, <1>k, <1>m, <1>y DEF Inv, Shape, KnownBlocks, Original
  <2>3. \A x \in client'.held : Original(x)'
    BY <1>t, <1>b, <1>n, <1>k, <1>m, <1>y DEF Inv, Shape, KnownBlocks, Original
  <2>4. \A u \in Thread : thread'[u].blk # None => block'[thread'[u].blk].conn # "free"
    BY <1>t, <1>b, <1>n, <1>k, <1>m, <1>y DEF Inv, Shape, KnownBlocks
  <2>5. \A u \in Thread : thread'[u].pc \in {"check", "tell"} => ~block'[thread'[u].blk].copy
    BY <1>t, <1>b, <1>n, <1>k, <1>m, <1>y DEF Inv, Shape, KnownBlocks, ThreadShape
  <2> QED
    BY <2>1, <2>2, <2>3, <2>4, <2>5 DEF KnownBlocks
<1>3. NewBlocks'
  BY <1>t, <1>b, <1>n, <1>k, <1>m, <1>y DEF Inv, Shape, NewBlocks, ThreadShape
<1>4. CameraShape'
  BY <1>t, <1>b, <1>n, <1>k, <1>m, <1>y DEF Inv, Shape, CameraShape, CameraHasConnection, ThreadShape
<1>5. ClosedBlockLeaves'
  BY <1>t, <1>b, <1>n, <1>k, <1>m, <1>y DEF Inv, Shape, ClosedBlockLeaves, At
<1> QED
  BY <1>1, <1>2, <1>3, <1>4, <1>5 DEF Shape

\* The camera opens its clone.
LEMMA CloneKeeps ==
  ASSUME Inv, TypeOK', NEW b \in Block, NEW d \in Device,
         thread["app"].pc = "clone",
         Opened(b, d, TRUE, "open"), camera' = [camera EXCEPT !.blk = b],
         Goto("app", "connect"), UNCHANGED <<mCtrlBlocks, client>>
  PROVE  Shape'
<1>t. /\ thread'["app"].pc = "connect" /\ thread'["app"].blk = thread["app"].blk
      /\ \A u \in Thread \ {"app"} : thread'[u] = thread[u]
      /\ "app" \in Thread
  BY DEF Inv, TypeOK, Goto, Thread, ThreadState
<1>b. /\ block'[b] = [conn |-> "open", dev |-> d, copy |-> TRUE, heard |-> FALSE]
      /\ \A x \in Block \ {b} : block'[x] = block[x]
      /\ block[b].conn = "free"
  BY DEF Opened, Inv, TypeOK
<1>n. None \notin Block
  BY MonitorConstants
<1>k. /\ b \notin client.held
      /\ \A x \in Device : mCtrlBlocks[x] # b
      /\ \A u \in Thread : thread[u].blk # b
  BY <1>b, <1>n DEF Inv, Shape, KnownBlocks, Original
<1>m. /\ UNCHANGED <<mCtrlBlocks, client>>
      /\ camera'.blk = b /\ camera'.native = camera.native
  BY DEF Inv, TypeOK
<1>y. /\ \A x \in Device : mCtrlBlocks[x] \in Block \cup {None}
      /\ \A u \in Thread : thread[u].blk \in Block \cup {None}
      /\ client.held \subseteq Block
  BY DEF Inv, TypeOK, ThreadState
<1>1. ThreadShape'
  BY <1>t DEF Inv, Shape, ThreadShape
<1>2. KnownBlocks'
  <2>1. \A x \in Block : block'[x].heard <=> block'[x].conn = "closed"
    BY <1>t, <1>b, <1>n, <1>k, <1>m, <1>y DEF Inv, Shape, KnownBlocks
  <2>2. \A x \in Device :
          mCtrlBlocks'[x] # None => Original(mCtrlBlocks[x])' /\ block'[mCtrlBlocks'[x]].dev = x
    BY <1>t, <1>b, <1>n, <1>k, <1>m, <1>y DEF Inv, Shape, KnownBlocks, Original
  <2>3. \A x \in client'.held : Original(x)'
    BY <1>t, <1>b, <1>n, <1>k, <1>m, <1>y DEF Inv, Shape, KnownBlocks, Original
  <2>4. \A u \in Thread : thread'[u].blk # None => block'[thread'[u].blk].conn # "free"
    BY <1>t, <1>b, <1>n, <1>k, <1>m, <1>y DEF Inv, Shape, KnownBlocks
  <2>5. \A u \in Thread : thread'[u].pc \in {"check", "tell"} => ~block'[thread'[u].blk].copy
    BY <1>t, <1>b, <1>n, <1>k, <1>m, <1>y DEF Inv, Shape, KnownBlocks, ThreadShape
  <2> QED
    BY <2>1, <2>2, <2>3, <2>4, <2>5 DEF KnownBlocks
<1>3. NewBlocks'
  BY <1>t, <1>b, <1>n, <1>k, <1>m, <1>y DEF Inv, Shape, NewBlocks, ThreadShape
<1>4. CameraShape'
  BY <1>t, <1>b, <1>n, <1>k, <1>m, <1>y DEF Inv, Shape, CameraShape, CameraHasConnection, ThreadShape
<1>5. ClosedBlockLeaves'
  BY <1>t, <1>b, <1>n, <1>k, <1>m, <1>y DEF Inv, Shape, ClosedBlockLeaves, At
<1> QED
  BY <1>1, <1>2, <1>3, <1>4, <1>5 DEF Shape

\* The new block is in the map, and known.
LEMMA PutKeeps ==
  ASSUME Inv, TypeOK', NEW t \in Thread, Put(t)
  PROVE  Shape'
<1> DEFINE b == thread[t].blk
<1>b. /\ b \in Block /\ thread[t].dev \in Device /\ thread[t].pc = "put"
      /\ UNCHANGED <<block, camera>> /\ None \notin Block
  BY MonitorConstants DEF Put, At, Inv, Shape, ThreadShape
<1>t. /\ \A u \in Thread \ {t} : thread'[u] = thread[u]
      /\ \/ thread'[t] = Idle
         \/ thread'[t].pc = "check" /\ thread'[t].dev = thread[t].dev /\ thread'[t].blk = b
  BY DEF Put, Inv, TypeOK, Return, Goto, ThreadState
<1>m. /\ mCtrlBlocks'[thread[t].dev] = b
      /\ \A d \in Device \ {thread[t].dev} : mCtrlBlocks'[d] = mCtrlBlocks[d]
      /\ client'.held \subseteq client.held \cup {b}
  BY DEF Put, Inv, TypeOK
<1>k. /\ block[b].conn \in {"open", "null"} /\ ~block[b].copy /\ block[b].dev = thread[t].dev
      /\ \A u \in Thread \ {t} : thread[u].blk # b
      /\ camera.blk # b
  BY <1>b DEF Inv, Shape, NewBlocks, CameraShape
<1>1. ThreadShape'
  BY <1>t, <1>b DEF Inv, Shape, ThreadShape, Idle
<1>2. KnownBlocks'
  BY <1>t, <1>b, <1>m, <1>k DEF Inv, Shape, KnownBlocks, Original, Idle
<1>3. NewBlocks'
  BY <1>t, <1>b, <1>m, <1>k DEF Inv, Shape, NewBlocks, ThreadShape, Idle
<1>4. CameraShape'
  BY <1>t, <1>b, <1>m, <1>k DEF Inv, Shape, CameraShape, CameraHasConnection, ThreadShape, Idle, Thread
<1>5. ClosedBlockLeaves'
  BY <1>t, <1>b, <1>m, <1>k DEF Inv, Shape, ClosedBlockLeaves, At
<1> QED
  BY <1>1, <1>2, <1>3, <1>4, <1>5 DEF Shape

\* A connection is closed by the one thread that has the block's lock.
LEMMA CloseKeeps ==
  ASSUME Inv, TypeOK', NEW t \in Thread, NEW b \in Block,
         thread[t].pc = "close", thread[t].blk = b,
         thread'[t].pc = "unmap", thread'[t].blk = b,
         thread'[t].dev = thread[t].dev, thread'[t].then = thread[t].then,
         \A u \in Thread \ {t} : thread'[u] = thread[u],
         block[b].conn = "open", block'[b].conn = "closed", block'[b].heard = TRUE,
         block'[b].copy = block[b].copy, block'[b].dev = block[b].dev,
         \A x \in Block \ {b} : block'[x] = block[x],
         UNCHANGED <<mCtrlBlocks, client, camera>>
  PROVE  Shape'
<1>t. /\ thread[t].pc = "close" /\ thread[t].blk = b /\ block[b].conn = "open"
      /\ thread'[t].pc = "unmap" /\ thread'[t].blk = b
      /\ thread'[t].dev = thread[t].dev /\ thread'[t].then = thread[t].then
      /\ \A u \in Thread \ {t} : thread'[u] = thread[u]
  OBVIOUS
<1>b. b \in Block /\ None \notin Block /\ b # camera.blk
  BY <1>t, MonitorConstants DEF Inv, Shape, CameraShape
<1>c. /\ block'[b].conn = "closed" /\ block'[b].heard = TRUE /\ block'[b].copy = block[b].copy
      /\ block'[b].dev = block[b].dev
      /\ \A x \in Block \ {b} : block'[x] = block[x]
  OBVIOUS
<1>m. UNCHANGED <<mCtrlBlocks, client, camera>>
  OBVIOUS
<1>y. /\ \A x \in Device : mCtrlBlocks[x] \in Block \cup {None}
      /\ \A u \in Thread : thread[u].blk \in Block \cup {None}
      /\ client.held \subseteq Block
      /\ camera.blk \in Block \cup {None}
  BY DEF Inv, TypeOK, ThreadState
<1>1. ThreadShape'
  BY <1>t DEF Inv, Shape, ThreadShape
<1>2. KnownBlocks'
  <2>1. \A x \in Block : block'[x].heard <=> block'[x].conn = "closed"
    BY <1>t, <1>b, <1>c, <1>m, <1>y DEF Inv, Shape, KnownBlocks
  <2>2. \A x \in Device :
          mCtrlBlocks'[x] # None => Original(mCtrlBlocks[x])' /\ block'[mCtrlBlocks'[x]].dev = x
    BY <1>t, <1>b, <1>c, <1>m, <1>y DEF Inv, Shape, KnownBlocks, Original
  <2>3. \A x \in client'.held : Original(x)'
    BY <1>t, <1>b, <1>c, <1>m, <1>y DEF Inv, Shape, KnownBlocks, Original
  <2>4. \A u \in Thread : thread'[u].blk # None => block'[thread'[u].blk].conn # "free"
    BY <1>t, <1>b, <1>c, <1>m, <1>y DEF Inv, Shape, KnownBlocks
  <2>5. \A u \in Thread : thread'[u].pc \in {"check", "tell"} => ~block'[thread'[u].blk].copy
    BY <1>t, <1>b, <1>c, <1>m, <1>y DEF Inv, Shape, KnownBlocks, ThreadShape
  <2> QED
    BY <2>1, <2>2, <2>3, <2>4, <2>5 DEF KnownBlocks
<1>3. NewBlocks'
  BY <1>t, <1>b, <1>c, <1>m, <1>y DEF Inv, Shape, NewBlocks, ThreadShape
<1>4. CameraShape'
  BY <1>t, <1>b, <1>c, <1>m, <1>y DEF Inv, Shape, CameraShape, CameraHasConnection, Thread
<1>5. ClosedBlockLeaves'
  BY <1>t, <1>b, <1>c, <1>m, <1>y DEF Inv, Shape, ClosedBlockLeaves, At
<1> QED
  BY <1>1, <1>2, <1>3, <1>4, <1>5 DEF Shape

LEMMA NativeKeeps == Inv /\ TypeOK' /\ NativeConnect => Shape'
<1> SUFFICES ASSUME Inv, TypeOK', NativeConnect PROVE Shape'
  OBVIOUS
<1>t. /\ thread'["app"] = Idle /\ "app" \in Thread
      /\ \A u \in Thread \ {"app"} : thread'[u] = thread[u]
      /\ thread["app"].pc = "connect"
  BY DEF NativeConnect, At, Return, Inv, TypeOK, Thread
<1>m. UNCHANGED <<mCtrlBlocks, block, client>> /\ camera'.blk = camera.blk
  BY DEF NativeConnect, blocks, Inv, TypeOK
<1>1. ThreadShape'
  BY <1>t DEF Inv, Shape, ThreadShape, Idle
<1>2. KnownBlocks'
  BY <1>t, <1>m DEF Inv, Shape, KnownBlocks, Original, Idle
<1>3. NewBlocks'
  BY <1>t, <1>m, MonitorConstants DEF Inv, Shape, NewBlocks, ThreadShape, Idle
<1>4. CameraShape'
  BY <1>t, <1>m DEF Inv, Shape, CameraShape, CameraHasConnection, Idle
<1>5. ClosedBlockLeaves'
  BY <1>t, <1>m DEF Inv, Shape, ClosedBlockLeaves, At
<1> QED
  BY <1>1, <1>2, <1>3, <1>4, <1>5 DEF Shape
-----------------------------------------------------------------------------
(* The steps of the threads.                                                *)

LEMMA IdlePlaced ==
  ASSUME NEW t
  PROVE  Placed(t, Idle)
BY DEF Placed, Idle

\* A block that is known is not new.
LEMMA KnownNotNew ==
  ASSUME Inv, NEW t \in Thread, thread[t].pc # "put"
  PROVE  /\ NotNew(t, thread[t].blk)
         /\ \A b \in client.held : NotNew(t, b)
         /\ \A d \in Device : mCtrlBlocks[d] # None => NotNew(t, mCtrlBlocks[d])
BY DEF Inv, Shape, NewBlocks, NotNew

LEMMA BlockShape ==
  ASSUME Inv, TypeOK', NEW t \in Thread, BlockStep(t)
  PROVE  Shape'
<1> DEFINE b == thread[t].blk
<1>1. CASE Put(t)
  BY <1>1, PutKeeps
<1>b. CASE At(t, "close") \/ At(t, "unmap")
  <2>1. b \in Block /\ thread[t].pc # "put"
    BY <1>b DEF Inv, Shape, ThreadShape, At
  <2>2. /\ block[b].conn # "free" /\ b # camera.blk /\ NotNew(t, b)
        /\ thread[t].then \in {"idle", "destroy"}
           \/ (thread[t].then \in {"clone", "detach"} /\ thread[t].dev \in Device)
    <3>1. block[b].conn # "free" /\ b # camera.blk
      BY <1>b, <2>1, MonitorConstants DEF Inv, Shape, KnownBlocks, CameraShape, At
    <3>2. NotNew(t, b)
      BY <2>1, KnownNotNew
    <3>3. thread[t].then \in {"idle", "destroy"}
          \/ (thread[t].then \in {"clone", "detach"} /\ thread[t].dev \in Device)
      BY <1>b DEF Inv, Shape, ThreadShape, At
    <3> QED
      BY <3>1, <3>2, <3>3
  <2>3. ASSUME GoOn(t) PROVE \E s : thread' = [thread EXCEPT ![t] = s] /\ Placed(t, s)
                                    /\ s.pc \notin {"close", "unmap"}
    <3>1. CASE thread[t].then = "idle"
      BY <2>3, <3>1, IdlePlaced DEF GoOn, Return, Idle
    <3>2. CASE thread[t].then # "idle"
      <4> DEFINE s == [thread[t] EXCEPT !.pc = thread[t].then]
      <4>1. thread' = [thread EXCEPT ![t] = s]
        BY <2>3, <3>2 DEF GoOn, Goto, Inv, TypeOK
      <4>2. s.pc = thread[t].then /\ s.blk = b /\ s.dev = thread[t].dev
        BY DEF Inv, TypeOK, ThreadState
      <4> HIDE DEF s
      <4>3. Placed(t, s)
        BY <2>2, <3>2, <4>2 DEF Placed
      <4> QED
        BY <2>2, <3>2, <4>1, <4>2, <4>3
    <3> QED
      BY <3>1, <3>2
  <2>4. CASE CloseConnection(t)
    <3>1. CASE block[b].conn = "open"
      <4>1. thread'[t].pc = "unmap" /\ thread'[t].blk = b
            /\ thread'[t].dev = thread[t].dev /\ thread'[t].then = thread[t].then
            /\ \A u \in Thread \ {t} : thread'[u] = thread[u]
        BY <2>4, <3>1 DEF CloseConnection, Goto, Inv, TypeOK, ThreadState
      <4>2. block'[b].conn = "closed" /\ block'[b].heard = TRUE
            /\ block'[b].copy = block[b].copy /\ block'[b].dev = block[b].dev
            /\ \A x \in Block \ {b} : block'[x] = block[x]
        <5> DEFINE closed == [block[b] EXCEPT !.conn = "closed", !.heard = TRUE]
        <5>1. block' = [block EXCEPT ![b] = closed]
          BY <2>1, <2>4, <3>1 DEF CloseConnection, Inv, TypeOK
        <5>2. closed.conn = "closed" /\ closed.heard = TRUE
              /\ closed.copy = block[b].copy /\ closed.dev = block[b].dev
          BY <2>1 DEF Inv, TypeOK, BlockState
        <5> HIDE DEF closed, b
        <5> QED
          BY <2>1, <5>1, <5>2 DEF Inv, TypeOK
      <4>3. thread[t].pc = "close" /\ UNCHANGED <<mCtrlBlocks, client, camera>>
        BY <2>4 DEF CloseConnection, At
      <4> HIDE DEF b
      <4> QED
        BY <2>1, <3>1, <4>1, <4>2, <4>3, CloseKeeps DEF b
    <3>2. CASE block[b].conn # "open"
      <4>1. PICK s : thread' = [thread EXCEPT ![t] = s] /\ Placed(t, s) /\ s.pc \notin {"close", "unmap"}
        BY <2>3, <2>4, <3>2 DEF CloseConnection
      <4>2. thread[t].pc = "close" /\ UNCHANGED <<block, mCtrlBlocks, client, camera>>
        BY <2>4, <3>2 DEF CloseConnection, At
      <4> QED
        BY <4>1, <4>2, MoveKeeps
    <3> QED
      BY <3>1, <3>2
  <2>5. CASE Unmap(t)
    <3>1. PICK s : thread' = [thread EXCEPT ![t] = s] /\ Placed(t, s) /\ s.pc \notin {"close", "unmap"}
      BY <2>3, <2>5 DEF Unmap
    <3>2. /\ \A d \in Device : mCtrlBlocks'[d] \in {mCtrlBlocks[d], None}
          /\ \A d \in Device : mCtrlBlocks'[d] # b
      <4>1. mCtrlBlocks' = [mCtrlBlocks EXCEPT ![block[b].dev] = None]
        BY <2>5 DEF Unmap
      <4>2. \A d \in Device : mCtrlBlocks[d] = b => block[b].dev = d
        BY <2>1, MonitorConstants DEF Inv, Shape, KnownBlocks
      <4> QED
        BY <2>1, <4>1, <4>2, MonitorConstants DEF Inv, TypeOK
    <3>3. UNCHANGED <<block, client, camera>>
      BY <2>5 DEF Unmap
    <3> QED
      BY <3>1, <3>2, <3>3, MoveKeeps
  <2> QED
    BY <1>b, <2>4, <2>5, PutKeeps DEF BlockStep
<1> QED
  BY <1>1, <1>b DEF BlockStep, CloseConnection, Unmap

LEMMA MainShape == Inv /\ TypeOK' /\ MainStep => Shape'
<1> SUFFICES ASSUME Inv, TypeOK', MainStep PROVE Shape'
  OBVIOUS
<1>t. "main" \in Thread
  BY DEF Thread
<1>1. CASE Detach
  <2>1. thread' = [thread EXCEPT !["main"] = Idle] /\ thread["main"].pc = "detach"
        /\ UNCHANGED <<block, mCtrlBlocks, client, camera>>
    BY <1>1 DEF Detach, Return, At, blocks
  <2>2. Idle.pc = "idle"
    BY DEF Idle
  <2> QED
    BY <1>t, <2>1, <2>2, IdlePlaced, MoveKeeps
<1>2. ASSUME NEW d \in Device, OnAttached(d) PROVE Shape'
  BY <1>2, SameKeeps DEF OnAttached, Receive, blocks
<1>3. ASSUME NEW d \in Device, NEW answer, OnPermission(d, answer) PROVE Shape'
  BY <1>3, SameKeeps DEF OnPermission, Receive, blocks
<1>4. ASSUME NEW d \in Device, OnDetached(d) PROVE Shape'
  <2>1. UNCHANGED <<block, client, camera>> /\ thread["main"].pc = "idle"
    BY <1>4 DEF OnDetached, Receive, At
  <2>2. CASE monitor.destroyed
    BY <1>4, <2>1, <2>2, SameKeeps DEF OnDetached, blocks
  <2>3. CASE ~monitor.destroyed
    <3>1. \A x \in Device : mCtrlBlocks'[x] \in {mCtrlBlocks[x], None}
      BY <1>4, <2>3 DEF OnDetached, Inv, TypeOK
    <3>2. CASE mCtrlBlocks[d] # None
      <4> DEFINE s == [pc |-> "close", dev |-> d, blk |-> mCtrlBlocks[d], then |-> "detach"]
      <4>1. thread' = [thread EXCEPT !["main"] = s]
        BY <1>4, <2>3, <3>2 DEF OnDetached, Closing
      <4>2. mCtrlBlocks[d] \in Block /\ block[mCtrlBlocks[d]].conn # "free"
            /\ mCtrlBlocks[d] # camera.blk
        BY <3>2, MonitorConstants DEF Inv, TypeOK, Shape, KnownBlocks, Original, CameraShape
      <4>3. Placed("main", s)
        BY <1>t, <2>1, <3>2, <4>2, KnownNotNew DEF Placed
      <4>4. s.pc = "close" /\ s.blk = mCtrlBlocks[d]
        OBVIOUS
      <4> HIDE DEF s
      <4> QED
        BY <1>t, <2>1, <3>1, <4>1, <4>2, <4>3, <4>4, MoveKeeps
    <3>3. CASE mCtrlBlocks[d] = None
      <4> DEFINE s == [Idle EXCEPT !.pc = "detach", !.dev = d]
      <4>1. thread' = [thread EXCEPT !["main"] = s]
        BY <1>4, <2>3, <3>3 DEF OnDetached
      <4>2. s.pc = "detach" /\ s.blk = None /\ s.dev = d
        BY DEF Idle
      <4> HIDE DEF s
      <4>3. Placed("main", s)
        BY <4>2 DEF Placed
      <4> QED
        BY <1>t, <2>1, <3>1, <4>1, <4>2, <4>3, MoveKeeps
    <3> QED
      BY <3>2, <3>3
  <2> QED
    BY <2>2, <2>3
<1> QED
  BY <1>1, <1>2, <1>3, <1>4 DEF MainStep

LEMMA HandlerShape == Inv /\ TypeOK' /\ HandlerStep => Shape'
<1> SUFFICES ASSUME Inv, TypeOK', HandlerStep PROVE Shape'
  OBVIOUS
<1>t. "handler" \in Thread
  BY DEF Thread
<1>i. Idle.pc = "idle"
  BY DEF Idle
<1>1. CASE RunConnect
  <2>1. /\ Head(queue) \in Message /\ thread["handler"].pc = "idle"
        /\ UNCHANGED <<mCtrlBlocks, client, camera>>
    BY <1>1 DEF RunConnect, Inv, TypeOK, At
  <2>2. PICK d \in Head(queue).devs :
          IF mCtrlBlocks[d] = None THEN NewBlock("handler", d)
          ELSE /\ thread' = [thread EXCEPT !["handler"] =
                            [Idle EXCEPT !.pc = "check", !.dev = d, !.blk = mCtrlBlocks[d]]]
               /\ UNCHANGED block
    BY <1>1 DEF RunConnect
  <2>3. d \in Device
    BY <2>1 DEF Message
  <2>4. CASE mCtrlBlocks[d] = None
    BY <1>t, <2>1, <2>2, <2>3, <2>4, NewBlockKeeps
  <2>5. CASE mCtrlBlocks[d] # None
    <3> DEFINE s == [Idle EXCEPT !.pc = "check", !.dev = d, !.blk = mCtrlBlocks[d]]
    <3>1. mCtrlBlocks[d] \in Block /\ Original(mCtrlBlocks[d])
      BY <2>3, <2>5 DEF Inv, TypeOK, Shape, KnownBlocks
    <3>2. s.pc = "check" /\ s.blk = mCtrlBlocks[d] /\ s.dev = d
      BY DEF Idle
    <3>3. thread' = [thread EXCEPT !["handler"] = s] /\ UNCHANGED block
      BY <2>2, <2>5
    <3> HIDE DEF s
    <3>4. Placed("handler", s)
      BY <1>t, <2>1, <2>3, <2>5, <3>1, <3>2, KnownNotNew DEF Placed, Original
    <3> QED
      BY <1>t, <2>1, <3>2, <3>3, <3>4, MoveKeeps
  <2> QED
    BY <2>4, <2>5
<1>2. CASE CheckConnection
  <2>1. UNCHANGED <<mCtrlBlocks, block, client, camera>> /\ thread["handler"].pc = "check"
    BY <1>2 DEF CheckConnection, At, blocks
  <2>2. CASE Goto("handler", "tell")
    <3> DEFINE s == [thread["handler"] EXCEPT !.pc = "tell"]
    <3>1. s.pc = "tell" /\ s.blk = thread["handler"].blk /\ s.dev = thread["handler"].dev
      BY <1>t DEF Inv, TypeOK, ThreadState
    <3>2. thread' = [thread EXCEPT !["handler"] = s]
      BY <1>t, <2>2 DEF Goto, Inv, TypeOK
    <3> HIDE DEF s
    <3>3. Placed("handler", s)
      BY <1>t, <2>1, <3>1, MonitorConstants, KnownNotNew
         DEF Placed, Inv, Shape, ThreadShape, KnownBlocks
    <3> QED
      BY <1>t, <2>1, <3>1, <3>2, <3>3, MoveKeeps
  <2>3. CASE Return("handler")
    BY <1>t, <1>i, <2>1, <2>3, IdlePlaced, MoveKeeps DEF Return
  <2> QED
    BY <1>2, <2>2, <2>3 DEF CheckConnection
<1>3. CASE TellConnect
  <2>1. /\ UNCHANGED <<mCtrlBlocks, block, camera>> /\ thread["handler"].pc = "tell"
        /\ thread' = [thread EXCEPT !["handler"] = Idle]
        /\ client'.held = client.held \cup {thread["handler"].blk}
    BY <1>3 DEF TellConnect, At, blocks, Return, Inv, TypeOK
  <2>2. Original(thread["handler"].blk) /\ NotNew("handler", thread["handler"].blk)
    BY <1>t, <2>1, MonitorConstants, KnownNotNew DEF Inv, Shape, ThreadShape, KnownBlocks, Original
  <2> QED
    BY <1>t, <1>i, <2>1, <2>2, IdlePlaced, MoveKeeps
<1>4. CASE RunNotice
  BY <1>4, SameKeeps DEF RunNotice, blocks
<1>g. ASSUME NEW pc \in {"list", "compare", "dead"}, Goto("handler", pc),
             thread["handler"].pc \in {"idle", "list"},
             UNCHANGED <<mCtrlBlocks, block, client, camera>>
      PROVE  Shape'
  <2> DEFINE s == [thread["handler"] EXCEPT !.pc = pc]
  <2>1. s.pc = pc /\ s.blk = thread["handler"].blk
    BY <1>t DEF Inv, TypeOK, ThreadState
  <2>2. thread' = [thread EXCEPT !["handler"] = s]
    BY <1>t, <1>g DEF Goto, Inv, TypeOK
  <2> HIDE DEF s
  <2>3. Placed("handler", s)
    BY <1>t, <1>g, <2>1, KnownNotNew DEF Placed, Inv, Shape, KnownBlocks
  <2> QED
    BY <1>t, <1>g, <2>1, <2>2, <2>3, MoveKeeps
<1>5. CASE CheckDevices
  <2>1. UNCHANGED <<mCtrlBlocks, block, client, camera>> /\ thread["handler"].pc = "idle"
    BY <1>5 DEF CheckDevices, At, blocks
  <2>2. CASE UNCHANGED thread
    BY <2>1, <2>2, SameKeeps DEF blocks
  <2> QED
    BY <1>5, <1>g, <2>1, <2>2 DEF CheckDevices
<1>7. CASE ListDevices
  <2>1. UNCHANGED <<mCtrlBlocks, block, client, camera>> /\ thread["handler"].pc = "list"
    BY <1>7 DEF ListDevices, At, blocks
  <2> QED
    BY <1>7, <1>g, <2>1 DEF ListDevices
<1>6. CASE CompareDevices
  <2>1. /\ UNCHANGED <<mCtrlBlocks, block, client, camera>> /\ thread["handler"].pc = "compare"
        /\ thread' = [thread EXCEPT !["handler"] = Idle]
    BY <1>6 DEF CompareDevices, At, blocks, Return
  <2> QED
    BY <1>t, <1>i, <2>1, IdlePlaced, MoveKeeps
<1> QED
  BY <1>1, <1>2, <1>3, <1>4, <1>5, <1>6, <1>7 DEF HandlerStep

\* CloseCamera and OpenCamera.
LEMMA ReleaseCameraShape ==
  ASSUME Inv, TypeOK', NEW d \in Device \cup {None}, NEW then \in {"idle", "clone"},
         then = "clone" => d \in Device, ReleaseCamera(d, then), thread["app"].pc = "idle",
         UNCHANGED blocks, client'.held = client.held
  PROVE  Shape'
<1>t. "app" \in Thread
  BY DEF Thread
<1>c. camera' = [blk |-> None, native |-> FALSE] /\ camera'.blk = None /\ None \notin Block
      /\ UNCHANGED <<mCtrlBlocks, block>>
  BY MonitorConstants DEF ReleaseCamera, blocks
<1>1. CASE camera.blk # None
  <2> DEFINE s == [pc |-> "close", dev |-> d, blk |-> camera.blk, then |-> then]
  <2>1. thread' = [thread EXCEPT !["app"] = s]
    BY <1>1 DEF ReleaseCamera, Closing
  <2>2. camera.blk \in Block /\ block[camera.blk].conn # "free" /\ block[camera.blk].copy
    BY <1>1 DEF Inv, TypeOK, Shape, CameraShape
  <2>3. NotNew("app", camera.blk)
    BY <2>2 DEF NotNew, Inv, Shape, NewBlocks
  <2>4. Placed("app", s)
    BY <2>2, <2>3 DEF Placed
  <2>5. s.pc = "close" /\ s.blk = camera.blk
    OBVIOUS
  <2> HIDE DEF s
  <2> QED
    BY <1>t, <1>c, <2>1, <2>2, <2>4, <2>5, MoveKeeps
<1>2. CASE camera.blk = None
  <2> DEFINE s == [Idle EXCEPT !.pc = then, !.dev = d]
  <2>1. thread' = [thread EXCEPT !["app"] = s]
    BY <1>2 DEF ReleaseCamera
  <2>2. s.pc = then /\ s.dev = d /\ s.blk = None
    BY DEF Idle
  <2> HIDE DEF s
  <2>3. Placed("app", s)
    BY <2>2 DEF Placed
  <2> QED
    BY <1>t, <1>c, <2>1, <2>2, <2>3, MoveKeeps
<1> QED
  BY <1>1, <1>2

LEMMA HeldCounted == Inv /\ Counted => client'.held = client.held
BY DEF Inv, TypeOK, Counted

LEMMA AppCallShape == Inv /\ TypeOK' /\ AppCall => Shape'
<1> SUFFICES ASSUME Inv, TypeOK', AppCall PROVE Shape'
  OBVIOUS
<1>t. "app" \in Thread
  BY DEF Thread
<1>1. CASE Register
  BY <1>1, HeldCounted, SameKeeps DEF Register, Call
<1>2. CASE Unregister
  BY <1>2, HeldCounted, SameKeeps DEF Unregister, Call
<1>3. CASE CloseCamera
  BY <1>3, HeldCounted, ReleaseCameraShape DEF CloseCamera, Call, At
<1>4. CASE Destroy
  <2> DEFINE s == [thread["app"] EXCEPT !.pc = "destroy"]
  <2>1. thread["app"].pc = "idle" /\ UNCHANGED <<mCtrlBlocks, block, camera>>
        /\ client'.held = client.held
    BY <1>4, HeldCounted DEF Destroy, Call, At, blocks
  <2>2. s.pc = "destroy" /\ s.blk = thread["app"].blk
    BY <1>t DEF Inv, TypeOK, ThreadState
  <2>3. thread' = [thread EXCEPT !["app"] = s]
    BY <1>4, <1>t DEF Destroy, Goto, Inv, TypeOK
  <2> HIDE DEF s
  <2>4. Placed("app", s)
    BY <1>t, <2>1, <2>2, KnownNotNew DEF Placed, Inv, Shape, KnownBlocks
  <2> QED
    BY <1>t, <2>1, <2>2, <2>3, <2>4, MoveKeeps
<1>5. ASSUME NEW d \in Device, RequestPermission(d) PROVE Shape'
  BY <1>5, HeldCounted, SameKeeps DEF RequestPermission, Call
<1>6. ASSUME NEW d \in Device, OpenDevice(d) PROVE Shape'
  <2>1. thread["app"].pc = "idle" /\ UNCHANGED <<mCtrlBlocks, camera>>
    BY <1>6 DEF OpenDevice, Call, At
  <2>2. CASE NewBlock("app", d) /\ Counted
    BY <1>t, <2>1, <2>2, HeldCounted, NewBlockKeeps
  <2>3. CASE /\ UNCHANGED <<block, thread>>
             /\ client'.held = client.held \cup
                   IF usb[d] = "granted" /\ ~monitor.destroyed THEN {mCtrlBlocks[d]} ELSE {}
             /\ ~(usb[d] = "granted" /\ ~monitor.destroyed /\ mCtrlBlocks[d] = None)
    <3> DEFINE s == thread["app"]
    <3>1. thread' = [thread EXCEPT !["app"] = s]
      BY <2>3 DEF Inv, TypeOK
    <3>2. Placed("app", s) /\ s.pc = "idle"
      BY <1>t, <2>1, KnownNotNew DEF Placed, Inv, Shape, KnownBlocks
    <3>3. \A b \in client'.held : b \in client.held \/ (Original(b) /\ NotNew("app", b))
      BY <1>t, <2>1, <2>3, KnownNotNew DEF Inv, Shape, KnownBlocks
    <3> HIDE DEF s
    <3> QED
      BY <1>t, <2>1, <2>3, <3>1, <3>2, <3>3, MoveKeeps
  <2>4. client' = [client EXCEPT !.calls = @ + 1, !.held = @ \cup
                     IF usb[d] = "granted" /\ ~monitor.destroyed THEN {mCtrlBlocks[d]} ELSE {}]
          => client'.held = client.held \cup
               IF usb[d] = "granted" /\ ~monitor.destroyed THEN {mCtrlBlocks[d]} ELSE {}
    BY DEF Inv, TypeOK
  <2> QED
    BY <1>6, <2>2, <2>3, <2>4 DEF OpenDevice
<1>7. ASSUME NEW b \in Block, CloseBlock(b) PROVE Shape'
  <2> DEFINE s == [pc |-> "close", dev |-> None, blk |-> b, then |-> "idle"]
  <2>1. thread["app"].pc = "idle" /\ UNCHANGED <<mCtrlBlocks, block, camera>>
        /\ client'.held = client.held
    BY <1>7, HeldCounted DEF CloseBlock, Call, At, blocks
  <2>2. thread' = [thread EXCEPT !["app"] = s]
    BY <1>7 DEF CloseBlock, Closing
  <2>3. b \in client.held /\ Original(b) /\ NotNew("app", b)
    BY <1>7, <1>t, <2>1, KnownNotNew DEF CloseBlock, Inv, Shape, KnownBlocks
  <2>4. b # camera.blk
    BY <2>3, MonitorConstants DEF Inv, Shape, CameraShape, Original
  <2>5. Placed("app", s) /\ s.pc = "close" /\ s.blk = b
    BY <2>3 DEF Placed, Original
  <2> HIDE DEF s
  <2> QED
    BY <1>t, <2>1, <2>2, <2>4, <2>5, MoveKeeps
<1>8. ASSUME NEW b \in Block, OpenCamera(b) PROVE Shape'
  <2>1. block[b].dev \in Device
    BY <1>8 DEF OpenCamera, Inv, TypeOK, Shape, KnownBlocks, Original
  <2> QED
    BY <1>8, <2>1, HeldCounted, ReleaseCameraShape DEF OpenCamera, Call, At
<1> QED
  BY <1>1, <1>2, <1>3, <1>4, <1>5, <1>6, <1>7, <1>8 DEF AppCall

LEMMA AppStepShape == Inv /\ TypeOK' /\ AppStep => Shape'
<1> SUFFICES ASSUME Inv, TypeOK', AppStep PROVE Shape'
  OBVIOUS
<1>t. "app" \in Thread
  BY DEF Thread
<1>i. Idle.pc = "idle"
  BY DEF Idle
<1>1. CASE CloneBlock
  <2>1. /\ thread["app"].pc = "clone" /\ thread["app"].dev \in Device
        /\ UNCHANGED <<mCtrlBlocks, client>>
    BY <1>1, <1>t DEF CloneBlock, At, Inv, Shape, ThreadShape
  <2>2. CASE Return("app") /\ UNCHANGED <<block, camera>>
    BY <1>t, <1>i, <2>1, <2>2, IdlePlaced, MoveKeeps DEF Return
  <2> QED
    BY <1>1, <2>1, <2>2, CloneKeeps DEF CloneBlock
<1>2. CASE NativeConnect
  BY <1>2, NativeKeeps
<1>3. CASE EndDestroy
  <2>1. /\ thread["app"].pc = "destroy" /\ thread' = [thread EXCEPT !["app"] = Idle]
        /\ UNCHANGED <<block, client, camera>>
        /\ \A d \in Device : mCtrlBlocks'[d] = None
    BY <1>3 DEF EndDestroy, At, Return
  <2> QED
    BY <1>t, <1>i, <2>1, IdlePlaced, MoveKeeps
<1>4. ASSUME NEW d \in Device, DestroyBlock(d) PROVE Shape'
  <2>1. thread["app"].pc = "destroy" /\ UNCHANGED <<block, client, camera>>
    BY <1>4 DEF DestroyBlock, At
  <2>2. CASE mCtrlBlocks[d] = None
    <3>1. UNCHANGED <<mCtrlBlocks, thread>>
      BY <1>4, <2>2 DEF DestroyBlock, Inv, TypeOK
    <3> QED
      BY <2>1, <3>1, SameKeeps DEF blocks
  <2>3. CASE mCtrlBlocks[d] # None
    <3> DEFINE s == [pc |-> "close", dev |-> None, blk |-> mCtrlBlocks[d], then |-> "destroy"]
    <3>1. thread' = [thread EXCEPT !["app"] = s]
      BY <1>4, <2>3 DEF DestroyBlock, Closing
    <3>2. \A x \in Device : mCtrlBlocks'[x] \in {mCtrlBlocks[x], None}
      BY <1>4 DEF DestroyBlock, Inv, TypeOK
    <3>3. mCtrlBlocks[d] \in Block /\ Original(mCtrlBlocks[d])
      BY <2>3 DEF Inv, TypeOK, Shape, KnownBlocks
    <3>4. NotNew("app", mCtrlBlocks[d])
      BY <1>t, <2>1, <2>3, KnownNotNew
    <3>5. mCtrlBlocks[d] # camera.blk
      BY <3>3, MonitorConstants DEF Inv, Shape, CameraShape, Original
    <3>6. Placed("app", s) /\ s.pc = "close" /\ s.blk = mCtrlBlocks[d]
      BY <3>3, <3>4 DEF Placed, Original
    <3> HIDE DEF s
    <3> QED
      BY <1>t, <2>1, <2>3, <3>1, <3>2, <3>3, <3>5, <3>6, MoveKeeps
  <2> QED
    BY <2>2, <2>3
<1> QED
  BY <1>1, <1>2, <1>3, <1>4 DEF AppStep

LEMMA InitShape == Init => MonitorShape /\ Shape
<1> SUFFICES ASSUME Init PROVE MonitorShape /\ Shape
  OBVIOUS
<1>t. \A t \in Thread : thread[t].pc = "idle" /\ thread[t].blk = None
  BY DEF Init, Idle
<1>m. MonitorShape
  BY <1>t DEF Init, MonitorShape, Destroying, RegisteredIsChecked, Thread
<1>1. ThreadShape
  BY <1>t DEF ThreadShape
<1>2. KnownBlocks
  BY <1>t DEF Init, KnownBlocks, Original
<1>3. NewBlocks
  BY <1>t DEF NewBlocks
<1>4. CameraShape
  BY <1>t DEF Init, CameraShape, CameraHasConnection, Thread
<1>5. ClosedBlockLeaves
  BY DEF Init, ClosedBlockLeaves
<1> QED
  BY <1>m, <1>1, <1>2, <1>3, <1>4, <1>5 DEF Shape

LEMMA NextShape == Inv /\ TypeOK' /\ [Next]_vars => Shape'
<1> SUFFICES ASSUME Inv, TypeOK', [Next]_vars PROVE Shape'
  OBVIOUS
<1>1. CASE UNCHANGED vars
  BY <1>1, SameKeeps DEF vars
<1>2. CASE Service
  BY <1>2, SameKeeps DEF Service, PlugIn, Unplug, Decide
<1> QED
  BY <1>1, <1>2, AppCallShape, AppStepShape, MainShape, HandlerShape, BlockShape DEF Next
-----------------------------------------------------------------------------
(* The monitor's own flags.                                                 *)

LEMMA MonitorKeeps ==
  ASSUME Inv,
         monitor'.registered = monitor.registered, monitor'.destroyed = monitor.destroyed,
         monitor'.quit = monitor.quit, monitor'.checks = monitor.checks,
         thread["handler"].pc \in {"list", "compare"} => thread'["handler"].pc \in {"list", "compare"},
         Destroying' => Destroying
  PROVE  MonitorShape'
BY DEF Inv, MonitorShape, RegisteredIsChecked, At

LEMMA KnownKeeps ==
  ASSUME Inv, NEW d \in Device, NEW permitted \in BOOLEAN,
         monitor' = [monitor EXCEPT !.known = Known(d, permitted)], UNCHANGED thread
  PROVE  MonitorShape'
<1>1. /\ monitor'.registered = monitor.registered /\ monitor'.destroyed = monitor.destroyed
      /\ monitor'.quit = monitor.quit /\ monitor'.checks = monitor.checks
  BY DEF Inv, TypeOK, MonitorState
<1> QED
  BY <1>1, MonitorKeeps DEF Destroying

LEMMA SameMonitor == Inv /\ UNCHANGED <<monitor, thread>> => MonitorShape'
BY DEF Inv, MonitorShape, RegisteredIsChecked, At, Destroying

\* A step of a thread that leaves the monitor alone.
LEMMA ThreadKeeps ==
  ASSUME Inv, UNCHANGED monitor, NEW t \in Thread, NEW s,
         thread' = [thread EXCEPT ![t] = s],
         t = "handler" => thread["handler"].pc \notin {"list", "compare"},
         t = "app" /\ (s.pc = "destroy" \/ (s.pc \in {"close", "unmap"} /\ s.then = "destroy"))
           => Destroying
  PROVE  MonitorShape'
<1>1. thread'[t] = s /\ \A u \in Thread \ {t} : thread'[u] = thread[u]
  BY DEF Inv, TypeOK
<1> QED
  BY <1>1, MonitorKeeps DEF Destroying, Thread

LEMMA BlockMonitor ==
  ASSUME Inv, NEW t \in Thread, BlockStep(t)
  PROVE  MonitorShape'
<1>m. UNCHANGED monitor
  BY DEF BlockStep, CloseConnection, Unmap, Put
<1>p. thread[t].pc \in {"close", "unmap", "put"}
  BY DEF BlockStep, CloseConnection, Unmap, Put, At
<1>1. CASE Return(t)
  BY <1>m, <1>p, <1>1, ThreadKeeps DEF Return, Idle
<1>2. ASSUME NEW pc \in Pcs, Goto(t, pc),
             pc = "destroy" \/ pc = "unmap" => thread[t].pc # "put",
             pc = "destroy" => thread[t].then = "destroy", pc # "close"
      PROVE  MonitorShape'
  <2> DEFINE s == [thread[t] EXCEPT !.pc = pc]
  <2>1. s.pc = pc /\ s.then = thread[t].then
    BY DEF Inv, TypeOK, ThreadState
  <2>2. thread' = [thread EXCEPT ![t] = s]
    BY <1>2 DEF Goto, Inv, TypeOK
  <2> HIDE DEF s
  <2> QED
    BY <1>m, <1>p, <1>2, <2>1, <2>2, ThreadKeeps DEF Destroying
<1>3. CASE GoOn(t) /\ thread[t].pc \in {"close", "unmap"}
  <2>1. CASE thread[t].then = "idle"
    BY <1>1, <1>3, <2>1 DEF GoOn
  <2>2. CASE thread[t].then # "idle"
    <3>1. thread[t].then \in {"destroy", "clone", "detach"}
      BY <1>3, <2>2 DEF Inv, Shape, ThreadShape
    <3> QED
      BY <1>2, <1>3, <2>2, <3>1 DEF GoOn, Pcs
  <2> QED
    BY <2>1, <2>2
<1>4. CASE Goto(t, "unmap") /\ thread[t].pc = "close"
  BY <1>2, <1>4 DEF Pcs
<1>5. CASE Goto(t, "check")
  BY <1>2, <1>5 DEF Pcs
<1> QED
  BY <1>1, <1>3, <1>4, <1>5 DEF BlockStep, CloseConnection, Unmap, Put, At

LEMMA MainMonitor == Inv /\ MainStep => MonitorShape'
<1> SUFFICES ASSUME Inv, MainStep PROVE MonitorShape'
  OBVIOUS
<1>t. "main" \in Thread /\ "main" # "app" /\ "main" # "handler"
  BY DEF Thread
<1>1. CASE Detach
  <2>1. /\ monitor'.registered = monitor.registered /\ monitor'.destroyed = monitor.destroyed
        /\ monitor'.quit = monitor.quit /\ monitor'.checks = monitor.checks
    BY <1>1 DEF Detach, Inv, TypeOK, MonitorState
  <2>2. thread'["handler"] = thread["handler"] /\ thread'["app"] = thread["app"]
    BY <1>1 DEF Detach, Return, Inv, TypeOK, Thread
  <2> QED
    BY <2>1, <2>2, MonitorKeeps DEF Destroying
<1>2. ASSUME NEW d \in Device, OnAttached(d) PROVE MonitorShape'
  BY <1>2, KnownKeeps, SameMonitor DEF OnAttached
<1>3. ASSUME NEW d \in Device, NEW answer, OnPermission(d, answer) PROVE MonitorShape'
  BY <1>3, KnownKeeps, SameMonitor DEF OnPermission, ProcessConnect, ProcessCancel
<1>4. ASSUME NEW d \in Device, OnDetached(d) PROVE MonitorShape'
  <2>1. thread'["handler"] = thread["handler"] /\ thread'["app"] = thread["app"]
    BY <1>4 DEF OnDetached, Closing, Inv, TypeOK, Thread
  <2>2. UNCHANGED monitor
    BY <1>4 DEF OnDetached
  <2> QED
    BY <2>1, <2>2, MonitorKeeps DEF Destroying
<1> QED
  BY <1>1, <1>2, <1>3, <1>4 DEF MainStep

LEMMA HandlerMonitor == Inv /\ HandlerStep => MonitorShape'
<1> SUFFICES ASSUME Inv, HandlerStep PROVE MonitorShape'
  OBVIOUS
<1>m. monitor \in MonitorState /\ thread \in [Thread -> ThreadState]
  BY DEF Inv, TypeOK
<1>t. "handler" \in Thread /\ "app" \in Thread \ {"handler"}
  BY DEF Thread
<1>1. CASE RunConnect \/ CheckConnection \/ TellConnect \/ RunNotice
  <2>1. UNCHANGED monitor /\ thread'["app"] = thread["app"]
    BY <1>1, <1>m, <1>t
       DEF RunConnect, CheckConnection, TellConnect, RunNotice, NewBlock, Goto, Return
  <2>2. thread["handler"].pc \notin {"list", "compare"}
    BY <1>1 DEF RunConnect, CheckConnection, TellConnect, RunNotice, At
  <2> QED
    BY <2>1, <2>2, MonitorKeeps DEF Destroying
<1>2. CASE CheckDevices
  <2>1. /\ monitor'.registered = monitor.registered /\ monitor'.destroyed = monitor.destroyed
        /\ monitor'.quit = monitor.quit
    BY <1>2, <1>m DEF CheckDevices, MonitorState
  <2>2. CASE monitor.destroyed
    <3>1. UNCHANGED thread
      BY <1>2, <2>2 DEF CheckDevices
    <3> QED
      BY <2>1, <2>2, <3>1 DEF Inv, MonitorShape, RegisteredIsChecked, Destroying
  <2>3. CASE ~monitor.destroyed
    <3>1. thread'["handler"].pc = "list" /\ thread'["app"] = thread["app"]
      BY <1>2, <1>m, <1>t, <2>3 DEF CheckDevices, Goto, ThreadState
    <3> QED
      BY <2>1, <3>1 DEF Inv, MonitorShape, RegisteredIsChecked, Destroying, At
  <2> QED
    BY <2>2, <2>3
<1>4. CASE ListDevices
  <2>1. /\ monitor'.registered = monitor.registered /\ monitor'.destroyed = monitor.destroyed
        /\ monitor'.quit = monitor.quit
    BY <1>4, <1>m DEF ListDevices, MonitorState
  <2>2. /\ thread'["app"] = thread["app"]
        /\ ~monitor.destroyed => thread'["handler"].pc = "compare"
    BY <1>4, <1>m, <1>t DEF ListDevices, Goto, ThreadState
  <2> QED
    BY <2>1, <2>2 DEF Inv, MonitorShape, RegisteredIsChecked, Destroying, At
<1>3. CASE CompareDevices
  <2>1. /\ monitor'.registered = monitor.registered /\ monitor'.destroyed = monitor.destroyed
        /\ monitor'.quit = monitor.quit
        /\ monitor'.checks = IF monitor.quit THEN monitor.checks ELSE monitor.checks + 1
    BY <1>3, <1>m DEF CompareDevices, MonitorState
  <2>2. thread'["app"] = thread["app"] /\ monitor.checks \in Nat
    BY <1>3, <1>m, <1>t DEF CompareDevices, Return, MonitorState
  <2> QED
    BY <2>1, <2>2 DEF Inv, MonitorShape, RegisteredIsChecked, Destroying
<1> QED
  BY <1>1, <1>2, <1>3, <1>4 DEF HandlerStep

LEMMA AppMonitor == Inv /\ (AppCall \/ AppStep) => MonitorShape'
<1> SUFFICES ASSUME Inv, AppCall \/ AppStep PROVE MonitorShape'
  OBVIOUS
<1>m. monitor \in MonitorState /\ thread \in [Thread -> ThreadState]
  BY DEF Inv, TypeOK
<1>t. "app" \in Thread /\ "app" # "handler" /\ "handler" \in Thread \ {"app"}
  BY DEF Thread
<1>u. /\ Unregistered.registered = FALSE /\ Unregistered.destroyed = monitor.destroyed
      /\ Unregistered.quit = monitor.quit /\ Unregistered \in MonitorState
  BY <1>m, UnregisteredType DEF Unregistered, MonitorState, Inv
<1>1. CASE Register
  <2>1. /\ monitor'.registered = TRUE /\ monitor'.destroyed = monitor.destroyed
        /\ monitor'.quit = monitor.quit /\ monitor'.checks = monitor.checks + 1
        /\ ~monitor.destroyed /\ UNCHANGED thread /\ monitor.checks \in Nat
    BY <1>1, <1>m DEF Register, MonitorState
  <2> QED
    BY <2>1 DEF Inv, MonitorShape, RegisteredIsChecked, Destroying
<1>2. CASE Unregister
  <2>1. monitor' = Unregistered /\ UNCHANGED thread
    BY <1>2 DEF Unregister
  <2> QED
    BY <1>u, <2>1 DEF Inv, MonitorShape, RegisteredIsChecked, Destroying
<1>3. CASE Destroy
  <2>1. monitor'.registered = FALSE /\ monitor'.destroyed = TRUE
    BY <1>3, <1>u DEF Destroy, MonitorState
  <2> QED
    BY <2>1 DEF MonitorShape, RegisteredIsChecked
<1>4. CASE CloseCamera \/ \E b \in Block : OpenCamera(b)
  <2>1. PICK d \in Device \cup {None}, then \in {"idle", "clone"} : ReleaseCamera(d, then)
    <3>1. CASE CloseCamera
      BY <3>1 DEF CloseCamera
    <3>2. ASSUME NEW b \in Block, OpenCamera(b)
          PROVE \E d \in Device \cup {None}, then \in {"idle", "clone"} : ReleaseCamera(d, then)
      <4>1. block[b].dev \in Device \cup {None}
        BY DEF Inv, TypeOK, BlockState
      <4> QED
        BY <3>2, <4>1 DEF OpenCamera
    <3> QED
      BY <1>4, <3>1, <3>2
  <2>2. UNCHANGED monitor
    BY <1>4 DEF CloseCamera, OpenCamera
  <2>3. PICK s : thread' = [thread EXCEPT !["app"] = s] /\ s.pc # "destroy"
                 /\ ~(s.pc \in {"close", "unmap"} /\ s.then = "destroy")
    <3>1. CASE camera.blk # None
      <4> DEFINE s == [pc |-> "close", dev |-> d, blk |-> camera.blk, then |-> then]
      <4>1. s.pc = "close" /\ s.then = then
        OBVIOUS
      <4>2. thread' = [thread EXCEPT !["app"] = s]
        BY <2>1, <3>1 DEF ReleaseCamera, Closing
      <4> HIDE DEF s
      <4> QED
        BY <4>1, <4>2
    <3>2. CASE camera.blk = None
      <4> DEFINE s == [Idle EXCEPT !.pc = then, !.dev = d]
      <4>1. s.pc = then
        BY DEF Idle
      <4>2. thread' = [thread EXCEPT !["app"] = s]
        BY <2>1, <3>2 DEF ReleaseCamera
      <4> HIDE DEF s
      <4> QED
        BY <4>1, <4>2
    <3> QED
      BY <3>1, <3>2
  <2> QED
    BY <1>t, <2>2, <2>3, ThreadKeeps
<1>5. ASSUME NEW d \in Device, RequestPermission(d) PROVE MonitorShape'
  BY <1>5, KnownKeeps, SameMonitor DEF RequestPermission, ProcessConnect, ProcessCancel
<1>6. ASSUME NEW d \in Device, OpenDevice(d) PROVE MonitorShape'
  <2>1. /\ monitor'.registered = monitor.registered /\ monitor'.destroyed = monitor.destroyed
        /\ monitor'.quit = monitor.quit /\ monitor'.checks = monitor.checks
    BY <1>6, <1>m DEF OpenDevice, MonitorState
  <2>2. CASE UNCHANGED thread
    BY <2>1, <2>2, MonitorKeeps DEF Destroying
  <2>3. CASE NewBlock("app", d)
    <3>1. thread'["app"].pc = "put" /\ thread'["handler"] = thread["handler"]
      BY <1>m, <1>t, <2>3 DEF NewBlock, Idle
    <3> QED
      BY <2>1, <3>1, MonitorKeeps DEF Destroying
  <2> QED
    BY <1>6, <2>2, <2>3 DEF OpenDevice
<1>7. ASSUME NEW b \in Block, CloseBlock(b) PROVE MonitorShape'
  <2>1. UNCHANGED monitor /\ thread'["handler"] = thread["handler"]
        /\ thread'["app"].pc = "close" /\ thread'["app"].then = "idle"
    BY <1>7, <1>m, <1>t DEF CloseBlock, Closing
  <2> QED
    BY <2>1, MonitorKeeps DEF Destroying
<1>8. CASE CloneBlock \/ NativeConnect
  <2>1. UNCHANGED monitor /\ thread'["handler"] = thread["handler"]
    BY <1>8, <1>m, <1>t DEF CloneBlock, NativeConnect, Return, Goto
  <2>2. thread'["app"].pc \in {"idle", "connect"}
    <3>1. Return("app") \/ Goto("app", "connect")
      BY <1>8 DEF CloneBlock, NativeConnect
    <3> QED
      BY <3>1, <1>m, <1>t DEF Return, Goto, Idle, ThreadState
  <2> QED
    BY <2>1, <2>2, MonitorKeeps DEF Destroying
<1>9. CASE EndDestroy
  <2>1. /\ monitor'.registered = monitor.registered /\ monitor'.destroyed = monitor.destroyed
        /\ thread["app"].pc = "destroy" /\ thread'["app"].pc = "idle"
    BY <1>9, <1>m, <1>t DEF EndDestroy, MonitorState, Return, Idle, At
  <2> QED
    BY <2>1 DEF Inv, MonitorShape, RegisteredIsChecked, Destroying
<1>10. ASSUME NEW d \in Device, DestroyBlock(d) PROVE MonitorShape'
  <2>1. /\ monitor'.registered = monitor.registered /\ monitor'.destroyed = monitor.destroyed
        /\ monitor'.quit = monitor.quit /\ monitor'.checks = monitor.checks
    BY <1>10, <1>m DEF DestroyBlock, MonitorState
  <2>2. thread["app"].pc = "destroy" /\ thread'["handler"] = thread["handler"]
    BY <1>10, <1>m, <1>t DEF DestroyBlock, Closing, At
  <2> QED
    BY <2>1, <2>2, MonitorKeeps DEF Destroying
<1> QED
  BY <1>1, <1>2, <1>3, <1>4, <1>5, <1>6, <1>7, <1>8, <1>9, <1>10 DEF AppCall, AppStep

LEMMA NextInv == Inv /\ [Next]_vars => Inv'
<1> SUFFICES ASSUME Inv, [Next]_vars PROVE Inv'
  OBVIOUS
<1>1. TypeOK'
  BY NextType DEF Inv, Shape
<1>2. Shape'
  BY <1>1, NextShape
<1>3. MonitorShape'
  <2>1. CASE UNCHANGED vars
    BY <2>1, SameMonitor DEF vars
  <2>2. CASE Service
    BY <2>2, SameMonitor DEF Service, PlugIn, Unplug, Decide
  <2> QED
    BY <2>1, <2>2, AppMonitor, MainMonitor, HandlerMonitor, BlockMonitor DEF Next
<1> QED
  BY <1>1, <1>2, <1>3 DEF Inv

LEMMA InvHolds == Spec => []Inv
<1>1. Init => Inv
  BY InitType, InitShape DEF Inv
<1> QED
  BY <1>1, NextInv, PTL DEF Spec
-----------------------------------------------------------------------------
(* The theorems.                                                            *)

\* Every field of the monitor, its blocks, its threads and the camera holds a value of
\* its type; in particular every block that was opened has a device.
THEOREM MonitorTypeCorrect == Spec => []TypeOK
<1>1. Inv => TypeOK
  BY DEF Inv
<1> QED
  BY <1>1, InvHolds, PTL

\* No openDevice and no connect message finds a closed block in the map once the thread
\* that closed it has returned from UsbControlBlock.close.
THEOREM ClosedBlocksLeave == Spec => []ClosedBlockLeaves
<1>1. Inv => ClosedBlockLeaves
  BY DEF Inv, Shape
<1> QED
  BY <1>1, InvHolds, PTL

\* Nobody but UVCCamera.close closes the connection of a connected camera.
THEOREM CameraIsConnected == Spec => []CameraHasConnection
<1>1. Inv => CameraHasConnection
  BY DEF Inv, Shape, CameraShape
<1> QED
  BY <1>1, InvHolds, PTL

\* A registered monitor never loses its check of the devices.
THEOREM DevicesAreChecked == Spec => []RegisteredIsChecked
<1>1. Inv => RegisteredIsChecked
  BY DEF Inv, MonitorShape
<1> QED
  BY <1>1, InvHolds, PTL

-----------------------------------------------------------------------------
(* The detailed specification implements ControlBlocks.                     *)

LEMMA InitPromise == Init => Promise!Init
BY DEF Init, Promise!Init

\* A step that changes neither a connection nor the map.
LEMMA PromiseStutters ==
  ASSUME UNCHANGED blocks
  PROVE  UNCHANGED Promise!vars
BY DEF Promise!vars, blocks

\* A step that may empty entries of the map.
LEMMA PromiseRemoves ==
  ASSUME Inv, UNCHANGED block, NEW d \in Device, mCtrlBlocks' = [mCtrlBlocks EXCEPT ![d] = None]
  PROVE  Promise!Next
<1>1. Promise!Remove(d)
  BY DEF Promise!Remove
<1> QED
  BY <1>1 DEF Promise!Next

LEMMA PromiseOpens ==
  ASSUME Inv, NEW b \in Block, NEW d, NEW copy \in BOOLEAN, NEW c \in {"open", "null"},
         Opened(b, d, copy, c), UNCHANGED mCtrlBlocks
  PROVE  Promise!Next
<1>1. block' = [block EXCEPT ![b] = [conn |-> c, dev |-> d, copy |-> copy, heard |-> FALSE]]
      /\ block[b].conn = "free" /\ block \in [Block -> BlockState]
  BY DEF Opened, Inv, TypeOK
<1>2. block[b].heard = FALSE
  BY <1>1 DEF Inv, TypeOK, BlockState, Shape, KnownBlocks
<1>3. [x \in Block |-> block'[x].conn] = [[x \in Block |-> block[x].conn] EXCEPT ![b] = c]
  BY <1>1
<1>4. {x \in Block : block'[x].heard} = {x \in Block : block[x].heard}
  BY <1>1, <1>2
<1>5. Promise!Open(b)
  BY <1>1, <1>3, <1>4 DEF Promise!Open
<1> QED
  BY <1>5 DEF Promise!Next

LEMMA BlockPromise ==
  ASSUME Inv, NEW t \in Thread, BlockStep(t)
  PROVE  [Promise!Next]_(Promise!vars)
<1>b. PICK b \in Block : thread[t].blk = b
  BY DEF BlockStep, CloseConnection, Unmap, Put, At, Inv, Shape, ThreadShape
<1>y. block \in [Block -> BlockState]
  BY DEF Inv, TypeOK
<1>1. CASE CloseConnection(t)
  <2>1. CASE block[b].conn = "open"
    <3> DEFINE closed == [block[b] EXCEPT !.conn = "closed", !.heard = TRUE]
    <3>1. block' = [block EXCEPT ![b] = closed] /\ UNCHANGED mCtrlBlocks
      BY <1>1, <1>b, <1>y, <2>1 DEF CloseConnection
    <3>2. closed.conn = "closed" /\ closed.heard = TRUE
      BY <1>b, <1>y DEF BlockState
    <3> HIDE DEF closed
    <3>3. [x \in Block |-> block'[x].conn] = [[x \in Block |-> block[x].conn] EXCEPT ![b] = "closed"]
      BY <1>b, <1>y, <3>1, <3>2
    <3>4. {x \in Block : block'[x].heard} = {x \in Block : block[x].heard} \cup {b}
      BY <1>b, <1>y, <3>1, <3>2
    <3>5. Promise!Close(b)
      BY <1>b, <2>1, <3>1, <3>3, <3>4 DEF Promise!Close
    <3> QED
      BY <3>5 DEF Promise!Next
  <2>2. CASE block[b].conn # "open"
    BY <1>1, <1>b, <2>2, PromiseStutters DEF CloseConnection, blocks
  <2> QED
    BY <2>1, <2>2
<1>2. CASE Unmap(t)
  <2>1. block[b].dev \in Device
    BY <1>2, <1>b, MonitorConstants DEF Unmap, At, Inv, TypeOK, Shape, KnownBlocks
  <2> QED
    BY <1>2, <1>b, <2>1, PromiseRemoves DEF Unmap
<1>3. CASE Put(t)
  <2>1. /\ thread[t].dev \in Device /\ block[b].conn \in {"open", "null"}
        /\ mCtrlBlocks' = [mCtrlBlocks EXCEPT ![thread[t].dev] = b] /\ UNCHANGED block
    BY <1>3, <1>b DEF Put, At, Inv, Shape, ThreadShape, NewBlocks
  <2>2. Promise!Publish(thread[t].dev, b)
    BY <1>b, <2>1 DEF Promise!Publish
  <2> QED
    BY <1>b, <2>1, <2>2 DEF Promise!Next
<1> QED
  BY <1>1, <1>2, <1>3 DEF BlockStep

LEMMA AppPromise == Inv /\ (AppCall \/ AppStep) => [Promise!Next]_(Promise!vars)
<1> SUFFICES ASSUME Inv, AppCall \/ AppStep PROVE [Promise!Next]_(Promise!vars)
  OBVIOUS
<1>1. CASE Register \/ Unregister \/ CloseCamera \/ Destroy
  BY <1>1, PromiseStutters DEF Register, Unregister, CloseCamera, Destroy
<1>2. ASSUME NEW d \in Device, RequestPermission(d) PROVE [Promise!Next]_(Promise!vars)
  BY <1>2, PromiseStutters DEF RequestPermission
<1>3. ASSUME NEW d \in Device, OpenDevice(d) PROVE [Promise!Next]_(Promise!vars)
  <2>1. CASE NewBlock("app", d)
    BY <1>3, <2>1, PromiseOpens DEF OpenDevice, NewBlock
  <2>2. CASE UNCHANGED block
    BY <1>3, <2>2, PromiseStutters DEF OpenDevice, blocks
  <2> QED
    BY <1>3, <2>1, <2>2 DEF OpenDevice
<1>4. ASSUME NEW b \in Block, CloseBlock(b) \/ OpenCamera(b) PROVE [Promise!Next]_(Promise!vars)
  BY <1>4, PromiseStutters DEF CloseBlock, OpenCamera
<1>5. CASE CloneBlock
  <2>1. CASE UNCHANGED block
    BY <1>5, <2>1, PromiseStutters DEF CloneBlock, blocks
  <2>2. ASSUME NEW b \in Block, Opened(b, thread["app"].dev, TRUE, "open")
        PROVE  Promise!Next
    BY <1>5, <2>2, PromiseOpens DEF CloneBlock
  <2> QED
    BY <1>5, <2>1, <2>2 DEF CloneBlock
<1>6. CASE NativeConnect
  BY <1>6, PromiseStutters DEF NativeConnect
<1>7. CASE EndDestroy
  <2>1. Promise!Clear
    BY <1>7 DEF EndDestroy, Promise!Clear
  <2> QED
    BY <2>1 DEF Promise!Next
<1>8. ASSUME NEW d \in Device, DestroyBlock(d) PROVE [Promise!Next]_(Promise!vars)
  BY <1>8, PromiseRemoves DEF DestroyBlock
<1> QED
  BY <1>1, <1>2, <1>3, <1>4, <1>5, <1>6, <1>7, <1>8 DEF AppCall, AppStep

LEMMA HandlerPromise == Inv /\ HandlerStep => [Promise!Next]_(Promise!vars)
<1> SUFFICES ASSUME Inv, HandlerStep PROVE [Promise!Next]_(Promise!vars)
  OBVIOUS
<1>1. CASE RunConnect
  <2>1. CASE UNCHANGED block
    BY <1>1, <2>1, PromiseStutters DEF RunConnect, blocks
  <2>2. ASSUME NEW d, NewBlock("handler", d) PROVE Promise!Next
    BY <1>1, <2>2, PromiseOpens DEF RunConnect, NewBlock
  <2> QED
    BY <1>1, <2>1, <2>2 DEF RunConnect
<1>2. CASE CheckConnection \/ TellConnect \/ RunNotice \/ CheckDevices \/ ListDevices
         \/ CompareDevices
  BY <1>2, PromiseStutters DEF CheckConnection, TellConnect, RunNotice, CheckDevices, ListDevices,
    CompareDevices
<1> QED
  BY <1>1, <1>2 DEF HandlerStep

LEMMA MainPromise == Inv /\ MainStep => [Promise!Next]_(Promise!vars)
<1> SUFFICES ASSUME Inv, MainStep PROVE [Promise!Next]_(Promise!vars)
  OBVIOUS
<1>1. CASE Detach
  BY <1>1, PromiseStutters DEF Detach
<1>2. ASSUME NEW d \in Device, NEW answer, OnAttached(d) \/ OnPermission(d, answer)
      PROVE [Promise!Next]_(Promise!vars)
  BY <1>2, PromiseStutters DEF OnAttached, OnPermission, Receive, blocks
<1>3. ASSUME NEW d \in Device, OnDetached(d) PROVE [Promise!Next]_(Promise!vars)
  <2>1. CASE monitor.destroyed
    BY <1>3, <2>1, PromiseStutters DEF OnDetached, Receive, blocks
  <2>2. CASE ~monitor.destroyed
    BY <1>3, <2>2, PromiseRemoves DEF OnDetached, Receive
  <2> QED
    BY <2>1, <2>2
<1> QED
  BY <1>1, <1>2, <1>3 DEF MainStep

\* Whatever the threads interleave, the control blocks keep what ControlBlocks promises:
\* opened once, closed once and with onDisconnect, and never put in the map when closed.
THEOREM PromiseIsSafe == Spec => Promise!Safe
<1>1. Inv /\ [Next]_vars => [Promise!Next]_(Promise!vars)
  <2> SUFFICES ASSUME Inv, [Next]_vars PROVE [Promise!Next]_(Promise!vars)
    OBVIOUS
  <2>1. CASE UNCHANGED vars
    BY <2>1, PromiseStutters DEF vars
  <2>2. CASE Service
    BY <2>2, PromiseStutters DEF Service, PlugIn, Unplug, Decide
  <2> QED
    BY <2>1, <2>2, AppPromise, MainPromise, HandlerPromise, BlockPromise DEF Next
<1> QED
  BY <1>1, InitPromise, InvHolds, PTL DEF Spec, Promise!Safe
=============================================================================
