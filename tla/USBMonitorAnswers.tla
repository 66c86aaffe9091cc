--------------------------- MODULE USBMonitorAnswers ---------------------------
(***************************************************************************)
(* The listener of USBMonitor owes one answer for each connect in the queue *)
(* and one for the connect in progress, for every set of devices and every  *)
(* number of calls. The invariant adds that a connect is for one device and *)
(* that the handler has a device exactly while it works on a connect.       *)
(***************************************************************************)
EXTENDS USBMonitorProof, FunctionTheorems

Connect(d) == [what |-> "connect", devs |-> {d}]
Connects(q, d) == {i \in DOMAIN q : q[i] = Connect(d)}

HandlerPlaces ==
  /\ thread["handler"].pc \in {"idle", "list", "compare", "dead", "put", "check", "tell"}
  /\ thread["handler"].dev = None
       <=> thread["handler"].pc \in {"idle", "list", "compare", "dead"}

ConnectsOfOne ==
  \A i \in DOMAIN queue : queue[i].what = "connect" => \E d \in Device : queue[i].devs = {d}

AnswersShape == HandlerPlaces /\ ConnectsOfOne /\ AnswersAreOwed

-----------------------------------------------------------------------------
(* The connects in a queue.                                                *)

LEMMA ConnectsFinite ==
  ASSUME NEW q \in Seq(Message), NEW d
  PROVE  IsFiniteSet(Connects(q, d)) /\ Cardinality(Connects(q, d)) \in Nat
<1>1. Len(q) \in Nat /\ DOMAIN q = 1..Len(q)
  OBVIOUS
<1>2. IsFiniteSet(1..Len(q))
  BY <1>1, FS_Interval
<1>3. Connects(q, d) \in SUBSET (1..Len(q))
  BY <1>1 DEF Connects
<1> QED
  BY <1>2, <1>3, FS_Subset, FS_CardinalityType

LEMMA ConnectsAppend ==
  ASSUME NEW q \in Seq(Message), NEW m \in Message, NEW d
  PROVE  Cardinality(Connects(Append(q, m), d))
           = Cardinality(Connects(q, d)) + (IF m = Connect(d) THEN 1 ELSE 0)
<1> DEFINE n == Len(q) + 1
<1>1. Len(q) \in Nat /\ DOMAIN q = 1..Len(q) /\ DOMAIN Append(q, m) = 1..n
  OBVIOUS
<1>2. Append(q, m)[n] = m /\ \A i \in 1..Len(q) : Append(q, m)[i] = q[i]
  OBVIOUS
<1>3. n \notin Connects(q, d)
  BY <1>1 DEF Connects
<1>4. CASE m = Connect(d)
  <2>1. Connects(Append(q, m), d) = Connects(q, d) \cup {n}
    BY <1>1, <1>2, <1>4 DEF Connects
  <2> QED
    BY <1>3, <1>4, <2>1, ConnectsFinite, FS_AddElement
<1>5. CASE m # Connect(d)
  <2>1. Connects(Append(q, m), d) = Connects(q, d)
    BY <1>1, <1>2, <1>5 DEF Connects
  <2> QED
    BY <1>5, <2>1, ConnectsFinite
<1> QED
  BY <1>4, <1>5

LEMMA ConnectsTail ==
  ASSUME NEW q \in Seq(Message), q # <<>>, NEW d
  PROVE  Cardinality(Connects(q, d))
           = Cardinality(Connects(Tail(q), d)) + (IF Head(q) = Connect(d) THEN 1 ELSE 0)
<1> DEFINE S == Connects(Tail(q), d)
           T == Connects(q, d) \ {1}
           f == [i \in S |-> i + 1]
<1>1. /\ Len(q) \in Nat \ {0} /\ DOMAIN q = 1..Len(q) /\ Head(q) = q[1]
      /\ Tail(q) \in Seq(Message) /\ DOMAIN Tail(q) = 1..(Len(q) - 1)
      /\ \A i \in 1..(Len(q) - 1) : Tail(q)[i] = q[i + 1]
  OBVIOUS
<1>2. S \subseteq 1..(Len(q) - 1)
  BY <1>1 DEF Connects
<1>3. f \in [S -> T]
  <2>1. \A i \in S : i + 1 \in T
    BY <1>1, <1>2 DEF Connects
  <2> QED
    BY <2>1
<1>4. \A a, b \in S : f[a] = f[b] => a = b
  BY <1>1, <1>2
<1>5. \A t \in T : \E s \in S : f[s] = t
  <2> SUFFICES ASSUME NEW t \in T PROVE \E s \in S : f[s] = t
    OBVIOUS
  <2>1. t \in 2..Len(q) /\ q[t] = Connect(d)
    BY <1>1 DEF Connects
  <2>2. t - 1 \in 1..(Len(q) - 1) /\ (t - 1) + 1 = t
    BY <1>1, <2>1
  <2>3. t - 1 \in S
    BY <1>1, <2>1, <2>2 DEF Connects
  <2> QED
    BY <2>2, <2>3
<1>6. ExistsBijection(S, T)
  <2> HIDE DEF f, S, T
  <2>1. f \in Bijection(S, T)
    BY <1>3, <1>4, <1>5, Fun_IsBij
  <2> QED
    BY <2>1 DEF ExistsBijection
<1>7. IsFiniteSet(T) /\ Cardinality(T) = Cardinality(S)
  BY <1>1, <1>6, ConnectsFinite, FS_Bijection
<1>8. Cardinality(S) \in Nat
  BY <1>1, ConnectsFinite
<1> HIDE DEF S, T, f
<1>9. CASE Head(q) = Connect(d)
  <2>1. Connects(q, d) = T \cup {1} /\ 1 \notin T
    BY <1>1, <1>9 DEF Connects, T
  <2> QED
    BY <1>7, <1>8, <1>9, <2>1, FS_AddElement DEF S
<1>10. CASE Head(q) # Connect(d)
  <2>1. Connects(q, d) = T
    BY <1>1, <1>10 DEF Connects, T
  <2> QED
    BY <1>7, <1>8, <1>10, <2>1 DEF S
<1> QED
  BY <1>9, <1>10

-----------------------------------------------------------------------------
(* What the steps have in common.                                          *)

LEMMA OwedCount ==
  AnswersAreOwed <=>
    (~monitor.quit =>
       \A d \in Device : waiting[d] = Cardinality(Connects(queue, d))
                                      + (IF thread["handler"].dev = d THEN 1 ELSE 0))
BY DEF AnswersAreOwed, Connects, Connect

LEMMA OwedCountNext ==
  AnswersAreOwed' <=>
    (~monitor'.quit =>
       \A d \in Device : waiting'[d] = Cardinality(Connects(queue', d))
                                      + (IF thread'["handler"].dev = d THEN 1 ELSE 0))
BY DEF AnswersAreOwed, Connects, Connect

LEMMA SameAnswers ==
  ASSUME AnswersShape, UNCHANGED <<waiting, queue>>, monitor'.quit = monitor.quit,
         thread'["handler"] = thread["handler"]
  PROVE  AnswersShape'
BY DEF AnswersShape, HandlerPlaces, ConnectsOfOne, AnswersAreOwed

LEMMA PostAnswers ==
  ASSUME TypeOK, AnswersShape, UNCHANGED waiting, monitor'.quit = monitor.quit,
         thread'["handler"].dev = thread["handler"].dev, HandlerPlaces',
         NEW what \in {"cancel", "attach", "detach"}, NEW devs \in SUBSET Device,
         Post(what, devs)
  PROVE  AnswersShape'
<1> DEFINE m == [what |-> what, devs |-> devs]
<1>1. CASE monitor.quit
  BY <1>1 DEF AnswersShape, ConnectsOfOne, AnswersAreOwed, Post
<1>2. CASE ~monitor.quit
  <2>1. m \in Message /\ queue \in Seq(Message) /\ queue' = Append(queue, m)
    BY <1>2 DEF Message, TypeOK, Post
  <2>2. \A d \in Device : m # Connect(d)
    BY DEF Connect
  <2>3. \A d \in Device : Cardinality(Connects(queue', d)) = Cardinality(Connects(queue, d))
    BY <2>1, <2>2, ConnectsAppend, ConnectsFinite
  <2>4. ConnectsOfOne'
    <3> SUFFICES ASSUME NEW i \in DOMAIN queue', queue'[i].what = "connect"
                 PROVE  \E d \in Device : queue'[i].devs = {d}
      BY DEF ConnectsOfOne
    <3>1. i \in DOMAIN queue /\ queue'[i] = queue[i]
      <4>1. i \in 1..Len(queue) \/ queue'[i] = m
        BY <2>1
      <4>2. m.what # "connect"
        OBVIOUS
      <4> QED
        BY <2>1, <4>1, <4>2
    <3> QED
      BY <3>1 DEF AnswersShape, ConnectsOfOne
  <2> QED
    BY <2>3, <2>4, OwedCount, OwedCountNext DEF AnswersShape
<1> QED
  BY <1>1, <1>2

LEMMA ProcessConnectAnswers ==
  ASSUME TypeOK, AnswersShape, NEW d \in Device, ProcessConnect(d),
         thread'["handler"] = thread["handler"]
  PROVE  AnswersShape'
<1> DEFINE m == Connect(d)
<1>1. CASE monitor.destroyed
  BY <1>1, SameAnswers DEF ProcessConnect
<1>2. CASE ~monitor.destroyed
  <2>1. monitor'.quit = monitor.quit
    BY <1>2 DEF ProcessConnect, TypeOK, MonitorState
  <2>2. HandlerPlaces'
    BY DEF AnswersShape, HandlerPlaces
  <2>3. CASE monitor.quit
    <3>1. UNCHANGED queue
      BY <1>2, <2>3 DEF ProcessConnect, Post
    <3> QED
      BY <2>1, <2>2, <2>3, <3>1 DEF AnswersShape, ConnectsOfOne, AnswersAreOwed
  <2>4. CASE ~monitor.quit
    <3>1. m \in Message /\ queue \in Seq(Message) /\ queue' = Append(queue, m)
      BY <1>2, <2>4 DEF Connect, Message, TypeOK, ProcessConnect, Post
    <3>2. waiting' = [waiting EXCEPT ![d] = @ + 1] /\ waiting \in [Device -> Int]
      BY <1>2 DEF ProcessConnect, TypeOK
    <3>3. \A e \in Device : (m = Connect(e)) <=> e = d
      BY DEF Connect
    <3>4. ASSUME NEW e \in Device
          PROVE  waiting'[e] = Cardinality(Connects(queue', e))
                               + (IF thread'["handler"].dev = e THEN 1 ELSE 0)
      <4>1. /\ Cardinality(Connects(queue', e))
                 = Cardinality(Connects(queue, e)) + (IF e = d THEN 1 ELSE 0)
            /\ Cardinality(Connects(queue, e)) \in Nat
        BY <3>1, <3>3, ConnectsAppend, ConnectsFinite
      <4>2. waiting[e] = Cardinality(Connects(queue, e))
                         + (IF thread["handler"].dev = e THEN 1 ELSE 0)
        BY <2>4, OwedCount DEF AnswersShape
      <4>3. waiting'[e] = waiting[e] + (IF e = d THEN 1 ELSE 0)
        BY <3>2
      <4> QED
        BY <4>1, <4>2, <4>3
    <3>5. ConnectsOfOne'
      <4> SUFFICES ASSUME NEW i \in DOMAIN queue', queue'[i].what = "connect"
                   PROVE  \E e \in Device : queue'[i].devs = {e}
        BY DEF ConnectsOfOne
      <4>1. (i \in DOMAIN queue /\ queue'[i] = queue[i]) \/ queue'[i] = m
        BY <3>1
      <4> QED
        BY <4>1 DEF AnswersShape, ConnectsOfOne, Connect
    <3> QED
      BY <2>2, <3>4, <3>5, OwedCountNext DEF AnswersShape
  <2> QED
    BY <2>3, <2>4
<1> QED
  BY <1>1, <1>2

LEMMA ProcessCancelAnswers ==
  ASSUME TypeOK, AnswersShape, NEW d \in Device, ProcessCancel(d),
         thread'["handler"] = thread["handler"]
  PROVE  AnswersShape'
<1>1. CASE monitor.destroyed
  BY <1>1, SameAnswers DEF ProcessCancel
<1>2. CASE ~monitor.destroyed
  <2>1. monitor'.quit = monitor.quit /\ Post("cancel", {d}) /\ UNCHANGED waiting
    BY <1>2 DEF ProcessCancel, TypeOK, MonitorState
  <2>2. HandlerPlaces'
    BY DEF AnswersShape, HandlerPlaces
  <2> QED
    BY <2>1, <2>2, PostAnswers
<1> QED
  BY <1>1, <1>2

-----------------------------------------------------------------------------
(* The application and the main thread leave the handler where it is.      *)

LEMMA OtherMoves ==
  ASSUME TypeOK, NEW t \in {"app", "main"}, NEW s, thread' = [thread EXCEPT ![t] = s]
  PROVE  thread'["handler"] = thread["handler"]
BY DEF TypeOK, Thread

LEMMA OtherReturns ==
  ASSUME TypeOK, NEW t \in {"app", "main"}, NEW pc, Return(t) \/ Goto(t, pc) \/ GoOn(t)
  PROVE  thread'["handler"] = thread["handler"]
BY DEF TypeOK, Thread, Return, Goto, GoOn

LEMMA OtherCloses ==
  ASSUME TypeOK, NEW t \in {"app", "main"}, NEW b, NEW d, NEW then, Closing(t, b, d, then)
  PROVE  thread'["handler"] = thread["handler"]
BY OtherMoves DEF Closing

LEMMA OtherBlock ==
  ASSUME TypeOK, NEW t \in {"app", "main"}, NEW d, NewBlock(t, d)
  PROVE  thread'["handler"] = thread["handler"]
BY OtherMoves DEF NewBlock

LEMMA BlockAnswers ==
  ASSUME TypeOK, AnswersShape, NEW t \in Thread, BlockStep(t)
  PROVE  AnswersShape'
<1>1. UNCHANGED <<waiting, queue, monitor>>
  BY DEF BlockStep, CloseConnection, Unmap, Put
<1>2. CASE t \in {"app", "main"}
  <2>1. thread'["handler"] = thread["handler"]
    BY <1>2, OtherReturns DEF BlockStep, CloseConnection, Unmap, Put
  <2> QED
    BY <1>1, <2>1, SameAnswers
<1>3. CASE t = "handler"
  <2>1. At("handler", "put") /\ Put("handler")
    BY <1>3 DEF BlockStep, CloseConnection, Unmap, Put, At, AnswersShape, HandlerPlaces
  <2>2. thread' = [thread EXCEPT !["handler"].pc = "check"]
    BY <2>1 DEF Put, Goto
  <2>3. thread'["handler"].dev = thread["handler"].dev /\ thread'["handler"].pc = "check"
    BY <2>2 DEF TypeOK, Thread, ThreadState
  <2>4. HandlerPlaces'
    BY <2>1, <2>3 DEF At, AnswersShape, HandlerPlaces
  <2> QED
    BY <1>1, <2>3, <2>4 DEF AnswersShape, ConnectsOfOne, AnswersAreOwed
<1> QED
  BY <1>2, <1>3 DEF Thread

LEMMA MainAnswers == TypeOK /\ ThreadShape /\ AnswersShape /\ MainStep => AnswersShape'
<1> SUFFICES ASSUME TypeOK, ThreadShape, AnswersShape, MainStep PROVE AnswersShape'
  OBVIOUS
<1>1. CASE Detach
  <2>1. thread'["handler"] = thread["handler"]
    BY <1>1, OtherReturns DEF Detach
  <2>2. monitor'.quit = monitor.quit /\ UNCHANGED waiting
    BY <1>1 DEF Detach, TypeOK, MonitorState
  <2>3. CASE monitor.destroyed
    BY <1>1, <2>1, <2>2, <2>3, SameAnswers DEF Detach
  <2>4. CASE ~monitor.destroyed
    <3>d. thread["main"].dev \in Device
      BY <1>1 DEF Detach, At, ThreadShape, Thread
    <3>1. Post("detach", {thread["main"].dev})
      BY <1>1, <2>4 DEF Detach
    <3>2. HandlerPlaces'
      BY <2>1 DEF AnswersShape, HandlerPlaces
    <3> QED
      BY <2>1, <2>2, <3>d, <3>1, <3>2, PostAnswers
  <2> QED
    BY <2>3, <2>4
<1>2. ASSUME NEW d \in Device, OnAttached(d) PROVE AnswersShape'
  <2>1. thread' = thread /\ UNCHANGED waiting
    BY <1>2 DEF OnAttached
  <2>2. CASE monitor.destroyed
    BY <1>2, <2>1, <2>2, SameAnswers DEF OnAttached
  <2>3. CASE ~monitor.destroyed
    <3>1. monitor'.quit = monitor.quit /\ Post("attach", {d})
      BY <1>2, <2>3 DEF OnAttached, TypeOK, MonitorState
    <3>2. HandlerPlaces'
      BY <2>1 DEF AnswersShape, HandlerPlaces
    <3> QED
      BY <2>1, <3>1, <3>2, PostAnswers
  <2> QED
    BY <2>2, <2>3
<1>3. ASSUME NEW d \in Device, OnDetached(d) PROVE AnswersShape'
  <2>1. UNCHANGED <<monitor, queue, waiting>>
    BY <1>3 DEF OnDetached
  <2>2. thread'["handler"] = thread["handler"]
    <3>1. CASE monitor.destroyed
      BY <1>3, <3>1 DEF OnDetached
    <3>2. CASE ~monitor.destroyed /\ mCtrlBlocks[d] # None
      BY <1>3, <3>2, OtherCloses DEF OnDetached
    <3>3. CASE ~monitor.destroyed /\ mCtrlBlocks[d] = None
      BY <1>3, <3>3, OtherMoves DEF OnDetached
    <3> QED
      BY <3>1, <3>2, <3>3
  <2> QED
    BY <2>1, <2>2, SameAnswers
<1>4. ASSUME NEW d \in Device, OnPermission(d, "granted") PROVE AnswersShape'
  BY <1>4, ProcessConnectAnswers DEF OnPermission
<1>5. ASSUME NEW d \in Device, OnPermission(d, "denied") PROVE AnswersShape'
  BY <1>5, ProcessCancelAnswers DEF OnPermission
<1> QED
  BY <1>1, <1>2, <1>3, <1>4, <1>5 DEF MainStep

LEMMA AppAnswers == TypeOK /\ AnswersShape /\ (AppCall \/ AppStep) => AnswersShape'
<1> SUFFICES ASSUME TypeOK, AnswersShape, AppCall \/ AppStep PROVE AnswersShape'
  OBVIOUS
<1>m. monitor \in MonitorState
  BY DEF TypeOK
<1>u. Unregistered.quit = monitor.quit
  BY <1>m DEF Unregistered, MonitorState
<1>1. CASE Register \/ Unregister
  <2>1. monitor'.quit = monitor.quit
    BY <1>1, <1>m, <1>u DEF Register, Unregister, MonitorState
  <2> QED
    BY <1>1, <2>1, SameAnswers DEF Register, Unregister
<1>2. CASE CloseCamera
  <2>1. thread'["handler"] = thread["handler"]
    BY <1>2, OtherCloses, OtherMoves DEF CloseCamera, ReleaseCamera
  <2> QED
    BY <1>2, <2>1, SameAnswers DEF CloseCamera
<1>3. CASE Destroy
  <2>1. monitor'.quit = monitor.quit
    BY <1>3, <1>m DEF Destroy, Unregistered, MonitorState
  <2>2. thread'["handler"] = thread["handler"]
    BY <1>3, OtherReturns DEF Destroy
  <2> QED
    BY <1>3, <2>1, <2>2, SameAnswers DEF Destroy
<1>4. ASSUME NEW d \in Device, RequestPermission(d) PROVE AnswersShape'
  <2>1. thread' = thread
    BY <1>4 DEF RequestPermission
  <2> QED
    BY <1>4, <2>1, ProcessConnectAnswers, ProcessCancelAnswers, SameAnswers DEF RequestPermission
<1>5. ASSUME NEW d \in Device, OpenDevice(d) PROVE AnswersShape'
  <2>1. monitor'.quit = monitor.quit /\ UNCHANGED <<queue, waiting>>
    BY <1>5, <1>m DEF OpenDevice, MonitorState
  <2>2. thread'["handler"] = thread["handler"]
    BY <1>5, OtherBlock DEF OpenDevice
  <2> QED
    BY <2>1, <2>2, SameAnswers
<1>6. ASSUME NEW b \in Block, CloseBlock(b) PROVE AnswersShape'
  <2>1. thread'["handler"] = thread["handler"]
    BY <1>6, OtherCloses DEF CloseBlock
  <2> QED
    BY <1>6, <2>1, SameAnswers DEF CloseBlock
<1>7. ASSUME NEW b \in Block, OpenCamera(b) PROVE AnswersShape'
  <2>1. thread'["handler"] = thread["handler"]
    BY <1>7, OtherCloses, OtherMoves DEF OpenCamera, ReleaseCamera
  <2> QED
    BY <1>7, <2>1, SameAnswers DEF OpenCamera
<1>8. CASE CloneBlock \/ NativeConnect
  <2>1. thread'["handler"] = thread["handler"]
    BY <1>8, OtherReturns DEF CloneBlock, NativeConnect
  <2> QED
    BY <1>8, <2>1, SameAnswers DEF CloneBlock, NativeConnect
<1>9. CASE EndDestroy
  <2>1. monitor'.quit /\ queue' = <<>>
    BY <1>9, <1>m DEF EndDestroy, MonitorState
  <2>2. thread'["handler"] = thread["handler"]
    BY <1>9, OtherReturns DEF EndDestroy
  <2> QED
    BY <2>1, <2>2 DEF AnswersShape, HandlerPlaces, ConnectsOfOne, AnswersAreOwed
<1>10. ASSUME NEW d \in Device, DestroyBlock(d) PROVE AnswersShape'
  <2>1. thread'["handler"] = thread["handler"]
    BY <1>10, OtherCloses DEF DestroyBlock
  <2>2. monitor'.quit = monitor.quit
    BY <1>10, <1>m DEF DestroyBlock, MonitorState
  <2> QED
    BY <1>10, <2>1, <2>2, SameAnswers DEF DestroyBlock
<1> QED
  BY <1>1, <1>2, <1>3, <1>4, <1>5, <1>6, <1>7, <1>8, <1>9, <1>10 DEF AppCall, AppStep

-----------------------------------------------------------------------------
(* The handler.                                                            *)

LEMMA RunConnectAnswers == TypeOK /\ AnswersShape /\ RunConnect => AnswersShape'
<1> SUFFICES ASSUME TypeOK, AnswersShape, RunConnect PROVE AnswersShape'
  OBVIOUS
<1>1. /\ queue \in Seq(Message) /\ queue # <<>> /\ Head(queue).what = "connect"
      /\ queue' = Tail(queue) /\ UNCHANGED <<monitor, waiting>>
      /\ thread["handler"].dev = None
  BY DEF RunConnect, TypeOK, AnswersShape, HandlerPlaces, At
<1>2. PICK d \in Device : Head(queue).devs = {d}
  <2>1. 1 \in DOMAIN queue /\ Head(queue) = queue[1]
    BY <1>1
  <2> QED
    BY <1>1, <2>1 DEF AnswersShape, ConnectsOfOne
<1>3. \E pc \in {"put", "check"} : \E b :
        thread' = [thread EXCEPT !["handler"] = [Idle EXCEPT !.pc = pc, !.dev = d, !.blk = b]]
  <2>1. \/ NewBlock("handler", d)
        \/ thread' = [thread EXCEPT !["handler"] =
                        [Idle EXCEPT !.pc = "check", !.dev = d, !.blk = mCtrlBlocks[d]]]
    BY <1>2 DEF RunConnect
  <2> QED
    BY <2>1 DEF NewBlock
<1>4. thread'["handler"].dev = d /\ thread'["handler"].pc \in {"put", "check"}
  BY <1>3 DEF TypeOK, Thread, Idle
<1>5. d # None /\ \A e \in Device : e # None
  BY MonitorConstants
<1>6. HandlerPlaces'
  BY <1>4, <1>5 DEF HandlerPlaces
<1>7. ConnectsOfOne'
  BY <1>1 DEF AnswersShape, ConnectsOfOne
<1>8. Head(queue) = Connect(d) /\ \A e \in Device : Head(queue) = Connect(e) <=> e = d
  <2>1. Head(queue) \in Message
    BY <1>1
  <2>2. Head(queue) = Connect(d)
    BY <1>1, <1>2, <2>1 DEF Message, Connect
  <2>3. \A e \in Device : Connect(e).devs = {e}
    BY DEF Connect
  <2> QED
    BY <2>2, <2>3
<1>9. ASSUME ~monitor.quit, NEW e \in Device
      PROVE  waiting'[e] = Cardinality(Connects(queue', e))
                           + (IF thread'["handler"].dev = e THEN 1 ELSE 0)
  <2>1. /\ Cardinality(Connects(queue, e))
             = Cardinality(Connects(queue', e)) + (IF e = d THEN 1 ELSE 0)
        /\ Cardinality(Connects(queue', e)) \in Nat
    <3>1. Tail(queue) \in Seq(Message)
      BY <1>1
    <3> QED
      BY <1>1, <1>8, <3>1, ConnectsTail, ConnectsFinite
  <2>2. waiting[e] = Cardinality(Connects(queue, e))
                     + (IF thread["handler"].dev = e THEN 1 ELSE 0)
    BY <1>9, OwedCount DEF AnswersShape
  <2> QED
    BY <1>1, <1>4, <1>5, <2>1, <2>2
<1> QED
  BY <1>1, <1>6, <1>7, <1>9, OwedCountNext DEF AnswersShape

\* The connect in progress is answered, and the handler is idle again.
LEMMA AnsweredAnswers ==
  ASSUME TypeOK, AnswersShape, thread["handler"].dev \in Device,
         Return("handler"), Answer(thread["handler"].dev), UNCHANGED <<queue, monitor>>
  PROVE  AnswersShape'
<1> DEFINE d == thread["handler"].dev
<1>1. thread'["handler"] = Idle
  BY DEF Return, TypeOK, Thread
<1>2. waiting' = [waiting EXCEPT ![d] = @ - 1] /\ waiting \in [Device -> Int]
  BY DEF Answer, TypeOK
<1>3. HandlerPlaces'
  BY <1>1 DEF HandlerPlaces, Idle
<1>4. ASSUME ~monitor.quit, NEW e \in Device
      PROVE  waiting'[e] = Cardinality(Connects(queue', e))
                           + (IF thread'["handler"].dev = e THEN 1 ELSE 0)
  <2>1. waiting[e] = Cardinality(Connects(queue, e)) + (IF d = e THEN 1 ELSE 0)
    BY <1>4, OwedCount DEF AnswersShape
  <2>2. waiting'[e] = waiting[e] - (IF d = e THEN 1 ELSE 0)
    BY <1>2
  <2>3. thread'["handler"].dev # e
    BY <1>1, MonitorConstants DEF Idle
  <2>4. Cardinality(Connects(queue, e)) \in Nat /\ queue' = queue
    BY ConnectsFinite DEF TypeOK
  <2> QED
    BY <2>1, <2>2, <2>3, <2>4
<1> QED
  BY <1>3, <1>4, OwedCountNext DEF AnswersShape, ConnectsOfOne

LEMMA HandlerAnswers == TypeOK /\ ThreadShape /\ AnswersShape /\ HandlerStep => AnswersShape'
<1> SUFFICES ASSUME TypeOK, ThreadShape, AnswersShape, HandlerStep PROVE AnswersShape'
  OBVIOUS
<1>d. At("handler", "check") \/ At("handler", "tell") => thread["handler"].dev \in Device
  BY DEF At, ThreadShape, Thread
<1>1. CASE RunConnect
  BY <1>1, RunConnectAnswers
<1>2. CASE CheckConnection
  <2>1. CASE Goto("handler", "tell") /\ UNCHANGED waiting
    <3>1. thread'["handler"].dev = thread["handler"].dev /\ thread'["handler"].pc = "tell"
      BY <2>1 DEF Goto, TypeOK, Thread, ThreadState
    <3>2. HandlerPlaces'
      BY <1>2, <3>1 DEF CheckConnection, At, AnswersShape, HandlerPlaces
    <3> QED
      BY <1>2, <2>1, <3>1, <3>2 DEF CheckConnection, AnswersShape, ConnectsOfOne, AnswersAreOwed
  <2>2. CASE Return("handler") /\ Answer(thread["handler"].dev)
    BY <1>d, <1>2, <2>2, AnsweredAnswers DEF CheckConnection
  <2> QED
    BY <1>2, <2>1, <2>2 DEF CheckConnection
<1>3. CASE TellConnect
  BY <1>d, <1>3, AnsweredAnswers DEF TellConnect
<1>4. CASE RunNotice
  <2>1. /\ queue \in Seq(Message) /\ queue # <<>> /\ Head(queue).what # "connect"
        /\ queue' = Tail(queue) /\ UNCHANGED <<monitor, waiting, thread>>
    BY <1>4 DEF RunNotice, TypeOK
  <2>2. \A e \in Device : Head(queue) # Connect(e)
    <3>1. \A e \in Device : Connect(e).what = "connect"
      BY DEF Connect
    <3> QED
      BY <2>1, <3>1
  <2>3. \A e \in Device : Cardinality(Connects(queue', e)) = Cardinality(Connects(queue, e))
    <3> TAKE e \in Device
    <3>1. Tail(queue) \in Seq(Message)
      BY <2>1
    <3>2. Cardinality(Connects(Tail(queue), e)) \in Nat
      BY <3>1, ConnectsFinite
    <3> QED
      BY <2>1, <2>2, <3>2, ConnectsTail
  <2>4. ConnectsOfOne'
    BY <2>1 DEF AnswersShape, ConnectsOfOne
  <2> QED
    BY <2>1, <2>3, <2>4, OwedCount, OwedCountNext DEF AnswersShape, HandlerPlaces
<1>5. CASE CheckDevices \/ ListDevices
  <2>1. monitor'.quit = monitor.quit /\ UNCHANGED <<queue, waiting>>
    BY <1>5 DEF CheckDevices, ListDevices, TypeOK, MonitorState
  <2>2. /\ thread'["handler"].dev = thread["handler"].dev
        /\ thread["handler"].pc \in {"idle", "list"}
        /\ thread'["handler"].pc \in {"idle", "list", "compare", "dead"}
    <3>1. /\ thread["handler"].pc \in {"idle", "list"}
          /\ \/ UNCHANGED thread
             \/ \E pc \in {"list", "compare", "dead"} : Goto("handler", pc)
      BY <1>5 DEF CheckDevices, ListDevices, At
    <3>2. ASSUME NEW pc \in {"list", "compare", "dead"}, Goto("handler", pc)
          PROVE  /\ thread'["handler"].dev = thread["handler"].dev
                 /\ thread'["handler"].pc = pc
      BY <3>2 DEF Goto, TypeOK, Thread, ThreadState
    <3> QED
      BY <3>1, <3>2
  <2>3. HandlerPlaces'
    BY <2>2 DEF AnswersShape, HandlerPlaces
  <2> QED
    BY <2>1, <2>2, <2>3 DEF AnswersShape, ConnectsOfOne, AnswersAreOwed
<1>6. CASE CompareDevices
  <2>1. monitor'.quit = monitor.quit /\ UNCHANGED waiting /\ monitor.list \in SUBSET Device
    BY <1>6 DEF CompareDevices, TypeOK, MonitorState
  <2>2. thread'["handler"] = Idle /\ thread["handler"].dev = None
    BY <1>6 DEF CompareDevices, Return, At, TypeOK, Thread, AnswersShape, HandlerPlaces
  <2>3. thread'["handler"].dev = thread["handler"].dev /\ HandlerPlaces'
    BY <2>2 DEF HandlerPlaces, Idle
  <2>4. CASE Post("attach", monitor.list)
    BY <2>1, <2>3, <2>4, PostAnswers
  <2>5. CASE UNCHANGED queue
    BY <2>1, <2>3, <2>5 DEF AnswersShape, ConnectsOfOne, AnswersAreOwed
  <2> QED
    BY <1>6, <2>4, <2>5 DEF CompareDevices
<1> QED
  BY <1>1, <1>2, <1>3, <1>4, <1>5, <1>6 DEF HandlerStep

-----------------------------------------------------------------------------

LEMMA AnswersInit == Init => AnswersShape
<1> SUFFICES ASSUME Init PROVE AnswersShape
  OBVIOUS
<1>1. HandlerPlaces
  BY DEF Init, HandlerPlaces, Thread, Idle
<1>2. ConnectsOfOne
  BY DEF Init, ConnectsOfOne
<1>3. \A d \in Device : Connects(queue, d) = {} /\ waiting[d] = 0 /\ thread["handler"].dev # d
  BY MonitorConstants DEF Init, Connects, Thread, Idle
<1>4. AnswersAreOwed
  BY <1>3, FS_EmptySet, OwedCount
<1> QED
  BY <1>1, <1>2, <1>4 DEF AnswersShape

LEMMA AnswersNext == Inv /\ AnswersShape /\ [Next]_vars => AnswersShape'
<1> SUFFICES ASSUME Inv, AnswersShape, [Next]_vars PROVE AnswersShape'
  OBVIOUS
<1>t. TypeOK /\ ThreadShape
  BY DEF Inv, Shape
<1>1. CASE UNCHANGED vars
  BY <1>1, SameAnswers DEF vars
<1>2. CASE Service
  <2>1. UNCHANGED <<monitor, queue, waiting, thread>>
    BY <1>2 DEF Service, PlugIn, Unplug, Decide
  <2> QED
    BY <2>1, SameAnswers
<1>3. CASE AppCall \/ AppStep
  BY <1>t, <1>3, AppAnswers
<1>4. CASE MainStep
  BY <1>t, <1>4, MainAnswers
<1>5. CASE HandlerStep
  BY <1>t, <1>5, HandlerAnswers
<1>6. ASSUME NEW t \in Thread, BlockStep(t) PROVE AnswersShape'
  BY <1>t, <1>6, BlockAnswers
<1> QED
  BY <1>1, <1>2, <1>3, <1>4, <1>5, <1>6 DEF Next

\* For any number of devices, unplugged, permitted and opened in whatever order, and while
\* other threads open and close blocks, the answers the listener has not heard are those of
\* the connects in the queue and of the one the handler works on (lines 591-614): no connect
\* is answered twice, and none is dropped but by destroy.
THEOREM AnswersAreCounted == Spec => []AnswersAreOwed
<1>1. AnswersShape => AnswersAreOwed
  BY DEF AnswersShape
<1> QED
  BY <1>1, AnswersInit, AnswersNext, InvHolds, PTL DEF Spec
=============================================================================
