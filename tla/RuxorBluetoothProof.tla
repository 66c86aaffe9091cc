--------------------------- MODULE RuxorBluetoothProof ---------------------------
(***************************************************************************)
(* Type correctness of RuxorBluetooth, what its operators on the function   *)
(* thread make of a thread, and, of any calls whatever, that a ConnectThread *)
(* cancelled in its loop and a reader without a connection run down.        *)
(***************************************************************************)
EXTENDS RuxorBluetooth, FiniteSetTheorems, TLAPS

ThreadType == thread \in [Makers -> Thread]

LEMMA Distinct == NULL \notin Makers /\ "create" \in MakerPcs
BY BluetoothConstants DEF MakerPcs

LEMMA UnmadeType == Unmade \in Thread
BY DEF Unmade, Thread, MakerPcs

LEMMA CreatedType ==
  /\ [Unmade EXCEPT !.pc = "create"] \in Thread
  /\ [Unmade EXCEPT !.pc = "create"].link = "none"
  /\ [Unmade EXCEPT !.pc = "create"].reader = "none"
  /\ [Unmade EXCEPT !.pc = "create"].pc = "create"
BY UnmadeType DEF Unmade, Thread, MakerPcs

\* What a cancel leaves of a thread: its places, and a connection that is not open.
Cancelled(new, old) ==
  /\ new \in Thread
  /\ new.pc = old.pc /\ new.reader = old.reader /\ new.mmBuffer = old.mmBuffer
  /\ new.link = (IF old.link = "none" THEN "none" ELSE "closed")

LEMMA CloseLinkType ==
  ASSUME NEW th \in Thread
  PROVE  /\ Cancelled(CloseLink(th), th)
         /\ CloseLink(th).isLoop = th.isLoop /\ CloseLink(th).readerLoop = th.readerLoop
         /\ CloseLink(th).socket = th.socket
BY DEF CloseLink, Cancelled, Thread

LEMMA CancelConnectType ==
  ASSUME NEW f \in [Makers -> Thread], NEW t \in Makers \cup {NULL}
  PROVE  /\ CancelConnect(f, t) \in [Makers -> Thread]
         /\ \A u \in Makers \ {t} : CancelConnect(f, t)[u] = f[u]
         /\ t # NULL => /\ Cancelled(CancelConnect(f, t)[t], f[t])
                        /\ CancelConnect(f, t)[t].isLoop = FALSE
                        /\ CancelConnect(f, t)[t].readerLoop = f[t].readerLoop
<1>1. CASE t = NULL
  BY <1>1 DEF CancelConnect
<1>2. CASE t # NULL
  <2> DEFINE c == CloseLink(f[t])
             e == CancelledMaker(f[t])
  <2>1. t \in Makers /\ f[t] \in Thread
    BY <1>2
  <2>2. /\ Cancelled(c, f[t]) /\ c.readerLoop = f[t].readerLoop
    BY <2>1, CloseLinkType
  <2>3. CancelConnect(f, t) = [f EXCEPT ![t] = e]
    BY <1>2 DEF CancelConnect
  <2> HIDE DEF c
  <2>4. Cancelled(e, f[t]) /\ e.isLoop = FALSE /\ e.readerLoop = f[t].readerLoop
    BY <2>2 DEF Cancelled, Thread, CancelledMaker, c
  <2>5. e \in Thread
    BY <2>4 DEF Cancelled
  <2> HIDE DEF e
  <2> QED
    BY <1>2, <2>1, <2>3, <2>4, <2>5
<1> QED
  BY <1>1, <1>2

LEMMA CancelAcceptType ==
  ASSUME NEW f \in [Makers -> Thread], NEW t \in Makers \cup {NULL}
  PROVE  /\ CancelAccept(f, t) \in [Makers -> Thread]
         /\ \A u \in Makers \ {t} : CancelAccept(f, t)[u] = f[u]
         /\ t # NULL => /\ CancelAccept(f, t)[t].pc = f[t].pc
                        /\ CancelAccept(f, t)[t].link = f[t].link
                        /\ CancelAccept(f, t)[t].reader = f[t].reader
                        /\ CancelAccept(f, t)[t].isLoop = f[t].isLoop
                        /\ CancelAccept(f, t)[t].readerLoop = f[t].readerLoop
<1>1. CASE t = NULL
  BY <1>1 DEF CancelAccept
<1>2. CASE t # NULL
  BY <1>2 DEF CancelAccept, Thread
<1> QED
  BY <1>1, <1>2

LEMMA CancelLinkType ==
  ASSUME NEW f \in [Makers -> Thread], NEW t \in Makers \cup {NULL}
  PROVE  /\ CancelLink(f, t) \in [Makers -> Thread]
         /\ \A u \in Makers \ {t} : CancelLink(f, t)[u] = f[u]
         /\ t # NULL => /\ Cancelled(CancelLink(f, t)[t], f[t])
                        /\ CancelLink(f, t)[t].isLoop = f[t].isLoop
<1>1. CASE t = NULL
  BY <1>1 DEF CancelLink
<1>2. CASE t # NULL
  <2> DEFINE c == CloseLink(f[t])
             e == CancelledReader(t, f[t])
  <2>1. t \in Makers /\ f[t] \in Thread
    BY <1>2
  <2>2. /\ Cancelled(c, f[t]) /\ c.isLoop = f[t].isLoop
    BY <2>1, CloseLinkType
  <2>3. CancelLink(f, t) = [f EXCEPT ![t] = e]
    BY <1>2 DEF CancelLink
  <2> HIDE DEF c
  <2>4. Cancelled(e, f[t]) /\ e.isLoop = f[t].isLoop
    BY <2>2 DEF Cancelled, Thread, CancelledReader, c
  <2>5. e \in Thread
    BY <2>4 DEF Cancelled
  <2> HIDE DEF e
  <2> QED
    BY <1>2, <2>1, <2>3, <2>4, <2>5
<1> QED
  BY <1>1, <1>2

LEMMA StartedType ==
  ASSUME NEW f \in [Makers -> Thread], NEW S \in SUBSET Makers
  PROVE  /\ Started(f, S) \in [Makers -> Thread]
         /\ \A u \in Makers \ S : Started(f, S)[u] = f[u]
         /\ \A u \in S : Started(f, S)[u] = [Unmade EXCEPT !.pc = "create"]
BY CreatedType DEF Started

\* A finite set has a subset of every size it contains.
LEMMA SubsetOfSize ==
  ASSUME NEW S, IsFiniteSet(S), NEW k \in Nat, k <= Cardinality(S)
  PROVE  \E T \in SUBSET S : Cardinality(T) = k
<1>1. PICK n \in Nat : ExistsBijection(1..n, S)
  BY FS_NatBijection
<1>2. Cardinality(S) = n
  BY <1>1, FS_CountingElements
<1>3. PICK f : f \in Bijection(1..n, S)
  BY <1>1 DEF ExistsBijection
<1> DEFINE T == {f[i] : i \in 1..k}
           g == [i \in 1..k |-> f[i]]
<1>4. f \in [1..n -> S] /\ \A i, j \in 1..n : f[i] = f[j] => i = j
  BY <1>3 DEF Bijection, Injection, IsInjective
<1>5. \A i \in 1..k : i \in 1..n
  BY <1>2
<1>6. T \in SUBSET S
  BY <1>4, <1>5
<1>7. g \in Bijection(1..k, T)
  BY <1>4, <1>5 DEF Bijection, Injection, Surjection, IsInjective
<1>8. ExistsBijection(1..k, T)
  BY <1>7 DEF ExistsBijection
<1>9. Cardinality(T) = k
  BY <1>8, FS_CountingElements
<1> QED
  BY <1>6, <1>9

\* What cancel() does to a thread, and to one it leaves alone.
Weakened(new, old) ==
  /\ new.pc = old.pc /\ new.reader = old.reader
  /\ new.isLoop => old.isLoop
  /\ \/ new.link = old.link
     \/ old.link # "none" /\ new.link = "closed"
  /\ new.readerLoop = old.readerLoop \/ new.link \notin {"open", "lost"}

LEMMA CancelsWeaken ==
  ASSUME NEW f \in [Makers -> Thread], NEW t \in Makers \cup {NULL}, NEW u \in Makers
  PROVE  /\ Weakened(CancelConnect(f, t)[u], f[u])
         /\ Weakened(CancelAccept(f, t)[u], f[u])
         /\ Weakened(CancelLink(f, t)[u], f[u])
<1>1. Weakened(f[u], f[u])
  BY DEF Weakened
<1>2. CASE u # t
  <2>1. CancelConnect(f, t)[u] = f[u]
    BY <1>2, CancelConnectType
  <2>2. CancelAccept(f, t)[u] = f[u]
    BY <1>2, CancelAcceptType
  <2>3. CancelLink(f, t)[u] = f[u]
    BY <1>2, CancelLinkType
  <2> QED
    BY <1>1, <2>1, <2>2, <2>3
<1>3. CASE u = t
  <2>1. t # NULL
    BY <1>3, Distinct
  <2>2. Weakened(CancelConnect(f, t)[u], f[u])
    <3> DEFINE new == CancelConnect(f, t)[t]
    <3>1. Cancelled(new, f[t]) /\ new.isLoop = FALSE /\ new.readerLoop = f[t].readerLoop
      BY <2>1, CancelConnectType
    <3> HIDE DEF new
    <3>2. Weakened(new, f[t])
      BY <3>1 DEF Weakened, Cancelled
    <3> QED
      BY <1>3, <3>2 DEF new
  <2>3. Weakened(CancelAccept(f, t)[u], f[u])
    BY <1>3, <2>1, CancelAcceptType DEF Weakened
  <2>4. Weakened(CancelLink(f, t)[u], f[u])
    <3> DEFINE new == CancelLink(f, t)[t]
    <3>1. Cancelled(new, f[t]) /\ new.isLoop = f[t].isLoop
      BY <2>1, CancelLinkType
    <3> HIDE DEF new
    <3>2. Weakened(new, f[t])
      BY <3>1 DEF Weakened, Cancelled
    <3> QED
      BY <1>3, <3>2 DEF new
  <2> QED
    BY <2>2, <2>3, <2>4
<1> QED
  BY <1>2, <1>3

LEMMA ConnectType ==
  ASSUME ThreadType, NEW f \in [Makers -> Thread], Connect(f)
  PROVE  /\ thread' \in [Makers -> Thread]
         /\ deviceType' = "client" /\ connectThread' \in Connects
         /\ \E S \in SUBSET Makers : (\A u \in S : Free(u)) /\ thread' = Started(f, S)
<1> DEFINE free == {t \in Connects : Free(t)}
           new  == CHOOSE S \in SUBSET free : Cardinality(S) = Matching
<1>1. IsFiniteSet(free) /\ Cardinality(free) >= Matching /\ Matching \in Nat
  <2>1. IsFiniteSet(Makers) /\ free \in SUBSET Makers
    BY BluetoothConstants DEF Makers
  <2> QED
    BY <2>1, FS_Subset, BluetoothConstants DEF Connect
<1>2. new \in SUBSET free
  <2> HIDE DEF free
  <2>1. Cardinality(free) \in Nat
    BY <1>1, FS_CardinalityType
  <2>2. \E S \in SUBSET free : Cardinality(S) = Matching
    BY <1>1, <2>1, SubsetOfSize
  <2> QED
    BY <2>2
<1>3. deviceType' = "client" /\ connectThread' \in new /\ thread' = Started(f, new)
  BY DEF Connect
<1>4. free \in SUBSET Connects /\ Connects \in SUBSET Makers /\ \A u \in free : Free(u)
  BY DEF Makers
<1> HIDE DEF free, new
<1> QED
  BY <1>2, <1>3, <1>4, StartedType

LEMMA ListenType ==
  ASSUME NEW f \in [Makers -> Thread], Listen(f)
  PROVE  /\ thread' \in [Makers -> Thread]
         /\ deviceType' = "server" /\ acceptThread' \in Accepts
         /\ \E S \in SUBSET Makers : (\A u \in S : Free(u)) /\ thread' = Started(f, S)
<1>1. /\ acceptThread' \in Accepts /\ deviceType' = "server" /\ Free(acceptThread')
      /\ thread' = Started(f, {acceptThread'})
  BY DEF Listen
<1>2. {acceptThread'} \in SUBSET Makers
  BY <1>1 DEF Makers
<1> QED
  BY <1>1, <1>2, StartedType

LEMMA Became ==
  ASSUME thread \in [Makers -> Thread], NEW t \in Makers, NEW th \in Thread, Become(t, th)
  PROVE  /\ thread' \in [Makers -> Thread]
         /\ thread'[t] = th
         /\ \A u \in Makers \ {t} : thread'[u] = thread[u]
BY DEF Become

LEMMA MakerStepType ==
  ASSUME TypeOK, NEW t \in Makers,
         MakerStep(t) \/ AcceptReturns(t) \/ AcceptThrows(t)
  PROVE  TypeOK'
<1>1. thread \in [Makers -> Thread] /\ thread[t] \in Thread
  BY DEF TypeOK
<1>2. CASE CreateSocket(t)
  <2>1. \E th \in Thread : Become(t, th)
    BY <1>1, <1>2 DEF CreateSocket, Goto, Thread, MakerPcs
  <2>2. thread' \in [Makers -> Thread]
    BY <1>1, <2>1, Became
  <2> QED
    BY <1>2, <2>2 DEF CreateSocket, role, makes, TypeOK
<1>3. CASE ConnectEnable(t)
  <2>1. \E th \in Thread : Become(t, th)
    BY <1>1, <1>3 DEF ConnectEnable, Goto, Thread, MakerPcs
  <2>2. thread' \in [Makers -> Thread]
    BY <1>1, <2>1, Became
  <2> QED
    BY <1>3, <2>2 DEF ConnectEnable, role, makes, TypeOK
<1>4. CASE ConnectLoop(t)
  <2>1. \E th \in Thread : Become(t, th)
    BY <1>1, <1>4 DEF ConnectLoop, Goto, Thread, MakerPcs
  <2>2. thread' \in [Makers -> Thread]
    BY <1>1, <2>1, Became
  <2> QED
    BY <1>4, <2>2 DEF ConnectLoop, role, makes, TypeOK
<1>5. CASE ConnectReturns(t)
  <2>1. \E th \in Thread : Become(t, th)
    BY <1>1, <1>5 DEF ConnectReturns, Goto, Thread, MakerPcs
  <2>2. thread' \in [Makers -> Thread]
    BY <1>1, <2>1, Became
  <2> QED
    BY <1>5, <2>2 DEF ConnectReturns, role, makes, TypeOK
<1>6. CASE AcceptReturns(t)
  <2>1. \E th \in Thread : Become(t, th)
    BY <1>1, <1>6 DEF AcceptReturns, Goto, Thread, MakerPcs
  <2>2. thread' \in [Makers -> Thread]
    BY <1>1, <2>1, Became
  <2> QED
    BY <1>6, <2>2 DEF AcceptReturns, role, makes, TypeOK
<1>7. CASE AcceptThrows(t)
  <2>1. \E th \in Thread : Become(t, th)
    BY <1>1, <1>7 DEF AcceptThrows, Goto, Thread, MakerPcs
  <2>2. thread' \in [Makers -> Thread]
    BY <1>1, <2>1, Became
  <2> QED
    BY <1>7, <2>2 DEF AcceptThrows, role, makes, TypeOK
<1>8. CASE CancelOldLink(t)
  <2> DEFINE f == CancelLink(thread, connectedThread)
  <2>1. f \in [Makers -> Thread]
    BY CancelLinkType DEF TypeOK
  <2>2. PICK pc \in MakerPcs : thread' = [f EXCEPT ![t].pc = pc]
    BY <1>8 DEF CancelOldLink, MakerPcs
  <2> HIDE DEF f
  <2>3. thread' \in [Makers -> Thread]
    BY <2>1, <2>2 DEF Thread
  <2> QED
    BY <1>8, <2>3 DEF CancelOldLink, role, makes, TypeOK
<1>9. CASE NullOldLink(t)
  <2>1. \E th \in Thread : Become(t, th)
    BY <1>1, <1>9 DEF NullOldLink, Goto, Thread, MakerPcs
  <2>2. thread' \in [Makers -> Thread]
    BY <1>1, <2>1, Became
  <2> QED
    BY <1>9, <2>2 DEF NullOldLink, role, makes, TypeOK
<1>10. CASE AssignLink(t)
  <2>1. \E th \in Thread : Become(t, th)
    BY <1>1, <1>10 DEF AssignLink, Goto, Thread, MakerPcs
  <2>2. thread' \in [Makers -> Thread]
    BY <1>1, <2>1, Became
  <2> QED
    BY <1>10, <2>2 DEF AssignLink, role, makes, TypeOK
<1>11. CASE StartLink(t)
  <2>1. thread' \in [Makers -> Thread]
    BY <1>1, <1>11 DEF StartLink, Goto, Become, Thread, MakerPcs, TypeOK
  <2> QED
    BY <1>11, <2>1 DEF StartLink, role, makes, TypeOK
<1>12. CASE AcceptCloseServer(t)
  <2>1. \E th \in Thread : Become(t, th)
    BY <1>1, <1>12 DEF AcceptCloseServer, Goto, Thread, MakerPcs
  <2>2. thread' \in [Makers -> Thread]
    BY <1>1, <2>1, Became
  <2> QED
    BY <1>12, <2>2 DEF AcceptCloseServer, role, makes, TypeOK
<1>13. CASE ConnectCheck(t)
  <2>1. \E th \in Thread : Become(t, th)
    BY <1>1, <1>13 DEF ConnectCheck, Goto, Thread, MakerPcs
  <2>2. thread' \in [Makers -> Thread]
    BY <1>1, <2>1, Became
  <2> QED
    BY <1>13, <2>2 DEF ConnectCheck, role, makes, TypeOK
<1>14. CASE ConnectSleep(t)
  <2>1. \E th \in Thread : Become(t, th)
    BY <1>1, <1>14 DEF ConnectSleep, Goto, Thread, MakerPcs
  <2>2. thread' \in [Makers -> Thread]
    BY <1>1, <2>1, Became
  <2> QED
    BY <1>14, <2>2 DEF ConnectSleep, role, makes, TypeOK
<1> QED
  BY <1>2, <1>3, <1>4, <1>5, <1>6, <1>7, <1>8, <1>9, <1>10, <1>11, <1>12, <1>13, <1>14 DEF MakerStep

LEMMA Appended ==
  ASSUME queue \in Seq(Messages), NEW m \in Messages, queue' = Append(queue, m)
  PROVE  queue' \in Seq(Messages)
OBVIOUS

LEMMA ReaderStepType ==
  ASSUME TypeOK, NEW t \in Makers,
         ReaderStep(t) \/ ReaderReads(t) \/ LinkLost(t)
  PROVE  TypeOK'
<1>1. thread \in [Makers -> Thread] /\ thread[t] \in Thread
  BY DEF TypeOK
<1>2. CASE ReaderEnable(t)
  <2>1. \E th \in Thread : Become(t, th)
    BY <1>1, <1>2 DEF ReaderEnable, Thread
  <2>2. thread' \in [Makers -> Thread]
    BY <1>1, <2>1, Became
  <2> QED
    BY <1>2, <2>2 DEF ReaderEnable, role, makes, TypeOK
<1>3. CASE ReaderLoop(t)
  <2>1. \E th \in Thread : Become(t, th)
    BY <1>1, <1>3 DEF ReaderLoop, Thread
  <2>2. thread' \in [Makers -> Thread]
    BY <1>1, <2>1, Became
  <2> QED
    BY <1>3, <2>2 DEF ReaderLoop, role, makes, TypeOK
<1>4. CASE ReaderThrows(t)
  <2>1. \E th \in Thread : Become(t, th)
    BY <1>1, <1>4 DEF ReaderThrows, Thread
  <2>2. thread' \in [Makers -> Thread]
    BY <1>1, <2>1, Became
  <2>3. queue' \in Seq(Messages)
    BY <1>4, Appended DEF ReaderThrows, Messages, TypeOK
  <2> QED
    BY <1>4, <2>2, <2>3 DEF ReaderThrows, role, makes, TypeOK
<1>5. CASE ReaderReads(t)
  <2>1. PICK b \in Bytes :
          /\ Become(t, [thread[t] EXCEPT !.mmBuffer = b, !.reader = "loop"])
          /\ queue' = Append(queue, [what |-> "read", from |-> t, bytes |-> b])
    BY <1>5 DEF ReaderReads
  <2>2. [thread[t] EXCEPT !.mmBuffer = b, !.reader = "loop"] \in Thread
    BY <1>1 DEF Thread
  <2>3. thread' \in [Makers -> Thread]
    BY <1>1, <2>1, <2>2, Became
  <2>4. queue' \in Seq(Messages)
    BY <2>1, Appended DEF Messages, TypeOK
  <2> QED
    BY <1>5, <2>3, <2>4 DEF ReaderReads, role, makes, TypeOK
<1>6. CASE LinkLost(t)
  <2>1. \E th \in Thread : Become(t, th)
    BY <1>1, <1>6 DEF LinkLost, Thread
  <2>2. thread' \in [Makers -> Thread]
    BY <1>1, <2>1, Became
  <2> QED
    BY <1>6, <2>2 DEF LinkLost, role, makes, TypeOK
<1> QED
  BY <1>2, <1>3, <1>4, <1>5, <1>6 DEF ReaderStep

LEMMA MainStepType ==
  ASSUME TypeOK, AppCall \/ ReleaseLink \/ Handler
  PROVE  TypeOK'
<1>1. ThreadType /\ thread \in [Makers -> Thread]
  BY DEF TypeOK, ThreadType
<1>2. /\ acceptThread \in Makers \cup {NULL} /\ connectThread \in Makers \cup {NULL}
      /\ connectedThread \in Makers \cup {NULL}
  BY DEF TypeOK, Makers
<1>3. /\ CancelConnect(thread, connectThread) \in [Makers -> Thread]
      /\ CancelAccept(thread, acceptThread) \in [Makers -> Thread]
      /\ CancelLink(thread, connectedThread) \in [Makers -> Thread]
  BY <1>1, <1>2, CancelConnectType, CancelAcceptType, CancelLinkType
<1>4. calls < MaxCalls => calls + 1 \in 0..MaxCalls
  BY BluetoothConstants DEF TypeOK
<1>5. queue # <<>> => Tail(queue) \in Seq(Messages)
  BY DEF TypeOK
<1>6. CASE ConnectDevice
  <2>1. thread' \in [Makers -> Thread] /\ deviceType' = "client" /\ connectThread' \in Connects
    BY <1>1, <1>6, ConnectType DEF ConnectDevice
  <2> QED
    BY <1>4, <1>6, <2>1 DEF ConnectDevice, TypeOK
<1>7. CASE CallListen
  <2>1. thread' \in [Makers -> Thread] /\ deviceType' = "server" /\ acceptThread' \in Accepts
    BY <1>1, <1>7, ListenType DEF CallListen
  <2> QED
    BY <1>4, <1>7, <2>1 DEF CallListen, TypeOK
<1>8. CASE Release
  <2>1. thread' \in [Makers -> Thread]
    BY <1>2, <1>3, <1>8, CancelConnectType DEF Release
  <2> QED
    BY <1>8, <2>1 DEF Release, makes, TypeOK
<1>9. CASE ReleaseLink
  BY <1>3, <1>9 DEF ReleaseLink, role, makes, TypeOK
<1>10. CASE HandleRead
  BY <1>5, <1>10 DEF HandleRead, role, makes, TypeOK
<1>11. CASE HandleDisconnect
  <2>1. thread' \in [Makers -> Thread] /\ main' \in {"idle", "restart", "nullLink"}
    BY <1>3, <1>11 DEF HandleDisconnect, TypeOK
  <2> QED
    BY <1>5, <1>11, <2>1 DEF HandleDisconnect, role, makes, TypeOK
<1>12. CASE HandlerNullLink
  BY <1>12 DEF HandlerNullLink, role, makes, TypeOK
<1>13. CASE HandlerRestart
  <2>1. ASSUME Connect(CancelConnect(thread, connectThread)), UNCHANGED acceptThread
        PROVE  TypeOK'
    <3>1. thread' \in [Makers -> Thread] /\ deviceType' = "client" /\ connectThread' \in Connects
      BY <1>1, <1>3, <2>1, ConnectType
    <3> QED
      BY <1>13, <2>1, <3>1 DEF HandlerRestart, TypeOK
  <2>2. ASSUME thread' = CancelConnect(thread, connectThread), connectThread' = NULL,
               UNCHANGED <<deviceType, acceptThread>>
        PROVE  TypeOK'
    BY <1>3, <1>13, <2>2 DEF HandlerRestart, TypeOK
  <2>3. ASSUME Listen(CancelAccept(thread, acceptThread)), UNCHANGED connectThread
        PROVE  TypeOK'
    <3>1. thread' \in [Makers -> Thread] /\ deviceType' = "server" /\ acceptThread' \in Accepts
      BY <1>3, <2>3, ListenType
    <3> QED
      BY <1>13, <2>3, <3>1 DEF HandlerRestart, TypeOK
  <2> QED
    BY <1>13, <2>1, <2>2, <2>3 DEF HandlerRestart
<1> QED
  BY <1>6, <1>7, <1>8, <1>9, <1>10, <1>11, <1>12, <1>13 DEF AppCall, Handler

LEMMA StutterType == TypeOK /\ UNCHANGED vars => TypeOK'
BY DEF TypeOK, vars, role, makes

LEMMA InitType == Init => TypeOK
<1>1. 0 \in 0..MaxCalls
  BY BluetoothConstants
<1>2. <<>> \in Seq(Messages)
  OBVIOUS
<1>3. [t \in Makers |-> Unmade] \in [Makers -> Thread]
  BY UnmadeType
<1> QED
  BY <1>1, <1>2, <1>3 DEF Init, TypeOK

LEMMA TypeInductive == TypeOK /\ [Next]_vars => TypeOK'
BY MakerStepType, ReaderStepType, MainStepType, StutterType DEF Next

\* The messages, the threads and the fields of RuxorBluetoothImpl stay within their types
\* for any number of sessions, threads, matching devices and messages; in particular
\* connectThread, acceptThread and connectedThread only ever refer to threads of their class,
\* whatever order the four kinds of thread assign and clear them in (lines 63-87, 204-269).
THEOREM TypeCorrect == Spec => []TypeOK
<1>1. Init => TypeOK
  BY InitType
<1>2. TypeOK /\ [Next]_vars => TypeOK'
  BY TypeInductive
<1> QED
  BY <1>1, <1>2, PTL DEF Spec
-----------------------------------------------------------------------------
(* What a step does to a thread that is not its own.                        *)

LEMMA WeakenedSame == \A th : Weakened(th, th)
BY DEF Weakened

LEMMA StartedWeakens ==
  ASSUME NEW f \in [Makers -> Thread], \A u \in Makers : Weakened(f[u], thread[u]),
         \E S \in SUBSET Makers : (\A u \in S : Free(u)) /\ thread' = Started(f, S),
         NEW t \in Makers
  PROVE  \/ Weakened(thread'[t], thread[t])
         \/ Free(t) /\ thread'[t] = [Unmade EXCEPT !.pc = "create"]
<1>1. PICK S \in SUBSET Makers : (\A u \in S : Free(u)) /\ thread' = Started(f, S)
  OBVIOUS
<1>2. CASE t \in S
  BY <1>1, <1>2, StartedType
<1>3. CASE t \notin S
  <2>1. thread'[t] = f[t]
    BY <1>1, <1>3, StartedType
  <2> QED
    BY <2>1
<1> QED
  BY <1>2, <1>3

\* The main thread cancels threads, and starts those that nobody refers to any more.
LEMMA MainStepWeakens ==
  ASSUME TypeOK, AppCall \/ ReleaseLink \/ Handler, NEW t \in Makers
  PROVE  \/ Weakened(thread'[t], thread[t])
         \/ Free(t) /\ thread'[t] = [Unmade EXCEPT !.pc = "create"]
<1>1. /\ ThreadType /\ thread \in [Makers -> Thread]
      /\ acceptThread \in Makers \cup {NULL} /\ connectThread \in Makers \cup {NULL}
      /\ connectedThread \in Makers \cup {NULL}
  BY DEF TypeOK, ThreadType, Makers
<1>2. /\ CancelConnect(thread, connectThread) \in [Makers -> Thread]
      /\ CancelAccept(thread, acceptThread) \in [Makers -> Thread]
      /\ \A u \in Makers : /\ Weakened(CancelConnect(thread, connectThread)[u], thread[u])
                           /\ Weakened(CancelAccept(thread, acceptThread)[u], thread[u])
                           /\ Weakened(CancelLink(thread, connectedThread)[u], thread[u])
  BY <1>1, CancelConnectType, CancelAcceptType, CancelsWeaken
<1>3. \A u \in Makers : Weakened(thread[u], thread[u])
  BY WeakenedSame
<1>4. CASE ConnectDevice
  BY <1>1, <1>3, <1>4, ConnectType, StartedWeakens DEF ConnectDevice
<1>5. CASE CallListen
  BY <1>1, <1>3, <1>5, ListenType, StartedWeakens DEF CallListen
<1>6. CASE Release
  <2> DEFINE f == CancelAccept(thread, acceptThread)
  <2>1. thread' = CancelConnect(f, connectThread)
    BY <1>6 DEF Release
  <2>2. f \in [Makers -> Thread] /\ Weakened(f[t], thread[t])
    BY <1>2
  <2> HIDE DEF f
  <2>3. Weakened(thread'[t], f[t])
    BY <1>1, <2>1, <2>2, CancelsWeaken
  <2> QED
    BY <2>2, <2>3 DEF Weakened
<1>7. CASE ReleaseLink
  BY <1>2, <1>7 DEF ReleaseLink
<1>8. CASE HandleRead \/ HandlerNullLink
  BY <1>3, <1>8 DEF HandleRead, HandlerNullLink
<1>9. CASE HandleDisconnect
  BY <1>2, <1>3, <1>9 DEF HandleDisconnect
<1>10. CASE HandlerRestart
  <2>1. ASSUME Connect(CancelConnect(thread, connectThread))
        PROVE  \/ Weakened(thread'[t], thread[t])
               \/ Free(t) /\ thread'[t] = [Unmade EXCEPT !.pc = "create"]
    BY <1>1, <1>2, <2>1, ConnectType, StartedWeakens
  <2>2. ASSUME Listen(CancelAccept(thread, acceptThread))
        PROVE  \/ Weakened(thread'[t], thread[t])
               \/ Free(t) /\ thread'[t] = [Unmade EXCEPT !.pc = "create"]
    BY <1>2, <2>2, ListenType, StartedWeakens
  <2>3. ASSUME thread' = CancelConnect(thread, connectThread)
        PROVE  Weakened(thread'[t], thread[t])
    BY <1>2, <2>3
  <2> QED
    BY <1>10, <2>1, <2>2, <2>3 DEF HandlerRestart
<1> QED
  BY <1>4, <1>5, <1>6, <1>7, <1>8, <1>9, <1>10 DEF AppCall, Handler

\* A maker closes the connection that connectedThread refers to and starts a reader.
LEMMA OthersWeaken ==
  ASSUME TypeOK, NEW t \in Makers, NEW u \in Makers \ {t},
         \/ MakerStep(u) \/ AcceptReturns(u) \/ AcceptThrows(u)
         \/ ReaderStep(u) \/ ReaderReads(u) \/ LinkLost(u)
  PROVE  \/ Weakened(thread'[t], thread[t])
         \/ thread[t].reader = "new" /\ thread'[t] = [thread[t] EXCEPT !.reader = "enable"]
<1>1. thread \in [Makers -> Thread] /\ thread[t] \in Thread /\ connectedThread \in Makers \cup {NULL}
  BY DEF TypeOK
<1>2. ASSUME thread'[t] = thread[t]
      PROVE  Weakened(thread'[t], thread[t])
  BY <1>2, WeakenedSame
<1>3. CASE CancelOldLink(u)
  <2> DEFINE f == CancelLink(thread, connectedThread)
  <2>1. f \in [Makers -> Thread] /\ Weakened(f[t], thread[t])
    BY <1>1, CancelLinkType, CancelsWeaken
  <2>2. thread' = [f EXCEPT ![u].pc = IF connectedThread = NULL THEN "assign" ELSE "nullOld"]
    BY <1>3 DEF CancelOldLink
  <2> HIDE DEF f
  <2>3. thread'[t] = f[t]
    BY <2>1, <2>2
  <2> QED
    BY <2>1, <2>3
<1>4. CASE StartLink(u)
  BY <1>1, <1>2, <1>4 DEF StartLink, Goto, Become, Thread
<1>5. CASE ~CancelOldLink(u) /\ ~StartLink(u)
  <2>1. thread'[t] = thread[t]
    BY <1>1, <1>5 DEF MakerStep, ReaderStep, CreateSocket, ConnectEnable, ConnectLoop,
       ConnectReturns, AcceptReturns, AcceptThrows, NullOldLink, AssignLink, AcceptCloseServer,
       ConnectCheck, ConnectSleep, ReaderEnable, ReaderLoop, ReaderThrows, ReaderReads, LinkLost,
       Goto, Become
  <2> QED
    BY <1>2, <2>1
<1> QED
  BY <1>3, <1>4, <1>5
-----------------------------------------------------------------------------
(* What a step does to its own thread.                                      *)

\* The places a maker goes through, and what becomes of its connection and its reader there.
MakerMoves(t, new, old) ==
  /\ new.isLoop = old.isLoop \/ old.pc = "enable"
  /\ \/ /\ old.pc # "assign" /\ new.reader = old.reader
     \/ old.pc = "assign" /\ new.reader = "new"
     \/ old.pc = "start" /\ old.reader = "new" /\ new.reader = "enable"
  /\ \/ new.link = old.link /\ old.pc # "accept"
     \/ new.link = old.link /\ new.pc = "dead"
     \/ old.pc = "connect" /\ old.link = "none" /\ new.link = "open" /\ new.pc = "cancelOld"
     \/ old.pc = "accept" /\ new.link = "open" /\ new.pc = "cancelOld"
     \/ old.pc = "cancelOld" /\ old.link # "none" /\ new.link = "closed"
  /\ new.readerLoop = old.readerLoop \/ new.link \notin {"open", "lost"}
  /\ \/ old.pc = "create" /\ new.pc \in {"enable", "accept"}
     \/ old.pc = "enable" /\ new.pc = "loop"
     \/ old.pc = "loop" /\ new.pc = IF old.isLoop THEN "connect" ELSE "dead"
     \/ old.pc = "connect" /\ new.pc = "check"
     \/ old.pc = "connect" /\ new.pc = "cancelOld" /\ old.link = "none" /\ new.link = "open"
     \/ old.pc = "accept" /\ new.pc = "dead"
     \/ old.pc = "accept" /\ new.pc = "cancelOld" /\ new.link = "open"
     \/ old.pc = "cancelOld" /\ new.pc \in {"nullOld", "assign"}
     \/ old.pc = "nullOld" /\ new.pc = "assign"
     \/ old.pc = "assign" /\ new.pc = "start"
     \/ old.pc = "start" /\ new.pc \in {IF t \in Connects THEN "check" ELSE "closeServer", "threw"}
     \/ old.pc = "closeServer" /\ new.pc = "dead"
     \/ old.pc = "check" /\ new.pc \in {"dead", "sleep"}
     \/ old.pc = "sleep" /\ new.pc = "loop"

LEMMA MakerStepMoves ==
  ASSUME TypeOK, NEW t \in Makers, MakerStep(t) \/ AcceptReturns(t) \/ AcceptThrows(t)
  PROVE  MakerMoves(t, thread'[t], thread[t])
<1>1. /\ thread \in [Makers -> Thread] /\ thread[t] \in Thread
      /\ connectedThread \in Makers \cup {NULL}
  BY DEF TypeOK
<1> DEFINE Goes(th) == th \in Thread /\ Become(t, th) /\ MakerMoves(t, th, thread[t])
<1>2. ASSUME \E th : Goes(th)
      PROVE  MakerMoves(t, thread'[t], thread[t])
  BY <1>1, <1>2, Became
<1>3. CASE CreateSocket(t)
  <2>1. Goes([thread[t] EXCEPT !.socket = "open",
                               !.pc = IF t \in Connects THEN "enable" ELSE "accept"])
    BY <1>1, <1>3 DEF CreateSocket, At, MakerMoves, Thread, MakerPcs
  <2> QED
    BY <1>2, <2>1
<1>4. CASE ConnectEnable(t)
  <2>1. Goes([thread[t] EXCEPT !.isLoop = TRUE, !.pc = "loop"])
    BY <1>1, <1>4 DEF ConnectEnable, At, MakerMoves, Thread, MakerPcs
  <2> QED
    BY <1>2, <2>1
<1>5. CASE ConnectLoop(t)
  <2>1. Goes([thread[t] EXCEPT !.pc = IF thread[t].isLoop THEN "connect" ELSE "dead"])
    BY <1>1, <1>5 DEF ConnectLoop, At, Goto, MakerMoves, Thread, MakerPcs
  <2> QED
    BY <1>2, <2>1
<1>6. CASE ConnectReturns(t)
  <2>1. \/ Goes([thread[t] EXCEPT !.link = "open", !.pc = "cancelOld"])
        \/ Goes([thread[t] EXCEPT !.pc = "check"])
    BY <1>1, <1>6 DEF ConnectReturns, At, Goto, MakerMoves, Thread, MakerPcs
  <2> QED
    BY <1>2, <2>1
<1>7. CASE AcceptReturns(t)
  <2>1. Goes([thread[t] EXCEPT !.link = "open", !.pc = "cancelOld"])
    BY <1>1, <1>7 DEF AcceptReturns, At, MakerMoves, Thread, MakerPcs
  <2> QED
    BY <1>2, <2>1
<1>8. CASE AcceptThrows(t)
  <2>1. Goes([thread[t] EXCEPT !.pc = "dead"])
    BY <1>1, <1>8 DEF AcceptThrows, At, Goto, MakerMoves, Thread, MakerPcs
  <2> QED
    BY <1>2, <2>1
<1>9. CASE CancelOldLink(t)
  <2> DEFINE f == CancelLink(thread, connectedThread)
             pc == IF connectedThread = NULL THEN "assign" ELSE "nullOld"
  <2>1. f \in [Makers -> Thread] /\ Weakened(f[t], thread[t])
    BY <1>1, CancelLinkType, CancelsWeaken
  <2>2. thread' = [f EXCEPT ![t].pc = pc] /\ thread[t].pc = "cancelOld"
    BY <1>9 DEF CancelOldLink, At
  <2>3. f[t].isLoop = thread[t].isLoop
    BY <1>1, Distinct, CancelLinkType
  <2> HIDE DEF f
  <2>4. /\ thread'[t].pc = pc /\ thread'[t].isLoop = f[t].isLoop /\ thread'[t].link = f[t].link
        /\ thread'[t].reader = f[t].reader /\ thread'[t].readerLoop = f[t].readerLoop
    BY <1>1, <2>1, <2>2 DEF Thread
  <2> QED
    BY <2>1, <2>2, <2>3, <2>4 DEF Weakened, MakerMoves
<1>10. CASE NullOldLink(t)
  <2>1. Goes([thread[t] EXCEPT !.pc = "assign"])
    BY <1>1, <1>10 DEF NullOldLink, At, Goto, MakerMoves, Thread, MakerPcs
  <2> QED
    BY <1>2, <2>1
<1>11. CASE AssignLink(t)
  <2>1. Goes([thread[t] EXCEPT !.reader = "new", !.pc = "start"])
    BY <1>1, <1>11 DEF AssignLink, At, MakerMoves, Thread, MakerPcs
  <2> QED
    BY <1>2, <2>1
<1>12. CASE StartLink(t)
  <2>1. PICK pc \in {IF t \in Connects THEN "check" ELSE "closeServer", "threw"} :
          \/ Become(t, [thread[t] EXCEPT !.pc = pc])
          \/ /\ connectedThread # NULL /\ thread[connectedThread].reader = "new"
             /\ thread' = [thread EXCEPT ![connectedThread].reader = "enable", ![t].pc = pc]
    BY <1>12 DEF StartLink, Goto
  <2>2. thread[t].pc = "start"
    BY <1>12 DEF StartLink, At
  <2>3. CASE Become(t, [thread[t] EXCEPT !.pc = pc])
    <3>1. Goes([thread[t] EXCEPT !.pc = pc])
      BY <1>1, <2>1, <2>2, <2>3 DEF MakerMoves, Thread, MakerPcs
    <3> QED
      BY <1>2, <3>1
  <2>4. CASE /\ connectedThread # NULL /\ thread[connectedThread].reader = "new"
             /\ thread' = [thread EXCEPT ![connectedThread].reader = "enable", ![t].pc = pc]
    <3> DEFINE g == [thread EXCEPT ![connectedThread].reader = "enable"]
    <3>1. /\ g \in [Makers -> Thread]
          /\ g[t].isLoop = thread[t].isLoop /\ g[t].readerLoop = thread[t].readerLoop
          /\ g[t].link = thread[t].link
          /\ \/ g[t].reader = thread[t].reader
             \/ g[t].reader = "enable" /\ thread[t].reader = "new"
      BY <1>1, <2>4 DEF Thread
    <3>2. thread' = [g EXCEPT ![t].pc = pc]
      BY <2>4
    <3> HIDE DEF g
    <3>3. /\ thread'[t].pc = pc /\ thread'[t].isLoop = g[t].isLoop /\ thread'[t].link = g[t].link
          /\ thread'[t].reader = g[t].reader /\ thread'[t].readerLoop = g[t].readerLoop
      BY <3>1, <3>2 DEF Thread
    <3> QED
      BY <2>1, <2>2, <3>1, <3>3 DEF MakerMoves
  <2> QED
    BY <2>1, <2>3, <2>4
<1>13. CASE AcceptCloseServer(t)
  <2>1. Goes([thread[t] EXCEPT !.socket = "closed", !.pc = "dead"])
    BY <1>1, <1>13 DEF AcceptCloseServer, At, MakerMoves, Thread, MakerPcs
  <2> QED
    BY <1>2, <2>1
<1>14. CASE ConnectCheck(t)
  <2>1. Goes([thread[t] EXCEPT !.pc = IF connectedThread # NULL THEN "dead" ELSE "sleep"])
    BY <1>1, <1>14 DEF ConnectCheck, At, Goto, MakerMoves, Thread, MakerPcs
  <2> QED
    BY <1>2, <2>1
<1>15. CASE ConnectSleep(t)
  <2>1. Goes([thread[t] EXCEPT !.pc = "loop"])
    BY <1>1, <1>15 DEF ConnectSleep, At, Goto, MakerMoves, Thread, MakerPcs
  <2> QED
    BY <1>2, <2>1
<1> QED
  BY <1>3, <1>4, <1>5, <1>6, <1>7, <1>8, <1>9, <1>10, <1>11, <1>12, <1>13, <1>14, <1>15
     DEF MakerStep

\* The places a reader goes through. Its connection may be lost at any of them.
ReaderMoves(new, old) ==
  /\ new.pc = old.pc /\ new.isLoop = old.isLoop
  /\ \/ /\ new.link = old.link
        /\ \/ old.reader = "enable" /\ new.reader = "loop" /\ new.readerLoop
           \/ old.reader = "loop" /\ new.reader = "read" /\ new.readerLoop = old.readerLoop
           \/ old.reader = "loop" /\ new.reader = "done" /\ ~old.readerLoop
           \/ /\ old.reader = "read" /\ new.reader = "done" /\ old.link # "open"
           \/ /\ old.reader = "read" /\ new.reader = "loop" /\ old.link = "open"
              /\ new.readerLoop = old.readerLoop
     \/ /\ old.link = "open" /\ new.link = "lost"
        /\ new.reader = old.reader /\ new.readerLoop = old.readerLoop

LEMMA ReaderStepMoves ==
  ASSUME TypeOK, NEW t \in Makers, ReaderStep(t) \/ ReaderReads(t) \/ LinkLost(t)
  PROVE  ReaderMoves(thread'[t], thread[t])
<1>1. thread \in [Makers -> Thread] /\ thread[t] \in Thread
  BY DEF TypeOK
<1> DEFINE Goes(th) == th \in Thread /\ Become(t, th) /\ ReaderMoves(th, thread[t])
<1>2. ASSUME \E th : Goes(th)
      PROVE  ReaderMoves(thread'[t], thread[t])
  BY <1>1, <1>2, Became
<1>3. CASE ReaderEnable(t)
  <2>1. Goes([thread[t] EXCEPT !.readerLoop = TRUE, !.reader = "loop"])
    BY <1>1, <1>3 DEF ReaderEnable, ReaderMoves, Thread
  <2> QED
    BY <1>2, <2>1
<1>4. CASE ReaderLoop(t)
  <2>1. Goes([thread[t] EXCEPT !.reader = IF thread[t].readerLoop THEN "read" ELSE "done"])
    BY <1>1, <1>4 DEF ReaderLoop, ReaderMoves, Thread
  <2> QED
    BY <1>2, <2>1
<1>5. CASE ReaderThrows(t)
  <2>1. Goes([thread[t] EXCEPT !.reader = "done"])
    BY <1>1, <1>5 DEF ReaderThrows, ReaderMoves, Thread
  <2> QED
    BY <1>2, <2>1
<1>6. CASE ReaderReads(t)
  <2>1. PICK b \in Bytes : Become(t, [thread[t] EXCEPT !.mmBuffer = b, !.reader = "loop"])
    BY <1>6 DEF ReaderReads
  <2>2. Goes([thread[t] EXCEPT !.mmBuffer = b, !.reader = "loop"])
    BY <1>1, <1>6, <2>1 DEF ReaderReads, ReaderMoves, Thread
  <2> QED
    BY <1>2, <2>2
<1>7. CASE LinkLost(t)
  <2>1. Goes([thread[t] EXCEPT !.link = "lost"])
    BY <1>1, <1>7 DEF LinkLost, ReaderMoves, Thread
  <2> QED
    BY <1>2, <2>1
<1> QED
  BY <1>3, <1>4, <1>5, <1>6, <1>7 DEF ReaderStep
-----------------------------------------------------------------------------
(* What runs down: the part of a liveness property that needs no fairness.  *)

\* How many steps of its own a ConnectThread is from its end, once isLoop is false.
StepsToEnd(pc) ==
  CASE pc \in {"dead", "threw"} -> 0
    [] pc = "loop" -> 1
    [] pc = "sleep" -> 2
    [] pc = "check" -> 3
    [] pc = "start" -> 4
    [] pc = "assign" -> 5
    [] pc = "nullOld" -> 6
    [] pc = "cancelOld" -> 7
    [] OTHER -> 8

\* A ConnectThread cancelled once it is in its loop stays cancelled, every step it takes brings
\* it nearer to its end and no step of another thread takes it further away (lines 226-279).
MakerRunsDown ==
  [][\A t \in Connects :
       ~thread[t].isLoop /\ thread[t].pc \notin {"create", "enable", "dead"} =>
         /\ ~thread'[t].isLoop
         /\ StepsToEnd(thread'[t].pc) <= StepsToEnd(thread[t].pc)
         /\ MakerStep(t) => StepsToEnd(thread'[t].pc) < StepsToEnd(thread[t].pc)]_vars

\* CancelledInLoopEnds without the fairness: a cancelled ConnectThread has at most eight steps
\* left and nothing gives it more, whatever the main thread and the other threads do, with any
\* number of threads and calls. That it takes them is the promise of the scheduler.
THEOREM CancelledMakerRunsDown == Spec => MakerRunsDown
<1> DEFINE Down(t) ==
             ~thread[t].isLoop /\ thread[t].pc \notin {"create", "enable", "dead"} =>
               /\ ~thread'[t].isLoop
               /\ StepsToEnd(thread'[t].pc) <= StepsToEnd(thread[t].pc)
               /\ MakerStep(t) => StepsToEnd(thread'[t].pc) < StepsToEnd(thread[t].pc)
<1>1. \A pc : StepsToEnd(pc) \in Nat
  BY DEF StepsToEnd
<1>2. /\ StepsToEnd("dead") = 0 /\ StepsToEnd("threw") = 0 /\ StepsToEnd("loop") = 1
      /\ StepsToEnd("sleep") = 2 /\ StepsToEnd("check") = 3 /\ StepsToEnd("start") = 4
      /\ StepsToEnd("assign") = 5 /\ StepsToEnd("nullOld") = 6 /\ StepsToEnd("cancelOld") = 7
      /\ StepsToEnd("closeServer") = 8 /\ StepsToEnd("accept") = 8
      /\ StepsToEnd("connect") = 8
  BY DEF StepsToEnd
<1>3. ASSUME TypeOK, [Next]_vars, NEW t \in Connects
      PROVE  Down(t)
  <2>1. t \in Makers /\ StepsToEnd(thread[t].pc) \in Nat /\ StepsToEnd(thread'[t].pc) \in Nat
    BY <1>1 DEF Makers
  <2>2. ASSUME thread'[t].isLoop = thread[t].isLoop \/ ~thread'[t].isLoop,
               thread'[t].pc = thread[t].pc
        PROVE  Down(t)
    <3>1. ~MakerStep(t)
      BY <1>3, <2>1, <2>2, MakerStepMoves DEF MakerMoves
    <3> QED
      BY <2>1, <2>2, <3>1
  <2>3. CASE UNCHANGED vars
    BY <2>2, <2>3 DEF vars
  <2>4. CASE AppCall \/ ReleaseLink \/ Handler
    <3>1. CASE Weakened(thread'[t], thread[t])
      <4>1. thread'[t].pc = thread[t].pc /\ (thread'[t].isLoop => thread[t].isLoop)
        BY <3>1 DEF Weakened
      <4>2. ~MakerStep(t)
        BY <1>3, <2>1, <4>1, MakerStepMoves DEF MakerMoves
      <4> QED
        BY <2>1, <4>1, <4>2
    <3>2. CASE Free(t)
      BY <3>2 DEF Free
    <3> QED
      BY <1>3, <2>1, <2>4, <3>1, <3>2, MainStepWeakens
  <2>5. ASSUME NEW u \in Makers \ {t},
               \/ MakerStep(u) \/ AcceptReturns(u) \/ AcceptThrows(u)
               \/ ReaderStep(u) \/ ReaderReads(u) \/ LinkLost(u)
        PROVE  Down(t)
    <3>1. thread[t] \in Thread
      BY <1>3, <2>1 DEF TypeOK
    <3>2. \/ Weakened(thread'[t], thread[t])
          \/ thread'[t] = [thread[t] EXCEPT !.reader = "enable"]
      BY <1>3, <2>1, <2>5, OthersWeaken
    <3>3. thread'[t].pc = thread[t].pc /\ (thread'[t].isLoop => thread[t].isLoop)
      BY <3>1, <3>2 DEF Weakened, Thread
    <3>4. ~MakerStep(t)
      BY <1>3, <2>1, <3>3, MakerStepMoves DEF MakerMoves
    <3> QED
      BY <2>1, <3>3, <3>4
  <2>6. CASE MakerStep(t) \/ AcceptReturns(t) \/ AcceptThrows(t)
    <3>1. MakerMoves(t, thread'[t], thread[t])
      BY <1>3, <2>1, <2>6, MakerStepMoves
    <3>2. ASSUME ~thread[t].isLoop, thread[t].pc \notin {"create", "enable", "dead"}
          PROVE  StepsToEnd(thread'[t].pc) < StepsToEnd(thread[t].pc)
      <4> DEFINE old == thread[t].pc
                 new == thread'[t].pc
      <4>1. \/ old \in {"loop", "accept", "closeServer", "check"} /\ new = "dead"
            \/ old \in {"connect", "start"} /\ new = "check"
            \/ old \in {"connect", "accept"} /\ new = "cancelOld"
            \/ old = "cancelOld" /\ new \in {"nullOld", "assign"}
            \/ old = "nullOld" /\ new = "assign"
            \/ old = "assign" /\ new = "start"
            \/ old = "start" /\ new = "threw"
            \/ old = "check" /\ new = "sleep"
            \/ old = "sleep" /\ new = "loop"
        BY <3>1, <3>2 DEF MakerMoves
      <4> HIDE DEF old, new
      <4>2. StepsToEnd(new) < StepsToEnd(old)
        BY <1>2, <4>1
      <4> QED
        BY <4>2 DEF old, new
    <3>3. thread'[t].isLoop = thread[t].isLoop \/ thread[t].pc = "enable"
      BY <3>1 DEF MakerMoves
    <3> QED
      BY <2>1, <3>2, <3>3
  <2>7. CASE ReaderStep(t) \/ ReaderReads(t) \/ LinkLost(t)
    <3>1. thread'[t].pc = thread[t].pc /\ thread'[t].isLoop = thread[t].isLoop
      BY <1>3, <2>1, <2>7, ReaderStepMoves DEF ReaderMoves
    <3> QED
      BY <2>2, <3>1
  <2> QED
    BY <1>3, <2>3, <2>4, <2>5, <2>6, <2>7 DEF Next
<1>4. TypeOK /\ [Next]_vars => [\A t \in Connects : Down(t)]_vars
  BY <1>3
<1> QED
  BY <1>4, TypeCorrect, PTL DEF Spec, MakerRunsDown

\* A connection is there before its reader, and a reader's loop ends with its connection.
ReaderHasLink ==
  \A t \in Makers :
    /\ thread[t].pc \in {"create", "accept", "cancelOld", "nullOld", "assign"} =>
         thread[t].reader = "none"
    /\ thread[t].pc \in {"cancelOld", "nullOld", "assign", "start"} => thread[t].link # "none"
    /\ thread[t].reader # "none" => thread[t].link # "none"
    /\ thread[t].reader \in {"loop", "read"} /\ ~thread[t].readerLoop =>
         thread[t].link \notin {"open", "lost"}

LEMMA ReaderHasLinkStep ==
  ASSUME TypeOK, ReaderHasLink, [Next]_vars
  PROVE  ReaderHasLink'
<1> DEFINE P(th) ==
      /\ th.pc \in {"create", "accept", "cancelOld", "nullOld", "assign"} => th.reader = "none"
      /\ th.pc \in {"cancelOld", "nullOld", "assign", "start"} => th.link # "none"
      /\ th.reader # "none" => th.link # "none"
      /\ th.reader \in {"loop", "read"} /\ ~th.readerLoop => th.link \notin {"open", "lost"}
<1>1. \A t \in Makers : P(thread[t])
  BY DEF ReaderHasLink
<1>2. \A new, old : P(old) /\ Weakened(new, old) => P(new)
  BY DEF Weakened
<1>3. \A t, new, old : P(old) /\ MakerMoves(t, new, old) => P(new)
  BY DEF MakerMoves
<1>4. \A new, old : P(old) /\ ReaderMoves(new, old) => P(new)
  BY DEF ReaderMoves
<1>5. \A th \in Thread : P(th) /\ th.reader = "new" => P([th EXCEPT !.reader = "enable"])
  BY DEF Thread
<1>6. P([Unmade EXCEPT !.pc = "create"])
  BY CreatedType
<1>7. thread \in [Makers -> Thread]
  BY DEF TypeOK
<1> HIDE DEF P
<1>8. ASSUME NEW t \in Makers
      PROVE  P(thread'[t])
  <2>1. CASE UNCHANGED vars
    BY <1>1, <2>1 DEF vars
  <2>2. CASE AppCall \/ ReleaseLink \/ Handler
    BY <1>1, <1>2, <1>6, <2>2, MainStepWeakens
  <2>3. ASSUME NEW u \in Makers \ {t},
               \/ MakerStep(u) \/ AcceptReturns(u) \/ AcceptThrows(u)
               \/ ReaderStep(u) \/ ReaderReads(u) \/ LinkLost(u)
        PROVE  P(thread'[t])
    BY <1>1, <1>2, <1>5, <1>7, <2>3, OthersWeaken
  <2>4. CASE MakerStep(t) \/ AcceptReturns(t) \/ AcceptThrows(t)
    BY <1>1, <1>3, <2>4, MakerStepMoves
  <2>5. CASE ReaderStep(t) \/ ReaderReads(t) \/ LinkLost(t)
    BY <1>1, <1>4, <2>5, ReaderStepMoves
  <2> QED
    BY <2>1, <2>2, <2>3, <2>4, <2>5 DEF Next
<1> QED
  BY <1>8 DEF P, ReaderHasLink

LEMMA ReaderHasLinkHolds == Spec => []ReaderHasLink
<1>1. Init => ReaderHasLink
  BY DEF Init, Unmade, ReaderHasLink
<1>2. TypeOK /\ ReaderHasLink /\ [Next]_vars => ReaderHasLink'
  BY ReaderHasLinkStep
<1> QED
  BY <1>1, <1>2, TypeCorrect, PTL DEF Spec

\* How many steps of its own a reader without a connection is from its end.
ReaderSteps(r) ==
  CASE r = "enable" -> 3
    [] r = "loop" -> 2
    [] r = "read" -> 1
    [] OTHER -> 0

\* A reader whose connection is gone never gets another one, every step it takes brings it
\* nearer to its end and no step of another thread takes it further away (lines 282-343).
ReaderRunsDown ==
  [][\A t \in Makers :
       thread[t].link # "open" /\ thread[t].reader \in {"enable", "loop", "read"} =>
         /\ thread'[t].link # "open"
         /\ ReaderSteps(thread'[t].reader) <= ReaderSteps(thread[t].reader)
         /\ ReaderStep(t) =>
              ReaderSteps(thread'[t].reader) < ReaderSteps(thread[t].reader)]_vars

\* ReadersEnd without the fairness: a reader without a connection has at most three steps left,
\* although isLoop may be set again after cancel() has cleared it (line 287), and nothing gives
\* it more: its identity is not used for another connection before it is done.
THEOREM LinklessReaderRunsDown == Spec => ReaderRunsDown
<1> DEFINE Down(t) ==
             thread[t].link # "open" /\ thread[t].reader \in {"enable", "loop", "read"} =>
               /\ thread'[t].link # "open"
               /\ ReaderSteps(thread'[t].reader) <= ReaderSteps(thread[t].reader)
               /\ ReaderStep(t) =>
                    ReaderSteps(thread'[t].reader) < ReaderSteps(thread[t].reader)
<1>1. \A r : ReaderSteps(r) \in Nat
  BY DEF ReaderSteps
<1>2. ASSUME TypeOK, ReaderHasLink, [Next]_vars, NEW t \in Makers
      PROVE  Down(t)
  <2> SUFFICES ASSUME thread[t].link # "open", thread[t].reader \in {"enable", "loop", "read"}
               PROVE  /\ thread'[t].link # "open"
                      /\ \/ ReaderSteps(thread'[t].reader) < ReaderSteps(thread[t].reader)
                         \/ ~ReaderStep(t) /\ thread'[t].reader = thread[t].reader
    BY <1>1
  <2>1. thread[t].link # "none"
    BY <1>2 DEF ReaderHasLink
  <2>2. ASSUME ReaderStep(t)
        PROVE  thread'[t].reader # thread[t].reader
    BY <1>2, <2>2, ReaderStepMoves DEF ReaderMoves
  <2>3. CASE UNCHANGED vars
    BY <2>2, <2>3 DEF vars
  <2>4. CASE AppCall \/ ReleaseLink \/ Handler
    <3>1. Weakened(thread'[t], thread[t])
      BY <1>2, <2>4, MainStepWeakens DEF Free
    <3> QED
      BY <2>2, <3>1 DEF Weakened
  <2>5. ASSUME NEW u \in Makers \ {t},
               \/ MakerStep(u) \/ AcceptReturns(u) \/ AcceptThrows(u)
               \/ ReaderStep(u) \/ ReaderReads(u) \/ LinkLost(u)
        PROVE  /\ thread'[t].link # "open"
               /\ thread'[t].reader = thread[t].reader
    <3>1. Weakened(thread'[t], thread[t])
      BY <1>2, <2>5, OthersWeaken
    <3> QED
      BY <3>1 DEF Weakened
  <2>6. CASE MakerStep(t) \/ AcceptReturns(t) \/ AcceptThrows(t)
    <3>1. MakerMoves(t, thread'[t], thread[t])
      BY <1>2, <2>6, MakerStepMoves
    <3>2. thread[t].pc \notin {"accept", "assign"}
      BY <1>2, <2>1, <3>1 DEF ReaderHasLink
    <3> QED
      BY <2>1, <2>2, <3>1, <3>2 DEF MakerMoves
  <2>7. CASE ReaderStep(t) \/ ReaderReads(t) \/ LinkLost(t)
    <3>1. ReaderMoves(thread'[t], thread[t])
      BY <1>2, <2>7, ReaderStepMoves
    <3> QED
      BY <3>1 DEF ReaderMoves, ReaderSteps
  <2> QED
    BY <1>2, <2>2, <2>3, <2>4, <2>5, <2>6, <2>7 DEF Next
<1>3. TypeOK /\ ReaderHasLink /\ [Next]_vars => [\A t \in Makers : Down(t)]_vars
  BY <1>2
<1> QED
  BY <1>3, TypeCorrect, ReaderHasLinkHolds, PTL DEF Spec, ReaderRunsDown
=============================================================================
