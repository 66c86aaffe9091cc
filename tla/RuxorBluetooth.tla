---------------------------- MODULE RuxorBluetooth ----------------------------
(***************************************************************************)
(* The Bluetooth component: class RuxorBluetoothImpl, its Handler and its  *)
(* three inner Thread classes.                                             *)
(*                                                                         *)
(* The main thread makes the application's calls (connectDevice, listen,   *)
(* release) and handles the messages of bluetoothHandler. A maker, which   *)
(* is a ConnectThread or an AcceptThread, obtains a connection and installs *)
(* a ConnectedThread for it; that reader posts MESSAGE_READ for what it     *)
(* reads and MESSAGE_DISCONNECT when reading throws. All of them use the    *)
(* fields of the outer object without a lock, so every access of            *)
(* connectedThread that another thread can come before is a step.           *)
(*                                                                         *)
(* A maker makes at most one connection, so a ConnectedThread and its       *)
(* socket have the identity of their maker. A ConnectThread hands its own   *)
(* connectSocket to the reader; an AcceptThread hands over the socket that  *)
(* accept() returned and closes its serverSocket.                           *)
(***************************************************************************)
EXTENDS Integers, Sequences, FiniteSets

CONSTANTS
  Connects,     \* identities of ConnectThread objects
  Accepts,      \* identities of AcceptThread objects
  NULL,         \* no thread
  Bytes,        \* what one read may bring
  Matching,     \* how many bonded devices have the target's name or address
  OrderlyCalls, \* assumption: the application calls connectDevice and listen at rest only
  MaxCalls,     \* bound: calls of connectDevice and listen
  MaxMessages   \* bound: messages queued when a read adds one

Makers == Connects \cup Accepts

ASSUME BluetoothConstants ==
  /\ Connects \cap Accepts = {}
  /\ NULL \notin Makers \cup Bytes
  /\ IsFiniteSet(Makers)
  /\ Matching \in Nat \ {0} /\ MaxCalls \in Nat /\ MaxMessages \in Nat
  /\ OrderlyCalls \in BOOLEAN

VARIABLES
  deviceType,       \* which of the two ways to connect is tried again
  isExitProgram,
  target,           \* whether targetDeviceName and targetDeviceAddress are set
  acceptThread, connectThread, connectedThread,
  main,             \* what the main thread is doing
  queue,            \* the messages of bluetoothHandler
  thread,           \* each maker, its sockets and its reader
  calls             \* calls the application has made

role  == <<deviceType, isExitProgram, target, calls>>
makes == <<acceptThread, connectThread>>
vars  == <<role, makes, connectedThread, main, queue, thread>>

MakerPcs == {"dead", "create", "enable", "loop", "connect", "accept", "cancelOld",
             "nullOld", "assign", "start", "closeServer", "check", "sleep", "threw"}

Thread ==
  [pc: MakerPcs,
   isLoop: BOOLEAN,                       \* ConnectThread.isLoop
   socket: {"null", "open", "closed"},    \* connectSocket or serverSocket
   link: {"none", "open", "lost", "closed"},  \* the connection; lost: the remote end is gone
   reader: {"none", "new", "enable", "loop", "read", "done"},
   readerLoop: BOOLEAN,                   \* ConnectedThread.isLoop
   mmBuffer: Bytes \cup {NULL}]

Messages ==
  [what: {"read"}, from: Makers, bytes: Bytes]
    \cup [what: {"disconnect"}, from: Makers, bytes: {NULL}]

TypeOK ==
  /\ deviceType \in {"client", "server"}
  /\ isExitProgram \in BOOLEAN /\ target \in BOOLEAN
  /\ acceptThread \in Accepts \cup {NULL}
  /\ connectThread \in Connects \cup {NULL}
  /\ connectedThread \in Makers \cup {NULL}
  /\ main \in {"idle", "nullLink", "restart", "releaseLink"}
  /\ queue \in Seq(Messages)
  /\ thread \in [Makers -> Thread]
  /\ calls \in 0..MaxCalls

Unmade ==
  [pc |-> "dead", isLoop |-> TRUE, socket |-> "null", link |-> "none",
   reader |-> "none", readerLoop |-> TRUE, mmBuffer |-> NULL]

Init ==
  /\ deviceType = "client" /\ isExitProgram = FALSE /\ target = FALSE
  /\ acceptThread = NULL /\ connectThread = NULL /\ connectedThread = NULL
  /\ main = "idle" /\ queue = <<>>
  /\ thread = [t \in Makers |-> Unmade]
  /\ calls = 0

-----------------------------------------------------------------------------
(* Operators on the function thread, so that a handler's calls compose.     *)

\* An object nobody refers to any more once connectThread or acceptThread has its
\* new value: its identity may be used again.
Free(t) ==
  /\ thread[t].pc = "dead" /\ thread[t].reader \in {"none", "new", "done"}
  /\ t # connectedThread
  /\ \A i \in DOMAIN queue : queue[i].from # t

\* new ConnectThread(device) or new AcceptThread(), and start().
Started(f, S) ==
  [t \in Makers |-> IF t \in S THEN [Unmade EXCEPT !.pc = "create"] ELSE f[t]]

CloseLink(th) == [th EXCEPT !.link = IF @ = "none" THEN @ ELSE "closed"]

\* ConnectThread.cancel: its socket is the connection's socket.
CancelledMaker(th) ==
  [CloseLink(th) EXCEPT !.isLoop = FALSE, !.socket = IF @ = "null" THEN @ ELSE "closed"]

CancelConnect(f, t) == IF t = NULL THEN f ELSE [f EXCEPT ![t] = CancelledMaker(f[t])]

\* AcceptThread.cancel: the server socket only, if run() has created it.
CancelAccept(f, t) ==
  IF t = NULL THEN f
  ELSE [f EXCEPT ![t].socket = IF @ = "null" THEN @ ELSE "closed"]

\* ConnectedThread.cancel.
CancelledReader(t, th) ==
  [CloseLink(th) EXCEPT !.readerLoop = FALSE,
                        !.socket = IF t \in Connects THEN "closed" ELSE @]

CancelLink(f, t) == IF t = NULL THEN f ELSE [f EXCEPT ![t] = CancelledReader(t, f[t])]

-----------------------------------------------------------------------------
(* Calls one after the other: what the class needs of the application, and  *)
(* what OrderlyCalls assumes of it.                                         *)

\* A maker that has no connection and obtains none, with no reader that may still report.
Spent(t) ==
  /\ thread[t].link # "open" /\ thread[t].reader \in {"none", "done"}
  /\ thread[t].pc \in {"dead", "loop", "connect", "check", "sleep", "closeServer"}
  /\ thread[t].pc \in {"loop", "connect", "check", "sleep"} =>
       thread[t].link # "none" /\ ~thread[t].isLoop

\* Nothing of the earlier calls can meet a new thread, and no disconnection is due that
\* the handler would take for one of the new connection.
AtRest ==
  /\ \A t \in Makers : Spent(t)
  /\ isExitProgram \/ \A i \in DOMAIN queue : queue[i].what # "disconnect"

-----------------------------------------------------------------------------
(* The main thread: calls of the application.                              *)

\* connect(device) for every bonded device that matches; connectThread is left
\* with the last. f is thread after what the caller has cancelled.
Connect(f) ==
  LET free == {t \in Connects : Free(t)}
      new  == CHOOSE S \in SUBSET free : Cardinality(S) = Matching
  IN  /\ Cardinality(free) >= Matching
      /\ deviceType' = "client"
      /\ connectThread' \in new
      /\ thread' = Started(f, new)

Listen(f) ==
  /\ \E t \in Accepts : Free(t)
  /\ deviceType' = "server"
  /\ acceptThread' = CHOOSE t \in Accepts : Free(t)
  /\ thread' = Started(f, {acceptThread'})

\* Of the guard only main is the code's: the rest is a bound and the assumption on the caller.
ConnectDevice ==
  /\ main = "idle" /\ calls < MaxCalls
  /\ OrderlyCalls => AtRest
  /\ Connect(thread)
  /\ target' = TRUE
  /\ calls' = calls + 1
  /\ UNCHANGED <<isExitProgram, acceptThread, connectedThread, main, queue>>

CallListen ==
  /\ main = "idle" /\ calls < MaxCalls
  /\ OrderlyCalls => AtRest
  /\ Listen(thread)
  /\ calls' = calls + 1
  /\ UNCHANGED <<isExitProgram, target, connectThread, connectedThread, main, queue>>

\* release, up to the cancellation of connectedThread.
Release ==
  /\ main = "idle"
  /\ isExitProgram' = TRUE
  /\ thread' = CancelConnect(CancelAccept(thread, acceptThread), connectThread)
  /\ main' = "releaseLink"
  /\ UNCHANGED <<deviceType, target, calls, makes, connectedThread, queue>>

ReleaseLink ==
  /\ main = "releaseLink"
  /\ thread' = CancelLink(thread, connectedThread)
  /\ main' = "idle"
  /\ UNCHANGED <<role, makes, connectedThread, queue>>

-----------------------------------------------------------------------------
(* The main thread: bluetoothHandler.                                      *)

\* MESSAGE_READ: the listener gets a copy of mmBuffer as it is now.
HandleRead ==
  /\ main = "idle" /\ queue # <<>>
  /\ Head(queue).what = "read"
  /\ queue' = Tail(queue)
  /\ UNCHANGED <<role, makes, connectedThread, main, thread>>

\* MESSAGE_DISCONNECT: whichever reader sent it, the present connection goes.
HandleDisconnect ==
  /\ main = "idle" /\ queue # <<>>
  /\ Head(queue).what = "disconnect"
  /\ queue' = Tail(queue)
  /\ IF isExitProgram THEN UNCHANGED <<thread, main>>
     ELSE /\ thread' = CancelLink(thread, connectedThread)
          /\ main' = IF connectedThread = NULL THEN "restart" ELSE "nullLink"
  /\ UNCHANGED <<role, makes, connectedThread>>

HandlerNullLink ==
  /\ main = "nullLink"
  /\ connectedThread' = NULL
  /\ main' = "restart"
  /\ UNCHANGED <<role, makes, queue, thread>>

\* Mutant: the handler restarts without looking at deviceType.
HandlerRestartClientOnly ==
  /\ main = "restart"
  /\ main' = "idle"
  /\ IF target THEN Connect(CancelConnect(thread, connectThread))
               ELSE UNCHANGED <<deviceType, thread, connectThread>>
  /\ UNCHANGED <<isExitProgram, target, calls, acceptThread, connectedThread, queue>>

\* connectDevice ignores a target that was never set.
HandlerRestart ==
  /\ main = "restart"
  /\ main' = "idle"
  /\ \/ /\ deviceType = "client" /\ target
        /\ Connect(CancelConnect(thread, connectThread))
        /\ UNCHANGED acceptThread
     \/ /\ deviceType = "client" /\ ~target
        /\ thread' = CancelConnect(thread, connectThread)
        /\ connectThread' = NULL
        /\ UNCHANGED <<deviceType, acceptThread>>
     \/ /\ deviceType = "server"
        /\ Listen(CancelAccept(thread, acceptThread))
        /\ UNCHANGED connectThread
  /\ UNCHANGED <<isExitProgram, target, calls, connectedThread, queue>>

-----------------------------------------------------------------------------
(* The makers. At(t, a) and Goto(t, b) are t's place in run().              *)

At(t, pc) == thread[t].pc = pc

Become(t, th) == thread' = [thread EXCEPT ![t] = th]

Goto(t, pc) == Become(t, [thread[t] EXCEPT !.pc = pc])

\* createRfcommSocketToServiceRecord, listenUsingInsecureRfcommWithServiceRecord.
CreateSocket(t) ==
  /\ At(t, "create")
  /\ Become(t, [thread[t] EXCEPT !.socket = "open",
                                  !.pc = IF t \in Connects THEN "enable" ELSE "accept"])
  /\ UNCHANGED <<role, makes, connectedThread, main, queue>>

\* isLoop = true, also when cancel() has just cleared it.
ConnectEnable(t) ==
  /\ At(t, "enable")
  /\ Become(t, [thread[t] EXCEPT !.isLoop = TRUE, !.pc = "loop"])
  /\ UNCHANGED <<role, makes, connectedThread, main, queue>>

\* Mutant: the loop does not test isLoop.
ConnectLoopForever(t) ==
  /\ At(t, "loop")
  /\ Goto(t, "connect")
  /\ UNCHANGED <<role, makes, connectedThread, main, queue>>

ConnectLoop(t) ==
  /\ At(t, "loop")
  /\ Goto(t, IF thread[t].isLoop THEN "connect" ELSE "dead")
  /\ UNCHANGED <<role, makes, connectedThread, main, queue>>

\* connect() on a socket that is closed or was connected before throws.
ConnectReturns(t) ==
  /\ At(t, "connect")
  /\ \/ /\ thread[t].socket = "open" /\ thread[t].link = "none"
        /\ Become(t, [thread[t] EXCEPT !.link = "open", !.pc = "cancelOld"])
     \/ Goto(t, "check")
  /\ UNCHANGED <<role, makes, connectedThread, main, queue>>

AcceptReturns(t) ==
  /\ At(t, "accept")
  /\ thread[t].socket = "open"
  /\ Become(t, [thread[t] EXCEPT !.link = "open", !.pc = "cancelOld"])
  /\ UNCHANGED <<role, makes, connectedThread, main, queue>>

\* accept() throws when the server socket is closed or Bluetooth is switched off.
AcceptThrows(t) ==
  /\ At(t, "accept")
  /\ Goto(t, "dead")
  /\ UNCHANGED <<role, makes, connectedThread, main, queue>>

\* The test and cancel(): whoever clears connectedThread in between has cancelled the thread it
\* found there just before, so that ?.cancel, which then does nothing, is not missed.
CancelOldLink(t) ==
  /\ At(t, "cancelOld")
  /\ thread' = [CancelLink(thread, connectedThread) EXCEPT
                  ![t].pc = IF connectedThread = NULL THEN "assign" ELSE "nullOld"]
  /\ UNCHANGED <<role, makes, connectedThread, main, queue>>

NullOldLink(t) ==
  /\ At(t, "nullOld")
  /\ connectedThread' = NULL
  /\ Goto(t, "assign")
  /\ UNCHANGED <<role, makes, main, queue>>

AssignLink(t) ==
  /\ At(t, "assign")
  /\ connectedThread' = t
  /\ Become(t, [thread[t] EXCEPT !.reader = "new", !.pc = "start"])
  /\ UNCHANGED <<role, makes, main, queue>>

\* connectedThread?.start() reads the field again: another thread may have
\* cleared or replaced it, and a Thread that was started before throws.
StartLink(t) ==
  LET c == connectedThread
      next == IF t \in Connects THEN "check" ELSE "closeServer"
  IN
  /\ At(t, "start")
  /\ \/ /\ c = NULL
        /\ Goto(t, next)
     \/ /\ c # NULL /\ thread[c].reader = "new"
        /\ thread' = [thread EXCEPT ![c].reader = "enable", ![t].pc = next]
     \/ /\ c # NULL /\ thread[c].reader # "new"
        /\ Goto(t, "threw")
  /\ UNCHANGED <<role, makes, connectedThread, main, queue>>

AcceptCloseServer(t) ==
  /\ At(t, "closeServer")
  /\ Become(t, [thread[t] EXCEPT !.socket = "closed", !.pc = "dead"])
  /\ UNCHANGED <<role, makes, connectedThread, main, queue>>

\* Mutant: one failed attempt ends the thread.
ConnectCheckGivesUp(t) ==
  /\ At(t, "check")
  /\ Goto(t, "dead")
  /\ UNCHANGED <<role, makes, connectedThread, main, queue>>

ConnectCheck(t) ==
  /\ At(t, "check")
  /\ Goto(t, IF connectedThread # NULL THEN "dead" ELSE "sleep")
  /\ UNCHANGED <<role, makes, connectedThread, main, queue>>

ConnectSleep(t) ==
  /\ At(t, "sleep")
  /\ Goto(t, "loop")
  /\ UNCHANGED <<role, makes, connectedThread, main, queue>>

MakerStep(t) ==
  \/ CreateSocket(t) \/ ConnectEnable(t) \/ ConnectLoop(t) \/ ConnectReturns(t)
  \/ CancelOldLink(t) \/ NullOldLink(t) \/ AssignLink(t) \/ StartLink(t)
  \/ AcceptCloseServer(t) \/ ConnectCheck(t) \/ ConnectSleep(t)

-----------------------------------------------------------------------------
(* The readers (ConnectedThread).                                           *)

\* The remote end goes away or out of range.
LinkLost(t) ==
  /\ thread[t].link = "open"
  /\ Become(t, [thread[t] EXCEPT !.link = "lost"])
  /\ UNCHANGED <<role, makes, connectedThread, main, queue>>

\* isLoop = true, also when cancel() has just cleared it.
ReaderEnable(t) ==
  /\ thread[t].reader = "enable"
  /\ Become(t, [thread[t] EXCEPT !.readerLoop = TRUE, !.reader = "loop"])
  /\ UNCHANGED <<role, makes, connectedThread, main, queue>>

ReaderLoop(t) ==
  /\ thread[t].reader = "loop"
  /\ Become(t, [thread[t] EXCEPT !.reader = IF thread[t].readerLoop THEN "read" ELSE "done"])
  /\ UNCHANGED <<role, makes, connectedThread, main, queue>>

\* Every read fills the same mmBuffer, and the message refers to that array.
ReaderReads(t) ==
  /\ thread[t].reader = "read" /\ thread[t].link = "open"
  /\ Len(queue) < MaxMessages
  /\ \E b \in Bytes :
       /\ Become(t, [thread[t] EXCEPT !.mmBuffer = b, !.reader = "loop"])
       /\ queue' = Append(queue, [what |-> "read", from |-> t, bytes |-> b])
  /\ UNCHANGED <<role, makes, connectedThread, main>>

\* Mutant: the end of the stream is posted as data instead of a disconnection.
ReaderThrowsAsRead(t) ==
  /\ thread[t].reader = "read" /\ thread[t].link # "open"
  /\ Become(t, [thread[t] EXCEPT !.reader = "done"])
  /\ queue' = Append(queue, [what |-> "read", from |-> t, bytes |-> NULL])
  /\ UNCHANGED <<role, makes, connectedThread, main>>

\* Mutant: the reader stays in its loop after the exception.
ReaderThrowsAgain(t) ==
  /\ thread[t].reader = "read" /\ thread[t].link # "open"
  /\ Len(queue) < MaxMessages
  /\ Become(t, [thread[t] EXCEPT !.reader = "read"])
  /\ queue' = Append(queue, [what |-> "disconnect", from |-> t, bytes |-> NULL])
  /\ UNCHANGED <<role, makes, connectedThread, main>>

\* Mutant: the exception is reported in the catch and once more when run() ends.
ReaderThrowsTwice(t) ==
  LET lost == [what |-> "disconnect", from |-> t, bytes |-> NULL] IN
  /\ thread[t].reader = "read" /\ thread[t].link # "open"
  /\ Become(t, [thread[t] EXCEPT !.reader = "done"])
  /\ queue' = queue \o <<lost, lost>>
  /\ UNCHANGED <<role, makes, connectedThread, main>>

ReaderThrows(t) ==
  /\ thread[t].reader = "read" /\ thread[t].link # "open"
  /\ Become(t, [thread[t] EXCEPT !.reader = "done"])
  /\ queue' = Append(queue, [what |-> "disconnect", from |-> t, bytes |-> NULL])
  /\ UNCHANGED <<role, makes, connectedThread, main>>

ReaderStep(t) == ReaderEnable(t) \/ ReaderLoop(t) \/ ReaderThrows(t)

-----------------------------------------------------------------------------
Handler == HandleRead \/ HandleDisconnect \/ HandlerNullLink \/ HandlerRestart

AppCall == ConnectDevice \/ CallListen \/ Release

Next ==
  \/ AppCall \/ ReleaseLink \/ Handler
  \/ \E t \in Makers : \/ MakerStep(t) \/ AcceptReturns(t) \/ AcceptThrows(t)
                       \/ ReaderStep(t) \/ ReaderReads(t) \/ LinkLost(t)

\* The main looper handles its messages, started threads run, connect() returns
\* (the stack bounds it) and accept() throws on a closed socket. Neither calls,
\* peers, data nor the loss of a link is promised.
Fairness ==
  /\ WF_vars(ReleaseLink \/ Handler)
  /\ \A t \in Makers :
       /\ WF_vars(MakerStep(t))
       /\ WF_vars(ReaderStep(t))
       /\ WF_vars(thread[t].socket = "closed" /\ AcceptThrows(t))

Spec == Init /\ [][Next]_vars /\ Fairness

-----------------------------------------------------------------------------
(* Properties.                                                              *)

\* A thread that may still obtain a connection.
Trying(t) ==
  \/ thread[t].pc \in {"create", "enable", "accept"}
  \/ thread[t].pc = "loop" /\ thread[t].isLoop
  \/ thread[t].pc = "connect" /\ thread[t].link = "none"

\* With one session there is at most one connection, made or in the making: a
\* retry never races the thread whose connection was lost (lines 73-76, 80-83).
OneConnection ==
  \A t, u \in Makers :
    /\ Trying(t) \/ thread[t].link = "open"
    /\ Trying(u) \/ thread[u].link = "open"
    => t = u

\* Every open connection can be closed by the main thread: connectedThread refers
\* to it, or its maker is about to install it.
LinkIsReachable ==
  \A t \in Makers :
    thread[t].link = "open"
      => connectedThread = t \/ thread[t].pc \in {"cancelOld", "nullOld", "assign"}

\* A ConnectedThread is never started twice: connectedThread?.start() would throw
\* IllegalThreadStateException, which no catch of the makers handles.
NothingThrows == \A t \in Makers : ~At(t, "threw")

\* A disconnection that the handler acts on is that of the connection it cancels: the
\* message carries no sender, and a late one would close the connection that replaced
\* the lost one (lines 63-69).
DisconnectIsOfTheLink ==
  main = "idle" /\ queue # <<>> /\ Head(queue).what = "disconnect" /\ ~isExitProgram
    => connectedThread = Head(queue).from /\ thread[connectedThread].link # "open"

\* When the remote end goes away, the handler connects or listens again.
LostIsRetried ==
  (\E t \in Makers : thread[t].link = "lost")
    ~> isExitProgram \/ \E t \in Makers : Trying(t)

\* A client never gives up: until release, it tries or has a connection again
\* and again.
ClientKeepsTrying ==
  target /\ deviceType = "client"
    ~> isExitProgram \/ \E t \in Connects : Trying(t) \/ thread[t].link = "open"

\* A ConnectThread cancelled once it is in its loop ends, even while connect()
\* blocks it or it has just made a connection.
CancelledInLoopEnds ==
  \A t \in Connects :
    ~thread[t].isLoop /\ thread[t].pc \notin {"create", "enable"}
      ~> thread[t].pc \in {"dead", "threw"}

\* No reader outlives its connection, whether the peer left, the main thread
\* cancelled it or another maker replaced it: it leaves its loop or its read throws.
ReadersEnd ==
  \A t \in Makers :
    thread[t].link # "open" /\ thread[t].reader \in {"enable", "loop", "read"}
      ~> thread[t].reader = "done"

-----------------------------------------------------------------------------
(* What the comments promise, and TLC refutes.                              *)

\* ConnectThread.cancel "causes the thread to finish" (line 274).
CancelFinishes ==
  \A t \in Connects : ~thread[t].isLoop ~> thread[t].pc = "dead"

\* The handler delivers "the obtained bytes" (line 309) of each read: those of
\* the message it handles next are still in the buffer the message refers to.
DeliveredAsRead ==
  queue # <<>> /\ Head(queue).what = "read"
    => thread[Head(queue).from].mmBuffer = Head(queue).bytes

=============================================================================
