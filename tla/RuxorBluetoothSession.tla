-------------------------- MODULE RuxorBluetoothSession --------------------------
(***************************************************************************)
(* Theorems about RuxorBluetooth when one bonded device matches and the     *)
(* application calls connectDevice and listen at rest, however often: there *)
(* is one connection, which the main thread can reach, and no thread is     *)
(* started twice.                                                          *)
(*                                                                         *)
(* The inductive invariant follows a session through its phases. All but    *)
(* one of the makers are spent. The current one, which the field of the     *)
(* role refers to, is on its way, linked, or lost; the handler then         *)
(* restarts. Between two sessions all of them are spent. From it follow the  *)
(* safety halves of LostIsRetried and ClientKeepsTrying.                    *)
(***************************************************************************)
EXTENDS RuxorBluetoothProof

\* The calls of connectDevice and listen, which alone change calls, are made at rest.
Orderly == calls' # calls => AtRest

OrderlySpec == Init /\ [][Next /\ Orderly]_vars

\* Only a ConnectThread is at the places of its loop; a reader whose loop was ended has
\* lost its connection.
MakerShape ==
  \A t \in Makers :
    /\ thread[t].pc \in {"enable", "loop", "connect", "check", "sleep"} => t \in Connects
    /\ thread[t].reader \in {"loop", "read"} /\ ~thread[t].readerLoop => thread[t].link # "open"

\* After release the handler ignores a MESSAGE_DISCONNECT.
Disconnects == {i \in DOMAIN queue : queue[i].what = "disconnect"}

NoneDue == isExitProgram \/ Disconnects = {}
OneDue(t) ==
  isExitProgram \/ \A i, j \in Disconnects : i = j /\ queue[i].from = t

\* connectedThread may still be that of the session before.
OnItsWay(t) ==
  /\ main \in {"idle", "releaseLink"} /\ connectedThread # t
  /\ NoneDue
  /\ thread[t].reader = "none"
  /\ \/ /\ thread[t].link = "none"
        /\ thread[t].pc \in {"create", "enable", "loop", "connect", "check", "sleep", "accept", "dead"}
     \/ thread[t].link # "none" /\ thread[t].pc \in {"cancelOld", "nullOld"}
     \/ thread[t].link # "none" /\ thread[t].pc = "assign" /\ connectedThread = NULL

Linked(t) ==
  /\ main \in {"idle", "releaseLink"} /\ connectedThread = t
  /\ NoneDue
  /\ thread[t].reader \in {"new", "enable", "loop", "read"}
  /\ thread[t].link # "none"
  /\ \/ thread[t].pc = "start" /\ thread[t].reader = "new"
     \/ thread[t].pc \in {"check", "closeServer", "dead"} /\ thread[t].reader # "new"

Over(t) ==
  /\ thread[t].link \notin {"none", "open"} /\ thread[t].reader = "done"
  /\ thread[t].pc \in {"check", "closeServer", "dead"}

Lost(t) ==
  /\ main \in {"idle", "releaseLink", "nullLink"} /\ connectedThread = t
  /\ OneDue(t)
  /\ main = "nullLink" => Disconnects = {}
  /\ Over(t)

Restarting(t) ==
  /\ main = "restart" /\ connectedThread = NULL
  /\ Disconnects = {}
  /\ thread[t].link \notin {"none", "open"} /\ thread[t].reader = "done"
  /\ thread[t].pc \in {"check", "sleep", "loop", "connect", "closeServer", "dead"}

Resting ==
  /\ main \in {"idle", "releaseLink"} /\ NoneDue
  /\ \A t \in Makers : Spent(t)

SessionOf(c) ==
  /\ deviceType = "client" => target /\ c \in Connects /\ connectThread = c
  /\ deviceType = "server" => c \in Accepts /\ acceptThread = c
  /\ \A t \in Makers \ {c} : Spent(t)
  /\ OnItsWay(c) \/ Linked(c) \/ Lost(c) \/ Restarting(c)

Session == \E c \in Makers : SessionOf(c)

SessionInv == TypeOK /\ MakerShape /\ (Resting \/ Session)

-----------------------------------------------------------------------------
(* One session.                                                             *)

LEMMA MessageKept ==
  ASSUME UNCHANGED queue, isExitProgram => isExitProgram'
  PROVE  /\ Disconnects' = Disconnects
         /\ NoneDue => NoneDue'
         /\ \A t : OneDue(t) => OneDue(t)'
BY DEF Disconnects, NoneDue, OneDue

LEMMA MessageRead ==
  ASSUME queue \in Seq(Messages), NEW m \in Messages, m.what = "read",
         queue' = Append(queue, m), NoneDue, isExitProgram => isExitProgram'
  PROVE  NoneDue'
<1>1. Disconnects = {} => Disconnects' = {}
  BY DEF Disconnects
<1> QED
  BY <1>1 DEF NoneDue

LEMMA MessageDisconnect ==
  ASSUME queue \in Seq(Messages), NEW m \in Messages,
         queue' = Append(queue, m), NoneDue, isExitProgram => isExitProgram'
  PROVE  OneDue(m.from)'
<1>1. Disconnects = {} => \A i, j \in Disconnects' : i = j /\ queue'[i].from = m.from
  BY DEF Disconnects
<1> QED
  BY <1>1 DEF NoneDue, OneDue

LEMMA MessageHandled ==
  ASSUME queue \in Seq(Messages), queue # <<>>, queue' = Tail(queue), UNCHANGED isExitProgram,
         NEW t
  PROVE  /\ NoneDue => NoneDue'
         /\ OneDue(t) => OneDue(t)'
         /\ NoneDue /\ Head(queue).what = "disconnect" => isExitProgram
         /\ OneDue(t) /\ Head(queue).what = "disconnect" =>
              isExitProgram \/ (Disconnects' = {} /\ Head(queue).from = t)
<1>1. Len(queue) \in Nat \ {0} /\ DOMAIN queue = 1..Len(queue) /\ Head(queue) = queue[1]
  OBVIOUS
<1>2. DOMAIN queue' = 1..(Len(queue) - 1) /\ \A i \in DOMAIN queue' : queue'[i] = queue[i + 1]
  OBVIOUS
<1>3. \A i \in Disconnects' : /\ i \in Nat /\ i + 1 \in Disconnects /\ i # 0
                             /\ queue'[i] = queue[i + 1]
  BY <1>1, <1>2 DEF Disconnects
<1>4. Head(queue).what = "disconnect" => 1 \in Disconnects
  BY <1>1 DEF Disconnects
<1>5. Disconnects = {} => Disconnects' = {} /\ Head(queue).what # "disconnect"
  BY <1>3, <1>4
<1>6. ASSUME \A i, j \in Disconnects : i = j /\ queue[i].from = t
      PROVE  /\ \A i, j \in Disconnects' : i = j /\ queue'[i].from = t
             /\ Head(queue).what = "disconnect" => Disconnects' = {} /\ Head(queue).from = t
  <2>1. \A i \in Disconnects' : queue'[i].from = t
    BY <1>3, <1>6
  <2>2. \A i, j \in Disconnects' : i = j
    BY <1>3, <1>6
  <2>3. Head(queue).what = "disconnect" => Disconnects' = {}
    BY <1>3, <1>4, <1>6
  <2>4. Head(queue).what = "disconnect" => Head(queue).from = t
    BY <1>1, <1>4, <1>6
  <2> QED
    BY <2>1, <2>2, <2>3, <2>4
<1>7. ASSUME OneDue(t)
      PROVE  /\ OneDue(t)'
             /\ Head(queue).what = "disconnect" =>
                  isExitProgram \/ (Disconnects' = {} /\ Head(queue).from = t)
  <2>1. CASE isExitProgram
    BY <2>1 DEF OneDue
  <2>2. CASE \A i, j \in Disconnects : i = j /\ queue[i].from = t
    <3>1. OneDue(t)'
      BY <1>6, <2>2 DEF OneDue
    <3> QED
      BY <1>6, <2>2, <3>1
  <2> QED
    BY <1>7, <2>1, <2>2 DEF OneDue
<1>9. NoneDue => NoneDue'
  BY <1>5 DEF NoneDue
<1>10. NoneDue /\ Head(queue).what = "disconnect" => isExitProgram
  BY <1>5 DEF NoneDue
<1> QED
  BY <1>7, <1>9, <1>10

\* What a maker that is spent can still do changes its place only.
LEMMA SpentMoves ==
  ASSUME TypeOK, MakerShape, NEW t \in Makers, Spent(t),
         \/ MakerStep(t) \/ AcceptReturns(t) \/ AcceptThrows(t)
         \/ ReaderStep(t) \/ ReaderReads(t) \/ LinkLost(t)
  PROVE  /\ UNCHANGED <<role, makes, connectedThread, main, queue>>
         /\ \A u \in Makers \ {t} : thread'[u] = thread[u]
         /\ thread'[t].pc \in {"check", "sleep", "loop", "connect"} => t \in Connects
         /\ Spent(t)' /\ thread'[t].reader = thread[t].reader
<1>1. thread \in [Makers -> Thread] /\ thread[t] \in Thread
  BY DEF TypeOK
<1>2. \/ ConnectLoop(t) \/ ConnectReturns(t) \/ AcceptCloseServer(t) \/ ConnectCheck(t) \/ ConnectSleep(t)
  BY DEF MakerStep, ReaderStep, CreateSocket, ConnectEnable, CancelOldLink, NullOldLink,
         AssignLink, StartLink, AcceptReturns, AcceptThrows, ReaderEnable, ReaderLoop,
         ReaderThrows, ReaderReads, LinkLost, At, Spent
<1>3. UNCHANGED <<role, makes, connectedThread, main, queue>>
  BY <1>2 DEF ConnectLoop, ConnectReturns, AcceptCloseServer, ConnectCheck, ConnectSleep
<1> DEFINE Moved(th) ==
             /\ th \in Thread
             /\ th.link = thread[t].link /\ th.reader = thread[t].reader /\ th.isLoop = thread[t].isLoop
             /\ th.pc \in {"dead", "loop", "connect", "check", "sleep"}
             /\ th.pc # "dead" => t \in Connects /\ th.link # "none" /\ ~th.isLoop
<1>4. \E th : Moved(th) /\ Become(t, th)
  <2>1. CASE ConnectLoop(t)
    BY <1>1, <2>1 DEF ConnectLoop, At, Goto, Spent, Thread, MakerPcs
  <2>2. CASE ConnectReturns(t)
    BY <1>1, <2>2 DEF ConnectReturns, At, Goto, Spent, MakerShape, Thread, MakerPcs
  <2>3. CASE AcceptCloseServer(t)
    BY <1>1, <2>3 DEF AcceptCloseServer, At, Spent, Thread, MakerPcs
  <2>4. CASE ConnectCheck(t)
    BY <1>1, <2>4 DEF ConnectCheck, At, Goto, Spent, MakerShape, Thread, MakerPcs
  <2>5. CASE ConnectSleep(t)
    BY <1>1, <2>5 DEF ConnectSleep, At, Goto, Spent, MakerShape, Thread, MakerPcs
  <2> QED
    BY <1>2, <2>1, <2>2, <2>3, <2>4, <2>5
<1>5. PICK th : Moved(th) /\ Become(t, th)
  BY <1>4
<1>6. thread'[t] = th /\ \A u \in Makers \ {t} : thread'[u] = thread[u]
  BY <1>1, <1>5, Became
<1> QED
  BY <1>3, <1>5, <1>6 DEF Spent

LEMMA SpentStep ==
  ASSUME TypeOK, MakerShape, NEW c \in Makers, SessionOf(c), NEW t \in Makers \ {c},
         \/ MakerStep(t) \/ AcceptReturns(t) \/ AcceptThrows(t)
         \/ ReaderStep(t) \/ ReaderReads(t) \/ LinkLost(t)
  PROVE  MakerShape' /\ SessionOf(c)'
<1>1. Spent(t)
  BY DEF SessionOf
<1>2. /\ UNCHANGED <<role, makes, connectedThread, main, queue>>
      /\ \A u \in Makers \ {t} : thread'[u] = thread[u]
      /\ Spent(t)' /\ thread'[t].reader = thread[t].reader
      /\ thread'[t].pc \in {"check", "sleep", "loop", "connect"} => t \in Connects
  BY <1>1, SpentMoves
<1>3. MakerShape'
  BY <1>2 DEF MakerShape, Spent
<1>4. \A u \in Makers \ {c} : Spent(u)'
  BY <1>2 DEF SessionOf, Spent
<1>5. /\ thread'[c] = thread[c] /\ Disconnects' = Disconnects
      /\ NoneDue => NoneDue'
      /\ OneDue(c) => OneDue(c)'
  BY <1>2, MessageKept DEF role
<1>6. (OnItsWay(c) \/ Linked(c) \/ Lost(c) \/ Restarting(c))'
  BY <1>2, <1>5 DEF SessionOf, OnItsWay, Linked, Lost, Over, Restarting
<1> QED
  BY <1>2, <1>3, <1>4, <1>6 DEF SessionOf, role, makes

LEMMA OnItsWayStep ==
  ASSUME TypeOK, MakerShape, NEW c \in Makers, SessionOf(c), OnItsWay(c),
         ~CancelOldLink(c),
         \/ MakerStep(c) \/ AcceptReturns(c) \/ AcceptThrows(c)
         \/ ReaderStep(c) \/ ReaderReads(c) \/ LinkLost(c)
  PROVE  MakerShape' /\ SessionOf(c)'
<1>1. /\ thread \in [Makers -> Thread] /\ thread[c] \in Thread
      /\ connectedThread # c /\ c # NULL
  BY Distinct DEF TypeOK, OnItsWay
<1> DEFINE Goes(th) ==
             /\ th \in Thread /\ Become(c, th)
             /\ th.pc \in {"enable", "loop", "connect", "check", "sleep"} => c \in Connects
             /\ UNCHANGED <<role, makes, main, queue>>
             /\ \/ /\ th.reader = "none" /\ connectedThread' # c
                   /\ \/ /\ th.link = "none"
                         /\ th.pc \in {"create", "enable", "loop", "connect", "check",
                                       "sleep", "accept", "dead"}
                      \/ th.link # "none" /\ th.pc \in {"cancelOld", "nullOld"}
                      \/ th.link # "none" /\ th.pc = "assign" /\ connectedThread' = NULL
                \/ /\ th.reader = "new" /\ connectedThread' = c
                   /\ th.link # "none" /\ th.pc = "start"
<1>2. \E th : Goes(th)
  <2>1. ASSUME ReaderStep(c) \/ ReaderReads(c)
        PROVE  FALSE
    BY <2>1 DEF ReaderStep, ReaderEnable, ReaderLoop, ReaderThrows, ReaderReads, OnItsWay
  <2>2. ASSUME StartLink(c) \/ AcceptCloseServer(c)
        PROVE  FALSE
    BY <2>2 DEF StartLink, AcceptCloseServer, At, OnItsWay
  <2>3. CASE CreateSocket(c)
    <3>1. Goes([thread[c] EXCEPT !.socket = "open",
                               !.pc = IF c \in Connects THEN "enable" ELSE "accept"])
      BY <1>1, <2>3 DEF CreateSocket, At, OnItsWay, Thread, MakerPcs
    <3> QED
      BY <3>1
  <2>4. CASE ConnectEnable(c)
    <3>1. Goes([thread[c] EXCEPT !.isLoop = TRUE, !.pc = "loop"])
      BY <1>1, <2>4 DEF ConnectEnable, At, OnItsWay, MakerShape, Thread, MakerPcs
    <3> QED
      BY <3>1
  <2>5. CASE ConnectLoop(c)
    BY <1>1, <2>5 DEF ConnectLoop, At, Goto, OnItsWay, MakerShape, Thread, MakerPcs
  <2>6. CASE ConnectReturns(c)
    <3>1. \/ Become(c, [thread[c] EXCEPT !.link = "open", !.pc = "cancelOld"])
          \/ Become(c, [thread[c] EXCEPT !.pc = "check"])
      BY <2>6 DEF ConnectReturns, Goto
    <3>2. \/ Goes([thread[c] EXCEPT !.link = "open", !.pc = "cancelOld"])
          \/ Goes([thread[c] EXCEPT !.pc = "check"])
      BY <1>1, <2>6, <3>1 DEF ConnectReturns, At, OnItsWay, MakerShape, Thread, MakerPcs
    <3> QED
      BY <3>2
  <2>7. CASE AcceptReturns(c)
    <3>1. Goes([thread[c] EXCEPT !.link = "open", !.pc = "cancelOld"])
      BY <1>1, <2>7 DEF AcceptReturns, At, OnItsWay, Thread, MakerPcs
    <3> QED
      BY <3>1
  <2>8. CASE AcceptThrows(c)
    BY <1>1, <2>8 DEF AcceptThrows, At, Goto, OnItsWay, Thread, MakerPcs
  <2>9. CASE NullOldLink(c)
    <3>1. Goes([thread[c] EXCEPT !.pc = "assign"])
      BY <1>1, <2>9 DEF NullOldLink, At, Goto, OnItsWay, Thread, MakerPcs
    <3> QED
      BY <3>1
  <2>10. CASE AssignLink(c)
    <3>1. Goes([thread[c] EXCEPT !.reader = "new", !.pc = "start"])
      BY <1>1, <2>10 DEF AssignLink, At, OnItsWay, Thread, MakerPcs
    <3> QED
      BY <3>1
  <2>11. CASE ConnectCheck(c)
    BY <1>1, <2>11 DEF ConnectCheck, At, Goto, OnItsWay, MakerShape, Thread, MakerPcs
  <2>12. CASE ConnectSleep(c)
    BY <1>1, <2>12 DEF ConnectSleep, At, Goto, OnItsWay, MakerShape, Thread, MakerPcs
  <2>13. CASE LinkLost(c)
    BY <1>1, <2>13 DEF LinkLost, OnItsWay, MakerShape, Thread, MakerPcs
  <2> QED
    BY <2>1, <2>2, <2>3, <2>4, <2>5, <2>6, <2>7, <2>8, <2>9, <2>10, <2>11, <2>12, <2>13
       DEF MakerStep
<1>3. PICK th : Goes(th)
  BY <1>2
<1>4. thread'[c] = th /\ \A u \in Makers \ {c} : thread'[u] = thread[u]
  BY <1>1, <1>3, Became
<1>5. MakerShape'
  BY <1>3, <1>4 DEF MakerShape
<1>6. \A u \in Makers \ {c} : Spent(u)'
  BY <1>4 DEF SessionOf, Spent
<1>7. NoneDue'
  BY <1>3, MessageKept DEF OnItsWay, role
<1>8. OnItsWay(c)' \/ Linked(c)'
  BY <1>3, <1>4, <1>7 DEF OnItsWay, Linked
<1> QED
  BY <1>3, <1>5, <1>6, <1>8 DEF SessionOf, role, makes

LEMMA LinkedStep ==
  ASSUME TypeOK, MakerShape, NEW c \in Makers, SessionOf(c), Linked(c),
         \/ MakerStep(c) \/ AcceptReturns(c) \/ AcceptThrows(c)
         \/ ReaderStep(c) \/ ReaderReads(c) \/ LinkLost(c)
  PROVE  MakerShape' /\ SessionOf(c)'
<1>1. /\ thread \in [Makers -> Thread] /\ thread[c] \in Thread
      /\ connectedThread = c /\ c # NULL /\ queue \in Seq(Messages)
  BY Distinct DEF TypeOK, Linked
<1> DEFINE Goes(th) ==
             /\ th \in Thread /\ Become(c, th)
             /\ th.pc \in {"enable", "loop", "connect", "check", "sleep"} => c \in Connects
             /\ UNCHANGED <<role, makes, connectedThread, main>>
             /\ th.link # "none"
             /\ \/ /\ th.pc = "start" /\ th.reader = "new"
                   /\ NoneDue'
                \/ /\ th.pc \in {"check", "closeServer", "dead"}
                   /\ th.reader \in {"enable", "loop", "read"}
                   /\ th.reader # "enable" /\ ~th.readerLoop => th.link # "open"
                   /\ NoneDue'
                \/ /\ th.pc \in {"check", "closeServer", "dead"}
                   /\ th.reader = "done" /\ th.link # "open"
                   /\ OneDue(c)'
<1>2. NoneDue
  BY DEF Linked
<1>3. UNCHANGED <<role, queue>> => NoneDue'
  BY <1>2, MessageKept DEF role
<1>4. \E th : Goes(th)
  <2>1. ASSUME \/ CreateSocket(c) \/ ConnectEnable(c) \/ ConnectLoop(c) \/ ConnectReturns(c)
               \/ AcceptReturns(c) \/ AcceptThrows(c) \/ CancelOldLink(c) \/ NullOldLink(c)
               \/ AssignLink(c) \/ ConnectSleep(c)
        PROVE  FALSE
    BY <2>1 DEF CreateSocket, ConnectEnable, ConnectLoop, ConnectReturns, AcceptReturns,
                AcceptThrows, CancelOldLink, NullOldLink, AssignLink, ConnectSleep, At, Linked
  <2>2. CASE StartLink(c)
    <3> DEFINE next == IF c \in Connects THEN "check" ELSE "closeServer"
               th == [thread[c] EXCEPT !.reader = "enable", !.pc = next]
    <3>1. /\ thread' = [thread EXCEPT ![c].reader = "enable", ![c].pc = next]
          /\ UNCHANGED <<role, makes, connectedThread, main, queue>>
      BY <1>1, <2>2 DEF StartLink, At, Linked
    <3>2. Become(c, th)
      BY <1>1, <3>1 DEF Become, Thread
    <3>3. Goes(th)
      BY <1>1, <1>3, <3>1, <3>2 DEF Linked, Thread, MakerPcs
    <3> QED
      BY <3>3
  <2>3. CASE AcceptCloseServer(c)
    <3>1. Goes([thread[c] EXCEPT !.socket = "closed", !.pc = "dead"])
      BY <1>1, <1>3, <2>3 DEF AcceptCloseServer, At, Linked, MakerShape, Thread, MakerPcs
    <3> QED
      BY <3>1
  <2>4. CASE ConnectCheck(c)
    BY <1>1, <1>3, <2>4 DEF ConnectCheck, At, Goto, Linked, MakerShape, Thread, MakerPcs
  <2>5. CASE LinkLost(c)
    BY <1>1, <1>3, <2>5 DEF LinkLost, Linked, MakerShape, Thread, MakerPcs
  <2>6. CASE ReaderEnable(c)
    <3>1. Goes([thread[c] EXCEPT !.readerLoop = TRUE, !.reader = "loop"])
      BY <1>1, <1>3, <2>6 DEF ReaderEnable, Linked, MakerShape, Thread, MakerPcs
    <3> QED
      BY <3>1
  <2>7. CASE ReaderLoop(c)
    <3>1. NoneDue' => OneDue(c)'
      BY DEF NoneDue, OneDue
    <3>2. Goes([thread[c] EXCEPT !.reader = IF thread[c].readerLoop THEN "read" ELSE "done"])
      BY <1>1, <1>3, <2>7, <3>1 DEF ReaderLoop, Linked, MakerShape, Thread, MakerPcs
    <3> QED
      BY <3>2
  <2>8. CASE ReaderReads(c)
    <3>1. PICK b \in Bytes :
            /\ Become(c, [thread[c] EXCEPT !.mmBuffer = b, !.reader = "loop"])
            /\ queue' = Append(queue, [what |-> "read", from |-> c, bytes |-> b])
      BY <2>8 DEF ReaderReads
    <3>2. NoneDue'
      BY <1>1, <1>2, <3>1, <2>8, MessageRead DEF ReaderReads, role, Messages
    <3>3. Goes([thread[c] EXCEPT !.mmBuffer = b, !.reader = "loop"])
      BY <1>1, <2>8, <3>1, <3>2 DEF ReaderReads, Linked, MakerShape, Thread, MakerPcs
    <3> QED
      BY <3>3
  <2>9. CASE ReaderThrows(c)
    <3>1. OneDue(c)'
      <4> DEFINE m == [what |-> "disconnect", from |-> c, bytes |-> NULL]
      <4>1. /\ m \in Messages /\ m.from = c
            /\ queue' = Append(queue, m) /\ UNCHANGED role
        BY <2>9 DEF ReaderThrows, Messages
      <4> HIDE DEF m
      <4> QED
        BY <1>1, <1>2, <4>1, MessageDisconnect DEF role
    <3>2. Goes([thread[c] EXCEPT !.reader = "done"])
      BY <1>1, <2>9, <3>1 DEF ReaderThrows, Linked, MakerShape, Thread, MakerPcs
    <3> QED
      BY <3>2
  <2> QED
    BY <2>1, <2>2, <2>3, <2>4, <2>5, <2>6, <2>7, <2>8, <2>9 DEF MakerStep, ReaderStep
<1>5. PICK th : Goes(th)
  BY <1>4
<1>6. thread'[c] = th /\ \A u \in Makers \ {c} : thread'[u] = thread[u]
  BY <1>1, <1>5, Became
<1>7. MakerShape'
  BY <1>5, <1>6 DEF MakerShape
<1>8. \A u \in Makers \ {c} : Spent(u)'
  BY <1>6 DEF SessionOf, Spent
<1>9. Linked(c)' \/ Lost(c)'
  BY <1>5, <1>6 DEF Linked, Lost, Over
<1> QED
  BY <1>5, <1>7, <1>8, <1>9 DEF SessionOf, role, makes

\* A connection that is lost, before and after the handler has forgotten it.
LEMMA OverStep ==
  ASSUME TypeOK, MakerShape, NEW c \in Makers, SessionOf(c), Lost(c) \/ Restarting(c),
         \/ MakerStep(c) \/ AcceptReturns(c) \/ AcceptThrows(c)
         \/ ReaderStep(c) \/ ReaderReads(c) \/ LinkLost(c)
  PROVE  MakerShape' /\ SessionOf(c)'
<1>1. /\ thread \in [Makers -> Thread] /\ thread[c] \in Thread /\ c # NULL
      /\ thread[c].reader = "done" /\ thread[c].link \notin {"none", "open"}
  BY Distinct DEF TypeOK, Lost, Over, Restarting
<1> DEFINE Goes(th) ==
             /\ th \in Thread /\ Become(c, th)
             /\ th.pc \in {"enable", "loop", "connect", "check", "sleep"} => c \in Connects
             /\ UNCHANGED <<role, makes, connectedThread, main, queue>>
             /\ th.link = thread[c].link /\ th.reader = "done"
             /\ \/ th.pc = "dead"
                \/ main = "restart" /\ th.pc \in {"check", "sleep", "loop", "connect"}
<1>2. \E th : Goes(th)
  <2>1. \/ ConnectLoop(c) \/ ConnectReturns(c) \/ AcceptCloseServer(c)
        \/ ConnectCheck(c) \/ ConnectSleep(c)
    BY <1>1 DEF MakerStep, ReaderStep, CreateSocket, ConnectEnable, CancelOldLink, NullOldLink,
                AssignLink, StartLink, AcceptReturns, AcceptThrows, ReaderEnable, ReaderLoop,
                ReaderThrows, ReaderReads, LinkLost, At, Lost, Over, Restarting
  <2>2. CASE ConnectLoop(c)
    BY <1>1, <2>2 DEF ConnectLoop, At, Goto, Lost, Over, Restarting, MakerShape, Thread, MakerPcs
  <2>3. CASE ConnectReturns(c)
    BY <1>1, <2>3 DEF ConnectReturns, At, Goto, Lost, Over, Restarting, MakerShape, Thread, MakerPcs
  <2>4. CASE AcceptCloseServer(c)
    <3>1. Goes([thread[c] EXCEPT !.socket = "closed", !.pc = "dead"])
      BY <1>1, <2>4 DEF AcceptCloseServer, At, Thread, MakerPcs
    <3> QED
      BY <3>1
  <2>5. CASE ConnectCheck(c)
    BY <1>1, <2>5 DEF ConnectCheck, At, Goto, Lost, Over, Restarting, MakerShape, Thread, MakerPcs
  <2>6. CASE ConnectSleep(c)
    BY <1>1, <2>6 DEF ConnectSleep, At, Goto, Lost, Over, Restarting, MakerShape, Thread, MakerPcs
  <2> QED
    BY <2>1, <2>2, <2>3, <2>4, <2>5, <2>6
<1>3. PICK th : Goes(th)
  BY <1>2
<1>4. thread'[c] = th /\ \A u \in Makers \ {c} : thread'[u] = thread[u]
  BY <1>1, <1>3, Became
<1>5. MakerShape'
  BY <1>3, <1>4 DEF MakerShape
<1>6. \A u \in Makers \ {c} : Spent(u)'
  BY <1>4 DEF SessionOf, Spent
<1>7. Disconnects' = Disconnects /\ (OneDue(c) => OneDue(c)')
  BY <1>3, MessageKept DEF role
<1>8. Lost(c)' \/ Restarting(c)'
  BY <1>1, <1>3, <1>4, <1>7 DEF Lost, Over, Restarting
<1> QED
  BY <1>3, <1>5, <1>6, <1>8 DEF SessionOf, role, makes

\* With one matching device connect starts one thread.
LEMMA ConnectOne ==
  ASSUME ThreadType, Matching = 1, NEW f \in [Makers -> Thread], Connect(f)
  PROVE  \E n \in Connects : /\ Free(n) /\ connectThread' = n /\ deviceType' = "client"
                             /\ thread' = Started(f, {n})
<1> DEFINE free == {t \in Connects : Free(t)}
           new  == CHOOSE S \in SUBSET free : Cardinality(S) = Matching
<1>1. IsFiniteSet(free) /\ Cardinality(free) >= Matching /\ Matching \in Nat
  <2>1. IsFiniteSet(Makers) /\ free \in SUBSET Makers
    BY BluetoothConstants DEF Makers
  <2> QED
    BY <2>1, FS_Subset, BluetoothConstants DEF Connect
<1>2. new \in SUBSET free /\ Cardinality(new) = Matching
  <2> HIDE DEF free
  <2>1. Cardinality(free) \in Nat
    BY <1>1, FS_CardinalityType
  <2>2. \E S \in SUBSET free : Cardinality(S) = Matching
    BY <1>1, <2>1, SubsetOfSize
  <2> QED
    BY <2>2
<1>3. deviceType' = "client" /\ connectThread' \in new /\ thread' = Started(f, new)
  BY DEF Connect
<1>4. free \in SUBSET Connects /\ \A t \in free : Free(t)
  OBVIOUS
<1> HIDE DEF free, new
<1>5. IsFiniteSet(new)
  BY <1>1, <1>2, FS_Subset
<1>6. PICK n : new = {n}
  BY <1>2, <1>5, FS_Singleton
<1> QED
  BY <1>2, <1>3, <1>4, <1>6

LEMMA WeakenedKeeps ==
  ASSUME MakerShape, \A u \in Makers : Weakened(thread'[u], thread[u])
  PROVE  MakerShape' /\ \A u \in Makers : Spent(u) => Spent(u)'
BY DEF Weakened, MakerShape, Spent

\* release cancels the threads of both roles, of which at most one is not spent, and then
\* whatever connectedThread refers to.
LEMMA ReleaseWeakens ==
  ASSUME TypeOK, Release \/ ReleaseLink
  PROVE  /\ \A u \in Makers : Weakened(thread'[u], thread[u])
         /\ main \in {"idle", "releaseLink"} /\ main' \in {"idle", "releaseLink"}
         /\ isExitProgram => isExitProgram'
         /\ UNCHANGED <<deviceType, target, calls, makes, connectedThread, queue>>
<1>1. /\ thread \in [Makers -> Thread] /\ connectedThread \in Makers \cup {NULL}
      /\ connectThread \in Makers \cup {NULL} /\ acceptThread \in Makers \cup {NULL}
  BY DEF TypeOK, Makers
<1>2. CASE Release
  <2> DEFINE f == CancelAccept(thread, acceptThread)
  <2>1. f \in [Makers -> Thread] /\ \A u \in Makers : Weakened(f[u], thread[u])
    BY <1>1, CancelAcceptType, CancelsWeaken
  <2>2. thread' = CancelConnect(f, connectThread)
    BY <1>2 DEF Release
  <2> HIDE DEF f
  <2>3. \A u \in Makers : Weakened(thread'[u], f[u])
    BY <1>1, <2>1, <2>2, CancelsWeaken
  <2>4. \A u \in Makers : Weakened(thread'[u], thread[u])
    BY <2>1, <2>3 DEF Weakened
  <2> QED
    BY <1>2, <2>4 DEF Release
<1>3. CASE ReleaseLink
  <2>1. \A u \in Makers : Weakened(thread'[u], thread[u])
    BY <1>1, <1>3, CancelsWeaken DEF ReleaseLink
  <2> QED
    BY <1>3, <2>1 DEF ReleaseLink, role
<1> QED
  BY <1>2, <1>3

LEMMA ReleaseStep ==
  ASSUME TypeOK, MakerShape, NEW c \in Makers, SessionOf(c), Release \/ ReleaseLink
  PROVE  MakerShape' /\ SessionOf(c)'
<1>1. /\ \A u \in Makers : Weakened(thread'[u], thread[u])
      /\ main \in {"idle", "releaseLink"} /\ main' \in {"idle", "releaseLink"}
      /\ isExitProgram => isExitProgram'
      /\ UNCHANGED <<deviceType, target, calls, makes, connectedThread, queue>>
  BY ReleaseWeakens
<1>2. MakerShape' /\ \A u \in Makers : Spent(u) => Spent(u)'
  BY <1>1, WeakenedKeeps
<1>3. Disconnects' = Disconnects /\ (NoneDue => NoneDue') /\ (OneDue(c) => OneDue(c)')
  BY <1>1, MessageKept
<1>4. Weakened(thread'[c], thread[c])
  BY <1>1
<1>5. OnItsWay(c) => OnItsWay(c)'
  BY <1>1, <1>3, <1>4 DEF OnItsWay, Weakened
<1>6. Linked(c) => Linked(c)'
  BY <1>1, <1>3, <1>4 DEF Linked, Weakened
<1>7. Lost(c) => Lost(c)'
  BY <1>1, <1>3, <1>4 DEF Lost, Over, Weakened
<1>8. ~Restarting(c)
  BY <1>1 DEF Restarting
<1> QED
  BY <1>1, <1>2, <1>5, <1>6, <1>7, <1>8 DEF SessionOf, makes

\* A new connection closes that of the session before, if connectedThread still refers to it.
LEMMA CancelOldStep ==
  ASSUME TypeOK, MakerShape, NEW c \in Makers, SessionOf(c), OnItsWay(c), CancelOldLink(c)
  PROVE  MakerShape' /\ SessionOf(c)'
<1> DEFINE f == CancelLink(thread, connectedThread)
           next == IF connectedThread = NULL THEN "assign" ELSE "nullOld"
<1>1. /\ thread \in [Makers -> Thread] /\ connectedThread \in Makers \cup {NULL}
      /\ connectedThread # c
  BY DEF TypeOK, OnItsWay
<1>2. /\ f \in [Makers -> Thread] /\ f[c] = thread[c]
      /\ \A u \in Makers : Weakened(f[u], thread[u])
  BY <1>1, CancelLinkType, CancelsWeaken
<1>3. /\ thread' = [f EXCEPT ![c].pc = next] /\ thread[c].pc = "cancelOld"
      /\ UNCHANGED <<role, makes, connectedThread, main, queue>>
  BY DEF CancelOldLink, At
<1> HIDE DEF f
<1>4. \A u \in Makers \ {c} : thread'[u] = f[u]
  BY <1>2, <1>3
<1>5. /\ thread'[c].pc = next /\ thread'[c].link = thread[c].link
      /\ thread'[c].reader = thread[c].reader /\ thread'[c].readerLoop = thread[c].readerLoop
  BY <1>2, <1>3 DEF Thread
<1>6. \A u \in Makers \ {c} : Weakened(thread'[u], thread[u])
  BY <1>2, <1>4
<1>7. MakerShape' /\ \A u \in Makers \ {c} : Spent(u)'
  BY <1>5, <1>6 DEF Weakened, MakerShape, SessionOf, Spent
<1>8. NoneDue => NoneDue'
  BY <1>3, MessageKept DEF role
<1>9. OnItsWay(c)'
  BY <1>3, <1>5, <1>8 DEF OnItsWay
<1> QED
  BY <1>3, <1>7, <1>9 DEF SessionOf, role, makes

\* Unless release was called, only a session that is lost has a MESSAGE_DISCONNECT to handle.
LEMMA HandleStep ==
  ASSUME TypeOK, MakerShape, NEW c \in Makers, SessionOf(c), HandleRead \/ HandleDisconnect
  PROVE  MakerShape' /\ SessionOf(c)'
<1>1. /\ thread \in [Makers -> Thread] /\ thread[c] \in Thread /\ c # NULL
      /\ queue \in Seq(Messages) /\ queue # <<>> /\ queue' = Tail(queue) /\ main = "idle"
      /\ UNCHANGED <<role, makes, connectedThread>>
  BY Distinct DEF TypeOK, HandleRead, HandleDisconnect
<1>2. OnItsWay(c) \/ Linked(c) \/ Lost(c)
  BY <1>1 DEF SessionOf, Restarting
<1>3. /\ NoneDue => NoneDue'
      /\ OneDue(c) => OneDue(c)'
      /\ NoneDue /\ Head(queue).what = "disconnect" => isExitProgram
      /\ OneDue(c) /\ Head(queue).what = "disconnect" => isExitProgram \/ Disconnects' = {}
  BY <1>1, MessageHandled DEF role
<1>4. CASE UNCHANGED <<thread, main>>
  <2>1. MakerShape' /\ \A u \in Makers \ {c} : Spent(u)'
    BY <1>4 DEF MakerShape, SessionOf, Spent
  <2>2. OnItsWay(c)' \/ Linked(c)' \/ Lost(c)'
    BY <1>1, <1>2, <1>3, <1>4 DEF OnItsWay, Linked, Lost, Over
  <2> QED
    BY <1>1, <2>1, <2>2 DEF SessionOf, role, makes
<1>5. CASE HandleDisconnect /\ ~isExitProgram
  <2>1. Lost(c) /\ connectedThread = c /\ Disconnects' = {}
    BY <1>2, <1>3, <1>5 DEF HandleDisconnect, OnItsWay, Linked, Lost
  <2>2. thread' = CancelLink(thread, c) /\ main' = "nullLink"
    BY <1>1, <1>5, <2>1 DEF HandleDisconnect
  <2>3. \A u \in Makers : Weakened(thread'[u], thread[u])
    BY <1>1, <2>2, CancelsWeaken
  <2>4. MakerShape' /\ \A u \in Makers \ {c} : Spent(u)'
    BY <2>3, WeakenedKeeps DEF SessionOf
  <2>5. OneDue(c) => OneDue(c)'
    BY <1>3
  <2>6. Lost(c)'
    BY <1>1, <2>1, <2>2, <2>3, <2>5 DEF Lost, Over, Weakened
  <2> QED
    BY <1>1, <2>4, <2>6 DEF SessionOf, role, makes
<1> QED
  BY <1>4, <1>5 DEF HandleRead, HandleDisconnect

LEMMA NullLinkStep ==
  ASSUME TypeOK, MakerShape, NEW c \in Makers, SessionOf(c), HandlerNullLink
  PROVE  MakerShape' /\ SessionOf(c)'
<1>1. /\ main = "nullLink" /\ main' = "restart" /\ connectedThread' = NULL
      /\ UNCHANGED <<role, makes, queue, thread>>
  BY DEF HandlerNullLink
<1>2. Disconnects' = Disconnects
  BY <1>1 DEF Disconnects
<1>3. Restarting(c)'
  BY <1>1, <1>2 DEF SessionOf, OnItsWay, Linked, Lost, Over, Restarting
<1>4. MakerShape' /\ \A u \in Makers \ {c} : Spent(u)'
  BY <1>1 DEF MakerShape, SessionOf, Spent
<1> QED
  BY <1>1, <1>3, <1>4 DEF SessionOf, role, makes

\* The thread the handler starts, which may have the identity of any thread that is spent,
\* takes the place of the one that lost its connection.
LEMMA RestartClientStep ==
  ASSUME TypeOK, MakerShape, Matching = 1, NEW c \in Makers, SessionOf(c), deviceType = "client",
         HandlerRestart
  PROVE  MakerShape' /\ \E n \in Makers : SessionOf(n)'
<1>1. /\ thread \in [Makers -> Thread] /\ ThreadType /\ thread[c] \in Thread /\ c # NULL
      /\ c \in Connects /\ connectThread = c /\ target
  BY Distinct DEF TypeOK, ThreadType, SessionOf
<1>2. /\ Restarting(c) /\ connectedThread' = NULL /\ main' = "idle"
      /\ UNCHANGED <<target, queue, acceptThread>>
      /\ Connect(CancelConnect(thread, c))
  BY <1>1 DEF HandlerRestart, SessionOf, OnItsWay, Linked, Lost, Restarting
<1> DEFINE f == CancelConnect(thread, c)
<1>3. /\ f \in [Makers -> Thread]
      /\ \A u \in Makers \ {c} : f[u] = thread[u]
      /\ Cancelled(f[c], thread[c]) /\ f[c].isLoop = FALSE
  BY <1>1, CancelConnectType
<1> HIDE DEF f
<1>4. PICK n \in Connects : connectThread' = n /\ deviceType' = "client" /\ thread' = Started(f, {n})
  BY <1>1, <1>2, <1>3, ConnectOne DEF f
<1>5. n \in Makers
  BY DEF Makers
<1>6. /\ \A u \in Makers \ {n} : thread'[u] = f[u]
      /\ thread'[n] = [Unmade EXCEPT !.pc = "create"]
  BY <1>3, <1>4, <1>5, StartedType
<1>7. thread'[n].link = "none" /\ thread'[n].reader = "none" /\ thread'[n].pc = "create"
  BY <1>6, CreatedType
<1>8. NoneDue'
  <2>1. Disconnects = {} => Disconnects' = {}
    BY <1>2 DEF Disconnects
  <2> QED
    BY <1>2, <2>1 DEF Restarting, NoneDue
<1>9. OnItsWay(n)'
  BY <1>2, <1>5, <1>7, <1>8, Distinct DEF OnItsWay
<1>10. /\ f[c].link \notin {"none", "open"} /\ f[c].reader = "done" /\ ~f[c].isLoop
       /\ f[c].pc \in {"check", "sleep", "loop", "connect", "closeServer", "dead"}
  BY <1>2, <1>3 DEF Restarting, Cancelled
<1>11. c # n => Spent(c)'
  BY <1>6, <1>10 DEF Spent
<1>12. \A u \in Makers \ {n} : Spent(u)'
  <2>1. ASSUME NEW u \in Makers, u # n, u # c
        PROVE  Spent(u)'
    <3>1. thread'[u] = thread[u]
      BY <1>3, <1>6, <2>1
    <3>2. Spent(u)
      BY <2>1 DEF SessionOf
    <3> QED
      BY <3>1, <3>2 DEF Spent
  <2> QED
    BY <1>11, <2>1
<1>13. MakerShape'
  <2>1. ASSUME NEW u \in Makers
        PROVE  /\ thread'[u].pc \in {"enable", "loop", "connect", "check", "sleep"} => u \in Connects
               /\ thread'[u].reader \in {"loop", "read"} /\ ~thread'[u].readerLoop =>
                    thread'[u].link # "open"
    <3>1. CASE u = n
      BY <1>7, <3>1
    <3>2. CASE u = c /\ u # n
      BY <1>3, <1>6, <3>2 DEF MakerShape, Cancelled
    <3>3. CASE u # c /\ u # n
      BY <1>3, <1>6, <3>3 DEF MakerShape
    <3> QED
      BY <3>1, <3>2, <3>3
  <2> QED
    BY <2>1 DEF MakerShape
<1> QED
  BY <1>1, <1>2, <1>4, <1>5, <1>9, <1>12, <1>13 DEF SessionOf

LEMMA RestartServerStep ==
  ASSUME TypeOK, MakerShape, NEW c \in Makers, SessionOf(c), deviceType = "server",
         HandlerRestart
  PROVE  MakerShape' /\ \E n \in Makers : SessionOf(n)'
<1>1. /\ thread \in [Makers -> Thread] /\ thread[c] \in Thread /\ c # NULL
      /\ c \in Accepts /\ acceptThread = c
  BY Distinct DEF TypeOK, SessionOf
<1>2. /\ Restarting(c) /\ connectedThread' = NULL /\ main' = "idle"
      /\ UNCHANGED <<target, queue, connectThread>>
      /\ Listen(CancelAccept(thread, c))
  BY <1>1 DEF HandlerRestart, SessionOf, OnItsWay, Linked, Lost, Restarting
<1> DEFINE f == CancelAccept(thread, c)
<1>3. /\ f \in [Makers -> Thread]
      /\ \A u \in Makers \ {c} : f[u] = thread[u]
      /\ f[c].pc = thread[c].pc /\ f[c].link = thread[c].link /\ f[c].reader = thread[c].reader
      /\ f[c].isLoop = thread[c].isLoop /\ f[c].readerLoop = thread[c].readerLoop
  BY <1>1, CancelAcceptType
<1> HIDE DEF f
<1>4. PICK n \in Accepts : acceptThread' = n /\ deviceType' = "server" /\ thread' = Started(f, {n})
  BY <1>2 DEF Listen, f
<1>5. n \in Makers
  BY DEF Makers
<1>6. /\ \A u \in Makers \ {n} : thread'[u] = f[u]
      /\ thread'[n] = [Unmade EXCEPT !.pc = "create"]
  BY <1>3, <1>4, <1>5, StartedType
<1>7. thread'[n].link = "none" /\ thread'[n].reader = "none" /\ thread'[n].pc = "create"
  BY <1>6, CreatedType
<1>8. NoneDue'
  <2>1. Disconnects = {} => Disconnects' = {}
    BY <1>2 DEF Disconnects
  <2> QED
    BY <1>2, <2>1 DEF Restarting, NoneDue
<1>9. OnItsWay(n)'
  BY <1>2, <1>5, <1>7, <1>8, Distinct DEF OnItsWay
<1>10. c \notin Connects
  BY <1>1, BluetoothConstants
<1>11. c # n => Spent(c)'
  <2>1. /\ f[c].link \notin {"none", "open"} /\ f[c].reader = "done"
        /\ f[c].pc \in {"check", "sleep", "loop", "connect", "closeServer", "dead"}
    BY <1>2, <1>3 DEF Restarting
  <2>2. f[c].pc \in {"closeServer", "dead"}
    BY <1>3, <1>10, <2>1 DEF MakerShape
  <2> QED
    BY <1>6, <2>1, <2>2 DEF Spent
<1>12. \A u \in Makers \ {n} : Spent(u)'
  <2>1. ASSUME NEW u \in Makers, u # n, u # c
        PROVE  Spent(u)'
    <3>1. thread'[u] = thread[u]
      BY <1>3, <1>6, <2>1
    <3>2. Spent(u)
      BY <2>1 DEF SessionOf
    <3> QED
      BY <3>1, <3>2 DEF Spent
  <2> QED
    BY <1>11, <2>1
<1>13. MakerShape'
  <2>1. ASSUME NEW u \in Makers
        PROVE  /\ thread'[u].pc \in {"enable", "loop", "connect", "check", "sleep"} => u \in Connects
               /\ thread'[u].reader \in {"loop", "read"} /\ ~thread'[u].readerLoop =>
                    thread'[u].link # "open"
    <3>1. CASE u = n
      BY <1>7, <3>1
    <3>2. CASE u = c /\ u # n
      BY <1>3, <1>6, <3>2 DEF MakerShape
    <3>3. CASE u # c /\ u # n
      BY <1>3, <1>6, <3>3 DEF MakerShape
    <3> QED
      BY <3>1, <3>2, <3>3
  <2> QED
    BY <2>1 DEF MakerShape
<1> QED
  BY <1>1, <1>2, <1>4, <1>5, <1>9, <1>12, <1>13 DEF SessionOf

-----------------------------------------------------------------------------
(* A call at rest, and what happens between two sessions.                   *)

\* The thread that connectDevice or listen starts has the session to itself; the field
\* connectedThread may refer to the connection of the session before.
LEMMA CallStarts ==
  ASSUME TypeOK, MakerShape, Resting, NEW n \in Makers, n # connectedThread,
         thread' = Started(thread, {n}), UNCHANGED <<isExitProgram, connectedThread, main, queue>>
  PROVE  MakerShape' /\ OnItsWay(n)' /\ \A u \in Makers \ {n} : Spent(u)'
<1>1. /\ \A u \in Makers \ {n} : thread'[u] = thread[u]
      /\ thread'[n] = [Unmade EXCEPT !.pc = "create"]
  BY StartedType DEF TypeOK
<1>2. thread'[n].link = "none" /\ thread'[n].reader = "none" /\ thread'[n].pc = "create"
  BY <1>1, CreatedType
<1>3. NoneDue'
  BY MessageKept DEF Resting
<1>4. MakerShape'
  BY <1>1, <1>2 DEF MakerShape
<1>5. OnItsWay(n)'
  BY <1>2, <1>3 DEF OnItsWay, Resting
<1>6. \A u \in Makers \ {n} : Spent(u)'
  BY <1>1 DEF Resting, Spent
<1> QED
  BY <1>4, <1>5, <1>6

LEMMA CallStep ==
  ASSUME TypeOK, MakerShape, Resting, Matching = 1, ConnectDevice \/ CallListen
  PROVE  MakerShape' /\ \E n \in Makers : SessionOf(n)'
<1>1. CASE ConnectDevice
  <2>1. ThreadType /\ thread \in [Makers -> Thread] /\ Connect(thread)
    BY <1>1 DEF TypeOK, ThreadType, ConnectDevice
  <2>2. PICK n \in Connects : /\ Free(n) /\ connectThread' = n /\ deviceType' = "client"
                              /\ thread' = Started(thread, {n})
    BY <2>1, ConnectOne
  <2>3. n \in Makers /\ n # connectedThread
    BY <2>2 DEF Makers, Free
  <2>4. target' /\ UNCHANGED <<isExitProgram, connectedThread, main, queue>>
    BY <1>1 DEF ConnectDevice
  <2>5. MakerShape' /\ OnItsWay(n)' /\ \A u \in Makers \ {n} : Spent(u)'
    BY <2>2, <2>3, <2>4, CallStarts
  <2> QED
    BY <2>2, <2>3, <2>4, <2>5 DEF SessionOf
<1>2. CASE CallListen
  <2>1. PICK n \in Accepts : /\ Free(n) /\ acceptThread' = n /\ deviceType' = "server"
                             /\ thread' = Started(thread, {n})
    BY <1>2 DEF CallListen, Listen
  <2>2. n \in Makers /\ n # connectedThread
    BY <2>1 DEF Makers, Free
  <2>3. UNCHANGED <<isExitProgram, connectedThread, main, queue>>
    BY <1>2 DEF CallListen
  <2>4. MakerShape' /\ OnItsWay(n)' /\ \A u \in Makers \ {n} : Spent(u)'
    BY <2>1, <2>2, <2>3, CallStarts
  <2> QED
    BY <2>1, <2>2, <2>3, <2>4 DEF SessionOf
<1> QED
  BY <1>1, <1>2

\* Between two sessions what the threads and the main thread still do changes nothing.
LEMMA RestingStep ==
  ASSUME TypeOK, MakerShape, Resting, Next, ~ConnectDevice, ~CallListen
  PROVE  MakerShape' /\ Resting'
<1>1. CASE Release \/ ReleaseLink
  <2>1. /\ \A u \in Makers : Weakened(thread'[u], thread[u])
        /\ main' \in {"idle", "releaseLink"}
        /\ isExitProgram => isExitProgram'
        /\ UNCHANGED queue
    BY <1>1, ReleaseWeakens
  <2>2. MakerShape' /\ \A u \in Makers : Spent(u) => Spent(u)'
    BY <2>1, WeakenedKeeps
  <2>3. NoneDue => NoneDue'
    BY <2>1, MessageKept
  <2> QED
    BY <2>1, <2>2, <2>3 DEF Resting
<1>2. CASE HandleRead \/ HandleDisconnect
  <2>1. /\ queue \in Seq(Messages) /\ queue # <<>> /\ queue' = Tail(queue)
        /\ UNCHANGED isExitProgram
    BY <1>2 DEF TypeOK, HandleRead, HandleDisconnect, role
  <2>2. NoneDue' /\ (Head(queue).what = "disconnect" => isExitProgram)
    BY <2>1, MessageHandled DEF Resting
  <2>3. UNCHANGED <<thread, main>>
    BY <1>2, <2>2 DEF HandleRead, HandleDisconnect
  <2> QED
    BY <2>2, <2>3 DEF MakerShape, Resting, Spent
<1>3. CASE HandlerNullLink \/ HandlerRestart
  BY <1>3 DEF HandlerNullLink, HandlerRestart, Resting
<1>4. ASSUME NEW t \in Makers,
             \/ MakerStep(t) \/ AcceptReturns(t) \/ AcceptThrows(t)
             \/ ReaderStep(t) \/ ReaderReads(t) \/ LinkLost(t)
      PROVE  MakerShape' /\ Resting'
  <2>1. Spent(t)
    BY DEF Resting
  <2>2. /\ UNCHANGED <<role, makes, connectedThread, main, queue>>
        /\ \A u \in Makers \ {t} : thread'[u] = thread[u]
        /\ Spent(t)' /\ thread'[t].reader = thread[t].reader
        /\ thread'[t].pc \in {"check", "sleep", "loop", "connect"} => t \in Connects
    BY <1>4, <2>1, SpentMoves
  <2>3. MakerShape'
    BY <2>2 DEF MakerShape, Spent
  <2>4. \A u \in Makers : Spent(u)'
    BY <2>2 DEF Resting, Spent
  <2>5. NoneDue => NoneDue'
    BY <2>2, MessageKept DEF role
  <2> QED
    BY <2>2, <2>3, <2>4, <2>5 DEF Resting
<1> QED
  BY <1>1, <1>2, <1>3, <1>4 DEF Next, AppCall, Handler

-----------------------------------------------------------------------------
(* The invariant.                                                           *)

LEMMA SessionInit == Init => SessionInv
<1> SUFFICES ASSUME Init
             PROVE  SessionInv
  OBVIOUS
<1>1. TypeOK
  BY InitType
<1>2. Unmade.link = "none" /\ Unmade.reader = "none" /\ Unmade.pc = "dead"
  BY DEF Unmade
<1>3. \A t \in Makers : thread[t] = Unmade
  BY DEF Init
<1>4. MakerShape /\ \A t \in Makers : Spent(t)
  BY <1>2, <1>3 DEF MakerShape, Spent
<1>5. main = "idle" /\ NoneDue
  BY DEF Init, NoneDue, Disconnects
<1> QED
  BY <1>1, <1>4, <1>5 DEF SessionInv, Resting

LEMMA CallsAreCounted ==
  ASSUME TypeOK, ConnectDevice \/ CallListen
  PROVE  calls' # calls /\ main = "idle"
<1>1. calls \in Nat /\ calls' = calls + 1
  BY BluetoothConstants DEF TypeOK, ConnectDevice, CallListen
<1> QED
  BY <1>1 DEF ConnectDevice, CallListen

LEMMA SessionStep ==
  ASSUME TypeOK, MakerShape, Matching = 1, NEW c \in Makers, SessionOf(c), Next,
         ~ConnectDevice, ~CallListen
  PROVE  MakerShape' /\ \E n \in Makers : SessionOf(n)'
<1>1. CASE Release \/ ReleaseLink
  BY <1>1, ReleaseStep
<1>2. CASE HandleRead \/ HandleDisconnect
  BY <1>2, HandleStep
<1>3. CASE HandlerNullLink
  BY <1>3, NullLinkStep
<1>4. CASE HandlerRestart
  <2>1. deviceType \in {"client", "server"}
    BY DEF TypeOK
  <2> QED
    BY <1>4, <2>1, RestartClientStep, RestartServerStep
<1>5. ASSUME NEW t \in Makers,
             \/ MakerStep(t) \/ AcceptReturns(t) \/ AcceptThrows(t)
             \/ ReaderStep(t) \/ ReaderReads(t) \/ LinkLost(t)
      PROVE  MakerShape' /\ SessionOf(c)'
  <2>1. CASE t # c
    BY <1>5, <2>1, SpentStep
  <2>2. CASE t = c
    <3>1. CASE OnItsWay(c)
      BY <1>5, <2>2, <3>1, CancelOldStep, OnItsWayStep
    <3>2. CASE Linked(c)
      BY <1>5, <2>2, <3>2, LinkedStep
    <3>3. CASE Lost(c) \/ Restarting(c)
      BY <1>5, <2>2, <3>3, OverStep
    <3> QED
      BY <3>1, <3>2, <3>3 DEF SessionOf
  <2> QED
    BY <2>1, <2>2
<1> QED
  BY <1>1, <1>2, <1>3, <1>4, <1>5 DEF Next, AppCall, Handler

LEMMA SessionInductive ==
  ASSUME Matching = 1, SessionInv, [Next /\ Orderly]_vars
  PROVE  SessionInv'
<1>1. TypeOK /\ MakerShape /\ (Resting \/ Session)
  BY DEF SessionInv
<1>2. TypeOK'
  BY <1>1, TypeInductive
<1>3. CASE UNCHANGED vars
  <2>1. UNCHANGED <<role, makes, connectedThread, main, queue, thread>>
    BY <1>3 DEF vars
  <2>2. MakerShape'
    BY <1>1, <2>1 DEF MakerShape
  <2>3. /\ Disconnects' = Disconnects
        /\ NoneDue => NoneDue'
        /\ \A t : OneDue(t) => OneDue(t)'
    BY <2>1, MessageKept DEF role
  <2>4. \A t \in Makers : Spent(t) => Spent(t)'
    BY <2>1 DEF Spent
  <2>5. Resting => Resting'
    BY <2>1, <2>3, <2>4 DEF Resting
  <2>6. ASSUME NEW c \in Makers, SessionOf(c)
        PROVE  SessionOf(c)'
    <3>1. (OnItsWay(c) \/ Linked(c) \/ Lost(c) \/ Restarting(c))'
      BY <2>1, <2>3, <2>6 DEF SessionOf, OnItsWay, Linked, Lost, Over, Restarting
    <3> QED
      BY <2>1, <2>4, <2>6, <3>1 DEF SessionOf, role, makes
  <2> QED
    BY <1>1, <1>2, <2>2, <2>5, <2>6 DEF SessionInv, Session
<1>4. CASE ConnectDevice \/ CallListen
  <2>1. calls' # calls /\ main = "idle"
    BY <1>1, <1>4, CallsAreCounted
  <2>2. CASE Orderly
    <3>1. AtRest
      BY <2>1, <2>2 DEF Orderly
    <3>2. NoneDue
      BY <3>1 DEF AtRest, NoneDue, Disconnects
    <3>3. Resting
      BY <2>1, <3>1, <3>2 DEF AtRest, Resting
    <3>4. MakerShape' /\ Session'
      BY <1>1, <1>4, <3>3, CallStep DEF Session
    <3> QED
      BY <1>2, <3>4 DEF SessionInv
  <2> QED
    BY <1>3, <2>2
<1>5. CASE Next /\ ~ConnectDevice /\ ~CallListen
  <2>1. CASE Resting
    BY <1>1, <1>2, <1>5, <2>1, RestingStep DEF SessionInv
  <2>2. CASE Session
    <3>1. PICK c \in Makers : SessionOf(c)
      BY <2>2 DEF Session
    <3>2. MakerShape' /\ Session'
      BY <1>1, <1>5, <3>1, SessionStep DEF Session
    <3> QED
      BY <1>2, <3>2 DEF SessionInv
  <2> QED
    BY <1>1, <2>1, <2>2
<1> QED
  BY <1>3, <1>4, <1>5

LEMMA SessionSafe ==
  ASSUME SessionInv
  PROVE  OneConnection /\ LinkIsReachable /\ NothingThrows /\ DisconnectIsOfTheLink
<1>1. \A t \in Makers : Spent(t) => ~Trying(t) /\ thread[t].link # "open" /\ thread[t].pc # "threw"
  BY DEF Spent, Trying
<1>4. queue \in Seq(Messages)
  BY DEF SessionInv, TypeOK
<1>2. CASE Resting
  <2>1. OneConnection /\ LinkIsReachable /\ NothingThrows
    BY <1>1, <1>2 DEF Resting, OneConnection, LinkIsReachable, NothingThrows, At
  <2>2. queue # <<>> /\ Head(queue).what = "disconnect" => isExitProgram
    BY <1>2, <1>4 DEF Resting, NoneDue, Disconnects
  <2> QED
    BY <2>1, <2>2 DEF DisconnectIsOfTheLink
<1>3. CASE Session
  <2>1. PICK c \in Makers : SessionOf(c)
    BY <1>3 DEF Session
  <2>2. \A t \in Makers \ {c} : ~Trying(t) /\ thread[t].link # "open" /\ thread[t].pc # "threw"
    BY <1>1, <2>1 DEF SessionOf
  <2>3. thread[c].link = "open" =>
          connectedThread = c \/ thread[c].pc \in {"cancelOld", "nullOld", "assign"}
    BY <2>1 DEF SessionOf, OnItsWay, Linked, Lost, Over, Restarting
  <2>4. thread[c].pc # "threw"
    BY <2>1 DEF SessionOf, OnItsWay, Linked, Lost, Over, Restarting
  <2>5. OneConnection
    BY <2>2 DEF OneConnection
  <2>6. DisconnectIsOfTheLink
    <3> SUFFICES ASSUME main = "idle", queue # <<>>, Head(queue).what = "disconnect",
                        ~isExitProgram
                 PROVE  connectedThread = Head(queue).from /\ thread[connectedThread].link # "open"
      BY DEF DisconnectIsOfTheLink
    <3>1. 1 \in Disconnects /\ Head(queue) = queue[1]
      BY <1>4 DEF Disconnects
    <3>2. Lost(c)
      BY <2>1, <3>1 DEF SessionOf, OnItsWay, Linked, Restarting, NoneDue
    <3> QED
      BY <3>1, <3>2 DEF Lost, Over, OneDue
  <2> QED
    BY <2>2, <2>3, <2>4, <2>5, <2>6 DEF LinkIsReachable, NothingThrows, At
<1> QED
  BY <1>2, <1>3 DEF SessionInv

LEMMA SessionHolds ==
  ASSUME Matching = 1
  PROVE  OrderlySpec => []SessionInv
BY SessionInit, SessionInductive, PTL DEF OrderlySpec

-----------------------------------------------------------------------------
(* When the calls are made at rest: by assumption, or because there is one.  *)

\* Before the first call there is no thread, no message and no connection.
NoCall ==
  calls = 0 =>
    /\ main \in {"idle", "releaseLink"} /\ queue = <<>>
    /\ connectedThread = NULL /\ connectThread = NULL /\ acceptThread = NULL
    /\ \A t \in Makers : thread[t] = Unmade

LEMMA NoCallStep ==
  ASSUME OrderlyCalls \/ MaxCalls = 1, TypeOK, NoCall, [Next]_vars
  PROVE  NoCall' /\ [Next /\ Orderly]_vars
<1>1. Unmade.link = "none" /\ Unmade.reader = "none" /\ Unmade.pc = "dead"
  BY DEF Unmade
<1>2. CASE UNCHANGED vars
  BY <1>2 DEF NoCall, vars, role, makes
<1>3. CASE ConnectDevice \/ CallListen
  <2>1. calls \in Nat /\ calls < MaxCalls /\ calls' = calls + 1 /\ (OrderlyCalls => AtRest)
    BY <1>3 DEF TypeOK, ConnectDevice, CallListen
  <2>2. calls = 0 => AtRest
    BY <1>1 DEF NoCall, AtRest, Spent
  <2>3. AtRest /\ calls' # 0
    BY <2>1, <2>2
  <2>4. NoCall' /\ Orderly
    BY <2>3 DEF NoCall, Orderly
  <2> QED
    BY <1>3, <2>4 DEF Next, AppCall
<1>4. CASE Next /\ ~ConnectDevice /\ ~CallListen
  <2>1. calls' = calls
    BY <1>4 DEF Next, AppCall, Handler, MakerStep, ReaderStep, Release, ReleaseLink, HandleRead,
       HandleDisconnect, HandlerNullLink, HandlerRestart, CreateSocket, ConnectEnable,
       ConnectLoop, ConnectReturns, AcceptReturns, AcceptThrows, CancelOldLink, NullOldLink,
       AssignLink, StartLink, AcceptCloseServer, ConnectCheck, ConnectSleep, ReaderEnable,
       ReaderLoop, ReaderThrows, ReaderReads, LinkLost, role
  <2>2. CASE calls = 0
    <3>1. \A t \in Makers : thread[t] = Unmade
      BY <2>2 DEF NoCall
    <3>2. ~Handler /\ queue = <<>> /\ main \in {"idle", "releaseLink"}
      BY <2>2 DEF NoCall, Handler, HandleRead, HandleDisconnect, HandlerNullLink, HandlerRestart
    <3>3. ASSUME NEW t \in Makers,
                 \/ MakerStep(t) \/ AcceptReturns(t) \/ AcceptThrows(t)
                 \/ ReaderStep(t) \/ ReaderReads(t) \/ LinkLost(t)
          PROVE  FALSE
      <4>1. thread[t] = Unmade
        BY <3>1
      <4> QED
        BY <1>1, <3>3, <4>1 DEF MakerStep, ReaderStep, CreateSocket, ConnectEnable, ConnectLoop,
           ConnectReturns, AcceptReturns, AcceptThrows, CancelOldLink, NullOldLink, AssignLink,
           StartLink, AcceptCloseServer, ConnectCheck, ConnectSleep, ReaderEnable, ReaderLoop,
           ReaderThrows, ReaderReads, LinkLost, At
    <3>4. Release \/ ReleaseLink
      BY <1>4, <3>2, <3>3 DEF Next, AppCall
    <3>5. /\ thread' = thread /\ main' \in {"idle", "releaseLink"}
          /\ UNCHANGED <<makes, connectedThread, queue>>
      BY <2>2, <3>4 DEF NoCall, Release, ReleaseLink, CancelAccept, CancelConnect, CancelLink
    <3> QED
      BY <1>4, <2>1, <2>2, <3>5 DEF NoCall, Orderly, makes
  <2> QED
    BY <1>4, <2>1, <2>2 DEF NoCall, Orderly
<1> QED
  BY <1>2, <1>3, <1>4

LEMMA SpecIsOrderly ==
  ASSUME OrderlyCalls \/ MaxCalls = 1
  PROVE  Spec => OrderlySpec
<1>1. Init => NoCall
  BY DEF Init, NoCall
<1>2. TypeOK /\ NoCall /\ [Next]_vars => NoCall' /\ [Next /\ Orderly]_vars
  BY NoCallStep
<1> QED
  BY <1>1, <1>2, TypeCorrect, PTL DEF Spec, OrderlySpec

\* An application that calls connectDevice or listen once calls it at rest, whatever it does
\* with release before: what the theorems say of orderly calls holds of one session without a
\* condition on the moment of the call (lines 123-149).
THEOREM OneCallIsOrderly ==
  ASSUME MaxCalls = 1
  PROVE  Spec => [][Orderly]_vars
<1>1. [Next /\ Orderly]_vars => [Orderly]_vars
  OBVIOUS
<1> QED
  BY <1>1, SpecIsOrderly, PTL DEF OrderlySpec

-----------------------------------------------------------------------------
(* The theorems.                                                            *)

\* While one bonded device matches and the application makes each call of connectDevice or
\* listen at rest, or makes one call only, then whatever is lost, retried and released, there is at most one
\* connection, made or in the making: the handler starts a new thread only when the thread of
\* the lost connection can obtain none any more (lines 63-87, 250-270).
THEOREM SessionHasOneConnection ==
  ASSUME Matching = 1, OrderlyCalls \/ MaxCalls = 1
  PROVE  Spec => []OneConnection
<1>1. SessionInv => OneConnection
  BY SessionSafe
<1> QED
  BY <1>1, SessionHolds, SpecIsOrderly, PTL

\* Under the same conditions no open connection is out of the main thread's reach: whenever
\* release or the handler cancels connectedThread, it closes the connection or its maker has
\* still to install it (lines 151-164, 215-220, 256-261).
THEOREM SessionLinkIsReachable ==
  ASSUME Matching = 1, OrderlyCalls \/ MaxCalls = 1
  PROVE  Spec => []LinkIsReachable
<1>1. SessionInv => LinkIsReachable
  BY SessionSafe
<1> QED
  BY <1>1, SessionHolds, SpecIsOrderly, PTL

\* Under the same conditions connectedThread?.start() (lines 220 and 261) always finds a thread
\* that was never started, although the field is read anew: no maker ends with an exception.
THEOREM SessionNothingThrows ==
  ASSUME Matching = 1, OrderlyCalls \/ MaxCalls = 1
  PROVE  Spec => []NothingThrows
<1>1. SessionInv => NothingThrows
  BY SessionSafe
<1> QED
  BY <1>1, SessionHolds, SpecIsOrderly, PTL

\* Under the same conditions the MESSAGE_DISCONNECT that the handler acts on was sent by the
\* reader of connectedThread, and that connection is lost: the handler, which does not look at
\* the sender, never cancels a connection that replaced it (lines 63-69, 302-307).
THEOREM SessionHandlesItsDisconnect ==
  ASSUME Matching = 1, OrderlyCalls \/ MaxCalls = 1
  PROVE  Spec => []DisconnectIsOfTheLink
<1>1. SessionInv => DisconnectIsOfTheLink
  BY SessionSafe
<1> QED
  BY <1>1, SessionHolds, SpecIsOrderly, PTL

-----------------------------------------------------------------------------
(* A lost connection is noticed: LostIsRetried without the fairness.        *)

\* The reader of t is still to be started, to fail or to be heard of.
Reporting(t) ==
  \/ thread[t].pc \in {"cancelOld", "nullOld", "assign", "start"}
  \/ thread[t].reader \in {"enable", "loop", "read"}
  \/ \E i \in Disconnects : queue[i].from = t

\* As long as release was not called, a connection that is lost has a reader that will post its
\* MESSAGE_DISCONNECT or has posted one that the handler has not handled (lines 63-87, 282-320).
LostIsNoticed ==
  \A t \in Makers : thread[t].link = "lost" => isExitProgram \/ Reporting(t)

\* The restart that follows a disconnection leaves a thread that tries to connect, or listens.
RestartTries ==
  [][main = "restart" /\ main' # "restart" => (\E t \in Makers : Trying(t))']_vars

NoticeInv == SessionInv /\ ReaderHasLink /\ LostIsNoticed

LEMMA NoticeMainStep ==
  ASSUME NoticeInv, AppCall \/ ReleaseLink \/ Handler
  PROVE  LostIsNoticed'
<1>1. /\ TypeOK /\ LostIsNoticed /\ DisconnectIsOfTheLink /\ queue \in Seq(Messages)
      /\ thread \in [Makers -> Thread] /\ connectedThread \in Makers \cup {NULL}
  BY SessionSafe DEF NoticeInv, SessionInv, TypeOK
<1> SUFFICES ASSUME NEW t \in Makers, thread'[t].link = "lost", ~isExitProgram'
             PROVE  Reporting(t)'
  BY DEF LostIsNoticed
<1>2. /\ thread[t].link = "lost" /\ thread'[t].pc = thread[t].pc
      /\ thread'[t].reader = thread[t].reader
  BY <1>1, MainStepWeakens, CreatedType DEF Weakened
<1>3. ~isExitProgram
  BY DEF AppCall, Handler, ConnectDevice, CallListen, Release, ReleaseLink, HandleRead,
     HandleDisconnect, HandlerNullLink, HandlerRestart, role
<1>4. Reporting(t)
  BY <1>1, <1>2, <1>3 DEF LostIsNoticed
<1>5. CASE queue' = queue
  BY <1>2, <1>4, <1>5 DEF Reporting, Disconnects
<1>6. ASSUME queue # <<>>, queue' = Tail(queue),
             Head(queue).what # "disconnect" \/ Head(queue).from # t
      PROVE  Reporting(t)'
  <2>1. CASE \E i \in Disconnects : queue[i].from = t
    <3>1. PICK i \in Disconnects : queue[i].from = t
      BY <2>1
    <3>2. i \in 1..Len(queue) /\ queue[i].what = "disconnect" /\ Head(queue) = queue[1]
      BY <1>1, <1>6, <3>1 DEF Disconnects
    <3>3. i # 1 /\ Len(queue) \in Nat
      BY <1>1, <1>6, <3>1, <3>2
    <3>4. i - 1 \in DOMAIN queue' /\ queue'[i - 1] = queue[i]
      BY <1>1, <1>6, <3>2, <3>3
    <3>5. i - 1 \in Disconnects' /\ queue'[i - 1].from = t
      BY <3>1, <3>2, <3>4 DEF Disconnects
    <3> QED
      BY <3>5 DEF Reporting
  <2>2. CASE ~\E i \in Disconnects : queue[i].from = t
    BY <1>2, <1>4, <2>2 DEF Reporting
  <2> QED
    BY <2>1, <2>2
<1>7. CASE HandleRead
  BY <1>6, <1>7 DEF HandleRead
<1>8. CASE HandleDisconnect
  <2>1. Head(queue).from # t
    <3> SUFFICES ASSUME Head(queue).from = t
                 PROVE  FALSE
      OBVIOUS
    <3>1. connectedThread = t /\ thread' = CancelLink(thread, t)
      BY <1>1, <1>3, <1>8 DEF HandleDisconnect, DisconnectIsOfTheLink
    <3>2. Cancelled(thread'[t], thread[t])
      BY <1>1, <3>1, CancelLinkType, Distinct
    <3> QED
      BY <1>2, <3>2 DEF Cancelled
  <2> QED
    BY <1>6, <1>8, <2>1 DEF HandleDisconnect
<1>9. CASE ~HandleRead /\ ~HandleDisconnect
  <2>1. queue' = queue
    BY <1>9 DEF AppCall, Handler, ConnectDevice, CallListen, Release, ReleaseLink,
       HandlerNullLink, HandlerRestart
  <2> QED
    BY <1>5, <2>1
<1> QED
  BY <1>7, <1>8, <1>9

\* A maker that is about to start its reader finds it in connectedThread.
LEMMA StartHasItsLink ==
  ASSUME SessionInv, NEW t \in Makers, thread[t].pc = "start"
  PROVE  thread[t].reader = "new" /\ connectedThread = t
<1>1. ~Spent(t)
  BY DEF Spent
<1>2. PICK c \in Makers : SessionOf(c)
  BY <1>1 DEF SessionInv, Resting, Session
<1>3. c = t
  BY <1>1, <1>2 DEF SessionOf
<1> QED
  BY <1>2, <1>3 DEF SessionOf, OnItsWay, Linked, Lost, Over, Restarting

LEMMA OpenIsWatched ==
  ASSUME SessionInv, NEW t \in Makers, thread[t].link = "open"
  PROVE  \/ thread[t].pc \in {"cancelOld", "nullOld", "assign", "start"}
         \/ thread[t].reader \in {"enable", "loop", "read"}
<1>1. ~Spent(t)
  BY DEF Spent
<1>2. PICK c \in Makers : SessionOf(c)
  BY <1>1 DEF SessionInv, Resting, Session
<1>3. c = t
  BY <1>1, <1>2 DEF SessionOf
<1> QED
  BY <1>2, <1>3 DEF SessionOf, OnItsWay, Linked, Lost, Over, Restarting

LEMMA NoticeThreadStep ==
  ASSUME NoticeInv, NEW u \in Makers,
         \/ MakerStep(u) \/ AcceptReturns(u) \/ AcceptThrows(u)
         \/ ReaderStep(u) \/ ReaderReads(u) \/ LinkLost(u)
  PROVE  LostIsNoticed'
<1>1. /\ TypeOK /\ LostIsNoticed /\ queue \in Seq(Messages) /\ ReaderHasLink
      /\ thread \in [Makers -> Thread] /\ connectedThread \in Makers \cup {NULL}
  BY DEF NoticeInv, SessionInv, TypeOK
<1> SUFFICES ASSUME NEW t \in Makers, thread'[t].link = "lost", ~isExitProgram'
             PROVE  Reporting(t)'
  BY DEF LostIsNoticed
<1>2. /\ ~isExitProgram
      /\ queue' = queue \/ \E m \in Messages : queue' = Append(queue, m)
  <2>1. UNCHANGED role
    BY DEF MakerStep, ReaderStep, CreateSocket, ConnectEnable, ConnectLoop, ConnectReturns,
       AcceptReturns, AcceptThrows, CancelOldLink, NullOldLink, AssignLink, StartLink,
       AcceptCloseServer, ConnectCheck, ConnectSleep, ReaderEnable, ReaderLoop, ReaderThrows,
       ReaderReads, LinkLost
  <2>2. ASSUME ReaderThrows(u)
        PROVE  \E m \in Messages : queue' = Append(queue, m)
    <3>1. [what |-> "disconnect", from |-> u, bytes |-> NULL] \in Messages
      BY DEF Messages
    <3> QED
      BY <2>2, <3>1 DEF ReaderThrows
  <2>3. ASSUME ReaderReads(u)
        PROVE  \E m \in Messages : queue' = Append(queue, m)
    <3>1. \A b \in Bytes : [what |-> "read", from |-> u, bytes |-> b] \in Messages
      BY DEF Messages
    <3> QED
      BY <2>3, <3>1 DEF ReaderReads
  <2>4. ASSUME ~ReaderThrows(u), ~ReaderReads(u)
        PROVE  queue' = queue
    BY <2>4 DEF MakerStep, ReaderStep, CreateSocket, ConnectEnable, ConnectLoop,
       ConnectReturns, AcceptReturns, AcceptThrows, CancelOldLink, NullOldLink, AssignLink,
       StartLink, AcceptCloseServer, ConnectCheck, ConnectSleep, ReaderEnable, ReaderLoop, LinkLost
  <2> QED
    BY <2>1, <2>2, <2>3, <2>4 DEF role
<1>3. (\E i \in Disconnects : queue[i].from = t) => Reporting(t)'
  <2>1. \A i \in Disconnects : i \in DOMAIN queue' /\ queue'[i] = queue[i]
    BY <1>1, <1>2 DEF Disconnects
  <2> QED
    BY <2>1 DEF Reporting, Disconnects
<1>4. CASE t # u
  <2>1. \/ Weakened(thread'[t], thread[t])
        \/ thread'[t] = [thread[t] EXCEPT !.reader = "enable"]
    BY <1>1, <1>4, OthersWeaken
  <2>2. CASE Weakened(thread'[t], thread[t])
    <3>1. /\ thread[t].link = "lost" /\ thread'[t].pc = thread[t].pc
          /\ thread'[t].reader = thread[t].reader
      BY <2>2 DEF Weakened
    <3> QED
      BY <1>1, <1>2, <1>3, <3>1 DEF LostIsNoticed, Reporting
  <2>3. CASE thread'[t] = [thread[t] EXCEPT !.reader = "enable"]
    <3>1. thread'[t].reader = "enable"
      BY <1>1, <2>3 DEF Thread
    <3> QED
      BY <3>1 DEF Reporting
  <2> QED
    BY <2>1, <2>2, <2>3
<1>5. CASE t = u /\ (MakerStep(t) \/ AcceptReturns(t) \/ AcceptThrows(t))
  <2>1. MakerMoves(t, thread'[t], thread[t])
    BY <1>1, <1>5, MakerStepMoves
  <2>2. /\ thread[t].link = "lost"
        /\ thread[t].pc \in {"cancelOld", "nullOld", "assign"} =>
             thread'[t].pc \in {"nullOld", "assign", "start"}
    BY <2>1 DEF MakerMoves
  <2>3. Reporting(t)
    BY <1>1, <1>2, <2>2 DEF LostIsNoticed
  <2>4. CASE thread[t].pc = "start"
    <3>1. thread[t].reader = "new" /\ connectedThread = t
      BY <1>1, <1>2, <2>2, <2>4, StartHasItsLink DEF NoticeInv
    <3>2. StartLink(t)
      BY <1>5, <2>4 DEF MakerStep, CreateSocket, ConnectEnable, ConnectLoop, ConnectReturns,
         CancelOldLink, NullOldLink, AssignLink, AcceptCloseServer, ConnectCheck, ConnectSleep,
         AcceptReturns, AcceptThrows, At
    <3>3. thread'[t].reader = "enable"
      BY <1>1, <3>1, <3>2, Distinct DEF StartLink, Thread
    <3> QED
      BY <3>3 DEF Reporting
  <2>5. CASE thread[t].pc \in {"cancelOld", "nullOld", "assign"}
    BY <2>2, <2>5 DEF Reporting
  <2>6. CASE thread[t].reader \in {"enable", "loop", "read"} /\ thread[t].pc # "assign"
    <3>1. thread'[t].reader = thread[t].reader
      BY <2>1, <2>6 DEF MakerMoves
    <3> QED
      BY <2>6, <3>1 DEF Reporting
  <2> QED
    BY <1>3, <2>3, <2>4, <2>5, <2>6 DEF Reporting
<1>6. CASE t = u /\ (ReaderStep(t) \/ ReaderReads(t) \/ LinkLost(t))
  <2>1. ReaderMoves(thread'[t], thread[t])
    BY <1>1, <1>6, ReaderStepMoves
  <2>2. CASE thread[t].link = "open"
    <3>1. Reporting(t)
      BY <1>1, <1>2, <2>2, OpenIsWatched DEF NoticeInv, Reporting
    <3>2. \/ thread'[t].pc = thread[t].pc /\ thread[t].pc \in {"cancelOld", "nullOld", "assign", "start"}
          \/ thread'[t].reader = thread[t].reader /\ thread[t].reader \in {"enable", "loop", "read"}
          \/ \E i \in Disconnects : queue[i].from = t
      BY <2>1, <2>2, <3>1 DEF ReaderMoves, Reporting
    <3> QED
      BY <1>3, <3>2 DEF Reporting
  <2>3. CASE thread[t].link # "open"
    <3>1. thread[t].link = "lost" /\ thread'[t].pc = thread[t].pc
      BY <2>1, <2>3 DEF ReaderMoves
    <3>2. Reporting(t)
      BY <1>1, <1>2, <3>1 DEF LostIsNoticed
    <3>3. CASE ReaderThrows(t)
      <4> DEFINE m == [what |-> "disconnect", from |-> t, bytes |-> NULL]
      <4>1. m.what = "disconnect" /\ m.from = t /\ queue' = Append(queue, m)
        BY <3>3 DEF ReaderThrows
      <4> HIDE DEF m
      <4>2. Len(queue) + 1 \in DOMAIN queue' /\ queue'[Len(queue) + 1] = m
        BY <1>1, <4>1
      <4>3. Len(queue) + 1 \in Disconnects'
        BY <4>1, <4>2 DEF Disconnects
      <4> QED
        BY <4>1, <4>2, <4>3 DEF Reporting
    <3>4. CASE ~ReaderThrows(t)
      <4>1. thread'[t].reader \in {"loop", "read"}
        <5>1. ReaderEnable(t) \/ ReaderLoop(t)
          BY <1>6, <2>3, <3>4 DEF ReaderStep, ReaderReads, LinkLost
        <5>2. thread[t].reader = "loop" => thread[t].readerLoop
          BY <1>1, <3>1 DEF ReaderHasLink
        <5> QED
          BY <1>1, <5>1, <5>2 DEF ReaderEnable, ReaderLoop, Become, Thread
      <4> QED
        BY <4>1 DEF Reporting
    <3> QED
      BY <3>3, <3>4
  <2> QED
    BY <2>2, <2>3
<1> QED
  BY <1>4, <1>5, <1>6

LEMMA RestartStep ==
  ASSUME SessionInv, [Next]_vars, main = "restart", main' # "restart"
  PROVE  \E t \in Makers : Trying(t)'
<1>1. ThreadType /\ thread \in [Makers -> Thread]
  BY DEF SessionInv, TypeOK, ThreadType
<1>2. deviceType = "client" => target
  BY DEF SessionInv, Resting, Session, SessionOf
<1>3. HandlerRestart
  BY DEF Next, AppCall, Handler, MakerStep, ReaderStep, ConnectDevice, CallListen, Release,
     ReleaseLink, HandleRead, HandleDisconnect, HandlerNullLink, CreateSocket, ConnectEnable,
     ConnectLoop, ConnectReturns, AcceptReturns, AcceptThrows, CancelOldLink, NullOldLink,
     AssignLink, StartLink, AcceptCloseServer, ConnectCheck, ConnectSleep, ReaderEnable,
     ReaderLoop, ReaderThrows, ReaderReads, LinkLost, vars
<1>4. ASSUME NEW f \in [Makers -> Thread], NEW S \in SUBSET Makers, S # {},
             thread' = Started(f, S)
      PROVE  \E t \in Makers : Trying(t)'
  <2>1. PICK t \in S : t \in Makers
    BY <1>4
  <2>2. thread'[t] = [Unmade EXCEPT !.pc = "create"]
    BY <1>4, StartedType
  <2>3. thread'[t].pc = "create"
    BY <2>2, CreatedType
  <2> QED
    BY <2>1, <2>3 DEF Trying
<1>5. CASE Connect(CancelConnect(thread, connectThread))
  <2> DEFINE f == CancelConnect(thread, connectThread)
  <2>1. f \in [Makers -> Thread]
    BY <1>1, CancelConnectType DEF SessionInv, TypeOK, Makers
  <2>2. connectThread' \in Connects /\ Connect(f)
    BY <1>1, <1>5, <2>1, ConnectType
  <2> DEFINE new == CHOOSE S \in SUBSET {t \in Connects : Free(t)} : Cardinality(S) = Matching
  <2>3. connectThread' \in new /\ thread' = Started(f, new)
    BY <2>2 DEF Connect
  <2> HIDE DEF f, new
  <2>4. PICK t \in Makers : thread'[t].pc = "create"
    <3>1. connectThread' \in Makers
      BY <2>2 DEF Makers
    <3>2. thread'[connectThread'] = [Unmade EXCEPT !.pc = "create"]
      BY <2>3, <3>1 DEF Started
    <3> QED
      BY <3>1, <3>2, CreatedType
  <2> QED
    BY <2>4 DEF Trying
<1>6. CASE Listen(CancelAccept(thread, acceptThread))
  <2> DEFINE f == CancelAccept(thread, acceptThread)
  <2>1. f \in [Makers -> Thread]
    BY <1>1, CancelAcceptType DEF SessionInv, TypeOK, Makers
  <2>2. acceptThread' \in Accepts /\ thread' = Started(f, {acceptThread'})
    BY <1>6 DEF Listen
  <2> HIDE DEF f
  <2>3. {acceptThread'} \in SUBSET Makers
    BY <2>2 DEF Makers
  <2> QED
    BY <1>4, <2>1, <2>2, <2>3
<1> QED
  BY <1>2, <1>3, <1>5, <1>6 DEF HandlerRestart

LEMMA NoticeHolds ==
  ASSUME Matching = 1
  PROVE  OrderlySpec => []NoticeInv
<1>1. Init => LostIsNoticed /\ ReaderHasLink
  BY DEF Init, Unmade, LostIsNoticed, ReaderHasLink
<1>2. ASSUME NoticeInv, [Next /\ Orderly]_vars
      PROVE  NoticeInv'
  <2>1. SessionInv'
    BY <1>2, SessionInductive DEF NoticeInv
  <2>2. ReaderHasLink'
    BY <1>2, ReaderHasLinkStep DEF NoticeInv, SessionInv
  <2>3. CASE UNCHANGED vars
    BY <1>2, <2>1, <2>2, <2>3 DEF NoticeInv, LostIsNoticed, Reporting, Disconnects, vars, role
  <2>4. CASE Next
    <3>1. LostIsNoticed'
      BY <1>2, <2>4, NoticeMainStep, NoticeThreadStep DEF Next
    <3> QED
      BY <2>1, <2>2, <3>1 DEF NoticeInv
  <2> QED
    BY <1>2, <2>3, <2>4
<1> QED
  BY <1>1, <1>2, SessionInit, PTL DEF OrderlySpec, NoticeInv

\* While one bonded device matches and each call is made at rest, no loss of a connection goes
\* unseen: until release, whatever the order of the handler, the makers and the reader, the
\* reader of a lost connection is still to be started, to throw or to be heard of by the handler.
THEOREM SessionNoticesLoss ==
  ASSUME Matching = 1, OrderlyCalls \/ MaxCalls = 1
  PROVE  Spec => []LostIsNoticed
<1>1. NoticeInv => LostIsNoticed
  BY DEF NoticeInv
<1> QED
  BY <1>1, NoticeHolds, SpecIsOrderly, PTL

\* Under the same conditions a handler that restarts leaves a new thread: connectDevice finds
\* its target set and connectThread or acceptThread of the role it has (lines 70-85).
THEOREM SessionRestartTries ==
  ASSUME Matching = 1, OrderlyCalls \/ MaxCalls = 1
  PROVE  Spec => RestartTries
<1> DEFINE Restarts == main = "restart" /\ main' # "restart" => (\E t \in Makers : Trying(t))'
<1>1. SessionInv /\ [Next /\ Orderly]_vars => [Restarts]_vars
  BY RestartStep
<1> QED
  BY <1>1, SessionHolds, SpecIsOrderly, PTL DEF OrderlySpec, RestartTries

-----------------------------------------------------------------------------
(* A client goes on: ClientKeepsTrying without the fairness.                *)

\* A ConnectThread that has had no connection and is not stopped: connectedThread, which
\* ends its loop when an attempt fails, is null (lines 267-268).
StillConnecting(t) ==
  /\ thread[t].link = "none" /\ connectedThread = NULL
  /\ \/ thread[t].pc \in {"create", "enable"}
     \/ thread[t].pc \in {"loop", "connect", "check", "sleep"} /\ thread[t].isLoop

\* Until release a client that has been given a target has a connection, a thread that goes on
\* trying, or a lost connection that the handler is at or has still to hear of (lines 63-87,
\* 226-279).
ClientGoesOn ==
  target /\ deviceType = "client" /\ ~isExitProgram =>
    \/ main \in {"nullLink", "restart"}
    \/ \E t \in Connects : \/ StillConnecting(t)
                           \/ thread[t].link = "open"
                           \/ thread[t].link = "lost" /\ Reporting(t)

\* Without a release nobody closes a connection but the handler, and that a lost one.
LinksLive ==
  /\ main = "releaseLink" => isExitProgram
  /\ ~isExitProgram =>
       /\ connectedThread # NULL /\ main # "nullLink" =>
            thread[connectedThread].link \in {"open", "lost"}
       /\ \A t \in Makers :
            thread[t].pc \in {"cancelOld", "nullOld", "assign", "start"} =>
              thread[t].link \in {"open", "lost"}

CurrentGoesOn ==
  target /\ deviceType = "client" /\ ~isExitProgram /\ main \notin {"nullLink", "restart"} =>
    /\ connectThread # NULL
    /\ StillConnecting(connectThread) \/ thread[connectThread].link \in {"open", "lost"}

GoesOnInv == NoticeInv /\ LinksLive /\ CurrentGoesOn

ThreadSteps(t) ==
  \/ MakerStep(t) \/ AcceptReturns(t) \/ AcceptThrows(t)
  \/ ReaderStep(t) \/ ReaderReads(t) \/ LinkLost(t)

\* A thread that is spent has no connection that a disconnection is not due for.
LEMMA SpentIsClosed ==
  ASSUME LostIsNoticed, NoneDue, ~isExitProgram, NEW t \in Makers, Spent(t)
  PROVE  thread[t].link \notin {"open", "lost"}
<1>1. ~Reporting(t)
  BY DEF Spent, Reporting, NoneDue
<1> QED
  BY <1>1 DEF Spent, LostIsNoticed

\* A maker that has just connected finds connectedThread null.
LEMMA NothingToCancel ==
  ASSUME GoesOnInv, ~isExitProgram, NEW t \in Makers, thread[t].pc = "cancelOld"
  PROVE  connectedThread = NULL
<1>1. ~Spent(t)
  BY DEF Spent
<1>2. PICK c \in Makers : SessionOf(c)
  BY <1>1 DEF GoesOnInv, NoticeInv, SessionInv, Resting, Session
<1>3. c = t
  BY <1>1, <1>2 DEF SessionOf
<1>4. OnItsWay(t)
  BY <1>2, <1>3 DEF SessionOf, Linked, Lost, Over, Restarting
<1> SUFFICES ASSUME connectedThread # NULL
             PROVE  FALSE
  OBVIOUS
<1>5. connectedThread \in Makers /\ connectedThread # t
  BY <1>4 DEF GoesOnInv, NoticeInv, SessionInv, TypeOK, OnItsWay
<1>6. thread[connectedThread].link \in {"open", "lost"}
  BY <1>4 DEF GoesOnInv, LinksLive, OnItsWay
<1>7. Spent(connectedThread)
  BY <1>2, <1>3, <1>5 DEF SessionOf
<1>8. NoneDue
  BY <1>4 DEF OnItsWay
<1> QED
  BY <1>5, <1>6, <1>7, <1>8, SpentIsClosed DEF GoesOnInv, NoticeInv

LEMMA LiveThreadStep ==
  ASSUME GoesOnInv, ~isExitProgram, NEW u \in Makers, ThreadSteps(u),
         NEW t \in Makers, thread[t].link \in {"open", "lost"}
  PROVE  thread'[t].link \in {"open", "lost"}
<1>1. TypeOK /\ thread \in [Makers -> Thread] /\ thread[t] \in Thread
  BY DEF GoesOnInv, NoticeInv, SessionInv, TypeOK
<1>2. CASE CancelOldLink(u)
  <2>1. thread[u].pc = "cancelOld"
    BY <1>2 DEF CancelOldLink, At
  <2>2. connectedThread = NULL
    BY <2>1, NothingToCancel
  <2>3. thread' = [thread EXCEPT ![u].pc = "assign"]
    BY <1>2, <2>2 DEF CancelOldLink, CancelLink
  <2> QED
    BY <1>1, <2>3 DEF Thread
<1>3. CASE ~CancelOldLink(u) /\ t # u
  <2>1. CASE StartLink(u)
    BY <1>1, <1>3, <2>1 DEF StartLink, Goto, Become, Thread
  <2>2. CASE ~StartLink(u)
    <3>1. thread'[t] = thread[t]
      BY <1>1, <1>3, <2>2 DEF ThreadSteps, MakerStep, ReaderStep, CreateSocket, ConnectEnable,
         ConnectLoop, ConnectReturns, AcceptReturns, AcceptThrows, NullOldLink, AssignLink,
         AcceptCloseServer, ConnectCheck, ConnectSleep, ReaderEnable, ReaderLoop, ReaderThrows,
         ReaderReads, LinkLost, Goto, Become
    <3> QED
      BY <3>1
  <2> QED
    BY <2>1, <2>2
<1>4. CASE ~CancelOldLink(u) /\ t = u /\ (MakerStep(u) \/ AcceptReturns(u) \/ AcceptThrows(u))
  <2>1. MakerMoves(t, thread'[t], thread[t])
    BY <1>1, <1>4, MakerStepMoves
  <2>2. thread[t].pc # "cancelOld"
    BY <1>4 DEF MakerStep, CreateSocket, ConnectEnable, ConnectLoop, ConnectReturns,
       AcceptReturns, AcceptThrows, NullOldLink, AssignLink, StartLink, AcceptCloseServer,
       ConnectCheck, ConnectSleep, At
  <2> QED
    BY <2>1, <2>2 DEF MakerMoves
<1>5. CASE t = u /\ (ReaderStep(u) \/ ReaderReads(u) \/ LinkLost(u))
  <2>1. ReaderMoves(thread'[t], thread[t])
    BY <1>1, <1>5, ReaderStepMoves
  <2> QED
    BY <2>1 DEF ReaderMoves
<1> QED
  BY <1>2, <1>3, <1>4, <1>5 DEF ThreadSteps

\* The fields that a thread's step changes besides the threads and the queue.
LEMMA ThreadStepFields ==
  ASSUME TypeOK, NEW u \in Makers, ThreadSteps(u)
  PROVE  /\ UNCHANGED <<role, makes, main>>
         /\ \/ connectedThread' = connectedThread
            \/ NullOldLink(u) /\ connectedThread' = NULL
            \/ AssignLink(u) /\ connectedThread' = u
BY DEF ThreadSteps, MakerStep, ReaderStep, CreateSocket, ConnectEnable, ConnectLoop,
   ConnectReturns, AcceptReturns, AcceptThrows, CancelOldLink, NullOldLink, AssignLink, StartLink,
   AcceptCloseServer, ConnectCheck, ConnectSleep, ReaderEnable, ReaderLoop, ReaderThrows,
   ReaderReads, LinkLost

LEMMA LinksLiveThreadStep ==
  ASSUME GoesOnInv, NEW u \in Makers, ThreadSteps(u)
  PROVE  LinksLive'
<1>1. /\ TypeOK /\ LinksLive /\ thread \in [Makers -> Thread]
      /\ connectedThread \in Makers \cup {NULL}
  BY DEF GoesOnInv, NoticeInv, SessionInv, TypeOK
<1>2. /\ UNCHANGED <<role, makes, main>>
      /\ \/ connectedThread' = connectedThread
         \/ NullOldLink(u) /\ connectedThread' = NULL
         \/ AssignLink(u) /\ connectedThread' = u
  BY <1>1, ThreadStepFields
<1> SUFFICES ASSUME ~isExitProgram
             PROVE  /\ connectedThread' # NULL /\ main # "nullLink" =>
                         thread'[connectedThread'].link \in {"open", "lost"}
                    /\ \A t \in Makers :
                         thread'[t].pc \in {"cancelOld", "nullOld", "assign", "start"} =>
                           thread'[t].link \in {"open", "lost"}
  BY <1>1, <1>2 DEF LinksLive, role
<1>3. \A t \in Makers :
        thread[t].link \in {"open", "lost"} => thread'[t].link \in {"open", "lost"}
  BY LiveThreadStep
<1>4. ASSUME NEW t \in Makers,
             thread'[t].pc \in {"cancelOld", "nullOld", "assign", "start"}
      PROVE  thread'[t].link \in {"open", "lost"}
  <2>1. CASE thread[t].pc \in {"cancelOld", "nullOld", "assign", "start"}
    BY <1>1, <1>3, <2>1 DEF LinksLive
  <2>2. CASE thread[t].pc \notin {"cancelOld", "nullOld", "assign", "start"}
    <3>1. t = u /\ (MakerStep(u) \/ AcceptReturns(u) \/ AcceptThrows(u))
      <4>1. t = u
        <5>1. ASSUME t # u
              PROVE  thread'[t].pc = thread[t].pc
          <6>1. \/ Weakened(thread'[t], thread[t])
                \/ thread'[t] = [thread[t] EXCEPT !.reader = "enable"]
            BY <1>1, <5>1, OthersWeaken DEF ThreadSteps
          <6> QED
            BY <1>1, <6>1 DEF Weakened, Thread
        <5> QED
          BY <1>4, <2>2, <5>1
      <4>2. ASSUME ReaderStep(u) \/ ReaderReads(u) \/ LinkLost(u)
            PROVE  FALSE
        BY <1>1, <1>4, <2>2, <4>1, <4>2, ReaderStepMoves DEF ReaderMoves
      <4> QED
        BY <4>1, <4>2 DEF ThreadSteps
    <3>2. MakerMoves(t, thread'[t], thread[t])
      BY <1>1, <3>1, MakerStepMoves
    <3> QED
      BY <1>4, <2>2, <3>2 DEF MakerMoves
  <2> QED
    BY <2>1, <2>2
<1>5. ASSUME connectedThread' # NULL, main # "nullLink"
      PROVE  thread'[connectedThread'].link \in {"open", "lost"}
  <2>1. CASE connectedThread' = connectedThread
    BY <1>1, <1>3, <1>5, <2>1 DEF LinksLive
  <2>2. CASE AssignLink(u) /\ connectedThread' = u
    <3>1. thread[u].pc = "assign"
      BY <2>2 DEF AssignLink, At
    <3> QED
      BY <1>1, <1>3, <2>2, <3>1 DEF LinksLive
  <2> QED
    BY <1>2, <1>5, <2>1, <2>2
<1> QED
  BY <1>4, <1>5

LEMMA LinksLiveMainStep ==
  ASSUME Matching = 1, GoesOnInv, SessionInv', AppCall \/ ReleaseLink \/ Handler,
         calls' # calls => AtRest
  PROVE  LinksLive'
<1>1. /\ TypeOK /\ LinksLive /\ LostIsNoticed /\ thread \in [Makers -> Thread] /\ ThreadType
      /\ connectedThread \in Makers \cup {NULL} /\ queue \in Seq(Messages)
      /\ acceptThread \in Makers \cup {NULL} /\ connectThread \in Makers \cup {NULL}
  BY DEF GoesOnInv, NoticeInv, SessionInv, TypeOK, ThreadType, Makers
<1>2. main' = "releaseLink" => isExitProgram'
  BY <1>1 DEF AppCall, Handler, ConnectDevice, CallListen, Release, ReleaseLink, HandleRead,
     HandleDisconnect, HandlerNullLink, HandlerRestart, LinksLive
<1> SUFFICES ASSUME ~isExitProgram'
             PROVE  /\ connectedThread' # NULL /\ main' # "nullLink" =>
                         thread'[connectedThread'].link \in {"open", "lost"}
                    /\ \A t \in Makers :
                         thread'[t].pc \in {"cancelOld", "nullOld", "assign", "start"} =>
                           thread'[t].link \in {"open", "lost"}
  BY <1>2 DEF LinksLive
<1>3. ~isExitProgram /\ ~Release /\ ~ReleaseLink
  BY <1>1 DEF AppCall, Handler, ConnectDevice, CallListen, Release, ReleaseLink, HandleRead,
     HandleDisconnect, HandlerNullLink, HandlerRestart, LinksLive, role
<1>4. CASE HandleRead
  BY <1>1, <1>3, <1>4 DEF HandleRead, LinksLive
<1>5. CASE HandlerNullLink
  BY <1>1, <1>3, <1>5 DEF HandlerNullLink, LinksLive
<1>6. CASE HandleDisconnect
  <2>1. connectedThread' # NULL => main' = "nullLink"
    BY <1>3, <1>6 DEF HandleDisconnect
  <2>2. ASSUME NEW t \in Makers,
               thread'[t].pc \in {"cancelOld", "nullOld", "assign", "start"}
        PROVE  FALSE
    <3>1. ~Spent(t)' /\ main' \in {"nullLink", "restart"}
      BY <1>3, <1>6, <2>2 DEF Spent, HandleDisconnect
    <3>2. PICK c \in Makers : SessionOf(c)'
      BY <3>1 DEF SessionInv, Resting, Session
    <3>3. c = t
      BY <3>1, <3>2 DEF SessionOf
    <3> QED
      BY <2>2, <3>1, <3>2, <3>3 DEF SessionOf, OnItsWay, Linked, Lost, Over, Restarting
  <2> QED
    BY <2>1, <2>2
<1>7. ASSUME \A t \in Makers : thread[t].pc \notin {"cancelOld", "nullOld", "assign", "start"}
      PROVE  \A t \in Makers : thread'[t].pc \notin {"cancelOld", "nullOld", "assign", "start"}
  BY <1>1, <1>7, MainStepWeakens, CreatedType DEF Weakened
<1>8. CASE ConnectDevice \/ CallListen
  <2>1. AtRest /\ \A t \in Makers : Spent(t)
    BY <1>1, <1>8, CallsAreCounted DEF AtRest
  <2>2. NoneDue
    BY <1>3, <2>1 DEF AtRest, NoneDue, Disconnects
  <2>3. connectedThread = NULL
    <3>1. connectedThread \in Makers => thread[connectedThread].link \notin {"open", "lost"}
      BY <1>1, <1>3, <2>1, <2>2, SpentIsClosed
    <3>2. main = "idle"
      BY <1>8 DEF ConnectDevice, CallListen
    <3> QED
      BY <1>1, <1>3, <3>1, <3>2 DEF LinksLive
  <2>4. \A t \in Makers : thread[t].pc \notin {"cancelOld", "nullOld", "assign", "start"}
    BY <2>1 DEF Spent
  <2> QED
    BY <1>7, <1>8, <2>3, <2>4 DEF ConnectDevice, CallListen
<1>9. CASE HandlerRestart
  <2>1. main = "restart"
    BY <1>9 DEF HandlerRestart
  <2>2. PICK c \in Makers : SessionOf(c)
    BY <2>1 DEF GoesOnInv, NoticeInv, SessionInv, Resting, Session
  <2>3. Restarting(c)
    BY <2>1, <2>2 DEF SessionOf, OnItsWay, Linked, Lost
  <2>4. connectedThread' = NULL
    BY <1>9, <2>3 DEF HandlerRestart, Restarting
  <2>5. \A t \in Makers : thread[t].pc \notin {"cancelOld", "nullOld", "assign", "start"}
    BY <2>2, <2>3 DEF SessionOf, Restarting, Spent
  <2> QED
    BY <1>7, <2>4, <2>5
<1> QED
  BY <1>3, <1>4, <1>5, <1>6, <1>8, <1>9 DEF AppCall, Handler

LEMMA GoingOnIsSession ==
  ASSUME GoesOnInv, target, deviceType = "client", ~isExitProgram,
         main \notin {"nullLink", "restart"}
  PROVE  /\ connectThread \in Connects /\ connectThread \in Makers /\ SessionOf(connectThread)
         /\ StillConnecting(connectThread) \/ thread[connectThread].link \in {"open", "lost"}
<1>1. /\ connectThread \in Connects /\ connectThread \in Makers
      /\ StillConnecting(connectThread) \/ thread[connectThread].link \in {"open", "lost"}
  BY DEF GoesOnInv, NoticeInv, SessionInv, TypeOK, CurrentGoesOn, Makers
<1>2. ASSUME Resting
      PROVE  FALSE
  <2>1. Spent(connectThread) /\ NoneDue
    BY <1>1, <1>2 DEF Resting
  <2>2. thread[connectThread].link \notin {"open", "lost"}
    BY <1>1, <2>1, SpentIsClosed DEF GoesOnInv, NoticeInv
  <2> QED
    BY <1>1, <2>1, <2>2 DEF Spent, StillConnecting
<1>3. PICK c \in Makers : SessionOf(c)
  BY <1>2 DEF GoesOnInv, NoticeInv, SessionInv, Session
<1> QED
  BY <1>1, <1>3 DEF SessionOf

LEMMA ConnectingStep ==
  ASSUME GoesOnInv, NEW t \in Connects, t \in Makers, SessionOf(t), StillConnecting(t),
         ThreadSteps(t)
  PROVE  StillConnecting(t)' \/ thread'[t].link = "open"
<1>1. /\ TypeOK /\ thread \in [Makers -> Thread] /\ thread[t] \in Thread
      /\ thread[t].link = "none" /\ connectedThread = NULL
  BY DEF GoesOnInv, NoticeInv, SessionInv, TypeOK, StillConnecting
<1>2. thread[t].reader = "none"
  BY <1>1, Distinct DEF SessionOf, OnItsWay, Linked, Lost, Over, Restarting
<1> DEFINE Goes(th) ==
             /\ th \in Thread /\ Become(t, th)
             /\ \/ th.link = "open"
                \/ /\ th.link = "none" /\ connectedThread' = NULL
                   /\ \/ th.pc \in {"create", "enable"}
                      \/ th.pc \in {"loop", "connect", "check", "sleep"} /\ th.isLoop
<1>3. \E th : Goes(th)
  <2>1. CASE CreateSocket(t)
    <3>1. Goes([thread[t] EXCEPT !.socket = "open", !.pc = "enable"])
      BY <1>1, <2>1 DEF CreateSocket, Thread, MakerPcs
    <3> QED
      BY <3>1
  <2>2. CASE ConnectEnable(t)
    <3>1. Goes([thread[t] EXCEPT !.isLoop = TRUE, !.pc = "loop"])
      BY <1>1, <2>2 DEF ConnectEnable, Thread, MakerPcs
    <3> QED
      BY <3>1
  <2>3. CASE ConnectLoop(t)
    <3>1. Goes([thread[t] EXCEPT !.pc = "connect"])
      BY <1>1, <2>3 DEF ConnectLoop, At, Goto, StillConnecting, Thread, MakerPcs
    <3> QED
      BY <3>1
  <2>4. CASE ConnectReturns(t)
    <3>1. \/ Goes([thread[t] EXCEPT !.link = "open", !.pc = "cancelOld"])
          \/ Goes([thread[t] EXCEPT !.pc = "check"])
      BY <1>1, <2>4 DEF ConnectReturns, At, Goto, StillConnecting, Thread, MakerPcs
    <3> QED
      BY <3>1
  <2>5. CASE ConnectCheck(t)
    <3>1. Goes([thread[t] EXCEPT !.pc = "sleep"])
      BY <1>1, <2>5 DEF ConnectCheck, At, Goto, StillConnecting, Thread, MakerPcs
    <3> QED
      BY <3>1
  <2>6. CASE ConnectSleep(t)
    <3>1. Goes([thread[t] EXCEPT !.pc = "loop"])
      BY <1>1, <2>6 DEF ConnectSleep, At, Goto, StillConnecting, Thread, MakerPcs
    <3> QED
      BY <3>1
  <2>7. ASSUME ~CreateSocket(t), ~ConnectEnable(t), ~ConnectLoop(t), ~ConnectReturns(t),
               ~ConnectCheck(t), ~ConnectSleep(t)
        PROVE  FALSE
    BY <1>1, <1>2, <2>7 DEF ThreadSteps, MakerStep, ReaderStep, CancelOldLink, NullOldLink,
       AssignLink, StartLink, AcceptCloseServer, AcceptReturns, AcceptThrows, ReaderEnable,
       ReaderLoop, ReaderThrows, ReaderReads, LinkLost, At, StillConnecting
  <2> QED
    BY <2>1, <2>2, <2>3, <2>4, <2>5, <2>6, <2>7
<1>4. PICK th : Goes(th)
  BY <1>3
<1>5. thread'[t] = th
  BY <1>1, <1>4, Became
<1> QED
  BY <1>4, <1>5 DEF StillConnecting

LEMMA CurrentThreadStep ==
  ASSUME GoesOnInv, NEW u \in Makers, ThreadSteps(u)
  PROVE  CurrentGoesOn'
<1>1. TypeOK /\ MakerShape /\ thread \in [Makers -> Thread]
  BY DEF GoesOnInv, NoticeInv, SessionInv, TypeOK
<1>2. UNCHANGED <<role, makes, main>>
  BY <1>1, ThreadStepFields
<1> SUFFICES ASSUME target, deviceType = "client", ~isExitProgram,
                    main \notin {"nullLink", "restart"}
             PROVE  /\ connectThread # NULL
                    /\ \/ StillConnecting(connectThread)'
                       \/ thread'[connectThread].link \in {"open", "lost"}
  BY <1>2 DEF CurrentGoesOn, role, makes
<1>3. PICK t \in Makers :
        /\ t = connectThread /\ t \in Connects /\ t # NULL /\ SessionOf(t)
        /\ StillConnecting(t) \/ thread[t].link \in {"open", "lost"}
  BY GoingOnIsSession, Distinct
<1>4. connectThread' = t
  BY <1>2, <1>3 DEF makes
<1>5. StillConnecting(t)' \/ thread'[t].link \in {"open", "lost"}
  <2>1. CASE thread[t].link \in {"open", "lost"}
    BY <2>1, LiveThreadStep
  <2>2. CASE StillConnecting(t) /\ u = t
    BY <1>3, <2>2, ConnectingStep
  <2>3. CASE StillConnecting(t) /\ u # t
    <3>1. Spent(u)
      BY <1>3, <2>3 DEF SessionOf
    <3>2. connectedThread' = connectedThread /\ thread'[t] = thread[t]
      BY <1>1, <2>3, <3>1, SpentMoves DEF ThreadSteps
    <3> QED
      BY <2>3, <3>2 DEF StillConnecting
  <2> QED
    BY <1>3, <2>1, <2>2, <2>3
<1> QED
  BY <1>2, <1>3, <1>4, <1>5 DEF makes, StillConnecting

LEMMA CurrentMainStep ==
  ASSUME Matching = 1, GoesOnInv, AppCall \/ ReleaseLink \/ Handler,
         calls' # calls => AtRest
  PROVE  CurrentGoesOn'
<1>1. /\ TypeOK /\ LinksLive /\ LostIsNoticed /\ thread \in [Makers -> Thread] /\ ThreadType
      /\ connectedThread \in Makers \cup {NULL} /\ connectThread \in Makers \cup {NULL}
  BY DEF GoesOnInv, NoticeInv, SessionInv, TypeOK, ThreadType, Makers
<1> SUFFICES ASSUME target', deviceType' = "client", ~isExitProgram',
                    main' \notin {"nullLink", "restart"}
             PROVE  /\ connectThread' # NULL
                    /\ \/ StillConnecting(connectThread)'
                       \/ thread'[connectThread'].link \in {"open", "lost"}
  BY DEF CurrentGoesOn
<1>2. ~isExitProgram /\ ~Release /\ ~ReleaseLink
  BY <1>1 DEF AppCall, Handler, ConnectDevice, CallListen, Release, ReleaseLink, HandleRead,
     HandleDisconnect, HandlerNullLink, HandlerRestart, LinksLive, role
<1>3. ~HandleDisconnect /\ ~HandlerNullLink /\ ~CallListen
  BY <1>2 DEF HandleDisconnect, HandlerNullLink, CallListen, Listen
<1>4. CASE HandleRead
  <2>1. UNCHANGED <<role, makes, main, thread, connectedThread>>
    BY <1>4 DEF HandleRead
  <2>2. /\ connectThread \in Makers /\ connectThread # NULL
        /\ \/ StillConnecting(connectThread)
           \/ thread[connectThread].link \in {"open", "lost"}
    BY <1>2, <2>1, GoingOnIsSession, Distinct DEF role
  <2> QED
    BY <2>1, <2>2 DEF StillConnecting, makes
<1>5. ASSUME NEW f \in [Makers -> Thread], Connect(f), connectedThread' = NULL
      PROVE  connectThread' # NULL /\ StillConnecting(connectThread)'
  <2>1. PICK n \in Connects : connectThread' = n /\ thread' = Started(f, {n})
    BY <1>1, <1>5, ConnectOne
  <2>2. n \in Makers /\ n # NULL
    BY Distinct DEF Makers
  <2>3. thread'[n] = [Unmade EXCEPT !.pc = "create"]
    BY <2>1, <2>2, StartedType
  <2> QED
    BY <1>5, <2>1, <2>2, <2>3, CreatedType DEF StillConnecting
<1>6. CASE ConnectDevice
  <2>1. AtRest /\ \A t \in Makers : Spent(t)
    BY <1>1, <1>6, CallsAreCounted DEF AtRest
  <2>2. NoneDue
    BY <1>2, <2>1 DEF AtRest, NoneDue, Disconnects
  <2>3. connectedThread = NULL
    <3>1. connectedThread \in Makers => thread[connectedThread].link \notin {"open", "lost"}
      BY <1>1, <1>2, <2>1, <2>2, SpentIsClosed
    <3>2. main = "idle"
      BY <1>6 DEF ConnectDevice
    <3> QED
      BY <1>1, <1>2, <3>1, <3>2 DEF LinksLive
  <2>4. connectedThread' = NULL /\ Connect(thread)
    BY <1>6, <2>3 DEF ConnectDevice
  <2> QED
    BY <1>1, <1>5, <2>4
<1>7. CASE HandlerRestart
  <2>1. main = "restart"
    BY <1>7 DEF HandlerRestart
  <2>2. PICK c \in Makers : SessionOf(c)
    BY <2>1 DEF GoesOnInv, NoticeInv, SessionInv, Resting, Session
  <2>3. Restarting(c)
    BY <2>1, <2>2 DEF SessionOf, OnItsWay, Linked, Lost
  <2>4. connectedThread' = NULL /\ Connect(CancelConnect(thread, connectThread))
    BY <1>7, <2>3 DEF HandlerRestart, Restarting, Listen
  <2>5. CancelConnect(thread, connectThread) \in [Makers -> Thread]
    BY <1>1, CancelConnectType
  <2> QED
    BY <1>5, <2>4, <2>5
<1> QED
  BY <1>2, <1>3, <1>4, <1>6, <1>7 DEF AppCall, Handler

LEMMA GoesOnHolds ==
  ASSUME Matching = 1
  PROVE  OrderlySpec => []GoesOnInv
<1>1. Init => LinksLive /\ CurrentGoesOn
  BY DEF Init, Unmade, LinksLive, CurrentGoesOn
<1>2. ASSUME GoesOnInv, NoticeInv', [Next /\ Orderly]_vars
      PROVE  GoesOnInv'
  <2>1. SessionInv'
    BY <1>2 DEF NoticeInv
  <2>2. CASE UNCHANGED vars
    BY <1>2, <2>2 DEF GoesOnInv, LinksLive, CurrentGoesOn, StillConnecting, vars, role, makes
  <2>3. CASE Next /\ Orderly
    <3>1. CASE AppCall \/ ReleaseLink \/ Handler
      BY <1>2, <2>1, <2>3, <3>1, LinksLiveMainStep, CurrentMainStep DEF GoesOnInv, Orderly
    <3>2. ASSUME NEW t \in Makers, ThreadSteps(t)
          PROVE  LinksLive' /\ CurrentGoesOn'
      BY <1>2, <3>2, LinksLiveThreadStep, CurrentThreadStep
    <3> QED
      BY <1>2, <2>3, <3>1, <3>2 DEF GoesOnInv, Next, ThreadSteps
  <2> QED
    BY <1>2, <2>2, <2>3
<1> QED
  BY <1>1, <1>2, NoticeHolds, PTL DEF OrderlySpec, GoesOnInv

\* ClientKeepsTrying without the fairness: while one bonded device matches and each call is made
\* at rest, a client that has a target is never left idle before release. Either the thread that
\* connectThread refers to goes on trying, with isLoop set and connectedThread null, or there is a
\* connection, or one is lost and the handler restarts or will hear of it (lines 63-87, 226-279).
THEOREM ClientIsNeverIdle ==
  ASSUME Matching = 1, OrderlyCalls \/ MaxCalls = 1
  PROVE  Spec => []ClientGoesOn
<1>1. GoesOnInv => ClientGoesOn
  <2> SUFFICES ASSUME GoesOnInv, target, deviceType = "client", ~isExitProgram,
                      main \notin {"nullLink", "restart"}
               PROVE  \E t \in Connects : \/ StillConnecting(t)
                                          \/ thread[t].link = "open"
                                          \/ thread[t].link = "lost" /\ Reporting(t)
    BY DEF ClientGoesOn
  <2>1. /\ connectThread \in Connects /\ connectThread \in Makers
        /\ StillConnecting(connectThread) \/ thread[connectThread].link \in {"open", "lost"}
    BY GoingOnIsSession
  <2>2. thread[connectThread].link = "lost" => Reporting(connectThread)
    BY <2>1 DEF GoesOnInv, NoticeInv, LostIsNoticed
  <2> QED
    BY <2>1, <2>2
<1> QED
  BY <1>1, GoesOnHolds, SpecIsOrderly, PTL
=============================================================================
