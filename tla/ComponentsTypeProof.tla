-------------------------- MODULE ComponentsTypeProof --------------------------
(***************************************************************************)
(* Type correctness of the components that share no state, with what their  *)
(* types need to be inductive: who holds the lock of the audio object, that *)
(* a port being closed is one that was made, that a permission is asked for  *)
(* with a device pending, and how many clones a camera can have opened. The *)
(* steps of serial ports, audio thread and background thread follow, with   *)
(* what each may never do.                                                  *)
(***************************************************************************)
EXTENDS ComponentsProof

-----------------------------------------------------------------------------
(* The serial ports.                                                        *)

PortState ==
  [state: {"unmade", "none", "found", "open", "closed"},
   isProcessing: BOOLEAN, matched: 0..MaxDrivers, receiverDataThread: 0..MaxDrivers]
OpeningState ==
  [object: Ports \cup {NoPort}, name: Names \cup {NoPort},
   driver: 0..MaxDrivers, step: {"idle", "next", "open"}]
ClosingState ==
  [todo: SUBSET Ports, now: Ports \cup {NoPort}, step: {"idle", "join", "close"}, clear: BOOLEAN]
ReceiverState == {"none", "test", "read", "listener", "done"}

\* An object that is opened is not closed before the call returns, and its driver is one of
\* those that were found.
SerialTypeInv ==
  /\ SerialTypeOK
  /\ closing.step # "idle" => closing.now \in Ports
  /\ pending.asked # {} => pending.device \in Names
  /\ opening.step # "idle" =>
       /\ closing.step = "idle" /\ closing.todo = {} /\ ~closing.clear
       /\ opening.object \in Ports /\ opening.name \in Names
       /\ opening.driver <= port[opening.object].matched
  /\ opening.step = "open" => opening.driver >= 1

LEMMA SerialTypes ==
  SerialTypeOK <=>
    /\ kind \in {"serial", "usb"} /\ deviceHashMap \in [Names -> Ports \cup {NoPort}]
    /\ port \in [Ports -> PortState] /\ receiver \in [Ports -> [Drivers -> ReceiverState]]
    /\ opening \in OpeningState /\ closing \in ClosingState
    /\ pending \in [device: Names \cup {NoPort}, asked: SUBSET Names]
    /\ permitted \subseteq Names
BY DEF SerialTypeOK, PortState, OpeningState, ClosingState, ReceiverState

LEMMA SerialTypeInit == SerialInit => SerialTypeInv
BY SerialConstants DEF SerialInit, SerialTypeInv, SerialTypeOK, Opened

LEMMA OpenedType == Opened \in OpeningState /\ Opened.step = "idle"
BY SerialConstants DEF Opened, OpeningState

LEMMA ConnectType ==
  ASSUME SerialTypeInv, NoCall, NEW n \in Names, StartConnect(n), UNCHANGED closing
  PROVE  /\ port' \in [Ports -> PortState] /\ opening' \in OpeningState
         /\ opening'.step = "next" /\ opening'.object \in Ports /\ opening'.name \in Names
         /\ opening'.driver <= port'[opening'.object].matched
         /\ closing'.step = "idle" /\ closing'.todo = {} /\ ~closing'.clear
<1>1. PICK p \in Ports, matched \in 0..MaxDrivers :
        /\ port' = [port EXCEPT ![p].state = "none", ![p].matched = matched]
        /\ opening' = [object |-> p, name |-> n, driver |-> 0, step |-> "next"]
  BY DEF StartConnect
<1>2. 0 \in 0..MaxDrivers
  BY SerialConstants
<1>3. port \in [Ports -> PortState]
  BY SerialTypes DEF SerialTypeInv
<1>4. port' \in [Ports -> PortState] /\ port'[p].matched = matched
  BY <1>1, <1>3 DEF PortState
<1>5. /\ opening' \in OpeningState
      /\ opening'.step = "next" /\ opening'.object = p /\ opening'.name = n /\ opening'.driver = 0
  BY <1>1, <1>2 DEF OpeningState
<1> QED
  BY <1>1, <1>4, <1>5 DEF NoCall

LEMMA OpenType ==
  ASSUME SerialTypeInv, NextDriver \/ OpenPort \/ OpenThrows
  PROVE  /\ port' \in [Ports -> PortState] /\ receiver' \in [Ports -> [Drivers -> ReceiverState]]
         /\ opening' \in OpeningState
         /\ opening'.step # "idle" =>
              /\ opening'.object = opening.object /\ opening'.name = opening.name
              /\ opening'.driver <= port'[opening.object].matched
         /\ opening'.step = "open" => opening'.driver >= 1
<1>1. PICK p \in Ports, driver \in 0..MaxDrivers : opening.object = p /\ opening.driver = driver
  BY SerialTypes DEF SerialTypeInv, OpeningState, NextDriver, OpenPort, OpenThrows
<1>2. /\ port \in [Ports -> PortState] /\ receiver \in [Ports -> [Drivers -> ReceiverState]]
      /\ opening \in OpeningState /\ MaxDrivers \in Nat /\ driver <= port[p].matched
  BY <1>1, SerialTypes, SerialConstants
     DEF SerialTypeInv, NextDriver, OpenPort, OpenThrows
<1>m. port[p].matched \in 0..MaxDrivers
  BY <1>2 DEF PortState
<1>3. CASE NextDriver
  <2>1. PICK next \in 0..MaxDrivers :
          /\ next >= 1 /\ next <= port[p].matched
          /\ opening' = [opening EXCEPT !.driver = next, !.step = "open"]
    <3>1. driver < port[p].matched
      BY <1>1, <1>3 DEF NextDriver
    <3>2. driver + 1 \in 0..MaxDrivers /\ driver + 1 >= 1 /\ driver + 1 <= port[p].matched
      BY <1>2, <1>m, <3>1
    <3>3. opening' = [opening EXCEPT !.driver = driver + 1, !.step = "open"]
      BY <1>1, <1>3 DEF NextDriver
    <3> QED
      BY <3>2, <3>3
  <2>0. port' = [port EXCEPT ![p].state = "found"] /\ UNCHANGED receiver
    BY <1>1, <1>3 DEF NextDriver
  <2>2. port' \in [Ports -> PortState] /\ port'[p].matched = port[p].matched
    BY <1>2, <2>0 DEF PortState
  <2>3. /\ opening' \in OpeningState /\ opening'.driver = next
        /\ opening'.object = p /\ opening'.name = opening.name
    BY <1>1, <1>2, <2>1 DEF OpeningState
  <2> QED
    BY <1>1, <1>2, <2>0, <2>1, <2>2, <2>3
<1>4. CASE OpenPort
  <2>1. /\ opening' = [opening EXCEPT !.step = "next"]
        /\ port' = [port EXCEPT ![p].state = "open", ![p].isProcessing = TRUE,
                                ![p].receiverDataThread = driver]
        /\ receiver' = [receiver EXCEPT ![p][driver] = "test"]
    BY <1>1, <1>4 DEF OpenPort
  <2>2. port' \in [Ports -> PortState] /\ port'[p].matched = port[p].matched
    BY <1>2, <2>1 DEF PortState
  <2>3. receiver' \in [Ports -> [Drivers -> ReceiverState]]
    BY <1>2, <2>1 DEF ReceiverState
  <2> QED
    BY <1>1, <1>2, <2>1, <2>2, <2>3 DEF OpeningState
<1>5. CASE OpenThrows
  <2>1. PICK s \in {"found", "open"} : port' = [port EXCEPT ![p].state = s]
    BY <1>1, <1>5 DEF OpenThrows
  <2>2. port' \in [Ports -> PortState]
    BY <1>2, <2>1 DEF PortState
  <2> QED
    BY <1>2, <1>5, <2>2, OpenedType DEF OpenThrows
<1> QED
  BY <1>3, <1>4, <1>5

LEMMA SerialTypeNext == SerialTypeInv /\ [SerialNext]_serialVars => SerialTypeInv'
<1> SUFFICES ASSUME SerialTypeInv, [SerialNext]_serialVars PROVE SerialTypeInv'
  OBVIOUS
<1>t. /\ kind \in {"serial", "usb"} /\ deviceHashMap \in [Names -> Ports \cup {NoPort}]
      /\ port \in [Ports -> PortState] /\ receiver \in [Ports -> [Drivers -> ReceiverState]]
      /\ opening \in OpeningState /\ closing \in ClosingState
      /\ pending \in [device: Names \cup {NoPort}, asked: SUBSET Names]
      /\ permitted \subseteq Names
  BY SerialTypes DEF SerialTypeInv
<1>s. ASSUME /\ kind' \in {"serial", "usb"} /\ deviceHashMap' \in [Names -> Ports \cup {NoPort}]
             /\ port' \in [Ports -> PortState] /\ receiver' \in [Ports -> [Drivers -> ReceiverState]]
             /\ opening' \in OpeningState /\ closing' \in ClosingState
             /\ pending' \in [device: Names \cup {NoPort}, asked: SUBSET Names]
             /\ permitted' \subseteq Names
      PROVE  SerialTypeOK'
  BY <1>s DEF SerialTypeOK, PortState, OpeningState, ClosingState, ReceiverState
<1>1. CASE UNCHANGED serialVars
  BY <1>t, <1>1 DEF serialVars, SerialTypeInv, SerialTypeOK
<1>2. ASSUME NEW n \in Names, ConnectPort(n) PROVE SerialTypeInv'
  BY <1>2, <1>t, <1>s, ConnectType DEF ConnectPort, SerialTypeInv
<1>3. ASSUME NEW n \in Names, RequestPort(n) PROVE SerialTypeInv'
  BY <1>3, <1>t, <1>s DEF RequestPort, SerialTypeInv, NoCall
<1>4. ASSUME NEW n \in Names, GrantPort(n) PROVE SerialTypeInv'
  <2>1. pending.device \in Names /\ permitted' = permitted \cup {n}
        /\ UNCHANGED <<kind, deviceHashMap, receiver, closing>> /\ NoCall
    BY <1>4 DEF GrantPort, SerialTypeInv
  <2>2. CASE pending.device \in permitted'
    <3>1. StartConnect(pending.device) /\ pending' = [pending EXCEPT !.asked = @ \ {n}]
      BY <1>4, <2>2 DEF GrantPort
    <3> QED
      BY <1>t, <1>s, <2>1, <3>1, ConnectType DEF SerialTypeInv
  <2>3. CASE pending.device \notin permitted'
    BY <1>4, <1>t, <1>s, <2>1, <2>3 DEF GrantPort, SerialTypeInv, NoCall
  <2> QED
    BY <2>2, <2>3
<1>5. ASSUME NEW n \in Names, DenyPort(n) PROVE SerialTypeInv'
  BY <1>5, <1>t, <1>s DEF DenyPort, SerialTypeInv, NoCall
<1>c. ASSUME UNCHANGED <<kind, port, receiver, opening, pending, permitted>>,
             deviceHashMap' \in [Names -> Ports \cup {NoPort}],
             closing' \in ClosingState, opening.step = "idle",
             closing'.step # "idle" => closing'.now \in Ports
      PROVE  SerialTypeInv'
  BY <1>c, <1>t, <1>s DEF SerialTypeInv
<1>6. ASSUME NEW n \in Names, DisconnectPort(n) PROVE SerialTypeInv'
  <2>1. {deviceHashMap[n]} \in SUBSET Ports
    BY <1>6, <1>t DEF DisconnectPort
  <2>2. closing' \in ClosingState /\ closing'.step = "idle" /\ opening.step = "idle"
    BY <1>6, <1>t, <2>1 DEF DisconnectPort, NoCall, ClosingState
  <2> QED
    BY <1>6, <1>c, <1>t, <2>2 DEF DisconnectPort
<1>7. CASE ClearPorts
  <2>1. Mapped \in SUBSET Ports
    BY <1>t DEF Mapped
  <2>2. closing' \in ClosingState /\ closing'.step = "idle" /\ opening.step = "idle"
    BY <1>7, <1>t, <2>1 DEF ClearPorts, NoCall, ClosingState
  <2> QED
    BY <1>7, <1>c, <1>t, <2>2 DEF ClearPorts
<1>8. ASSUME NEW p \in Ports, CloseDevice(p) PROVE SerialTypeInv'
  <2>1. closing.todo \ {p} \in SUBSET Ports /\ opening.step = "idle"
    BY <1>8, <1>t DEF ClosingState, SerialTypeInv, CloseDevice
  <2>2. CASE kind = "serial" /\ port[p].state = "none"
    <3>1. closing' = [closing EXCEPT !.todo = closing.todo \ {p}] /\ closing.step = "idle"
      BY <1>8, <2>2 DEF CloseDevice
    <3>2. closing' \in ClosingState /\ closing'.step = "idle"
      BY <1>t, <2>1, <3>1 DEF ClosingState
    <3> QED
      BY <1>8, <1>c, <1>t, <2>1, <2>2, <3>2 DEF CloseDevice
  <2>3. CASE ~(kind = "serial" /\ port[p].state = "none")
    <3>1. /\ port' = [port EXCEPT ![p].isProcessing = FALSE]
          /\ closing' = [closing EXCEPT !.todo = closing.todo \ {p}, !.now = p, !.step = "join"]
          /\ UNCHANGED <<kind, deviceHashMap, receiver, opening, pending, permitted>>
      BY <1>8, <2>3 DEF CloseDevice
    <3>2. PICK t \in SUBSET Ports :
            closing' = [closing EXCEPT !.todo = t, !.now = p, !.step = "join"]
      BY <2>1, <3>1
    <3>3. closing' \in ClosingState /\ closing'.now = p
      BY <1>t, <3>2 DEF ClosingState
    <3>4. port' \in [Ports -> PortState]
      BY <1>t, <3>1 DEF PortState
    <3> QED
      BY <1>t, <1>s, <2>1, <3>1, <3>3, <3>4 DEF SerialTypeInv
  <2> QED
    BY <2>2, <2>3
<1>9. CASE JoinReceiver \/ ClosePort
  <2>1. PICK p \in Ports : closing.now = p
    BY <1>9, <1>t DEF JoinReceiver, ClosePort, SerialTypeInv
  <2>2. port' \in [Ports -> PortState]
    <3>1. \/ port' = [port EXCEPT ![p].receiverDataThread = 0] /\ 0 \in 0..MaxDrivers
          \/ \E s \in {"unmade", "none", "found", "open", "closed"} :
               port' = [port EXCEPT ![p].state = s]
      <4>1. CASE JoinReceiver
        BY <2>1, <4>1, SerialConstants DEF JoinReceiver
      <4>2. CASE ClosePort
        <5>1. PICK s : s = IF port[p].state = "open" THEN "closed" ELSE port[p].state
          OBVIOUS
        <5>2. s \in {"unmade", "none", "found", "open", "closed"}
          BY <1>t, <5>1 DEF PortState
        <5>3. port' = [port EXCEPT ![p].state = s]
          BY <2>1, <4>2, <5>1 DEF ClosePort
        <5> QED
          BY <5>2, <5>3
      <4> QED
        BY <1>9, <4>1, <4>2
    <3> QED
      BY <1>t, <3>1 DEF PortState
  <2>3. closing' \in ClosingState /\ (closing'.step # "idle" => closing'.now \in Ports)
    BY <1>9, <1>t, <2>1 DEF JoinReceiver, ClosePort, ClosingState
  <2>4. opening.step = "idle" /\ UNCHANGED <<kind, deviceHashMap, receiver, opening, pending, permitted>>
    BY <1>9 DEF JoinReceiver, ClosePort, SerialTypeInv
  <2> QED
    BY <1>t, <1>s, <2>2, <2>3, <2>4 DEF SerialTypeInv
<1>11. CASE ClearMap
  <2>1. closing' \in ClosingState /\ closing'.step = "idle" /\ opening.step = "idle"
    BY <1>11, <1>t DEF ClearMap, ClosingState, SerialTypeInv
  <2>2. deviceHashMap' \in [Names -> Ports \cup {NoPort}]
    BY <1>11 DEF ClearMap
  <2> QED
    BY <1>11, <1>c, <2>1, <2>2 DEF ClearMap
<1>12. ASSUME NEW p \in Ports, NEW d \in Drivers, ReceiverStep(p, d) PROVE SerialTypeInv'
  <2>1. receiver' \in [Ports -> [Drivers -> ReceiverState]]
        /\ UNCHANGED <<kind, deviceHashMap, port, opening, closing, pending, permitted>>
    BY <1>12, <1>t DEF ReceiverStep, TestProcessing, ReadPort, TellListener, Receiver, ReceiverState
  <2> QED
    BY <1>t, <1>s, <2>1 DEF SerialTypeInv
<1>13. CASE NextDriver \/ OpenPort \/ OpenThrows
  <2>1. UNCHANGED <<kind, deviceHashMap, closing, pending, permitted>> /\ opening.step # "idle"
    BY <1>13 DEF NextDriver, OpenPort, OpenThrows
  <2> QED
    BY <1>t, <1>s, <1>13, <2>1, OpenType DEF SerialTypeInv
<1>14. CASE FinishConnect
  <2>1. /\ deviceHashMap' \in [Names -> Ports \cup {NoPort}] /\ opening' = Opened
        /\ UNCHANGED <<kind, port, receiver, closing, pending, permitted>>
    BY <1>14, <1>t DEF FinishConnect, SerialTypeInv
  <2> QED
    BY <1>t, <1>s, <2>1, OpenedType DEF SerialTypeInv
<1> QED
  BY <1>1, <1>2, <1>3, <1>4, <1>5, <1>6, <1>7, <1>8, <1>9, <1>11, <1>12, <1>13, <1>14
     DEF SerialNext

\* The map, the ports, their receivers and the calls in progress stay within their types for
\* any devices and drivers; a permission that comes while another device is pending asks for a
\* device, never for none.
THEOREM SerialTypeCorrect == SerialSpec => []SerialTypeOK
<1>1. SerialTypeInv => SerialTypeOK
  BY DEF SerialTypeInv
<1> QED
  BY <1>1, SerialTypeInit, SerialTypeNext, PTL DEF SerialSpec

\* While clear is in progress what it has still to close is open, nothing else of the map.
ClearShape ==
  closing.clear =>
    \A p \in Mapped : \/ port[p].state # "open" \/ p \in closing.todo
                      \/ closing.step # "idle" /\ closing.now = p

LEMMA ClearNext ==
  SerialTypeInv /\ ClearShape /\ [SerialNext]_serialVars =>
    /\ ClearShape'
    /\ closing.clear /\ ~closing'.clear => \A p \in Mapped : port[p].state # "open"
<1> SUFFICES ASSUME SerialTypeInv, ClearShape, [SerialNext]_serialVars
             PROVE  /\ ClearShape'
                    /\ closing.clear /\ ~closing'.clear => \A p \in Mapped : port[p].state # "open"
  OBVIOUS
<1> DEFINE Goal == /\ ClearShape'
                   /\ closing.clear /\ ~closing'.clear => \A p \in Mapped : port[p].state # "open"
<1>t. /\ deviceHashMap \in [Names -> Ports \cup {NoPort}]
      /\ port \in [Ports -> PortState] /\ opening \in OpeningState /\ closing \in ClosingState
  BY SerialTypes DEF SerialTypeInv
<1>c. closing \in [todo: SUBSET Ports, now: Ports \cup {NoPort},
                   step: {"idle", "join", "close"}, clear: BOOLEAN]
  BY <1>t DEF ClosingState
<1>m. Mapped \subseteq Ports
  BY <1>t DEF Mapped
<1>p. port \in [Ports -> PortState]
  BY <1>t
<1>1. ASSUME ~closing.clear, ~closing'.clear PROVE Goal
  BY <1>1 DEF ClearShape
<1>2. ASSUME UNCHANGED <<deviceHashMap, closing>>,
             \A p \in Ports : port'[p].state = port[p].state
      PROVE  Goal
  BY <1>2, <1>m DEF ClearShape, Mapped
<1>3. CASE UNCHANGED serialVars
  BY <1>2, <1>3 DEF serialVars
<1>4. ASSUME NEW n \in Names,
             ConnectPort(n) \/ RequestPort(n) \/ GrantPort(n) \/ DenyPort(n) \/ DisconnectPort(n)
      PROVE  Goal
  <2>1. ~closing.clear
    BY <1>4 DEF ConnectPort, RequestPort, GrantPort, DenyPort, DisconnectPort, NoCall
  <2>2. closing'.clear = closing.clear
    BY <1>4, <1>c DEF ConnectPort, RequestPort, GrantPort, DenyPort, DisconnectPort
  <2> QED
    BY <1>1, <2>1, <2>2
<1>o. CASE NextDriver \/ OpenPort \/ OpenThrows \/ FinishConnect
  <2>1. ~closing.clear /\ UNCHANGED closing
    BY <1>o DEF NextDriver, OpenPort, OpenThrows, FinishConnect, SerialTypeInv
  <2> QED
    BY <1>1, <2>1
<1>5. CASE ClearPorts
  <2>1. closing'.todo = Mapped /\ closing'.clear = TRUE /\ Mapped' = Mapped
    BY <1>5, <1>c DEF ClearPorts, Mapped
  <2>2. ~closing.clear
    BY <1>5 DEF ClearPorts, NoCall
  <2> QED
    BY <2>1, <2>2 DEF ClearShape
<1>6. ASSUME NEW q \in Ports, CloseDevice(q) PROVE Goal
  <2>1. closing.step = "idle" /\ closing'.clear = closing.clear /\ Mapped' = Mapped
        /\ closing'.todo = closing.todo \ {q}
    <3>1. CASE closing' = [closing EXCEPT !.todo = closing.todo \ {q}]
      BY <1>6, <1>c, <3>1 DEF CloseDevice, Mapped
    <3>2. CASE closing' = [closing EXCEPT !.todo = closing.todo \ {q}, !.now = q, !.step = "join"]
      BY <1>6, <1>c, <3>2 DEF CloseDevice, Mapped
    <3> QED
      BY <1>6, <3>1, <3>2 DEF CloseDevice
  <2>2. \A p \in Ports : port'[p].state = port[p].state
    BY <1>6, <1>p DEF CloseDevice, PortState
  <2>3. port[q].state # "open" \/ (closing'.step # "idle" /\ closing'.now = q)
    <3>1. CASE kind = "serial" /\ port[q].state = "none"
      BY <3>1
    <3>2. CASE closing' = [closing EXCEPT !.todo = closing.todo \ {q}, !.now = q, !.step = "join"]
      BY <1>c, <3>2
    <3> QED
      BY <1>6, <3>1, <3>2 DEF CloseDevice
  <2> QED
    BY <1>m, <2>1, <2>2, <2>3 DEF ClearShape
<1>7. CASE JoinReceiver
  <2>1. /\ closing'.clear = closing.clear /\ Mapped' = Mapped /\ closing'.todo = closing.todo
        /\ closing'.step # "idle" /\ closing'.now = closing.now
    BY <1>7, <1>c DEF JoinReceiver, Mapped
  <2>2. \A p \in Ports : port'[p].state = port[p].state
    BY <1>7, <1>p DEF JoinReceiver, PortState
  <2> QED
    BY <1>m, <2>1, <2>2 DEF ClearShape
<1>8. CASE ClosePort
  <2>1. closing'.clear = closing.clear /\ Mapped' = Mapped /\ closing'.todo = closing.todo
    BY <1>8, <1>c DEF ClosePort, Mapped
  <2>2. /\ \A p \in Ports : port'[p].state = "open" => port[p].state = "open"
        /\ closing.now \in Ports => port'[closing.now].state # "open"
    BY <1>8, <1>p DEF ClosePort, PortState
  <2> QED
    BY <1>m, <2>1, <2>2 DEF ClearShape
<1>9. CASE ClearMap
  <2>1. closing.step = "idle" /\ closing.todo = {} /\ ~closing'.clear
    BY <1>9, <1>c DEF ClearMap
  <2> QED
    BY <2>1 DEF ClearShape
<1>10. ASSUME NEW p \in Ports, NEW d \in Drivers, ReceiverStep(p, d) PROVE Goal
  <2>1. UNCHANGED <<deviceHashMap, closing, port>>
    BY <1>10 DEF ReceiverStep, TestProcessing, ReadPort, TellListener, Receiver
  <2> QED
    BY <1>2, <2>1
<1> QED
  BY <1>3, <1>4, <1>o, <1>5, <1>6, <1>7, <1>8, <1>9, <1>10 DEF SerialNext

\* However many devices there are and whichever of them has no descriptor, clear (lines 22-31
\* of RuxorSPDeviceImpl) empties the map only of devices it has closed.
THEOREM ClearClosesMapped == SerialSpec => ClearClosesTheMap
<1>1. SerialInit => SerialTypeInv /\ ClearShape
  BY SerialTypeInit DEF SerialInit, ClearShape
<1>2. SerialTypeInv /\ ClearShape /\ [SerialNext]_serialVars =>
        [closing.clear /\ ~closing'.clear => \A p \in Mapped : port[p].state # "open"]_serialVars
  BY ClearNext
<1> QED
  BY <1>1, <1>2, SerialTypeNext, ClearNext, PTL DEF SerialSpec, ClearClosesTheMap

\* The receivers of an object are those of the drivers openDevice has been through; where
\* there is one driver, its receiver is the one closeDevice joins.
Active(p, d) == receiver[p][d] \in {"test", "read", "listener"}

ReceiversShape ==
  \A p \in Ports, d \in Drivers :
    /\ receiver[p][d] # "none" => d <= port[p].matched /\ port[p].state # "unmade"
    /\ opening.step # "idle" /\ opening.object = p /\ receiver[p][d] # "none" =>
         d <= opening.driver /\ (opening.step = "open" => d < opening.driver)
    /\ port[p].matched = 1 /\ Active(p, d) =>
         port[p].state = "open" /\ port[p].receiverDataThread = d

SerialInv ==
  /\ SerialTypeInv /\ ReceiversShape
  /\ closing.step = "close" => port[closing.now].receiverDataThread = 0

LEMMA SerialSame ==
  ASSUME SerialInv, SerialTypeInv', UNCHANGED receiver,
         NEW p \in Ports, \A q \in Ports \ {p} : port'[q] = port[q],
         /\ port'[p].matched = port[p].matched /\ port'[p].state = port[p].state
         /\ port'[p].receiverDataThread = port[p].receiverDataThread,
         opening' = opening \/ opening'.step = "idle",
         closing'.step # "close"
  PROVE  SerialInv'
<1>1. \A q \in Ports : /\ port'[q].matched = port[q].matched /\ port'[q].state = port[q].state
                       /\ port'[q].receiverDataThread = port[q].receiverDataThread
  OBVIOUS
<1> QED
  BY <1>1 DEF SerialInv, ReceiversShape, Active

LEMMA SerialInvInit == SerialInit => SerialInv
BY SerialTypeInit DEF SerialInit, SerialInv, ReceiversShape, Active

LEMMA SerialInvNext == SerialInv /\ [SerialNext]_serialVars => SerialInv'
<1> SUFFICES ASSUME SerialInv, [SerialNext]_serialVars PROVE SerialInv'
  OBVIOUS
<1>i. SerialTypeInv /\ SerialTypeInv' /\ ReceiversShape
  BY SerialTypeNext DEF SerialInv
<1>t. /\ port \in [Ports -> PortState] /\ receiver \in [Ports -> [Drivers -> ReceiverState]]
      /\ opening \in OpeningState /\ closing \in ClosingState
  BY <1>i, SerialTypes DEF SerialTypeInv
<1>n. MaxDrivers \in Nat /\ \A d \in Drivers : d \in Nat /\ d >= 1 /\ d <= MaxDrivers
  BY SerialConstants DEF Drivers
<1>p. \A p \in Ports : port[p].matched \in 0..MaxDrivers
                       /\ port[p].receiverDataThread \in 0..MaxDrivers
  BY <1>t DEF PortState
<1>0. ASSUME UNCHANGED <<port, receiver>>, opening' = opening \/ opening'.step = "idle",
             closing'.step # "close"
      PROVE  SerialInv'
  BY <1>0, <1>i DEF SerialInv, ReceiversShape, Active
<1>1. CASE UNCHANGED serialVars
  BY <1>1, <1>i DEF serialVars, SerialInv, ReceiversShape, Active
<1>s. ASSUME NEW n \in Names, NoCall, StartConnect(n), UNCHANGED <<closing, receiver>>
      PROVE  SerialInv'
  <2>1. PICK p \in Ports, matched \in 0..MaxDrivers :
          /\ port[p].state = "unmade"
          /\ port' = [port EXCEPT ![p].state = "none", ![p].matched = matched]
          /\ opening' = [object |-> p, name |-> n, driver |-> 0, step |-> "next"]
    BY <1>s DEF StartConnect
  <2>2. \A d \in Drivers : receiver[p][d] = "none"
    BY <1>i, <2>1 DEF ReceiversShape
  <2>3. \A q \in Ports \ {p} : port'[q] = port[q]
    BY <1>t, <2>1
  <2>4. opening'.object = p /\ closing'.step = "idle"
    BY <1>s, <2>1 DEF NoCall
  <2>5. ReceiversShape'
    BY <1>i, <1>s, <2>2, <2>3, <2>4 DEF ReceiversShape, Active, NoCall
  <2> QED
    BY <1>i, <2>4, <2>5 DEF SerialInv
<1>2. ASSUME NEW n \in Names, ConnectPort(n) PROVE SerialInv'
  BY <1>2, <1>s DEF ConnectPort
<1>3. ASSUME NEW n \in Names, RequestPort(n) \/ DenyPort(n) PROVE SerialInv'
  BY <1>0, <1>3 DEF RequestPort, DenyPort, NoCall
<1>4. ASSUME NEW n \in Names, GrantPort(n) PROVE SerialInv'
  <2>1. UNCHANGED <<closing, receiver>> /\ NoCall /\ pending.device \in Names
    BY <1>4, <1>i DEF GrantPort, SerialTypeInv
  <2>2. StartConnect(pending.device) \/ UNCHANGED <<port, opening>>
    BY <1>4 DEF GrantPort
  <2> QED
    BY <1>0, <1>s, <2>1, <2>2 DEF NoCall
<1>5. ASSUME NEW n \in Names, DisconnectPort(n) PROVE SerialInv'
  <2>1. closing'.step = "idle" /\ UNCHANGED <<port, receiver, opening>>
    BY <1>5, <1>t DEF DisconnectPort, NoCall, ClosingState
  <2> QED
    BY <1>0, <2>1
<1>6. CASE ClearPorts
  <2>1. closing'.step = "idle" /\ UNCHANGED <<port, receiver, opening>>
    BY <1>6, <1>t DEF ClearPorts, NoCall, ClosingState
  <2> QED
    BY <1>0, <2>1
<1>7. CASE ClearMap
  <2>1. closing'.step = "idle" /\ UNCHANGED <<port, receiver, opening>>
    BY <1>7, <1>t DEF ClearMap, ClosingState
  <2> QED
    BY <1>0, <2>1
<1>8. ASSUME NEW p \in Ports, CloseDevice(p) PROVE SerialInv'
  <2>1. closing'.step # "close"
    <3>1. CASE closing' = [closing EXCEPT !.todo = closing.todo \ {p}]
      BY <1>8, <1>t, <3>1 DEF CloseDevice, ClosingState
    <3>2. CASE closing' = [closing EXCEPT !.todo = closing.todo \ {p}, !.now = p, !.step = "join"]
      BY <1>t, <3>2 DEF ClosingState
    <3> QED
      BY <1>8, <3>1, <3>2 DEF CloseDevice
  <2>2. UNCHANGED <<receiver, opening>>
    BY <1>8 DEF CloseDevice
  <2>3. /\ \A q \in Ports \ {p} : port'[q] = port[q]
        /\ port'[p].matched = port[p].matched /\ port'[p].state = port[p].state
        /\ port'[p].receiverDataThread = port[p].receiverDataThread
    BY <1>8, <1>t DEF CloseDevice, PortState
  <2> QED
    BY <1>i, <2>1, <2>2, <2>3, SerialSame
<1>9. CASE JoinReceiver
  <2>1. PICK p \in Ports : closing.now = p
    BY <1>9, <1>i DEF JoinReceiver, SerialTypeInv
  <2>2. /\ port' = [port EXCEPT ![p].receiverDataThread = 0]
        /\ \A d \in Drivers : port[p].receiverDataThread = d => receiver[p][d] = "done"
        /\ UNCHANGED <<receiver, opening>>
    BY <1>9, <2>1 DEF JoinReceiver
  <2>3. /\ \A q \in Ports \ {p} : port'[q] = port[q]
        /\ port'[p].matched = port[p].matched /\ port'[p].state = port[p].state
        /\ port'[p].receiverDataThread = 0
    BY <1>t, <2>2 DEF PortState
  <2>4. closing'.now = p
    BY <1>9, <1>t, <2>1 DEF JoinReceiver, ClosingState
  <2>5. \A d \in Drivers : port[p].matched = 1 => ~Active(p, d)
    BY <1>i, <2>2 DEF ReceiversShape, Active
  <2>6. ReceiversShape'
    BY <1>i, <2>2, <2>3, <2>5 DEF ReceiversShape, Active
  <2> QED
    BY <1>i, <2>3, <2>4, <2>6 DEF SerialInv
<1>10. CASE ClosePort
  <2>1. PICK p \in Ports : closing.now = p
    BY <1>10, <1>i DEF ClosePort, SerialTypeInv
  <2>2. PICK s : s = IF port[p].state = "open" THEN "closed" ELSE port[p].state
    OBVIOUS
  <2>3. /\ port' = [port EXCEPT ![p].state = s] /\ port[p].receiverDataThread = 0
        /\ UNCHANGED <<receiver, opening>>
    BY <1>10, <2>1, <2>2 DEF ClosePort, SerialInv
  <2>4. /\ \A q \in Ports \ {p} : port'[q] = port[q]
        /\ port'[p].matched = port[p].matched /\ port'[p].state = s
        /\ port'[p].receiverDataThread = 0
    BY <1>t, <2>3 DEF PortState
  <2>5. \A d \in Drivers : port[p].matched = 1 => ~Active(p, d)
    BY <1>i, <1>n, <2>3 DEF ReceiversShape
  <2>6. s = "unmade" => port[p].state = "unmade"
    BY <2>2
  <2>7. ReceiversShape'
    BY <1>i, <2>3, <2>4, <2>5, <2>6 DEF ReceiversShape, Active
  <2>8. closing'.step = "idle"
    BY <1>10, <1>t DEF ClosePort, ClosingState
  <2> QED
    BY <1>i, <2>7, <2>8 DEF SerialInv
<1>11. ASSUME NEW p \in Ports, NEW d \in Drivers, ReceiverStep(p, d) PROVE SerialInv'
  <2>1. PICK to \in {"test", "read", "listener", "done"} :
          /\ receiver' = [receiver EXCEPT ![p][d] = to] /\ Active(p, d)
          /\ UNCHANGED <<port, opening, closing>>
    BY <1>11 DEF ReceiverStep, TestProcessing, ReadPort, TellListener, Receiver, Active
  <2>2. /\ \A q \in Ports, e \in Drivers : <<q, e>> # <<p, d>> => receiver'[q][e] = receiver[q][e]
        /\ receiver'[p][d] = to
    BY <1>t, <2>1
  <2>3. \A q \in Ports, e \in Drivers :
          /\ receiver'[q][e] # "none" => receiver[q][e] # "none"
          /\ Active(q, e)' => Active(q, e)
    BY <2>1, <2>2 DEF Active
  <2>4. ReceiversShape'
    BY <1>i, <2>1, <2>3 DEF ReceiversShape
  <2> QED
    BY <1>i, <2>1, <2>4 DEF SerialInv
<1>12. CASE NextDriver \/ OpenPort \/ OpenThrows
  <2>1. PICK p \in Ports, driver \in 0..MaxDrivers : opening.object = p /\ opening.driver = driver
    BY <1>12, <1>i, <1>t DEF SerialTypeInv, OpeningState, NextDriver, OpenPort, OpenThrows
  <2>2. /\ opening.step \in {"next", "open"} /\ closing.step = "idle" /\ UNCHANGED closing
        /\ driver <= port[p].matched /\ (opening.step = "open" => driver >= 1)
    BY <1>12, <1>i, <2>1 DEF SerialTypeInv, NextDriver, OpenPort, OpenThrows
  <2>3. \A d \in Drivers : receiver[p][d] # "none" =>
          d <= driver /\ (opening.step = "open" => d < driver)
    BY <1>i, <2>1, <2>2 DEF ReceiversShape
  <2>4. CASE NextDriver
    <3>1. /\ driver < port[p].matched /\ opening.step = "next" /\ UNCHANGED receiver
          /\ opening' = [opening EXCEPT !.driver = driver + 1, !.step = "open"]
          /\ port' = [port EXCEPT ![p].state = "found"]
      BY <2>1, <2>4 DEF NextDriver
    <3>2. opening'.object = p /\ opening'.driver = driver + 1 /\ opening'.step = "open"
      BY <1>t, <2>1, <3>1 DEF OpeningState
    <3>3. /\ \A q \in Ports \ {p} : port'[q] = port[q]
          /\ port'[p].matched = port[p].matched /\ port'[p].state = "found"
      BY <1>t, <3>1 DEF PortState
    <3>4. \A d \in Drivers : port[p].matched = 1 => receiver[p][d] = "none"
      BY <1>n, <1>p, <2>1, <2>3, <3>1
    <3>5. \A d \in Drivers : receiver[p][d] # "none" => d < driver + 1
      BY <1>n, <2>1, <2>3
    <3>6. ReceiversShape'
      BY <1>i, <1>n, <3>1, <3>2, <3>3, <3>4, <3>5 DEF ReceiversShape, Active
    <3> QED
      BY <1>i, <2>2, <3>6 DEF SerialInv
  <2>5. CASE OpenPort
    <3>1. /\ opening.step = "open" /\ opening' = [opening EXCEPT !.step = "next"]
          /\ port' = [port EXCEPT ![p].state = "open", ![p].isProcessing = TRUE,
                                  ![p].receiverDataThread = driver]
          /\ receiver' = [receiver EXCEPT ![p][driver] = "test"]
      BY <2>1, <2>5 DEF OpenPort
    <3>2. opening'.object = p /\ opening'.driver = driver /\ opening'.step = "next"
      BY <1>t, <2>1, <3>1 DEF OpeningState
    <3>3. /\ \A q \in Ports \ {p} : port'[q] = port[q]
          /\ port'[p].matched = port[p].matched /\ port'[p].state = "open"
          /\ port'[p].receiverDataThread = driver
      BY <1>t, <3>1 DEF PortState
    <3>4. driver \in Drivers /\ receiver'[p][driver] = "test"
          /\ \A q \in Ports, d \in Drivers : <<q, d>> # <<p, driver>> => receiver'[q][d] = receiver[q][d]
      BY <1>t, <1>n, <2>1, <2>2, <3>1 DEF Drivers
    <3>5. \A d \in Drivers : port[p].matched = 1 /\ receiver'[p][d] # "none" => d = driver
      BY <1>n, <1>p, <2>1, <2>2, <2>3, <3>1, <3>4
    <3>6. \A d \in Drivers : receiver'[p][d] # "none" => d <= driver
      BY <1>n, <2>1, <2>3, <3>4
    <3>7. ReceiversShape'
      <4> SUFFICES ASSUME NEW q \in Ports, NEW d \in Drivers
                   PROVE  /\ receiver'[q][d] # "none" => d <= port'[q].matched /\ port'[q].state # "unmade"
                          /\ opening'.step # "idle" /\ opening'.object = q /\ receiver'[q][d] # "none" =>
                               d <= opening'.driver /\ (opening'.step = "open" => d < opening'.driver)
                          /\ port'[q].matched = 1 /\ Active(q, d)' =>
                               port'[q].state = "open" /\ port'[q].receiverDataThread = d
        BY DEF ReceiversShape
      <4>1. CASE q = p
        <5>1. receiver'[p][d] # "none" => d <= port[p].matched
          BY <1>n, <1>p, <2>1, <2>2, <3>6
        <5> QED
          BY <3>2, <3>3, <3>5, <3>6, <4>1, <5>1 DEF Active
      <4>2. CASE q # p
        BY <1>i, <3>2, <3>3, <3>4, <4>2 DEF ReceiversShape, Active
      <4> QED
        BY <4>1, <4>2
    <3> QED
      BY <1>i, <2>2, <3>7 DEF SerialInv
  <2>6. CASE OpenThrows
    <3>1. PICK s \in {"found", "open"} :
            /\ opening.step = "open" /\ port' = [port EXCEPT ![p].state = s]
            /\ UNCHANGED receiver /\ opening' = Opened
      BY <2>1, <2>6 DEF OpenThrows
    <3>2. opening'.step = "idle"
      BY <3>1, OpenedType
    <3>3. /\ \A q \in Ports \ {p} : port'[q] = port[q]
          /\ port'[p].matched = port[p].matched /\ port'[p].state = s
      BY <1>t, <3>1 DEF PortState
    <3>4. \A d \in Drivers : port[p].matched = 1 => receiver[p][d] = "none"
      BY <1>n, <1>p, <2>1, <2>2, <2>3, <3>1
    <3>5. ReceiversShape'
      BY <1>i, <3>1, <3>2, <3>3, <3>4 DEF ReceiversShape, Active
    <3> QED
      BY <1>i, <2>2, <3>5 DEF SerialInv
  <2> QED
    BY <1>12, <2>4, <2>5, <2>6
<1>13. CASE FinishConnect
  BY <1>0, <1>13, <1>i, OpenedType DEF FinishConnect, SerialTypeInv
<1> QED
  BY <1>1, <1>2, <1>3, <1>4, <1>5, <1>6, <1>7, <1>8, <1>9, <1>10, <1>11, <1>12, <1>13
     DEF SerialNext

\* However connects, failed opens, disconnects and receiver threads interleave, no receiver
\* reads or reports from a port that is closed, of a product that has one port; of two ports
\* of one product closeDevice (lines 34-40 of RuxorUsbDevice) joins one receiver only.
THEOREM ClosedPortsAreNotRead == SerialSpec => []NoReadOfClosedPort
<1>1. SerialInv => NoReadOfClosedPort
  BY DEF SerialInv, ReceiversShape, Active, NoReadOfClosedPort
<1> QED
  BY <1>1, SerialInvInit, SerialInvNext, PTL DEF SerialSpec

-----------------------------------------------------------------------------
(* UACAudioHandler.                                                         *)

LEMMA AudioTypeInit == AudioInit => AudioTypeOK
BY AudioConstants DEF AudioInit, AudioTypeOK, AudioMessages

Getters == [AudioClients -> GetterRecord]

Threads ==
  [pc: {"run", "loop", "init", "wait", "create", "release", "null", "quit", "end", "dead"},
   queue: Seq(AudioMessages), handle: {"none", "handler", "null"}, created: BOOLEAN,
   mIsReleased: BOOLEAN, posts: 0..MaxPosts]

\* What the audio thread does to the getters and to the lock.
LEMMA NotifyType ==
  ASSUME AudioTypeOK, NotifyAll
  PROVE  /\ getter' \in Getters
         /\ \A c \in AudioClients :
              /\ getter'[c].pc = "use" <=> getter[c].pc = "use"
              /\ getter'[c].pc = "send" <=> getter'[c].message # "none"
<1>1. \A c \in AudioClients :
        /\ getter'[c] \in GetterRecord
        /\ getter'[c].pc = "use" <=> getter[c].pc = "use"
        /\ getter'[c].pc = "send" <=> getter'[c].message # "none"
  BY DEF NotifyAll, AudioTypeOK, GetterRecord
<1> QED
  BY <1>1 DEF NotifyAll, Getters

\* A client goes on without mSync, which it has not.
LEMMA ClientMoves ==
  ASSUME AudioTypeOK, NEW c \in AudioClients, NEW g \in GetterRecord,
         getter[c].pc # "use", g.pc # "use", g.pc = "send" <=> g.message # "none",
         getter' = [getter EXCEPT ![c] = g],
         audioThread' \in Threads, UNCHANGED <<mUACAudio, mSync>>
  PROVE  AudioTypeOK'
<1>1. getter' \in Getters
  BY DEF AudioTypeOK, Getters, GetterRecord
<1>2. \A d \in AudioClients :
        /\ getter'[d].pc = "use" <=> getter[d].pc = "use"
        /\ getter'[d].pc = "send" <=> getter'[d].message # "none"
  BY DEF AudioTypeOK
<1> QED
  BY <1>1, <1>2 DEF AudioTypeOK, Getters, GetterRecord, Threads

LEMMA AudioTypeNext == AudioTypeOK /\ [AudioNext]_audioVars => AudioTypeOK'
<1> SUFFICES ASSUME AudioTypeOK, [AudioNext]_audioVars PROVE AudioTypeOK'
  OBVIOUS
<1>1. CASE UNCHANGED audioVars
  BY <1>1 DEF audioVars, AudioTypeOK
<1>2. CASE CreateHandler
  BY <1>2 DEF CreateHandler, AudioTypeOK
<1>3. ASSUME NEW c \in AudioClients, NEW m \in AudioMessages, CheckPost(c, m) PROVE AudioTypeOK'
  <2>1. PICK k \in 0..MaxPosts : k = audioThread.posts + 1
    BY <1>3, AudioConstants DEF CheckPost, AudioTypeOK
  <2>2. audioThread' = [audioThread EXCEPT !.posts = k]
    BY <1>3, <2>1 DEF CheckPost
  <2>3. audioThread' \in Threads
    BY <2>2 DEF AudioTypeOK, Threads
  <2>4. PICK g : g = [getter[c] EXCEPT !.pc = "send", !.message = m]
    OBVIOUS
  <2>5. g \in GetterRecord /\ g.pc = "send" /\ g.message # "none" /\ getter[c].pc = "idle"
    BY <1>3, <2>4 DEF CheckPost, AudioTypeOK, GetterRecord, AudioMessages
  <2>6. getter' = [getter EXCEPT ![c] = g]
    BY <1>3, <2>4 DEF CheckPost, AudioTypeOK
  <2> QED
    BY <1>3, <2>3, <2>5, <2>6, ClientMoves DEF CheckPost
<1>4. ASSUME NEW c \in AudioClients, NEW timed \in BOOLEAN, CallGetter(c, timed) PROVE AudioTypeOK'
  <2>1. PICK n \in 0..MaxGets : n = getter[c].calls + 1
    BY <1>4, AudioConstants DEF CallGetter, AudioTypeOK
  <2>2. PICK g : g = [getter[c] EXCEPT !.pc = "enter", !.timed = timed, !.calls = n]
    OBVIOUS
  <2>3. g \in GetterRecord /\ g.pc = "enter" /\ g.message = "none" /\ getter[c].pc = "idle"
    BY <1>4, <2>2 DEF CallGetter, AudioTypeOK, GetterRecord
  <2>4. getter' = [getter EXCEPT ![c] = g]
    BY <1>4, <2>1, <2>2 DEF CallGetter, AudioTypeOK
  <2>5. audioThread' \in Threads
    BY <1>4 DEF CallGetter, AudioTypeOK, Threads
  <2> QED
    BY <1>4, <2>3, <2>4, <2>5, ClientMoves DEF CallGetter
<1>5. ASSUME NEW c \in AudioClients, SendPost(c) PROVE AudioTypeOK'
  <2>1. getter[c].message \in AudioMessages /\ audioThread.queue \in Seq(AudioMessages)
    BY <1>5 DEF SendPost, AudioTypeOK
  <2>2. Append(audioThread.queue, getter[c].message) \in Seq(AudioMessages)
    BY <2>1
  <2>3. PICK q \in Seq(AudioMessages) : audioThread' = [audioThread EXCEPT !.queue = q]
    BY <1>5, <2>1, <2>2 DEF SendPost
  <2>4. audioThread' \in Threads
    BY <2>3 DEF AudioTypeOK, Threads
  <2>5. PICK g : g = [getter[c] EXCEPT !.pc = "idle", !.message = "none"]
    OBVIOUS
  <2>6. g \in GetterRecord /\ g.pc = "idle" /\ g.message = "none" /\ getter[c].pc = "send"
    BY <1>5, <2>5 DEF SendPost, AudioTypeOK, GetterRecord
  <2>7. getter' = [getter EXCEPT ![c] = g]
    BY <1>5, <2>5 DEF SendPost, AudioTypeOK
  <2> QED
    BY <1>5, <2>4, <2>6, <2>7, ClientMoves DEF SendPost
<1>6. ASSUME NEW c \in AudioClients,
             EnterGetter(c) \/ WaitTimesOut(c) \/ LeaveWait(c) \/ UseAudio(c)
      PROVE  AudioTypeOK'
  <2>1. PICK pc \in {"idle", "wait", "notified", "use"} : getter' = [getter EXCEPT ![c].pc = pc]
    BY <1>6 DEF EnterGetter, WaitTimesOut, LeaveWait, UseAudio
  <2>7. getter[c].pc # "send"
    BY <1>6 DEF EnterGetter, WaitTimesOut, LeaveWait, UseAudio
  <2>2. /\ getter' \in Getters /\ getter'[c].pc = pc
        /\ \A d \in AudioClients \ {c} : getter'[d] = getter[d]
    BY <2>1 DEF AudioTypeOK, Getters, GetterRecord
  <2>3. /\ pc = "use" => mSync = "free" /\ mSync' = c
        /\ pc # "use" => mSync' = IF mSync = c THEN "free" ELSE mSync
    <3>1. CASE EnterGetter(c)
      BY <2>2, <3>1 DEF EnterGetter, AudioTypeOK, Getters
    <3>2. CASE WaitTimesOut(c) \/ LeaveWait(c)
      BY <2>2, <3>2 DEF WaitTimesOut, LeaveWait, AudioTypeOK, Getters
    <3>3. CASE UseAudio(c)
      BY <2>2, <3>3 DEF UseAudio, AudioTypeOK, Getters
    <3> QED
      BY <1>6, <3>1, <3>2, <3>3
  <2>4. UNCHANGED <<audioThread, mUACAudio>>
    BY <1>6 DEF EnterGetter, WaitTimesOut, LeaveWait, UseAudio
  <2>5. \A d \in AudioClients : mSync' = d <=> getter'[d].pc = "use"
    BY <2>2, <2>3, AudioConstants DEF AudioTypeOK
  <2>6. mSync' \in AudioClients \cup {"free"}
    BY <2>3 DEF AudioTypeOK
  <2>8. \A d \in AudioClients : getter'[d].pc = "send" <=> getter'[d].message # "none"
    BY <2>1, <2>2, <2>7 DEF AudioTypeOK
  <2> QED
    BY <2>2, <2>4, <2>5, <2>6, <2>8 DEF AudioTypeOK, Getters, GetterRecord
<1>7. CASE SetHandler \/ MakeAudio \/ EndThread
  <2>1. NotifyAll /\ UNCHANGED mSync
    BY <1>7 DEF SetHandler, MakeAudio, EndThread
  <2>2. mUACAudio' \in {"null", "CREATED", "ERROR", "RUNNING", "STOPPED", "RELEASED"}
    BY <1>7 DEF SetHandler, MakeAudio, EndThread, AudioTypeOK
  <2>3. audioThread' \in
       [pc: {"run", "loop", "init", "wait", "create", "release", "null", "quit", "end", "dead"},
        queue: Seq(AudioMessages), handle: {"none", "handler", "null"}, created: BOOLEAN,
        mIsReleased: BOOLEAN, posts: 0..MaxPosts]
    BY <1>7 DEF SetHandler, MakeAudio, EndThread, ToPc, AudioTypeOK
  <2> QED
    BY <2>1, <2>2, <2>3, NotifyType DEF AudioTypeOK, Getters, GetterRecord
<1>8. CASE TakeInit \/ HandleStart \/ HandleStop \/ HandleRelease
  <2>1. audioThread.queue # <<>> /\ UNCHANGED <<mSync, getter>>
    BY <1>8 DEF TakeInit, HandleStart, HandleStop, HandleRelease, Take
  <2>2. Tail(audioThread.queue) \in Seq(AudioMessages)
    BY <2>1 DEF AudioTypeOK
  <2>3. PICK pc \in {"init", "loop", "release"} :
          audioThread' = [audioThread EXCEPT !.pc = pc, !.queue = Tail(audioThread.queue)]
    BY <1>8 DEF TakeInit, HandleStart, HandleStop, HandleRelease, Taken
  <2>4. mUACAudio' \in {"null", "CREATED", "ERROR", "RUNNING", "STOPPED", "RELEASED"}
    BY <1>8 DEF TakeInit, HandleStart, HandleStop, HandleRelease, Stopped, AudioTypeOK
  <2> QED
    BY <2>1, <2>2, <2>3, <2>4 DEF AudioTypeOK
<1>9. CASE HandleInit \/ InitWaitTimesOut \/ ReleaseAudio \/ ForgetAudio
  BY <1>9 DEF HandleInit, InitWaitTimesOut, ReleaseAudio, ForgetAudio, ToPc, AudioTypeOK
<1>10. CASE QuitLooper
  <2>1. /\ <<>> \in Seq(AudioMessages) /\ UNCHANGED <<mUACAudio, mSync, getter>>
        /\ audioThread' = [audioThread EXCEPT !.pc = "end", !.mIsReleased = TRUE, !.queue = <<>>]
    BY <1>10 DEF QuitLooper
  <2>2. audioThread' =
          [pc |-> "end", queue |-> <<>>, handle |-> audioThread.handle,
           created |-> audioThread.created, mIsReleased |-> TRUE, posts |-> audioThread.posts]
    BY <2>1 DEF AudioTypeOK
  <2> QED
    BY <2>1, <2>2 DEF AudioTypeOK
<1> QED
  BY <1>1, <1>2, <1>3, <1>4, <1>5, <1>6, <1>7, <1>8, <1>9, <1>10
     DEF AudioNext, AudioThreadStep, GetterStep

\* However many threads call getters while the audio thread makes and releases the object, the
\* states stay within their types, and a getter that uses the object is the one that holds
\* mSync: no two of them do at a time.
THEOREM AudioTypeCorrect == AudioSpec => []AudioTypeOK
<1> QED
  BY AudioTypeInit, AudioTypeNext, PTL DEF AudioSpec

\* An upper bound of the steps the audio thread has still to take: six for a message, and what
\* is left of the handling of the one it has taken.
AudioRest(pc) ==
  CASE pc = "init" -> 5
    [] pc = "release" -> 4
    [] pc \in {"wait", "null"} -> 3
    [] pc \in {"create", "quit"} -> 2
    [] pc \in {"run", "end"} -> 1
    [] OTHER -> 0

AudioWork == 6 * Len(audioThread.queue) + AudioRest(audioThread.pc)

\* Every step of the audio thread takes away from the work it has, also the wait of its own
\* init for an object that only it can make; only a message of the application adds to it
\* (UACAudioHandler.java, lines 121-319).
AudioWorkIsDone ==
  [][/\ AudioThreadStep => AudioWork' < AudioWork
     /\ AudioWork' > AudioWork => \E c \in AudioClients : SendPost(c)]_audioVars

LEMMA AudioRests ==
  /\ AudioRest("run") = 1 /\ AudioRest("loop") = 0 /\ AudioRest("init") = 5
  /\ AudioRest("wait") = 3 /\ AudioRest("create") = 2 /\ AudioRest("release") = 4
  /\ AudioRest("null") = 3 /\ AudioRest("quit") = 2 /\ AudioRest("end") = 1
  /\ AudioRest("dead") = 0
  /\ \A pc : AudioRest(pc) \in 0..5
BY DEF AudioRest

LEMMA AudioStepIsWorkDone ==
  ASSUME AudioTypeOK, AudioThreadStep
  PROVE  AudioWork' < AudioWork /\ AudioWork' \in Nat
<1> DEFINE old == audioThread.pc
           new == audioThread'.pc
           n   == Len(audioThread.queue)
           k   == Len(audioThread'.queue)
<1>1. n \in Nat /\ audioThread.queue \in Seq(AudioMessages)
  BY DEF AudioTypeOK
<1>2. \/ k = n /\ AudioRest(new) < AudioRest(old)
      \/ k \in 0..(n - 1)
      \/ k = 0 /\ AudioRest(new) < AudioRest(old)
  <2>1. CASE SetHandler
    BY <2>1, AudioRests DEF SetHandler, AudioTypeOK
  <2>2. CASE HandleInit
    <3>1. old = "init" /\ new \in {"wait", "loop", "create"} /\ k = n
      BY <2>2 DEF HandleInit, ToPc, AudioTypeOK
    <3> QED
      BY <3>1, AudioRests
  <2>3. CASE InitWaitTimesOut \/ MakeAudio
    BY <2>3, AudioRests DEF InitWaitTimesOut, MakeAudio, ToPc, AudioTypeOK
  <2>4. CASE TakeInit \/ HandleStart \/ HandleStop \/ HandleRelease
    <3>1. audioThread.queue # <<>> /\ audioThread'.queue = Tail(audioThread.queue)
      BY <2>4 DEF TakeInit, HandleStart, HandleStop, HandleRelease, Take, Taken, AudioTypeOK
    <3> QED
      BY <1>1, <3>1
  <2>5. CASE ReleaseAudio \/ ForgetAudio
    <3>1. /\ audioThread' = [audioThread EXCEPT !.pc = new]
          /\ <<old, new>> \in {<<"release", "null">>, <<"null", "quit">>}
      BY <2>5 DEF ReleaseAudio, ForgetAudio, ToPc, AudioTypeOK
    <3>2. k = n
      BY <3>1 DEF AudioTypeOK
    <3> QED
      BY <3>1, <3>2, AudioRests
  <2>6. CASE QuitLooper
    BY <2>6, AudioRests DEF QuitLooper, AudioTypeOK
  <2>7. CASE EndThread
    BY <2>7, AudioRests DEF EndThread, AudioTypeOK
  <2> QED
    BY <2>1, <2>2, <2>3, <2>4, <2>5, <2>6, <2>7 DEF AudioThreadStep
<1>3. AudioRest(old) \in 0..5 /\ AudioRest(new) \in 0..5
  BY AudioRests
<1>4. AudioWork = 6 * n + AudioRest(old) /\ AudioWork' = 6 * k + AudioRest(new)
  BY DEF AudioWork
<1> DEFINE a == AudioRest(old)
           b == AudioRest(new)
<1>5. /\ n \in Nat /\ k \in Nat /\ a \in 0..5 /\ b \in 0..5
      /\ AudioWork = 6 * n + a /\ AudioWork' = 6 * k + b
      /\ (k <= n /\ b < a) \/ k < n
  BY <1>1, <1>2, <1>3, <1>4
<1> HIDE DEF n, k, a, b
<1> QED
  BY <1>5

\* MessagesAreHandled without the fairness, for any number of messages and clients.
THEOREM AudioThreadGetsOn == AudioSpec => AudioWorkIsDone
<1> DEFINE Done == /\ AudioThreadStep => AudioWork' < AudioWork
                   /\ AudioWork' > AudioWork => \E c \in AudioClients : SendPost(c)
<1>1. ASSUME AudioTypeOK, [AudioNext]_audioVars
      PROVE  Done
  <2>1. AudioWork \in Nat
    BY AudioRests DEF AudioWork, AudioTypeOK
  <2>2. ASSUME ~AudioThreadStep, \A c \in AudioClients : ~SendPost(c)
        PROVE  AudioWork' = AudioWork
    <3>1. audioThread'.pc = audioThread.pc /\ audioThread'.queue = audioThread.queue
      BY <1>1, <2>2 DEF AudioNext, CreateHandler, CheckPost, CallGetter, GetterStep, EnterGetter,
         WaitTimesOut, LeaveWait, UseAudio, audioVars, AudioTypeOK
    <3> QED
      BY <3>1 DEF AudioWork
  <2>3. CASE AudioThreadStep
    BY <1>1, <2>1, <2>3, AudioStepIsWorkDone
  <2>4. CASE ~AudioThreadStep
    BY <2>1, <2>2, <2>4
  <2> QED
    BY <2>3, <2>4
<1>2. AudioTypeOK /\ [AudioNext]_audioVars => [Done]_audioVars
  BY <1>1
<1> QED
  BY <1>2, AudioTypeCorrect, PTL DEF AudioWorkIsDone, AudioSpec

\* A getter that waits while an init or a release is on its way keeps it on its way until it is
\* woken: no message is lost or handled without a notifyAll for the waiting getters.
WakeStaysDue ==
  [][\A c \in AudioClients :
       getter[c].pc = "wait" /\ OnItsWay => getter'[c].pc # "wait" \/ OnItsWay']_audioVars

LEMMA WakeStaysDueStep ==
  ASSUME AudioTypeOK, NoLostWakeup, [AudioNext]_audioVars,
         NEW c \in AudioClients, getter[c].pc = "wait", OnItsWay
  PROVE  getter'[c].pc # "wait" \/ OnItsWay'
<1> DEFINE queue == audioThread.queue
<1>1. queue \in Seq(AudioMessages) /\ mUACAudio = "null"
  BY DEF AudioTypeOK, NoLostWakeup
<1>2. ASSUME UNCHANGED audioThread
      PROVE  OnItsWay'
  BY <1>2 DEF OnItsWay
<1>3. ASSUME NotifyAll
      PROVE  getter'[c].pc # "wait"
  BY <1>3 DEF NotifyAll, AudioTypeOK
<1>4. CASE \/ UNCHANGED audioVars
           \/ \E d \in AudioClients :
                EnterGetter(d) \/ WaitTimesOut(d) \/ LeaveWait(d) \/ UseAudio(d)
  BY <1>2, <1>4 DEF audioVars, EnterGetter, WaitTimesOut, LeaveWait, UseAudio
<1>5. CASE \E d \in AudioClients : CallGetter(d, TRUE) \/ CallGetter(d, FALSE)
  BY <1>2, <1>5 DEF CallGetter
<1>6. CASE CreateHandler \/ \E d \in AudioClients, m \in AudioMessages : CheckPost(d, m)
  BY <1>6 DEF CreateHandler, CheckPost, OnItsWay, AudioTypeOK
<1>7. ASSUME NEW d \in AudioClients, SendPost(d)
      PROVE  OnItsWay'
  <2>1. /\ audioThread'.pc = audioThread.pc
        /\ audioThread'.queue = queue \/ audioThread'.queue = Append(queue, getter[d].message)
    BY <1>7 DEF SendPost, AudioTypeOK
  <2>2. \A i \in DOMAIN queue : i \in DOMAIN audioThread'.queue /\ audioThread'.queue[i] = queue[i]
    BY <1>1, <2>1
  <2> QED
    BY <2>1, <2>2 DEF OnItsWay
<1>8. CASE SetHandler \/ MakeAudio \/ EndThread
  BY <1>3, <1>8 DEF SetHandler, MakeAudio, EndThread
<1>9. CASE TakeInit \/ HandleRelease
  <2>1. audioThread'.pc \in {"init", "release"}
    BY <1>9 DEF TakeInit, HandleRelease, Taken, AudioTypeOK
  <2> QED
    BY <2>1 DEF OnItsWay
<1>10. CASE HandleStart \/ HandleStop
  <2>1. /\ queue # <<>> /\ Head(queue) \notin {"init", "release"}
        /\ audioThread'.queue = Tail(queue) /\ audioThread.pc = "loop"
    BY <1>10 DEF HandleStart, HandleStop, Take, Taken, AudioTypeOK
  <2>2. PICK i \in DOMAIN queue : queue[i] \in {"init", "release"}
    BY <2>1 DEF OnItsWay
  <2>3. i # 1 /\ i \in 1..Len(queue) /\ Len(queue) \in Nat
    BY <1>1, <2>1, <2>2
  <2>4. i - 1 \in DOMAIN audioThread'.queue /\ audioThread'.queue[i - 1] = queue[i]
    BY <1>1, <2>1, <2>3
  <2> QED
    BY <2>2, <2>4 DEF OnItsWay
<1>11. CASE HandleInit \/ InitWaitTimesOut \/ ReleaseAudio \/ ForgetAudio \/ QuitLooper
  <2>1. audioThread'.pc \in {"wait", "create", "null", "quit", "end"}
    BY <1>1, <1>11 DEF HandleInit, InitWaitTimesOut, ReleaseAudio, ForgetAudio, QuitLooper, ToPc,
       AudioTypeOK
  <2> QED
    BY <2>1 DEF OnItsWay
<1> QED
  BY <1>4, <1>5, <1>6, <1>7, <1>8, <1>9, <1>10, <1>11 DEF AudioNext, AudioThreadStep, GetterStep

\* GettersAreWoken without the fairness: with AudioThreadGetsOn, the audio thread comes to the
\* notifyAll that every getter waiting for it gets, with any number of clients and messages.
THEOREM WaitersKeepTheirWake == AudioSpec => WakeStaysDue
<1> DEFINE Due == \A c \in AudioClients :
                    getter[c].pc = "wait" /\ OnItsWay => getter'[c].pc # "wait" \/ OnItsWay'
<1>1. AudioTypeOK /\ NoLostWakeup /\ [AudioNext]_audioVars => [Due]_audioVars
  BY WakeStaysDueStep
<1> QED
  BY <1>1, AudioTypeCorrect, GettersMissNoWakeup, PTL DEF AudioSpec, WakeStaysDue

-----------------------------------------------------------------------------
(* KCameraSource, with the invariant that keeps its list and its callbacks   *)
(* together.                                                                *)

CallbackPcs == {"idle", "preview", "release", "deliver", "goneClose", "goneForget"}

CameraBackground ==
  [thread: {"none", "running", "quitting"}, pc: CallbackPcs,
   queue: Seq(Callbacks \X (Cameras \cup {NoCamera}))]

LEMMA CameraTypeInit == CameraInit => CameraTypeOK
<1>1. <<>> \in Seq(Callbacks \X (Cameras \cup {NoCamera}))
  OBVIOUS
<1> SUFFICES ASSUME CameraInit PROVE CameraTypeOK
  OBVIOUS
<1>2. background \in CameraBackground
  BY <1>1 DEF CameraInit, CameraBackground, CallbackPcs
<1>3. cameras \in [Cameras -> {"unused", "requested", "open", "gone", "closed"}]
  BY DEF CameraInit
<1>4. permits \in Nat /\ byteBufferStreamList \in 0..3
  BY DEF CameraInit
<1>5. app = "idle" /\ cameraDevice \in Cameras \cup {NoCamera}
  BY DEF CameraInit
<1>6. cameraCaptureSession \in BOOLEAN /\ imageReader \in BOOLEAN
  BY Zenon DEF CameraInit
<1> QED
  BY <1>2, <1>3, <1>4, <1>5, <1>6 DEF CameraTypeOK, CameraBackground, CallbackPcs

\* A callback that is posted, and one that is taken.
LEMMA CallbackPosted ==
  ASSUME CameraTypeOK, NEW what \in Callbacks, NEW c \in Cameras \cup {NoCamera}
  PROVE  Append(background.queue, <<what, c>>) \in Seq(Callbacks \X (Cameras \cup {NoCamera}))
<1>1. <<what, c>> \in Callbacks \X (Cameras \cup {NoCamera})
  OBVIOUS
<1>2. background.queue \in Seq(Callbacks \X (Cameras \cup {NoCamera}))
  BY DEF CameraTypeOK
<1> HIDE DEF Callbacks
<1> QED
  BY <1>1, <1>2

LEMMA CallbackTaken ==
  ASSUME CameraTypeOK, NEW what, NEW pc \in CallbackPcs,
         RunCallback(what, pc)
  PROVE  /\ background' \in CameraBackground
         /\ Head(background.queue)[2] \in Cameras \cup {NoCamera}
         /\ UNCHANGED app
<1>1. background.queue # <<>> /\ background.queue \in Seq(Callbacks \X (Cameras \cup {NoCamera}))
  BY DEF RunCallback, CameraTypeOK
<1>2. Head(background.queue) \in Callbacks \X (Cameras \cup {NoCamera})
  BY <1>1
<1>3. Tail(background.queue) \in Seq(Callbacks \X (Cameras \cup {NoCamera}))
  BY <1>1
<1>4. background' = [background EXCEPT !.pc = pc, !.queue = Tail(background.queue)]
  BY DEF RunCallback
<1>5. background' \in CameraBackground
  BY <1>3, <1>4 DEF CameraTypeOK, CameraBackground, CallbackPcs
<1>6. Head(background.queue)[2] \in Cameras \cup {NoCamera}
  BY <1>2
<1> QED
  BY <1>5, <1>6 DEF RunCallback

LEMMA NewSessionType ==
  ASSUME CameraTypeOK, NEW pc \in CallbackPcs, NewSession(pc)
  PROVE  /\ background' \in CameraBackground /\ cameraCaptureSession' = FALSE
         /\ UNCHANGED <<cameraDevice, imageReader, cameras, permits, byteBufferStreamList>>
<1>1. Append(background.queue, <<"configured", NoCamera>>) \in
        Seq(Callbacks \X (Cameras \cup {NoCamera}))
  BY CallbackPosted DEF Callbacks
<1>2. PICK q \in Seq(Callbacks \X (Cameras \cup {NoCamera})) :
        background' = [background EXCEPT !.pc = pc, !.queue = q]
  BY <1>1 DEF NewSession, CameraTypeOK
<1> QED
  BY <1>2 DEF NewSession, CameraTypeOK, CameraBackground, CallbackPcs

LEMMA DeviceClosedType ==
  ASSUME CameraTypeOK, DeviceClosed
  PROVE  cameras' \in [Cameras -> {"unused", "requested", "open", "gone", "closed"}]
BY DEF DeviceClosed, CameraTypeOK

LEMMA CameraTypeNext == CameraTypeOK /\ CameraInv /\ [CameraNext]_cameraVars => CameraTypeOK'
<1> SUFFICES ASSUME CameraTypeOK, CameraInv, [CameraNext]_cameraVars PROVE CameraTypeOK'
  OBVIOUS
<1> USE DEF fields, CallbackPcs
<1>1. byteBufferStreamList' \in 0..3
  BY CameraNextInv DEF CameraInv
<1>2. CASE UNCHANGED cameraVars
  BY <1>2 DEF cameraVars, CameraTypeOK
<1>3. ASSUME NEW c \in Cameras, CameraOpens(c) \/ CameraGoes(c) PROVE CameraTypeOK'
  <2>1. PICK what \in Callbacks, to \in {"open", "gone"} :
          /\ cameras' = [cameras EXCEPT ![c] = to] /\ Callback(what, c)
          /\ UNCHANGED <<app, fields, permits, byteBufferStreamList>>
    BY <1>3 DEF CameraOpens, CameraGoes, Service, Callbacks
  <2>2. Append(background.queue, <<what, c>>) \in Seq(Callbacks \X (Cameras \cup {NoCamera}))
    BY CallbackPosted
  <2>3. background' \in CameraBackground
    BY <2>1, <2>2 DEF Callback, CameraTypeOK, CameraBackground
  <2> QED
    BY <2>1, <2>3 DEF CameraTypeOK, CameraBackground
<1>4. CASE ImageComes
  <2>1. Append(background.queue, <<"image", NoCamera>>) \in Seq(Callbacks \X (Cameras \cup {NoCamera}))
    BY CallbackPosted DEF Callbacks
  <2>2. PICK q \in Seq(Callbacks \X (Cameras \cup {NoCamera})) :
          background' = [background EXCEPT !.queue = q]
    BY <1>4, <2>1 DEF ImageComes, Callback
  <2>3. background' \in CameraBackground
    BY <2>2 DEF CameraTypeOK, CameraBackground
  <2> QED
    BY <1>4, <2>3 DEF ImageComes, CameraTypeOK, CameraBackground
<1>5. CASE OpenBuiltIn
  BY <1>5 DEF OpenBuiltIn, CameraTypeOK
<1>6. CASE CloseBuiltIn \/ AcquirePermit \/ ReleasePermit
  BY <1>6 DEF CloseBuiltIn, AcquirePermit, ReleasePermit, CameraTypeOK
<1>7. CASE ClosePreviewSession \/ CloseImageReader \/ StartRecord
  BY <1>7 DEF ClosePreviewSession, CloseImageReader, StartRecord, CameraTypeOK
<1>8. CASE CloseCameraDevice
  BY <1>8, DeviceClosedType DEF CloseCameraDevice, CameraTypeOK
<1>9. CASE ForgetCameraDevice
  BY <1>9 DEF ForgetCameraDevice, CameraTypeOK
<1>10. CASE OnGoneCloses
  BY <1>10, DeviceClosedType DEF OnGoneCloses, CameraTypeOK
<1>11. CASE OnGoneForgets
  BY <1>11 DEF OnGoneForgets, CameraTypeOK
<1>12. CASE QuitSafely \/ JoinBackground \/ ClearFrames
  BY <1>12 DEF QuitSafely, JoinBackground, ClearFrames, CameraTypeOK
<1>13. CASE OnOpened
  BY <1>13, CallbackTaken DEF OnOpened, CameraTypeOK, CameraBackground
<1>14. CASE OnGone
  BY <1>14, CallbackTaken DEF OnGone, CameraTypeOK, CameraBackground
<1>15. CASE OnConfigured
  BY <1>15, CallbackTaken DEF OnConfigured, CameraTypeOK, CameraBackground
<1>16. CASE OnImage
  BY <1>1, <1>16, CallbackTaken DEF OnImage, CameraTypeOK, CameraBackground
<1>17. CASE StartLivePreview \/ StartRecordPreview \/ StopRecord
  <2>1. background.pc \in CallbackPcs /\ "release" \in CallbackPcs
    BY DEF CameraTypeOK, CallbackPcs
  <2>2. /\ background' \in CameraBackground /\ cameraCaptureSession' = FALSE
        /\ UNCHANGED <<cameraDevice, imageReader, cameras, permits, byteBufferStreamList>>
    BY <1>17, <2>1, NewSessionType DEF StartLivePreview, StartRecordPreview, StopRecord
  <2> QED
    BY <1>17, <2>2
       DEF StartLivePreview, StartRecordPreview, StopRecord, CameraTypeOK, CameraBackground
<1>18. CASE OnOpenedReleases \/ DeliverFrame
  BY <1>1, <1>18 DEF OnOpenedReleases, DeliverFrame, CameraTypeOK
<1> QED
  BY <1>2, <1>3, <1>4, <1>5, <1>6, <1>7, <1>8, <1>9, <1>10, <1>11, <1>12, <1>13, <1>14,
     <1>15, <1>16, <1>17, <1>18 DEF CameraNext, CloseStep, BackgroundStep

\* The camera's fields, callbacks and list stay within their types, the list within three
\* frames, also when the camera goes and is closed while callbacks are waiting.
THEOREM CameraTypeCorrect == CameraSpec => []CameraTypeOK
<1> QED
  BY CameraTypeInit, CameraTypeNext, CameraInitInv, CameraNextInv, PTL DEF CameraSpec

\* Only closeCamera takes a permit, and it gives it back; it quits the thread before it joins it.
CloseInv ==
  /\ app \notin {"session", "device", "forget", "reader", "release"} => permits > 0
  /\ app = "join" => background.thread = "quitting"

LEMMA CloseNextInv ==
  ASSUME CameraTypeOK, CameraInv, CloseInv, [CameraNext]_cameraVars
  PROVE  CloseInv'
<1>1. permits \in Nat
  BY DEF CameraTypeOK
<1>2. CASE UNCHANGED cameraVars
  BY <1>2 DEF CloseInv, cameraVars
<1>3. ASSUME NEW c \in Cameras, CameraOpens(c) \/ CameraGoes(c)
      PROVE  CloseInv'
  <2>1. UNCHANGED <<app, permits>> /\ background'.thread = background.thread
    BY <1>3 DEF CameraOpens, CameraGoes, Service, Callback, CameraInv
  <2> QED
    BY <2>1 DEF CloseInv
<1>4. CASE ImageComes \/ OpenBuiltIn \/ CloseBuiltIn \/ StartRecord
  BY <1>4 DEF ImageComes, Callback, OpenBuiltIn, CloseBuiltIn, StartRecord, CloseInv, CameraInv
<1>5. CASE AcquirePermit \/ ReleasePermit
  BY <1>1, <1>5 DEF AcquirePermit, ReleasePermit, CloseInv
<1>6. CASE ClosePreviewSession \/ CloseCameraDevice \/ ForgetCameraDevice \/ CloseImageReader
  BY <1>6 DEF ClosePreviewSession, CloseCameraDevice, ForgetCameraDevice, CloseImageReader,
     CloseInv
<1>7. CASE QuitSafely \/ JoinBackground \/ ClearFrames
  BY <1>7 DEF QuitSafely, JoinBackground, ClearFrames, CloseInv, CameraInv
<1>8. CASE StartRecordPreview \/ StopRecord \/ StartLivePreview
  <2>1. /\ permits' = permits /\ background'.thread = background.thread
        /\ app' \in {"idle", app}
    BY <1>8 DEF StartRecordPreview, StopRecord, StartLivePreview, NewSession, CameraInv
  <2>2. app' # app => app = "record"
    BY <1>8 DEF StartRecordPreview, StopRecord, StartLivePreview
  <2> QED
    BY <2>1, <2>2 DEF CloseInv
<1>9. CASE OnOpened \/ OnOpenedReleases \/ OnGone \/ OnGoneCloses \/ OnGoneForgets
           \/ OnConfigured \/ OnImage \/ DeliverFrame
  <2>1. /\ app' = app /\ background'.thread = background.thread
        /\ permits' \in {permits, permits + 1}
    BY <1>9 DEF OnOpened, OnOpenedReleases, OnGone, OnGoneCloses, OnGoneForgets, OnConfigured,
       OnImage, DeliverFrame,
       RunCallback, CameraInv
  <2> QED
    BY <1>1, <2>1 DEF CloseInv
<1> QED
  BY <1>2, <1>3, <1>4, <1>5, <1>6, <1>7, <1>8, <1>9 DEF CameraNext, CloseStep, BackgroundStep

LEMMA CloseInvHolds == CameraSpec => []CloseInv
<1>1. CameraInit => CloseInv
  BY DEF CameraInit, CloseInv
<1>2. CameraTypeOK /\ CameraInv /\ CloseInv /\ [CameraNext]_cameraVars => CloseInv'
  BY CloseNextInv
<1> QED
  BY <1>1, <1>2, CameraTypeCorrect, CameraInitInv, CameraNextInv, PTL DEF CameraSpec

\* The semaphore is free whenever closeCamera wants it: closeCamera is the only one to acquire
\* it, and one release of a callback more than was acquired does no harm (lines 185-201).
PermitIsThere == app = "acquire" => permits > 0

\* closeCamera never blocks on its semaphore, whatever callbacks ran between its calls.
THEOREM CloseGetsItsPermit == CameraSpec => []PermitIsThere
<1>1. CloseInv => PermitIsThere
  BY DEF CloseInv, PermitIsThere
<1> QED
  BY <1>1, CloseInvHolds, PTL

\* An upper bound of the steps the background thread has still to take.
CallbackRest(pc) ==
  CASE pc \in {"preview", "goneClose"} -> 2
    [] pc \in {"release", "deliver", "goneForget"} -> 1
    [] OTHER -> 0

CallbackWork == 3 * Len(background.queue) + CallbackRest(background.pc)

\* While closeCamera joins the background thread, the work of that thread is never added to, by
\* the camera service or by a callback, and each of its steps takes some away (lines 340-349).
CallbacksRunOut ==
  [][app = "join" =>
       /\ CallbackWork' <= CallbackWork
       /\ BackgroundStep => CallbackWork' < CallbackWork]_cameraVars

LEMMA CallbackRests ==
  /\ CallbackRest("idle") = 0 /\ CallbackRest("preview") = 2
  /\ CallbackRest("release") = 1 /\ CallbackRest("deliver") = 1
  /\ CallbackRest("goneClose") = 2 /\ CallbackRest("goneForget") = 1
  /\ \A pc : CallbackRest(pc) \in 0..2
BY DEF CallbackRest

LEMMA CallbackIsWorkDone ==
  ASSUME CameraTypeOK, NEW what, NEW pc \in {"idle", "preview", "deliver", "goneClose"},
         RunCallback(what, pc)
  PROVE  CallbackWork' < CallbackWork
<1>1. /\ background.queue \in Seq(Callbacks \X (Cameras \cup {NoCamera}))
      /\ background.queue # <<>> /\ background.pc = "idle"
  BY DEF RunCallback, CameraTypeOK
<1>2. Len(background.queue) \in Nat \ {0} /\ Len(Tail(background.queue)) = Len(background.queue) - 1
  BY <1>1
<1>3. background'.pc = pc /\ background'.queue = Tail(background.queue)
  BY DEF RunCallback, CameraTypeOK
<1>4. CallbackWork = 3 * Len(background.queue) + 0
  BY <1>1, CallbackRests DEF CallbackWork
<1>5. CallbackWork' = 3 * (Len(background.queue) - 1) + CallbackRest(pc)
  BY <1>2, <1>3 DEF CallbackWork
<1>6. CallbackRest(pc) \in 0..2
  BY CallbackRests
<1> QED
  BY <1>2, <1>4, <1>5, <1>6

\* CloseEnds without the fairness, for any number of callbacks: the join waits for a thread
\* whose work only gets less.
THEOREM JoinWaitsForLess == CameraSpec => CallbacksRunOut
<1> DEFINE Less == app = "join" => /\ CallbackWork' <= CallbackWork
                                   /\ BackgroundStep => CallbackWork' < CallbackWork
<1>1. ASSUME CameraTypeOK, CameraInv, CloseInv, [CameraNext]_cameraVars, app = "join"
      PROVE  /\ CallbackWork' <= CallbackWork
             /\ BackgroundStep => CallbackWork' < CallbackWork
  <2>1. /\ background.thread = "quitting" /\ Len(background.queue) \in Nat
        /\ background \in CameraBackground
    <3>1. background \in CameraBackground
      BY <1>1 DEF CameraTypeOK, CameraBackground, CallbackPcs
    <3>2. Len(background.queue) \in Nat
      BY <3>1 DEF CameraBackground
    <3> QED
      BY <1>1, <3>1, <3>2 DEF CloseInv
  <2>2. CallbackWork \in Nat
    BY <2>1, CallbackRests DEF CallbackWork
  <2>3. ASSUME background'.queue = background.queue, background'.pc = background.pc
        PROVE  CallbackWork' = CallbackWork
    BY <2>3 DEF CallbackWork
  <2>4. ASSUME BackgroundStep
        PROVE  CallbackWork' < CallbackWork
    <3>1. CASE OnOpened \/ OnGone \/ OnConfigured \/ OnImage
      BY <1>1, <3>1, CallbackIsWorkDone DEF OnOpened, OnGone, OnConfigured, OnImage
    <3>2. CASE StartLivePreview
      <4>1. /\ background.pc = "preview" /\ background'.pc = "release"
            /\ background'.queue = background.queue
        BY <2>1, <3>2 DEF StartLivePreview, NewSession, CameraBackground
      <4> QED
        BY <2>1, <4>1, CallbackRests DEF CallbackWork
    <3>3. CASE OnOpenedReleases \/ DeliverFrame
      <4>1. /\ background.pc \in {"release", "deliver"} /\ background'.pc = "idle"
            /\ background'.queue = background.queue
        BY <2>1, <3>3 DEF OnOpenedReleases, DeliverFrame, CameraBackground
      <4> QED
        BY <2>1, <4>1, CallbackRests DEF CallbackWork
    <3>4. CASE OnGoneCloses \/ OnGoneForgets
      <4>1. /\ background'.queue = background.queue
            /\ \/ background.pc = "goneClose" /\ background'.pc = "goneForget"
               \/ background.pc = "goneForget" /\ background'.pc = "idle"
        BY <2>1, <3>4 DEF OnGoneCloses, OnGoneForgets, CameraBackground
      <4> QED
        BY <2>1, <4>1, CallbackRests DEF CallbackWork
    <3> QED
      BY <2>4, <3>1, <3>2, <3>3, <3>4 DEF BackgroundStep
  <2>5. ASSUME ~BackgroundStep
        PROVE  background'.queue = background.queue /\ background'.pc = background.pc
    <3>1. CASE UNCHANGED cameraVars
      BY <3>1 DEF cameraVars
    <3>2. ASSUME NEW c \in Cameras, CameraOpens(c) \/ CameraGoes(c)
          PROVE  background' = background
      BY <2>1, <3>2 DEF CameraOpens, CameraGoes, Service, Callback
    <3>3. CASE JoinBackground
      BY <2>1, <3>3 DEF JoinBackground, CameraBackground
    <3>4. \/ JoinBackground \/ UNCHANGED cameraVars
          \/ \E c \in Cameras : CameraOpens(c) \/ CameraGoes(c)
      BY <1>1, <2>1, <2>5 DEF CameraNext, CloseStep, ImageComes, OpenBuiltIn, CloseBuiltIn,
         StartRecord, StartRecordPreview, StopRecord, AcquirePermit, ClosePreviewSession,
         CloseCameraDevice, ForgetCameraDevice, CloseImageReader, ReleasePermit, QuitSafely, ClearFrames
    <3> QED
      BY <3>1, <3>2, <3>3, <3>4
  <2>6. CASE BackgroundStep
    <3>1. CallbackWork' < CallbackWork
      BY <2>4, <2>6
    <3>2. CallbackWork' \in Nat
      <4>1. CameraTypeOK'
        BY <1>1, CameraTypeNext
      <4>2. Len(background'.queue) \in Nat
        BY <4>1 DEF CameraTypeOK
      <4> QED
        BY <4>2, CallbackRests DEF CallbackWork
    <3> QED
      BY <2>2, <3>1, <3>2
  <2>7. CASE ~BackgroundStep
    BY <2>2, <2>3, <2>5, <2>7
  <2> QED
    BY <2>6, <2>7
<1>2. CameraTypeOK /\ CameraInv /\ CloseInv /\ [CameraNext]_cameraVars => [Less]_cameraVars
  BY <1>1
<1> QED
  BY <1>2, CameraTypeCorrect, CameraInitInv, CameraNextInv, CloseInvHolds, PTL DEF CameraSpec, CallbacksRunOut

-----------------------------------------------------------------------------
(* KUVCCameraSource: every clone is of an open that is counted.             *)

UVCSourceTypeInv ==
  /\ UVCSourceTypeOK
  /\ frames.pc = "idle" => frames.size <= 2
  /\ clones.open + (IF source.permission = "asked" THEN 1 ELSE 0) <= source.opens

LEMMA UVCSourceTypeInit == UVCSourceInit => UVCSourceTypeInv
<1> SUFFICES ASSUME UVCSourceInit PROVE UVCSourceTypeInv
  OBVIOUS
<1>1. 0 \in 0..MaxOpens
  BY UVCSourceConstants
<1>2. source \in SourceRecord
  BY <1>1 DEF UVCSourceInit, SourceRecord
<1>3. clones \in [open: 0..MaxOpens, failed: 0..MaxOpens]
  BY <1>1 DEF UVCSourceInit
<1>4. frames \in [size: 0..3, pc: {"idle", "get", "remove"}]
  BY DEF UVCSourceInit
<1>5. uvcCamera \in CameraRecord
  BY DEF UVCSourceInit, CameraRecord
<1>6. UVCSourceTypeOK
  BY <1>2, <1>3, <1>4, <1>5 DEF UVCSourceInit, UVCSourceTypeOK, SourceRecord, CameraRecord
<1> QED
  BY <1>6 DEF UVCSourceInit, UVCSourceTypeInv

\* At most one clone more, which has not failed unless it is left.
LEMMA ConnectedType ==
  ASSUME UVCSourceTypeOK, ConnectUVCCamera
  PROVE  /\ uvcCamera' \in CameraRecord /\ usbControlBlock' \in {"null", "open", "closed"}
         /\ frames' = [frames EXCEPT !.size = 0]
         /\ \E o, f \in {0, 1} :
              f <= o /\ clones' = [open |-> clones.open + o, failed |-> clones.failed + f]
<1>1. clones = [open |-> clones.open, failed |-> clones.failed]
      /\ clones.open \in Nat /\ clones.failed \in Nat
  BY DEF UVCSourceTypeOK
<1>2. CASE UNCHANGED connection
  <2>1. clones' = [open |-> clones.open + 0, failed |-> clones.failed + 0]
    BY <1>1, <1>2 DEF connection
  <2> QED
    BY <1>2, <2>1 DEF ConnectUVCCamera, connection, UVCSourceTypeOK, CameraRecord
<1>3. CASE BlockOpened /\ UNCHANGED <<uvcCamera, clones>>
  <2>1. clones' = [open |-> clones.open + 0, failed |-> clones.failed + 0]
    BY <1>1, <1>3
  <2> QED
    BY <1>3, <2>1 DEF ConnectUVCCamera, BlockOpened, UVCSourceTypeOK, CameraRecord
<1>4. CASE /\ BlockOpened /\ UNCHANGED uvcCamera
           /\ clones' = [clones EXCEPT !.open = @ + 1, !.failed = @ + 1]
  <2>1. clones' = [open |-> clones.open + 1, failed |-> clones.failed + 1]
    BY <1>1, <1>4
  <2>2. uvcCamera' \in CameraRecord /\ usbControlBlock' \in {"null", "open", "closed"}
    BY <1>4 DEF BlockOpened, UVCSourceTypeOK, CameraRecord
  <2>3. frames' = [frames EXCEPT !.size = 0]
    BY DEF ConnectUVCCamera
  <2> QED
    BY <2>1, <2>2, <2>3
<1>5. ASSUME BlockOpened, clones' = [clones EXCEPT !.open = @ + 1],
             NEW sized \in BOOLEAN, NEW started \in BOOLEAN, NEW new,
             new = [state |-> "open", preview |-> FALSE, window |-> "none", callback |-> FALSE],
             uvcCamera' = IF sized THEN Shown(new, "reader", started) ELSE new
      PROVE  /\ uvcCamera' \in CameraRecord /\ usbControlBlock' = "open"
             /\ clones' = [open |-> clones.open + 1, failed |-> clones.failed + 0]
  <2>1. new \in CameraRecord
    BY <1>5 DEF CameraRecord
  <2>2. uvcCamera' \in CameraRecord
    BY <1>5, <2>1 DEF Shown, CameraRecord
  <2>3. clones' = [open |-> clones.open + 1, failed |-> clones.failed + 0]
    BY <1>1, <1>5
  <2> QED
    BY <1>5, <2>2, <2>3 DEF BlockOpened
<1>6. CASE /\ BlockOpened /\ clones' = [clones EXCEPT !.open = @ + 1]
           /\ \E sized, started \in BOOLEAN :
                LET new == [state |-> "open", preview |-> FALSE, window |-> "none",
                            callback |-> FALSE]
                IN  uvcCamera' = IF sized THEN Shown(new, "reader", started) ELSE new
  <2>1. /\ uvcCamera' \in CameraRecord /\ usbControlBlock' = "open"
        /\ clones' = [open |-> clones.open + 1, failed |-> clones.failed + 0]
    BY <1>5, <1>6
  <2> QED
    BY <2>1 DEF ConnectUVCCamera
<1> QED
  BY <1>2, <1>3, <1>4, <1>6 DEF ConnectUVCCamera

LEMMA UVCSourceTypeNext ==
  ASSUME UVCSourceTypeInv, UVCSourceInv, [UVCSourceNext]_uvcSourceVars
  PROVE  UVCSourceTypeInv'
<1> USE DEF connection, recording
<1>1. /\ UVCSourceTypeOK /\ frames.size \in 0..3 /\ source.opens \in 0..MaxOpens /\ MaxOpens \in Nat
      /\ clones.open \in 0..MaxOpens /\ clones.failed \in 0..MaxOpens
      /\ usbControlBlock \in {"null", "open", "closed"}
      /\ mediaRecorder \in {"null", "made", "started"}
  BY UVCSourceConstants DEF UVCSourceTypeInv, UVCSourceTypeOK
<1>2. /\ source \in SourceRecord /\ source' \in SourceRecord /\ uvcCamera' \in CameraRecord
      /\ isVideoRecording' \in BOOLEAN
  BY UVCSourceNextInv DEF UVCSourceInv, UVCShape
<1>3. frames' = [frames EXCEPT !.size = 0] =>
        /\ frames' \in [size: 0..3, pc: {"idle", "get", "remove"}] /\ frames'.size <= 2
  BY DEF UVCSourceTypeInv, UVCSourceTypeOK
\* What else the next state has to show.
<1>4. ASSUME usbControlBlock' \in {"null", "open", "closed"},
             mediaRecorder' \in {"null", "made", "started"},
             clones' \in [open: 0..MaxOpens, failed: 0..MaxOpens],
             clones'.open + (IF source'.permission = "asked" THEN 1 ELSE 0) <= source'.opens,
             frames' = frames \/ frames' = [frames EXCEPT !.size = 0]
      PROVE  UVCSourceTypeInv'
  <2>1. /\ frames' \in [size: 0..3, pc: {"idle", "get", "remove"}]
        /\ frames'.pc = "idle" => frames'.size <= 2
    BY <1>3, <1>4 DEF UVCSourceTypeInv, UVCSourceTypeOK
  <2> QED
    BY <1>2, <1>4, <2>1 DEF UVCSourceTypeInv, UVCSourceTypeOK, SourceRecord, CameraRecord
\* An open that comes to connectUVCCamera has room for one clone.
<1>5. ASSUME ConnectUVCCamera, uvcCamera.state # "open", UNCHANGED recording,
             source'.permission = "granted", clones.open + 1 <= source'.opens
      PROVE  UVCSourceTypeInv'
  <2>1. /\ usbControlBlock' \in {"null", "open", "closed"}
        /\ frames' = [frames EXCEPT !.size = 0]
        /\ \E o, f \in {0, 1} :
             f <= o /\ clones' = [open |-> clones.open + o, failed |-> clones.failed + f]
    BY <1>1, <1>5, ConnectedType
  <2>2. PICK o, f \in {0, 1} :
          f <= o /\ clones' = [open |-> clones.open + o, failed |-> clones.failed + f]
    BY <2>1
  <2>3. source'.opens \in 0..MaxOpens
    BY <1>2 DEF SourceRecord
  <2>4. clones.open = clones.failed
    BY <1>1, <1>5 DEF UVCSourceInv, OnlyFailedOpensLeak
  <2>5. clones' \in [open: 0..MaxOpens, failed: 0..MaxOpens] /\ clones'.open <= source'.opens
    BY <1>1, <1>5, <2>2, <2>3, <2>4
  <2>6. clones'.open + 0 <= source'.opens
    BY <1>1, <2>3, <2>5
  <2> QED
    BY <1>1, <1>4, <1>5, <2>1, <2>5, <2>6
<1>6. CASE UNCHANGED uvcSourceVars
  BY <1>6 DEF uvcSourceVars, UVCSourceTypeInv, UVCSourceTypeOK
<1>7. CASE OpenUVCCamera
  <2>1. /\ source'.opens = source.opens + 1
        /\ source'.permission = IF source.permission = "granted" THEN "granted" ELSE "asked"
    BY <1>2, <1>7 DEF OpenUVCCamera, SourceRecord
  <2>2. source.permission # "asked" /\ clones.open <= source.opens
    BY <1>1, <1>7 DEF OpenUVCCamera, UVCSourceTypeInv
  <2>3. CASE source.permission = "granted"
    BY <1>1, <1>5, <1>7, <2>1, <2>2, <2>3 DEF OpenUVCCamera
  <2>4. CASE source.permission # "granted"
    <3>1. frames' = [frames EXCEPT !.size = 0] /\ UNCHANGED <<connection, recording>>
      BY <1>7, <2>4 DEF OpenUVCCamera
    <3>2. clones.open + 1 <= source'.opens
      BY <1>1, <2>1, <2>2
    <3> QED
      BY <1>1, <1>4, <2>1, <2>4, <3>1, <3>2 DEF UVCSourceTypeOK
  <2> QED
    BY <2>3, <2>4
<1>8. CASE PermissionGranted
  <2>1. source'.opens = source.opens /\ source'.permission = "granted"
    BY <1>2, <1>8 DEF PermissionGranted, SourceRecord
  <2>2. uvcCamera.state # "open" /\ clones.open + 1 <= source.opens
    BY <1>8 DEF PermissionGranted, UVCSourceInv, UVCSourceTypeInv
  <2> QED
    BY <1>5, <1>8, <2>1, <2>2 DEF PermissionGranted
<1>9. ASSUME source'.opens = source.opens, source'.permission \in {source.permission, "none"},
             UNCHANGED <<usbControlBlock, clones>>,
             mediaRecorder' \in {mediaRecorder, "null", "made", "started"},
             frames' = frames \/ frames' = [frames EXCEPT !.size = 0]
      PROVE  UVCSourceTypeInv'
  <2>1. clones'.open + (IF source'.permission = "asked" THEN 1 ELSE 0) <= source'.opens
    BY <1>1, <1>9 DEF UVCSourceTypeInv
  <2> QED
    BY <1>1, <1>4, <1>9, <2>1 DEF UVCSourceTypeOK
<1>10. CASE PermissionDenied
  BY <1>2, <1>9, <1>10 DEF PermissionDenied, SourceRecord
<1>11. CASE StartRecordVideo
  <2>1. source'.opens = source.opens /\ source'.permission = source.permission
    BY <1>2, <1>11 DEF StartRecordVideo, SourceRecord
  <2>2. mediaRecorder' \in {"made", "started"} /\ UNCHANGED <<usbControlBlock, clones, frames>>
    BY <1>11 DEF StartRecordVideo
  <2> QED
    BY <1>9, <2>1, <2>2
<1>12. CASE StopRecordVideo \/ CloseUVCCamera
  <2>1. source'.opens = source.opens /\ source'.permission = source.permission
    BY <1>2, <1>12 DEF StopRecordVideo, CloseUVCCamera, SourceRecord
  <2>2. mediaRecorder' \in {mediaRecorder, "null"} /\ UNCHANGED <<usbControlBlock, clones, frames>>
    BY <1>12 DEF StopRecordVideo, CloseUVCCamera, RecorderReleased
  <2> QED
    BY <1>9, <2>1, <2>2
<1>13. CASE ShowOnReader \/ ClearStream
  <2>1. source'.opens = source.opens /\ source'.permission = source.permission
    BY <1>2, <1>13 DEF ShowOnReader, ClearStream, SourceRecord
  <2>2. UNCHANGED <<usbControlBlock, clones, mediaRecorder>>
    BY <1>13 DEF ShowOnReader, ClearStream
  <2>3. frames' = frames \/ frames' = [frames EXCEPT !.size = 0]
    BY <1>13 DEF ShowOnReader, ClearStream
  <2> QED
    BY <1>9, <2>1, <2>2, <2>3
<1>14. CASE CloseConnections
  <2>1. /\ source'.opens = source.opens /\ source'.permission = source.permission
        /\ UNCHANGED <<recording, frames>>
    BY <1>2, <1>14 DEF CloseConnections, SourceRecord
  <2>2. clones' \in [open: 0..MaxOpens, failed: 0..MaxOpens] /\ clones'.open <= clones.open
    <3>1. CASE uvcCamera.state = "open"
      <4>1. clones.open - 1 \in 0..MaxOpens
        BY <1>1, <3>1 DEF UVCSourceInv, OnlyFailedOpensLeak
      <4>2. clones' = [clones EXCEPT !.open = clones.open - 1]
        BY <1>14, <3>1 DEF CloseConnections
      <4> QED
        BY <1>1, <4>1, <4>2 DEF UVCSourceTypeOK
    <3>2. CASE uvcCamera.state # "open"
      BY <1>1, <1>14, <3>2 DEF CloseConnections, UVCSourceTypeOK
    <3> QED
      BY <3>1, <3>2
  <2>3. usbControlBlock' \in {"null", "open", "closed"}
    BY <1>1, <1>14 DEF CloseConnections, Closed
  <2>4. clones'.open + (IF source'.permission = "asked" THEN 1 ELSE 0) <= source'.opens
    BY <1>1, <2>1, <2>2 DEF UVCSourceTypeInv
  <2> QED
    BY <1>1, <1>4, <2>1, <2>2, <2>3, <2>4
<1>15. CASE AddFrame \/ GetFrame \/ RemoveFrame
  <2>1. /\ frames' \in [size: 0..3, pc: {"idle", "get", "remove"}]
        /\ frames'.pc = "idle" => frames'.size <= 2
    BY <1>1, <1>15 DEF AddFrame, GetFrame, RemoveFrame, UVCSourceTypeInv, UVCSourceTypeOK
  <2>2. UNCHANGED <<source, connection, recording>>
    BY <1>15 DEF AddFrame, GetFrame, RemoveFrame
  <2> QED
    BY <2>1, <2>2 DEF UVCSourceTypeInv, UVCSourceTypeOK
<1> QED
  BY <1>6, <1>7, <1>8, <1>10, <1>11, <1>12, <1>13, <1>14, <1>15 DEF UVCSourceNext

\* The camera, its recorder, its clones and its list of frames stay within their types: there
\* are never more clones than calls of openUVCCamera, nor more than three frames, although
\* opening and closing clear the list under the callback.
THEOREM UVCSourceTypeCorrect == UVCSourceSpec => []UVCSourceTypeOK
<1>1. UVCSourceTypeInv => UVCSourceTypeOK
  BY DEF UVCSourceTypeInv
<1>2. UVCSourceTypeInv /\ UVCSourceInv /\ [UVCSourceNext]_uvcSourceVars => UVCSourceTypeInv'
  BY UVCSourceTypeNext
<1> QED
  BY <1>1, <1>2, UVCSourceTypeInit, UVCSourceInitInv, UVCSourceNextInv, PTL DEF UVCSourceSpec
===============================================================================
