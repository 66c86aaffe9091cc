-------------------------- MODULE RuxorSerialDevices --------------------------
(***************************************************************************)
(* The serial ports of the application: RuxorSPDeviceImpl with its         *)
(* RuxorSPDevices (kind "serial") and RuxorUsbDeviceImpl with its          *)
(* RuxorUsbDevices (kind "usb").                                           *)
(*                                                                         *)
(* connect makes a new device object, opens its port, starts its receiver   *)
(* thread and puts it in the map under its name, over the object that was   *)
(* there. A USB device opens the port of every driver of its product in     *)
(* turn, and keeps the last port and the last receiver. Closing clears      *)
(* isProcessing, joins that receiver and closes that port. isProcessing is  *)
(* a plain field, so a receiver may go on with the value it saw before.     *)
(***************************************************************************)
EXTENDS Naturals

CONSTANTS
  Names,      \* what the maps are keyed by: a port's name, a USB device's name
  Ports,      \* identities of RuxorSPDevice and RuxorUsbDevice objects
  NoPort,     \* no object
  MaxDrivers  \* bound: drivers findAllDrivers finds for one product

ASSUME SerialConstants == NoPort \notin Ports /\ MaxDrivers \in Nat

\* Drivers of a product in the order they are found; of a serial port, its descriptor.
Drivers == 1..MaxDrivers

VARIABLES
  kind,            \* which of the two components
  deviceHashMap,   \* ruxorSPDeviceHashMap or ruxorUsbDeviceHashMap
  port,            \* the device objects, and how many drivers their product has
  receiver,        \* the receiver threads of each, one for a driver
  opening,         \* the object connect is opening, for which name, and how far
  closing,         \* the objects closeDevice has still to close, the first one in progress
  pending,         \* the USB device and the permission request it waits for
  permitted        \* USB devices the user has permitted

serialVars == <<kind, deviceHashMap, port, receiver, opening, closing, pending, permitted>>

SerialTypeOK ==
  /\ kind \in {"serial", "usb"}
  /\ deviceHashMap \in [Names -> Ports \cup {NoPort}]
  /\ port \in [Ports ->
       [state: {"unmade", "none", "found", "open", "closed"},
        isProcessing: BOOLEAN, matched: 0..MaxDrivers, receiverDataThread: 0..MaxDrivers]]
  /\ receiver \in [Ports -> [Drivers -> {"none", "test", "read", "listener", "done"}]]
  /\ opening \in [object: Ports \cup {NoPort}, name: Names \cup {NoPort},
                  driver: 0..MaxDrivers, step: {"idle", "next", "open"}]
  /\ closing \in [todo: SUBSET Ports, now: Ports \cup {NoPort},
                  step: {"idle", "join", "close"}, clear: BOOLEAN]
  /\ pending \in [device: Names \cup {NoPort}, asked: SUBSET Names]
  /\ permitted \subseteq Names

\* No connect in progress.
Opened == [object |-> NoPort, name |-> NoPort, driver |-> 0, step |-> "idle"]

SerialInit ==
  /\ kind \in {"serial", "usb"}
  /\ deviceHashMap = [n \in Names |-> NoPort]
  /\ port = [p \in Ports |-> [state |-> "unmade", isProcessing |-> TRUE, matched |-> 0,
                              receiverDataThread |-> 0]]
  /\ receiver = [p \in Ports |-> [d \in Drivers |-> "none"]]
  /\ opening = Opened
  /\ closing = [todo |-> {}, now |-> NoPort, step |-> "idle", clear |-> FALSE]
  /\ pending = [device |-> NoPort, asked |-> {}]
  /\ permitted = {}

-----------------------------------------------------------------------------
(* Connecting, on the application's thread; a USB device needs permission.  *)

\* No call of the application is in progress: connect, clear and disconnectDevice are
\* made one after the other.
NoCall ==
  closing.step = "idle" /\ closing.todo = {} /\ ~closing.clear /\ opening.step = "idle"

\* connect of the one, startConnect of the other, as far as the drivers of the product; a
\* serial port has one descriptor or none.
StartConnect(n) ==
  \E p \in Ports, matched \in 0..MaxDrivers :
    /\ port[p].state = "unmade"
    /\ p = CHOOSE q \in Ports : port[q].state = "unmade"
    /\ kind = "serial" => matched <= 1
    /\ port' = [port EXCEPT ![p].state = "none", ![p].matched = matched]
    /\ opening' = [object |-> p, name |-> n, driver |-> 0, step |-> "next"]

ConnectPort(n) ==
  /\ NoCall
  /\ kind = "usb" => n \in permitted
  /\ StartConnect(n)
  /\ UNCHANGED <<kind, deviceHashMap, receiver, closing, pending, permitted>>

\* openDevice takes the next driver: the object's port is that one's from here on, also for
\* the receiver of the driver before.
NextDriver ==
  /\ opening.step = "next" /\ opening.driver < port[opening.object].matched
  /\ opening' = [opening EXCEPT !.driver = @ + 1, !.step = "open"]
  /\ port' = [port EXCEPT ![opening.object].state = "found"]
  /\ UNCHANGED <<kind, deviceHashMap, receiver, closing, pending, permitted>>

\* The port is open and its receiver started; the one started before is forgotten.
OpenPort ==
  /\ opening.step = "open"
  /\ opening' = [opening EXCEPT !.step = "next"]
  /\ port' = [port EXCEPT ![opening.object].state = "open",
                          ![opening.object].isProcessing = TRUE,
                          ![opening.object].receiverDataThread = opening.driver]
  /\ receiver' = [receiver EXCEPT ![opening.object][opening.driver] = "test"]
  /\ UNCHANGED <<kind, deviceHashMap, closing, pending, permitted>>

\* open or setParameters of a USB port throws out of the call: the object is not put in the
\* map, and what it opened stays open.
OpenThrows ==
  /\ kind = "usb" /\ opening.step = "open"
  /\ opening' = Opened
  /\ \E s \in {"found", "open"} : port' = [port EXCEPT ![opening.object].state = s]
  /\ UNCHANGED <<kind, deviceHashMap, receiver, closing, pending, permitted>>

FinishConnect ==
  /\ opening.step = "next" /\ opening.driver = port[opening.object].matched
  /\ deviceHashMap' = [deviceHashMap EXCEPT ![opening.name] = opening.object]
  /\ opening' = Opened
  /\ UNCHANGED <<kind, port, receiver, closing, pending, permitted>>

\* Mutant: the pending device is forgotten as soon as it is asked for.
RequestPortForgets(n) ==
  /\ NoCall /\ kind = "usb" /\ n \notin permitted
  /\ pending' = [device |-> NoPort, asked |-> pending.asked \cup {n}]
  /\ UNCHANGED <<kind, deviceHashMap, port, receiver, opening, closing, permitted>>

\* connectDevice without permission: the one pending device is replaced.
RequestPort(n) ==
  /\ NoCall /\ kind = "usb" /\ n \notin permitted
  /\ pending' = [device |-> n, asked |-> pending.asked \cup {n}]
  /\ UNCHANGED <<kind, deviceHashMap, port, receiver, opening, closing, permitted>>

\* The receiver of the permission connects the device that is pending now, whichever
\* device the permission is for, and asks again when that one has none.
GrantPort(n) ==
  /\ NoCall /\ n \in pending.asked
  /\ permitted' = permitted \cup {n}
  /\ IF pending.device \in permitted'
     THEN /\ StartConnect(pending.device)
          /\ pending' = [pending EXCEPT !.asked = @ \ {n}]
     ELSE /\ pending' = [pending EXCEPT !.asked = (@ \ {n}) \cup {pending.device}]
          /\ UNCHANGED <<port, opening>>
  /\ UNCHANGED <<kind, deviceHashMap, receiver, closing>>

DenyPort(n) ==
  /\ NoCall /\ n \in pending.asked
  /\ pending' = [pending EXCEPT !.asked = @ \ {n}]
  /\ UNCHANGED <<kind, deviceHashMap, port, receiver, opening, closing, permitted>>

-----------------------------------------------------------------------------
(* Closing.                                                                *)

Mapped == {deviceHashMap[n] : n \in Names} \ {NoPort}

\* RuxorSPDeviceImpl.clear closes every device of the map and empties it.
ClearPorts ==
  /\ NoCall /\ kind = "serial" /\ Mapped # {}
  /\ closing' = [closing EXCEPT !.todo = Mapped, !.clear = TRUE]
  /\ UNCHANGED <<kind, deviceHashMap, port, receiver, opening, pending, permitted>>

\* RuxorUsbDeviceImpl.disconnectDevice closes one and leaves it in the map.
DisconnectPort(n) ==
  /\ NoCall /\ kind = "usb" /\ deviceHashMap[n] # NoPort
  /\ closing' = [closing EXCEPT !.todo = {deviceHashMap[n]}]
  /\ UNCHANGED <<kind, deviceHashMap, port, receiver, opening, pending, permitted>>

\* closeDevice of a RuxorSPDevice without a descriptor does nothing.
CloseDevice(p) ==
  /\ closing.step = "idle" /\ p \in closing.todo
  /\ IF kind = "serial" /\ port[p].state = "none"
     THEN closing' = [closing EXCEPT !.todo = @ \ {p}] /\ UNCHANGED port
     ELSE /\ port' = [port EXCEPT ![p].isProcessing = FALSE]
          /\ closing' = [closing EXCEPT !.todo = @ \ {p}, !.now = p, !.step = "join"]
  /\ UNCHANGED <<kind, deviceHashMap, receiver, opening, pending, permitted>>

\* Mutant: the receiver is not joined.
JoinNobody ==
  /\ closing.step = "join"
  /\ closing' = [closing EXCEPT !.step = "close"]
  /\ UNCHANGED <<kind, deviceHashMap, port, receiver, opening, pending, permitted>>

\* join waits for the receiver started last.
JoinReceiver ==
  /\ closing.step = "join"
  /\ \A d \in Drivers :
       port[closing.now].receiverDataThread = d => receiver[closing.now][d] = "done"
  /\ port' = [port EXCEPT ![closing.now].receiverDataThread = 0]
  /\ closing' = [closing EXCEPT !.step = "close"]
  /\ UNCHANGED <<kind, deviceHashMap, receiver, opening, pending, permitted>>

ClosePort ==
  /\ closing.step = "close"
  /\ port' = [port EXCEPT ![closing.now].state = IF @ = "open" THEN "closed" ELSE @]
  /\ closing' = [closing EXCEPT !.now = NoPort, !.step = "idle"]
  /\ UNCHANGED <<kind, deviceHashMap, receiver, opening, pending, permitted>>

\* Mutant: the map is emptied before its devices are closed.
ClearMapFirst ==
  /\ closing.clear /\ closing.step = "idle"
  /\ deviceHashMap' = [n \in Names |-> NoPort]
  /\ closing' = [closing EXCEPT !.clear = FALSE, !.todo = {}]
  /\ UNCHANGED <<kind, port, receiver, opening, pending, permitted>>

ClearMap ==
  /\ closing.clear /\ closing.step = "idle" /\ closing.todo = {}
  /\ deviceHashMap' = [n \in Names |-> NoPort]
  /\ closing' = [closing EXCEPT !.clear = FALSE]
  /\ UNCHANGED <<kind, port, receiver, opening, pending, permitted>>

-----------------------------------------------------------------------------
(* receiveRunnableTask, on the threads of an open device. An exception of   *)
(* the read or of the listener is not caught and ends the thread.          *)

Receiver(p, d, from, to) ==
  /\ receiver[p][d] = from
  /\ receiver' = [receiver EXCEPT ![p][d] = to]
  /\ UNCHANGED <<kind, deviceHashMap, port, opening, closing, pending, permitted>>

TestProcessing(p, d) ==
  \/ Receiver(p, d, "test", "read")
  \/ ~port[p].isProcessing /\ Receiver(p, d, "test", "done")

\* A USB read gives up after 50 ms, and one of a serial port may bring nothing.
ReadPort(p, d) == \E to \in {"listener", "test", "done"} : Receiver(p, d, "read", to)

TellListener(p, d) == \E to \in {"test", "done"} : Receiver(p, d, "listener", to)

-----------------------------------------------------------------------------

ReceiverStep(p, d) == TestProcessing(p, d) \/ ReadPort(p, d) \/ TellListener(p, d)

SerialNext ==
  \/ \E n \in Names :
       ConnectPort(n) \/ RequestPort(n) \/ GrantPort(n) \/ DenyPort(n) \/ DisconnectPort(n)
  \/ NextDriver \/ OpenPort \/ OpenThrows \/ FinishConnect
  \/ ClearPorts \/ JoinReceiver \/ ClosePort \/ ClearMap
  \/ \E p \in Ports : CloseDevice(p)
  \/ \E p \in Ports, d \in Drivers : ReceiverStep(p, d)

SerialSpec == SerialInit /\ [][SerialNext]_serialVars

-----------------------------------------------------------------------------
(* Properties.                                                             *)

\* Where a product has one port, the receiver thread of a device is over before its port is
\* closed: no port is read and no data reported once it is closed, or before it is open,
\* whichever value of isProcessing the thread saw. With two ports of one product the loop of
\* RuxorUsbDevice.openDevice starts two receivers, of which closeDevice joins one: nothing is
\* claimed of such a device.
NoReadOfClosedPort ==
  \A p \in Ports, d \in Drivers :
    port[p].matched = 1 /\ receiver[p][d] \in {"test", "read", "listener"} =>
      port[p].state = "open"

\* When RuxorSPDeviceImpl.clear is over, only objects that a later connect of the same
\* name had replaced are still open.
ClearClosesTheMap ==
  [][closing.clear /\ ~closing'.clear => \A p \in Mapped : port[p].state # "open"]_serialVars
=============================================================================
