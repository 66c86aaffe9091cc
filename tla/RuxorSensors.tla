----------------------------- MODULE RuxorSensors -----------------------------
(***************************************************************************)
(* RuxorSensorDeviceImpl: the sensors of the application, one of which the  *)
(* task of a scheduled executor reads each second, in turn. connect and     *)
(* clear run on the application's thread and share the list, its size and   *)
(* the index of the next sensor with the task without a lock. An exception  *)
(* ends a scheduled task without a word: of the list, which has no such      *)
(* element, of a sensor whose file is empty, or of the listener. clear does  *)
(* not wait for a run in progress, which a task of a later executor may      *)
(* overlap.                                                                *)
(***************************************************************************)
EXTENDS Naturals

CONSTANT MaxConnects    \* bound: calls of connect

ASSUME SensorConstants == MaxConnects \in Nat

\* A task is named for the connect that scheduled it.
Tasks == 1..MaxConnects

VARIABLES
  sensors,     \* size of ruxorSensorDeviceArrayList
  sensorDeviceValue, nowCaptureSensorNumber,
  executor,    \* updateDataExecutorService: its task, 0 for null
  task,        \* where each task is, or what ended it
  caller,      \* the call the application is in
  history      \* calls of connect, whether clear was called, the sensor read last

sensorVars ==
  <<sensors, sensorDeviceValue, nowCaptureSensorNumber, executor, task, caller, history>>

SensorTypeOK ==
  /\ sensors \in 0..MaxConnects /\ sensorDeviceValue \in 0..MaxConnects
  /\ nowCaptureSensorNumber \in Nat
  /\ executor \in Tasks \cup {0}
  /\ task \in [Tasks ->
       {"none", "waiting", "value", "next", "wrap", "outOfList", "failed", "over"}]
  /\ caller \in {"idle", "size", "executor", "shutdown"}
  /\ history \in [connects: 0..MaxConnects, cleared: BOOLEAN, read: 0..MaxConnects]

SensorInit ==
  /\ sensors = 0 /\ sensorDeviceValue = 0 /\ nowCaptureSensorNumber = 0
  /\ executor = 0 /\ task = [e \in Tasks |-> "none"]
  /\ caller = "idle"
  /\ history = [connects |-> 0, cleared |-> FALSE, read |-> 0]

-----------------------------------------------------------------------------
(* The application.                                                        *)

\* connect: the list, then its size, then the executor.
ConnectSensor ==
  /\ caller = "idle" /\ history.connects < MaxConnects
  /\ sensors' = sensors + 1
  /\ caller' = "size"
  /\ history' = [history EXCEPT !.connects = @ + 1]
  /\ UNCHANGED <<sensorDeviceValue, nowCaptureSensorNumber, executor, task>>

\* Mutant: the size is counted ahead of the list.
CountSensorsAhead ==
  /\ caller = "size"
  /\ sensorDeviceValue' = sensors + 1
  /\ caller' = "executor"
  /\ UNCHANGED <<sensors, nowCaptureSensorNumber, executor, task, history>>

CountSensors ==
  /\ caller = "size"
  /\ sensorDeviceValue' = sensors
  /\ caller' = "executor"
  /\ UNCHANGED <<sensors, nowCaptureSensorNumber, executor, task, history>>

StartExecutor ==
  /\ caller = "executor"
  /\ caller' = "idle"
  /\ IF executor = 0
     THEN /\ executor' = history.connects
          /\ task' = [task EXCEPT ![history.connects] = "waiting"]
     ELSE UNCHANGED <<executor, task>>
  /\ UNCHANGED <<sensors, sensorDeviceValue, nowCaptureSensorNumber, history>>

\* clear: the list, then the executor; the size and the index stay.
ClearSensors ==
  /\ caller = "idle" /\ sensors > 0
  /\ sensors' = 0
  /\ caller' = "shutdown"
  /\ history' = [history EXCEPT !.cleared = TRUE]
  /\ UNCHANGED <<sensorDeviceValue, nowCaptureSensorNumber, executor, task>>

\* shutdown cancels a task that waits for its next run; a run in progress goes on.
Shutdown ==
  /\ caller = "shutdown"
  /\ executor' = 0
  /\ task' = [e \in Tasks |-> IF e = executor /\ task[e] = "waiting" THEN "over" ELSE task[e]]
  /\ caller' = "idle"
  /\ UNCHANGED <<sensors, sensorDeviceValue, nowCaptureSensorNumber, history>>

-----------------------------------------------------------------------------
(* updateValue.                                                            *)

\* The element at the index is in the list.
InList == nowCaptureSensorNumber < sensors

Goes(e, from, to) == task[e] = from /\ task' = [task EXCEPT ![e] = to]

ReadName(e) ==
  /\ Goes(e, "waiting", IF InList THEN "value" ELSE "outOfList")
  /\ UNCHANGED <<sensors, sensorDeviceValue, nowCaptureSensorNumber, executor, caller, history>>

Heard == history' = [history EXCEPT !.read = nowCaptureSensorNumber + 1]

\* getValue, and the listener hears of the sensor.
ReadValue(e) ==
  /\ Goes(e, "value", IF InList THEN "next" ELSE "outOfList")
  /\ IF InList THEN Heard ELSE UNCHANGED history
  /\ UNCHANGED <<sensors, sensorDeviceValue, nowCaptureSensorNumber, executor, caller>>

\* getValue throws for an empty file, whose line is null, or the listener throws.
ReadThrows(e) ==
  /\ InList
  /\ Goes(e, "value", "failed")
  /\ Heard \/ UNCHANGED history
  /\ UNCHANGED <<sensors, sensorDeviceValue, nowCaptureSensorNumber, executor, caller>>

NextSensor(e) ==
  /\ Goes(e, "next", "wrap")
  /\ nowCaptureSensorNumber' = nowCaptureSensorNumber + 1
  /\ UNCHANGED <<sensors, sensorDeviceValue, executor, caller, history>>

\* The task waits for its next run, unless its executor was shut down.
RunEnds(e) == Goes(e, "wrap", IF e = executor THEN "waiting" ELSE "over")

\* Mutant: the index wraps one sensor early.
WrapEarly(e) ==
  /\ RunEnds(e)
  /\ nowCaptureSensorNumber' =
       IF nowCaptureSensorNumber + 1 >= sensorDeviceValue THEN 0 ELSE nowCaptureSensorNumber
  /\ UNCHANGED <<sensors, sensorDeviceValue, executor, caller, history>>

Wrap(e) ==
  /\ RunEnds(e)
  /\ nowCaptureSensorNumber' =
       IF nowCaptureSensorNumber = sensorDeviceValue THEN 0 ELSE nowCaptureSensorNumber
  /\ UNCHANGED <<sensors, sensorDeviceValue, executor, caller, history>>

-----------------------------------------------------------------------------

ConnectStep == CountSensors \/ StartExecutor

TaskStep(e) == ReadName(e) \/ ReadValue(e) \/ ReadThrows(e) \/ NextSensor(e) \/ Wrap(e)

SensorNext ==
  \/ ConnectSensor \/ ConnectStep \/ ClearSensors \/ Shutdown
  \/ \E e \in Tasks : TaskStep(e)

SensorSpec == SensorInit /\ [][SensorNext]_sensorVars

-----------------------------------------------------------------------------
(* Properties.                                                             *)

\* Connecting sensors while a task runs never makes it read past the list: as long as clear
\* has not been called, a task that ended was ended by a sensor or by the listener.
TaskSurvivesConnects == (\E e \in Tasks : task[e] = "outOfList") => history.cleared

\* Every sensor is read again and again, unless clear is called or a sensor without a line in
\* its file, or the listener, has ended the task for all of them.
EverySensorIsRead ==
  \A i \in 1..MaxConnects :
    (sensors >= i /\ ~history.cleared)
      ~> (history.read = i \/ history.cleared \/ \E e \in Tasks : task[e] = "failed")
=============================================================================
