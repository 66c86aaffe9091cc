---------------------------- MODULE ComponentsProof ----------------------------
(***************************************************************************)
(* Theorems about the components that share no state, each for every value *)
(* of its constants and by an inductive invariant of its own.              *)
(***************************************************************************)
EXTENDS UACAudioHandler, RuxorSerialDevices, RuxorSensors, KCameraSource, KCameraAutoCloseable,
        KUVCCameraSource, FiniteSetTheorems, TLAPS

-----------------------------------------------------------------------------
(* KCameraAutoCloseable: the count is the number of holders less one.      *)

CloseableInv ==
  /\ CloseableTypeOK
  /\ IsFiniteSet(holders) /\ mRefCount + 1 = Cardinality(holders)
  /\ mObject <=> mRefCount >= 0

LEMMA CloseableInitInv == CloseableInit => CloseableInv
<1>1. IsFiniteSet({Owner}) /\ Cardinality({Owner}) = 1
  BY FS_Singleton
<1> QED
  BY <1>1 DEF CloseableInit, CloseableInv, CloseableTypeOK

LEMMA CloseableNextInv == CloseableInv /\ [CloseableNext]_closeableVars => CloseableInv'
<1> SUFFICES ASSUME CloseableInv, [CloseableNext]_closeableVars PROVE CloseableInv'
  OBVIOUS
<1>1. CASE UNCHANGED closeableVars
  BY <1>1 DEF closeableVars, CloseableInv, CloseableTypeOK
<1>2. ASSUME NEW u \in Users, AndRetain(u) PROVE CloseableInv'
  <2>1. CASE mRefCount < 0
    BY <1>1, <1>2, <2>1 DEF AndRetain
  <2>2. CASE ~(mRefCount < 0)
    <3>1. /\ mRefCount' = mRefCount + 1 /\ holders' = holders \cup {u} /\ mObject' = mObject
          /\ u \notin holders
      BY <1>2, <2>2 DEF AndRetain
    <3>2. IsFiniteSet(holders') /\ Cardinality(holders') = Cardinality(holders) + 1
      BY <3>1, FS_AddElement DEF CloseableInv
    <3> QED
      BY <2>2, <3>1, <3>2 DEF CloseableInv, CloseableTypeOK
  <2> QED
    BY <2>1, <2>2
<1>3. ASSUME NEW u \in Users \cup {Owner}, CloseWrapped(u) PROVE CloseableInv'
  <2>1. u \in holders /\ holders' = holders \ {u}
    BY <1>3 DEF CloseWrapped
  <2>2. IsFiniteSet(holders') /\ Cardinality(holders') = Cardinality(holders) - 1
    BY <2>1, FS_RemoveElement DEF CloseableInv
  <2>3. Cardinality(holders) \in Nat /\ Cardinality(holders') \in Nat
    BY <2>2, FS_CardinalityType DEF CloseableInv
  <2>4. mRefCount >= 0 /\ mRefCount \in Int
    BY <2>2, <2>3 DEF CloseableInv, CloseableTypeOK
  <2>5. mRefCount' = mRefCount - 1 /\ mObject' = (mObject /\ mRefCount' >= 0)
    BY <1>3, <2>4 DEF CloseWrapped
  <2>6. mObject' \in BOOLEAN
    BY <2>5
  <2>7. mObject = TRUE
    BY <2>4 DEF CloseableInv, CloseableTypeOK
  <2>8. mObject' <=> mRefCount' >= 0
    BY <2>5, <2>7
  <2> QED
    BY <2>1, <2>2, <2>3, <2>4, <2>5, <2>6, <2>8 DEF CloseableInv, CloseableTypeOK
<1> QED
  BY <1>1, <1>2, <1>3 DEF CloseableNext

\* However many users retain the image and in whatever order they close it, it is closed
\* by the last close and not before.
THEOREM ImageIsHeld == CloseableSpec => []ObjectIsHeld
<1>1. CloseableInv => ObjectIsHeld
  <2> SUFFICES ASSUME CloseableInv PROVE mObject <=> holders # {}
    BY DEF ObjectIsHeld
  <2>1. Cardinality(holders) = 0 <=> holders = {}
    BY FS_EmptySet DEF CloseableInv
  <2>2. Cardinality(holders) \in Nat
    BY FS_CardinalityType DEF CloseableInv
  <2> QED
    BY <2>1, <2>2 DEF CloseableInv, CloseableTypeOK
<1> QED
  BY <1>1, CloseableInitInv, CloseableNextInv, PTL DEF CloseableSpec

-----------------------------------------------------------------------------
(* RuxorSensorDeviceImpl: while nothing was cleared, one task runs at most, *)
(* and its index lies inside the counted sensors, which lie inside the list. *)

\* Where a task can be before clear, and how far its index is then.
TaskShape(e) ==
  /\ e # executor => task[e] = "none"
  /\ task[e] \in {"waiting", "value", "next"} => nowCaptureSensorNumber < sensorDeviceValue
  /\ task[e] = "wrap" => nowCaptureSensorNumber <= sensorDeviceValue
  /\ task[e] \notin {"outOfList", "over"}

SensorInv ==
  /\ SensorTypeOK
  /\ sensors <= history.connects
  /\ caller \in {"size", "executor"} => history.connects > 0
  /\ ~history.cleared =>
       /\ sensorDeviceValue <= sensors
       /\ caller \in {"size", "executor"} => sensors > 0
       /\ caller = "executor" => sensorDeviceValue > 0
       /\ caller # "shutdown"
       /\ executor # 0 => sensorDeviceValue > 0
       /\ executor = 0 => nowCaptureSensorNumber = 0
       /\ \A e \in Tasks : TaskShape(e)

LEMMA SensorInitInv == SensorInit => SensorInv
BY SensorConstants DEF SensorInit, SensorInv, SensorTypeOK, TaskShape

\* A step of a task moves that task alone.
LEMMA TaskGoes ==
  ASSUME SensorTypeOK, NEW e \in Tasks, NEW from, NEW to, Goes(e, from, to)
  PROVE  /\ task[e] = from /\ task'[e] = to
         /\ \A x \in Tasks \ {e} : task'[x] = task[x]
         /\ to \in {"none", "waiting", "value", "next", "wrap", "outOfList", "failed", "over"} =>
              task' \in [Tasks ->
                {"none", "waiting", "value", "next", "wrap", "outOfList", "failed", "over"}]
BY DEF Goes, SensorTypeOK

LEMMA HeardType ==
  ASSUME SensorInv, InList, Heard \/ UNCHANGED history
  PROVE  /\ history' \in [connects: 0..MaxConnects, cleared: BOOLEAN, read: 0..MaxConnects]
         /\ history'.connects = history.connects /\ history'.cleared = history.cleared
         /\ history'.read \in {history.read, nowCaptureSensorNumber + 1}
         /\ Heard => history'.read = nowCaptureSensorNumber + 1
<1>1. /\ history \in [connects: 0..MaxConnects, cleared: BOOLEAN, read: 0..MaxConnects]
      /\ nowCaptureSensorNumber + 1 \in 0..MaxConnects
  BY SensorConstants DEF SensorInv, SensorTypeOK, InList
<1>2. PICK r \in 0..MaxConnects : r = nowCaptureSensorNumber + 1
  BY <1>1
<1> QED
  BY <1>1, <1>2 DEF Heard

LEMMA SensorNextInv == SensorInv /\ [SensorNext]_sensorVars => SensorInv'
<1> SUFFICES ASSUME SensorInv, [SensorNext]_sensorVars PROVE SensorInv'
  OBVIOUS
<1>t. SensorTypeOK /\ MaxConnects \in Nat /\ Tasks = 1..MaxConnects
  BY SensorConstants DEF SensorInv, Tasks
<1>1. CASE UNCHANGED sensorVars
  BY <1>1 DEF sensorVars, SensorInv, SensorTypeOK, TaskShape
<1>2. CASE ConnectSensor
  <2>1. /\ history' = [history EXCEPT !.connects = history.connects + 1]
        /\ history.connects + 1 \in 0..MaxConnects
    BY <1>2, <1>t DEF ConnectSensor, SensorTypeOK
  <2>2. /\ history' \in [connects: 0..MaxConnects, cleared: BOOLEAN, read: 0..MaxConnects]
        /\ history'.connects = history.connects + 1 /\ history'.cleared = history.cleared
    BY <1>t, <2>1 DEF SensorTypeOK
  <2> QED
    BY <1>2, <1>t, <2>2 DEF ConnectSensor, SensorInv, SensorTypeOK, TaskShape
<1>3. CASE CountSensors
  BY <1>3, <1>t DEF CountSensors, SensorInv, SensorTypeOK, TaskShape
<1>4. CASE StartExecutor
  <2>1. PICK n \in Tasks : n = history.connects
    BY <1>4, <1>t DEF StartExecutor, SensorInv, SensorTypeOK
  <2>2. CASE executor = 0
    <3>1. /\ executor' = n /\ task' = [task EXCEPT ![n] = "waiting"] /\ caller = "executor"
          /\ caller' = "idle"
          /\ UNCHANGED <<sensors, sensorDeviceValue, nowCaptureSensorNumber, history>>
      BY <1>4, <2>1, <2>2 DEF StartExecutor
    <3>2. task' \in [Tasks ->
            {"none", "waiting", "value", "next", "wrap", "outOfList", "failed", "over"}]
          /\ task'[n] = "waiting" /\ \A x \in Tasks \ {n} : task'[x] = task[x]
      BY <1>t, <3>1 DEF SensorTypeOK
    <3> QED
      BY <1>t, <2>1, <2>2, <3>1, <3>2 DEF SensorInv, SensorTypeOK, TaskShape
  <2>3. CASE executor # 0
    BY <1>4, <1>t, <2>3 DEF StartExecutor, SensorInv, SensorTypeOK, TaskShape
  <2> QED
    BY <2>2, <2>3
<1>5. CASE ClearSensors
  <2>1. history'.cleared = TRUE /\ history'.connects = history.connects
        /\ history' \in [connects: 0..MaxConnects, cleared: BOOLEAN, read: 0..MaxConnects]
    BY <1>5, <1>t DEF ClearSensors, SensorTypeOK
  <2> QED
    BY <1>5, <1>t, <2>1 DEF ClearSensors, SensorInv, SensorTypeOK
<1>6. CASE Shutdown
  <2>1. \A e \in Tasks :
          (IF e = executor /\ task[e] = "waiting" THEN "over" ELSE task[e]) \in
            {"none", "waiting", "value", "next", "wrap", "outOfList", "failed", "over"}
    BY <1>t DEF SensorTypeOK
  <2>2. task' \in [Tasks ->
          {"none", "waiting", "value", "next", "wrap", "outOfList", "failed", "over"}]
    BY <1>6, <2>1 DEF Shutdown
  <2> QED
    BY <1>6, <1>t, <2>2 DEF Shutdown, SensorInv, SensorTypeOK
<1>7. ASSUME NEW e \in Tasks, ReadName(e) PROVE SensorInv'
  <2>1. PICK to \in {"value", "outOfList"} :
          Goes(e, "waiting", to) /\ (to = "value" <=> InList)
    BY <1>7 DEF ReadName
  <2>2. UNCHANGED <<sensors, sensorDeviceValue, nowCaptureSensorNumber, executor, caller, history>>
    BY <1>7 DEF ReadName
  <2> QED
    BY <1>t, <2>1, <2>2, TaskGoes DEF SensorInv, SensorTypeOK, TaskShape, InList
<1>8. ASSUME NEW e \in Tasks, ReadValue(e) \/ ReadThrows(e) PROVE SensorInv'
  <2>1. PICK to \in {"next", "failed", "outOfList"} :
          /\ Goes(e, "value", to) /\ (to = "outOfList" => ~InList /\ UNCHANGED history)
          /\ to # "outOfList" => InList /\ (Heard \/ UNCHANGED history)
    BY <1>8 DEF ReadValue, ReadThrows
  <2>2. UNCHANGED <<sensors, sensorDeviceValue, nowCaptureSensorNumber, executor, caller>>
    BY <1>8 DEF ReadValue, ReadThrows
  <2>3. /\ history' \in [connects: 0..MaxConnects, cleared: BOOLEAN, read: 0..MaxConnects]
        /\ history'.connects = history.connects /\ history'.cleared = history.cleared
    BY <1>t, <2>1, HeardType DEF SensorTypeOK
  <2> QED
    BY <1>t, <2>1, <2>2, <2>3, TaskGoes DEF SensorInv, SensorTypeOK, TaskShape, InList
<1>9. ASSUME NEW e \in Tasks, NextSensor(e) PROVE SensorInv'
  <2>1. /\ Goes(e, "next", "wrap") /\ nowCaptureSensorNumber' = nowCaptureSensorNumber + 1
        /\ UNCHANGED <<sensors, sensorDeviceValue, executor, caller, history>>
    BY <1>9 DEF NextSensor
  <2>2. /\ task[e] = "next" /\ task'[e] = "wrap" /\ \A x \in Tasks \ {e} : task'[x] = task[x]
        /\ task' \in [Tasks ->
             {"none", "waiting", "value", "next", "wrap", "outOfList", "failed", "over"}]
    BY <1>t, <2>1, TaskGoes
  <2>3. nowCaptureSensorNumber \in Nat /\ sensorDeviceValue \in Nat
    BY <1>t DEF SensorTypeOK
  <2> QED
    BY <1>t, <2>1, <2>2, <2>3 DEF SensorInv, SensorTypeOK, TaskShape
<1>10. ASSUME NEW e \in Tasks, Wrap(e) PROVE SensorInv'
  <2>1. PICK to \in {"waiting", "over"} : Goes(e, "wrap", to) /\ (to = "waiting" <=> e = executor)
    BY <1>10 DEF Wrap, RunEnds
  <2>2. /\ task[e] = "wrap" /\ task'[e] = to /\ \A x \in Tasks \ {e} : task'[x] = task[x]
        /\ task' \in [Tasks ->
             {"none", "waiting", "value", "next", "wrap", "outOfList", "failed", "over"}]
    BY <1>t, <2>1, TaskGoes
  <2>3. /\ nowCaptureSensorNumber' =
             IF nowCaptureSensorNumber = sensorDeviceValue THEN 0 ELSE nowCaptureSensorNumber
        /\ UNCHANGED <<sensors, sensorDeviceValue, executor, caller, history>>
    BY <1>10 DEF Wrap
  <2>4. nowCaptureSensorNumber' \in Nat
    BY <1>t, <2>3 DEF SensorTypeOK
  <2>5. ~history.cleared =>
          /\ e = executor /\ sensorDeviceValue > 0 /\ nowCaptureSensorNumber <= sensorDeviceValue
          /\ nowCaptureSensorNumber' < sensorDeviceValue
    BY <1>t, <2>2, <2>3 DEF SensorInv, SensorTypeOK, TaskShape
  <2> QED
    BY <1>t, <2>1, <2>2, <2>3, <2>4, <2>5 DEF SensorInv, SensorTypeOK, TaskShape
<1> QED
  BY <1>1, <1>2, <1>3, <1>4, <1>5, <1>6, <1>7, <1>8, <1>9, <1>10
     DEF SensorNext, ConnectStep, TaskStep

\* Connecting sensors, at whatever moment of a run of the task, never sends its index out
\* of the list: until clear() only a sensor without a line or the listener ends the task.
THEOREM SensorTaskSurvives == SensorSpec => []TaskSurvivesConnects
<1>1. SensorInv => TaskSurvivesConnects
  BY DEF SensorInv, TaskShape, TaskSurvivesConnects
<1> QED
  BY <1>1, SensorInitInv, SensorNextInv, PTL DEF SensorSpec

\* The index, the counts and the place of the tasks stay within their types, also when clear()
\* and connect() are called between two steps of a task and a second one is started beside it.
THEOREM SensorTypeCorrect == SensorSpec => []SensorTypeOK
<1>1. SensorInv => SensorTypeOK
  BY DEF SensorInv
<1> QED
  BY <1>1, SensorInitInv, SensorNextInv, PTL DEF SensorSpec

\* The sensors are read in turn: each one that is read is the next of the list or the first, and
\* the index starts anew only when the last of the counted sensors has been read; a connect in
\* between neither skips a sensor nor starts the round anew (updateValue, lines 20-27).
SensorsInTurn ==
  [][~history.cleared =>
       /\ history'.read # history.read => history'.read \in {1, history.read + 1}
       /\ nowCaptureSensorNumber' < nowCaptureSensorNumber =>
            nowCaptureSensorNumber' = 0 /\ history.read = sensorDeviceValue]_sensorVars

\* Where the index is, relative to the sensor read last.
SensorRound ==
  ~history.cleared =>
    \A e \in Tasks :
      /\ task[e] \in {"waiting", "value"} => nowCaptureSensorNumber \in {0, history.read}
      /\ task[e] = "next" => history.read = nowCaptureSensorNumber + 1
      /\ task[e] = "wrap" => history.read = nowCaptureSensorNumber

LEMMA SensorRoundStep ==
  ASSUME SensorInv, SensorRound, [SensorNext]_sensorVars
  PROVE  /\ SensorRound'
         /\ ~history.cleared =>
              /\ history'.read # history.read => history'.read \in {1, history.read + 1}
              /\ nowCaptureSensorNumber' < nowCaptureSensorNumber =>
                   nowCaptureSensorNumber' = 0 /\ history.read = sensorDeviceValue
<1> DEFINE Goal == /\ SensorRound'
                   /\ ~history.cleared =>
                        /\ history'.read # history.read => history'.read \in {1, history.read + 1}
                        /\ nowCaptureSensorNumber' < nowCaptureSensorNumber =>
                             nowCaptureSensorNumber' = 0 /\ history.read = sensorDeviceValue
<1>t. /\ SensorTypeOK /\ nowCaptureSensorNumber \in Nat /\ sensorDeviceValue \in Nat
      /\ history.read \in Nat
  BY SensorConstants DEF SensorInv, SensorTypeOK
<1>o. ~history.cleared => \A x, y \in Tasks : task[x] # "none" /\ task[y] # "none" => x = y
  BY DEF SensorInv, TaskShape
<1>0. ASSUME UNCHANGED <<nowCaptureSensorNumber, task>>, history'.read = history.read,
             ~history'.cleared => ~history.cleared
      PROVE  Goal
  BY <1>0, <1>t DEF SensorRound
<1>1. CASE UNCHANGED sensorVars
  BY <1>0, <1>1 DEF sensorVars
<1>2. CASE ConnectSensor \/ ClearSensors
  <2>1. history'.read = history.read /\ (~history'.cleared => ~history.cleared)
        /\ UNCHANGED <<nowCaptureSensorNumber, task>>
    BY <1>2, <1>t DEF ConnectSensor, ClearSensors, SensorTypeOK
  <2> QED
    BY <1>0, <2>1
<1>3. CASE CountSensors
  BY <1>0, <1>3 DEF CountSensors
<1>4. CASE StartExecutor
  <2>1. CASE executor = 0
    <3>1. PICK n : n = history.connects
      OBVIOUS
    <3>2. task' = [task EXCEPT ![n] = "waiting"] /\ UNCHANGED <<nowCaptureSensorNumber, history>>
      BY <1>4, <2>1, <3>1 DEF StartExecutor
    <3>3. ~history.cleared => nowCaptureSensorNumber = 0
      BY <2>1 DEF SensorInv
    <3>4. \A x \in Tasks : task'[x] \in {task[x], "waiting"}
      BY <1>t, <3>2 DEF SensorTypeOK
    <3> QED
      BY <1>t, <3>2, <3>3, <3>4 DEF SensorRound
  <2>2. CASE executor # 0
    BY <1>0, <1>4, <2>2 DEF StartExecutor
  <2> QED
    BY <2>1, <2>2
<1>5. CASE Shutdown
  <2>1. history.cleared /\ UNCHANGED history
    BY <1>5 DEF Shutdown, SensorInv
  <2> QED
    BY <2>1 DEF SensorRound
<1>6. ASSUME NEW e \in Tasks, ReadName(e) PROVE Goal
  <2>1. PICK to \in {"value", "outOfList"} : Goes(e, "waiting", to)
    BY <1>6 DEF ReadName
  <2>2. UNCHANGED <<nowCaptureSensorNumber, history>>
    BY <1>6 DEF ReadName
  <2> QED
    BY <1>t, <2>1, <2>2, TaskGoes DEF SensorRound
<1>7. ASSUME NEW e \in Tasks, ReadValue(e) \/ ReadThrows(e) PROVE Goal
  <2>1. PICK to \in {"next", "failed", "outOfList"} :
          /\ Goes(e, "value", to)
          /\ to = "outOfList" => UNCHANGED history
          /\ to = "next" => InList /\ Heard
          /\ to = "failed" => InList /\ (Heard \/ UNCHANGED history)
    BY <1>7 DEF ReadValue, ReadThrows
  <2>2. UNCHANGED nowCaptureSensorNumber
    BY <1>7 DEF ReadValue, ReadThrows
  <2>3. /\ task[e] = "value" /\ task'[e] = to /\ \A x \in Tasks \ {e} : task'[x] = task[x]
    BY <1>t, <2>1, TaskGoes
  <2>4. /\ history'.cleared = history.cleared
        /\ history'.read \in {history.read, nowCaptureSensorNumber + 1}
        /\ to = "next" => history'.read = nowCaptureSensorNumber + 1
    BY <2>1, HeardType
  <2>5. ~history.cleared => nowCaptureSensorNumber \in {0, history.read}
    BY <2>3 DEF SensorRound
  <2>6. ~history.cleared => \A x \in Tasks \ {e} : task'[x] = "none"
    BY <1>o, <2>3
  <2>7. SensorRound'
    BY <2>1, <2>2, <2>3, <2>4, <2>6 DEF SensorRound
  <2> QED
    BY <1>t, <2>2, <2>4, <2>5, <2>7
<1>8. ASSUME NEW e \in Tasks, NextSensor(e) PROVE Goal
  <2>1. /\ Goes(e, "next", "wrap") /\ nowCaptureSensorNumber' = nowCaptureSensorNumber + 1
        /\ UNCHANGED history
    BY <1>8 DEF NextSensor
  <2>2. /\ task[e] = "next" /\ task'[e] = "wrap" /\ \A x \in Tasks \ {e} : task'[x] = task[x]
    BY <1>t, <2>1, TaskGoes
  <2>3. ~history.cleared => \A x \in Tasks \ {e} : task'[x] = "none"
    BY <1>o, <2>2
  <2> QED
    BY <1>t, <2>1, <2>2, <2>3 DEF SensorRound
<1>9. ASSUME NEW e \in Tasks, Wrap(e) PROVE Goal
  <2>1. PICK to \in {"waiting", "over"} : Goes(e, "wrap", to)
    BY <1>9 DEF Wrap, RunEnds
  <2>2. /\ nowCaptureSensorNumber' =
             IF nowCaptureSensorNumber = sensorDeviceValue THEN 0 ELSE nowCaptureSensorNumber
        /\ UNCHANGED history
    BY <1>9 DEF Wrap
  <2>3. /\ task[e] = "wrap" /\ task'[e] = to /\ \A x \in Tasks \ {e} : task'[x] = task[x]
    BY <1>t, <2>1, TaskGoes
  <2>4. ~history.cleared => \A x \in Tasks \ {e} : task'[x] = "none"
    BY <1>o, <2>3
  <2>5. ~history.cleared => history.read = nowCaptureSensorNumber
    BY <2>3 DEF SensorRound
  <2> QED
    BY <1>t, <2>1, <2>2, <2>3, <2>4, <2>5 DEF SensorRound
<1> QED
  BY <1>1, <1>2, <1>3, <1>4, <1>5, <1>6, <1>7, <1>8, <1>9 DEF SensorNext, ConnectStep, TaskStep

\* EverySensorIsRead without the fairness: whatever the task reads next, no sensor is left out,
\* with any number of sensors and connects at any moment of a run of the task.
THEOREM SensorsAreReadInTurn == SensorSpec => SensorsInTurn
<1> DEFINE InTurn ==
      ~history.cleared =>
        /\ history'.read # history.read => history'.read \in {1, history.read + 1}
        /\ nowCaptureSensorNumber' < nowCaptureSensorNumber =>
             nowCaptureSensorNumber' = 0 /\ history.read = sensorDeviceValue
<1>1. SensorInit => SensorRound
  BY DEF SensorInit, SensorRound
<1>2. SensorInv /\ SensorRound /\ [SensorNext]_sensorVars => SensorRound' /\ [InTurn]_sensorVars
  BY SensorRoundStep
<1> QED
  BY <1>1, <1>2, SensorInitInv, SensorNextInv, PTL DEF SensorSpec, SensorsInTurn

-----------------------------------------------------------------------------
(* KCameraSource: the list of frames is cleared only when there is no      *)
(* background thread, and without it no callback is running.               *)

CameraInv ==
  /\ background.thread = "none" => background.pc = "idle"
  /\ app = "clear" => background.thread = "none"
  /\ byteBufferStreamList \in 0..3
  /\ background.pc = "deliver" <=> byteBufferStreamList = 3
  /\ DOMAIN background = {"thread", "pc", "queue"}
  /\ background = [thread |-> background.thread, pc |-> background.pc,
                    queue |-> background.queue]

LEMMA CameraInitInv == CameraInit => CameraInv
BY DEF CameraInit, CameraInv

LEMMA CameraNextInv == CameraInv /\ [CameraNext]_cameraVars => CameraInv'
<1> SUFFICES ASSUME CameraInv, [CameraNext]_cameraVars PROVE CameraInv'
  OBVIOUS
<1> USE DEF CameraInv
<1>1. CASE UNCHANGED cameraVars
  BY <1>1 DEF cameraVars
<1>2. ASSUME NEW c \in Cameras, CameraOpens(c) \/ CameraGoes(c) PROVE CameraInv'
  BY <1>2 DEF CameraOpens, CameraGoes, Service, Callback
<1>3. CASE ImageComes
  BY <1>3 DEF ImageComes, Callback
<1>4. CASE OpenBuiltIn
  BY <1>4 DEF OpenBuiltIn
<1>5. CASE StartRecord \/ CloseBuiltIn \/ AcquirePermit \/ ClosePreviewSession \/ CloseCameraDevice
           \/ ForgetCameraDevice \/ CloseImageReader \/ ReleasePermit
  BY <1>5 DEF StartRecord, CloseBuiltIn, AcquirePermit, ClosePreviewSession, CloseCameraDevice,
              ForgetCameraDevice, CloseImageReader, ReleasePermit
<1>6. CASE QuitSafely
  BY <1>6 DEF QuitSafely
<1>7. CASE JoinBackground
  BY <1>7 DEF JoinBackground
<1>8. CASE ClearFrames
  BY <1>8 DEF ClearFrames
<1>9. CASE OnOpened \/ OnGone \/ OnConfigured
  BY <1>9 DEF OnOpened, OnGone, OnConfigured, RunCallback
<1>10. CASE StartLivePreview \/ StartRecordPreview \/ StopRecord
  BY <1>10 DEF StartLivePreview, StartRecordPreview, StopRecord, NewSession
<1>11. CASE OnOpenedReleases \/ OnGoneCloses \/ OnGoneForgets
  BY <1>11 DEF OnOpenedReleases, OnGoneCloses, OnGoneForgets
<1>12. CASE OnImage
  <2>1. CASE RunCallback("image", "idle") /\ UNCHANGED byteBufferStreamList
    BY <1>12, <2>1 DEF OnImage, RunCallback
  <2>2. CASE /\ RunCallback("image", IF byteBufferStreamList >= 2 THEN "deliver" ELSE "idle")
             /\ byteBufferStreamList' = byteBufferStreamList + 1
    <3>1. background.pc = "idle" /\ background.thread # "none" /\ app' = app
      BY <2>2 DEF RunCallback
    <3>2. byteBufferStreamList \in 0..2
      BY <3>1
    <3>3. background' = [background EXCEPT !.queue = Tail(@),
                           !.pc = IF byteBufferStreamList >= 2 THEN "deliver" ELSE "idle"]
      BY <2>2 DEF RunCallback
    <3>4. /\ background'.thread = background.thread
          /\ background'.pc = (IF byteBufferStreamList >= 2 THEN "deliver" ELSE "idle")
          /\ DOMAIN background' = DOMAIN background
      BY <3>3
    <3>5. background' = [thread |-> background'.thread, pc |-> background'.pc,
                         queue |-> background'.queue]
      BY <3>3
    <3> QED
      BY <2>2, <3>1, <3>2, <3>4, <3>5
  <2> QED
    BY <1>12, <2>1, <2>2 DEF OnImage
<1>13. CASE DeliverFrame
  BY <1>13 DEF DeliverFrame
<1> QED
  BY <1>1, <1>2, <1>3, <1>4, <1>5, <1>6, <1>7, <1>8, <1>9, <1>10, <1>11, <1>12, <1>13
     DEF CameraNext, CloseStep, BackgroundStep

\* However callbacks and closeCamera interleave, the frame the reader's callback delivers
\* is in the list it counted.
THEOREM DeliveredFramesAreThere == CameraSpec => []FramesAreThere
<1>1. CameraInv => FramesAreThere
  BY DEF CameraInv, FramesAreThere
<1> QED
  BY <1>1, CameraInitInv, CameraNextInv, PTL DEF CameraSpec

-----------------------------------------------------------------------------
(* UACAudioHandler: a getter waits only for an object there is not, and the *)
(* making of one leaves nobody waiting.                                    *)

GetterRecord == [pc: {"idle", "send", "enter", "wait", "notified", "use"},
                 message: AudioMessages \cup {"none"}, timed: BOOLEAN, calls: 0..MaxGets]

GetterType == getter \in [AudioClients -> GetterRecord]

AudioInv == GetterType /\ NoLostWakeup

LEMMA AudioInitInv == AudioInit => AudioInv
BY AudioConstants DEF AudioInit, AudioInv, GetterType, GetterRecord, NoLostWakeup

\* A getter or a post that goes on to another state, without waiting, keeps the invariant.
LEMMA GetterMoves ==
  ASSUME AudioInv, NEW c \in AudioClients, NEW g \in GetterRecord, g.pc # "wait",
         getter' = [getter EXCEPT ![c] = g], UNCHANGED mUACAudio
  PROVE  AudioInv'
<1>1. GetterType'
  BY DEF AudioInv, GetterType
<1>2. \A d \in AudioClients : getter'[d].pc = "wait" => getter[d].pc = "wait"
  BY DEF AudioInv, GetterType
<1> QED
  BY <1>1, <1>2 DEF AudioInv, NoLostWakeup

\* After notifyAll nobody waits.
LEMMA NotifyAllWakes ==
  ASSUME AudioInv, NotifyAll
  PROVE  AudioInv'
<1>1. \A d \in AudioClients : getter'[d] \in GetterRecord /\ getter'[d].pc # "wait"
  BY DEF NotifyAll, AudioInv, GetterType, GetterRecord
<1>2. GetterType'
  BY <1>1 DEF NotifyAll, GetterType
<1> QED
  BY <1>1, <1>2 DEF AudioInv, NoLostWakeup

LEMMA AudioNextInv == AudioInv /\ [AudioNext]_audioVars => AudioInv'
<1> SUFFICES ASSUME AudioInv, [AudioNext]_audioVars PROVE AudioInv'
  OBVIOUS
<1>1. ASSUME UNCHANGED getter, mUACAudio = "null" => mUACAudio' = "null" PROVE AudioInv'
  BY <1>1 DEF AudioInv, GetterType, NoLostWakeup
<1>2. CASE UNCHANGED audioVars
  BY <1>1, <1>2 DEF audioVars
<1>3. CASE CreateHandler
  BY <1>1, <1>3 DEF CreateHandler
<1>4. ASSUME NEW c \in AudioClients, NEW n \in AudioMessages, CheckPost(c, n) PROVE AudioInv'
  <2>1. [getter[c] EXCEPT !.pc = "send", !.message = n] \in GetterRecord
    BY DEF AudioInv, GetterType, GetterRecord
  <2>2. getter' = [getter EXCEPT ![c] = [getter[c] EXCEPT !.pc = "send", !.message = n]]
    BY <1>4 DEF CheckPost, AudioInv, GetterType
  <2>3. [getter[c] EXCEPT !.pc = "send", !.message = n].pc # "wait"
    BY DEF AudioInv, GetterType, GetterRecord
  <2> QED
    BY <1>4, <2>1, <2>2, <2>3, GetterMoves DEF CheckPost
<1>5. ASSUME NEW c \in AudioClients, NEW timed \in BOOLEAN, CallGetter(c, timed) PROVE AudioInv'
  <2>1. PICK n \in 0..MaxGets : n = getter[c].calls + 1
    BY <1>5, AudioConstants DEF CallGetter, AudioInv, GetterType, GetterRecord
  <2>2. getter' = [getter EXCEPT ![c] = [getter[c] EXCEPT !.pc = "enter", !.timed = timed,
                                                          !.calls = n]]
    BY <1>5, <2>1 DEF CallGetter, AudioInv, GetterType
  <2>3. [getter[c] EXCEPT !.pc = "enter", !.timed = timed, !.calls = n] \in GetterRecord
    BY DEF AudioInv, GetterType, GetterRecord
  <2>4. [getter[c] EXCEPT !.pc = "enter", !.timed = timed, !.calls = n].pc # "wait"
    BY DEF AudioInv, GetterType, GetterRecord
  <2> QED
    BY <1>5, <2>2, <2>3, <2>4, GetterMoves DEF CallGetter
<1>6. ASSUME NEW c \in AudioClients, EnterGetter(c) PROVE AudioInv'
  <2>1. CASE mUACAudio = "null"
    <3>1. getter' = [getter EXCEPT ![c].pc = "wait"] /\ mUACAudio' = "null"
      BY <1>6, <2>1 DEF EnterGetter
    <3>2. [getter[c] EXCEPT !.pc = "wait"] \in GetterRecord
      BY DEF AudioInv, GetterType, GetterRecord
    <3> QED
      BY <3>1, <3>2 DEF AudioInv, GetterType, NoLostWakeup
  <2>2. CASE mUACAudio # "null"
    <3>1. getter' = [getter EXCEPT ![c] = [getter[c] EXCEPT !.pc = "use"]]
      BY <1>6, <2>2 DEF EnterGetter, AudioInv, GetterType
    <3>2. /\ [getter[c] EXCEPT !.pc = "use"] \in GetterRecord
          /\ [getter[c] EXCEPT !.pc = "use"].pc # "wait"
      BY DEF AudioInv, GetterType, GetterRecord
    <3> QED
      BY <1>6, <3>1, <3>2, GetterMoves DEF EnterGetter
  <2> QED
    BY <2>1, <2>2
<1>7. ASSUME NEW c \in AudioClients, WaitTimesOut(c) \/ LeaveWait(c) \/ UseAudio(c) \/ SendPost(c)
      PROVE  AudioInv'
  <2>1. CASE SendPost(c)
    <3>1. /\ [getter[c] EXCEPT !.pc = "idle", !.message = "none"] \in GetterRecord
          /\ [getter[c] EXCEPT !.pc = "idle", !.message = "none"].pc # "wait"
      BY DEF AudioInv, GetterType, GetterRecord
    <3>2. getter' = [getter EXCEPT ![c] = [getter[c] EXCEPT !.pc = "idle", !.message = "none"]]
      BY <2>1 DEF SendPost, AudioInv, GetterType
    <3> QED
      BY <2>1, <3>1, <3>2, GetterMoves DEF SendPost
  <2>2. ASSUME NEW pc \in {"idle", "notified"}, getter' = [getter EXCEPT ![c].pc = pc],
               UNCHANGED mUACAudio
        PROVE  AudioInv'
    <3>1. /\ [getter[c] EXCEPT !.pc = pc] \in GetterRecord
          /\ [getter[c] EXCEPT !.pc = pc].pc # "wait"
      BY DEF AudioInv, GetterType, GetterRecord
    <3>2. getter' = [getter EXCEPT ![c] = [getter[c] EXCEPT !.pc = pc]]
      BY <2>2 DEF AudioInv, GetterType
    <3> QED
      BY <2>2, <3>1, <3>2, GetterMoves
  <2> QED
    BY <1>7, <2>1, <2>2 DEF WaitTimesOut, LeaveWait, UseAudio
<1>8. CASE SetHandler \/ MakeAudio \/ EndThread
  BY <1>8, NotifyAllWakes DEF SetHandler, MakeAudio, EndThread
<1>9. CASE TakeInit \/ HandleInit \/ InitWaitTimesOut \/ QuitLooper
  BY <1>1, <1>9 DEF TakeInit, HandleInit, InitWaitTimesOut, QuitLooper
<1>10. CASE HandleStart \/ HandleStop \/ HandleRelease
  BY <1>1, <1>10 DEF HandleStart, HandleStop, HandleRelease, Stopped
<1>11. CASE ReleaseAudio \/ ForgetAudio
  BY <1>1, <1>11 DEF ReleaseAudio, ForgetAudio
<1> QED
  BY <1>2, <1>3, <1>4, <1>5, <1>6, <1>7, <1>8, <1>9, <1>10, <1>11
     DEF AudioNext, AudioThreadStep, GetterStep

\* Whatever messages and getters race, no getter waits for an audio object that is there.
THEOREM GettersMissNoWakeup == AudioSpec => []NoLostWakeup
<1>1. AudioInv => NoLostWakeup
  BY DEF AudioInv
<1> QED
  BY <1>1, AudioInitInv, AudioNextInv, PTL DEF AudioSpec

-----------------------------------------------------------------------------
(* KUVCCameraSource: a recording is one of an open camera, or was started   *)
(* without one; a permission is awaited only while no camera is open; and a *)
(* call that is under way has ended the recording.                          *)

SourceRecord == [permission: {"none", "asked", "granted"},
                 call: {"none", "show", "showFirst", "clear", "close"},
                 opens: 0..MaxOpens, early: BOOLEAN]
CameraRecord == [state: {"null", "open", "closed"}, preview: BOOLEAN,
                 window: {"none", "reader", "recorder"}, callback: BOOLEAN]

UVCShape ==
  /\ source \in SourceRecord /\ uvcCamera \in CameraRecord
  /\ isVideoRecording \in BOOLEAN
  /\ clones \in [open: Int, failed: Int]

UVCSourceInv ==
  /\ UVCShape
  /\ source.permission = "asked" => uvcCamera.state # "open"
  /\ source.call # "none" => ~isVideoRecording
  /\ isVideoRecording /\ ~source.early => uvcCamera.state = "open"
  /\ uvcCamera.preview => uvcCamera.state = "open"
  /\ SurfaceOfMode
  /\ OnlyFailedOpensLeak

LEMMA UVCSourceInitInv == UVCSourceInit => UVCSourceInv
<1> SUFFICES ASSUME UVCSourceInit PROVE UVCSourceInv
  OBVIOUS
<1>1. source \in SourceRecord
  BY UVCSourceConstants DEF UVCSourceInit, SourceRecord
<1>2. uvcCamera \in CameraRecord /\ uvcCamera.preview = FALSE
  BY DEF UVCSourceInit, CameraRecord
<1>3. clones \in [open: Int, failed: Int] /\ OnlyFailedOpensLeak
  BY DEF UVCSourceInit, OnlyFailedOpensLeak
<1>4. isVideoRecording = FALSE /\ source.permission = "none"
  BY DEF UVCSourceInit
<1> QED
  BY <1>1, <1>2, <1>3, <1>4 DEF UVCSourceInv, UVCShape, SurfaceOfMode

\* The preview stops and starts again on a surface, if a camera is open.
LEMMA ShowGives ==
  ASSUME uvcCamera \in CameraRecord, NEW surface \in {"reader", "recorder"}, ShowAt(surface)
  PROVE  /\ uvcCamera' \in CameraRecord
         /\ uvcCamera'.state = uvcCamera.state
         /\ uvcCamera'.preview =>
              uvcCamera'.callback /\ uvcCamera'.window = surface /\ uvcCamera'.state = "open"
<1>1. PICK started \in BOOLEAN :
        uvcCamera' = Shown(PreviewStopped(uvcCamera), surface, started)
  BY DEF ShowAt
<1>2. PICK c : c = PreviewStopped(uvcCamera)
  OBVIOUS
<1>3. c \in CameraRecord /\ c.state = uvcCamera.state /\ c.preview = FALSE
  BY <1>2 DEF PreviewStopped, CameraRecord
<1> QED
  BY <1>1, <1>2, <1>3 DEF Shown, CameraRecord

\* Whatever connectUVCCamera comes to, when no camera was open before it.
LEMMA ConnectKeeps ==
  ASSUME UVCSourceInv, ConnectUVCCamera, uvcCamera.state # "open", UNCHANGED recording,
         source' \in SourceRecord, source'.permission = "granted",
         source'.call = source.call, source'.early = source.early
  PROVE  UVCSourceInv'
<1> USE DEF UVCSourceInv, UVCShape, SurfaceOfMode, OnlyFailedOpensLeak, recording
<1>1. CASE UNCHANGED <<uvcCamera, clones>>
  BY <1>1
<1>2. CASE /\ clones' = [clones EXCEPT !.open = @ + 1, !.failed = @ + 1]
           /\ UNCHANGED uvcCamera
  <2>1. /\ clones' \in [open: Int, failed: Int]
        /\ clones'.open = clones.open + 1 /\ clones'.failed = clones.failed + 1
    <3>1. clones \in [open: Int, failed: Int]
      OBVIOUS
    <3>2. PICK o \in Int, f \in Int : o = clones.open + 1 /\ f = clones.failed + 1
      BY <3>1
    <3>3. clones' = [[clones EXCEPT !.open = o] EXCEPT !.failed = f]
      BY <1>2, <3>1, <3>2
    <3> QED
      BY <3>1, <3>2, <3>3
  <2>2. OnlyFailedOpensLeak'
    <3>1. clones.open \in Int /\ clones.failed \in Int /\ uvcCamera' = uvcCamera
      BY <1>2
    <3>2. clones.open = clones.failed + (IF uvcCamera.state = "open" THEN 1 ELSE 0)
      OBVIOUS
    <3>3. clones'.open = clones'.failed + (IF uvcCamera.state = "open" THEN 1 ELSE 0)
      BY <2>1, <3>1, <3>2
    <3> QED
      BY <3>1, <3>3 DEF OnlyFailedOpensLeak
  <2>3. SurfaceOfMode'
    BY <1>2
  <2> QED
    BY <1>2, <2>1, <2>2, <2>3
<1>3. ASSUME clones' = [clones EXCEPT !.open = @ + 1],
             NEW sized \in BOOLEAN, NEW started \in BOOLEAN, NEW new,
             new = [state |-> "open", preview |-> FALSE, window |-> "none", callback |-> FALSE],
             uvcCamera' = IF sized THEN Shown(new, "reader", started) ELSE new
      PROVE  UVCSourceInv'
  <2>1. /\ clones' \in [open: Int, failed: Int]
        /\ clones'.open = clones.open + 1 /\ clones'.failed = clones.failed
    BY <1>3
  <2>2. /\ uvcCamera' \in CameraRecord
        /\ uvcCamera'.state = "open"
        /\ uvcCamera'.preview => uvcCamera'.callback /\ uvcCamera'.window = "reader"
    BY <1>3 DEF Shown, CameraRecord
  <2>3. isVideoRecording => source.early
    OBVIOUS
  <2>4. OnlyFailedOpensLeak'
    BY <2>1, <2>2
  <2>5. SurfaceOfMode'
    BY <2>2, <2>3
  <2> QED
    BY <2>1, <2>2, <2>3, <2>4, <2>5
<1> QED
  BY <1>1, <1>2, <1>3 DEF ConnectUVCCamera, connection

LEMMA UVCSourceNextInv == UVCSourceInv /\ [UVCSourceNext]_uvcSourceVars => UVCSourceInv'
<1> SUFFICES ASSUME UVCSourceInv, [UVCSourceNext]_uvcSourceVars PROVE UVCSourceInv'
  OBVIOUS
<1>1. CASE UNCHANGED <<source, uvcCamera, clones, recording>>
  BY <1>1 DEF UVCSourceInv, UVCShape, SurfaceOfMode, OnlyFailedOpensLeak, recording
<1>2. CASE UNCHANGED uvcSourceVars
  BY <1>1, <1>2 DEF uvcSourceVars, connection
<1>3. CASE AddFrame \/ GetFrame \/ RemoveFrame
  BY <1>1, <1>3 DEF AddFrame, GetFrame, RemoveFrame, connection
<1>4. CASE OpenUVCCamera
  <2>1. /\ source' \in SourceRecord
        /\ source'.call = source.call /\ source'.early = source.early
        /\ source'.permission = IF source.permission = "granted" THEN "granted" ELSE "asked"
    <3>1. source.opens + 1 \in 0..MaxOpens
      BY <1>4, UVCSourceConstants DEF OpenUVCCamera, UVCSourceInv, UVCShape, SourceRecord
    <3>2. source' = [source EXCEPT !.opens = source.opens + 1,
                       !.permission = IF source.permission = "granted" THEN source.permission ELSE "asked"]
      BY <1>4 DEF OpenUVCCamera
    <3> QED
      BY <3>1, <3>2 DEF UVCSourceInv, UVCShape, SourceRecord
  <2>2. CASE source.permission = "granted"
    BY <1>4, <2>1, <2>2, ConnectKeeps DEF OpenUVCCamera
  <2>3. CASE source.permission # "granted"
    <3>1. uvcCamera.state # "open" /\ UNCHANGED <<uvcCamera, clones, recording>>
      BY <1>4, <2>3 DEF OpenUVCCamera, connection
    <3> QED
      BY <2>1, <3>1 DEF UVCSourceInv, UVCShape, SurfaceOfMode, OnlyFailedOpensLeak, recording
  <2> QED
    BY <2>2, <2>3
<1>5. CASE PermissionGranted
  <2>1. /\ source' \in SourceRecord /\ source'.permission = "granted"
        /\ source'.call = source.call /\ source'.early = source.early
    BY <1>5 DEF PermissionGranted, UVCSourceInv, UVCShape, SourceRecord
  <2>2. uvcCamera.state # "open"
    BY <1>5 DEF PermissionGranted, UVCSourceInv
  <2> QED
    BY <1>5, <2>1, <2>2, ConnectKeeps DEF PermissionGranted
<1>6. CASE PermissionDenied
  <2>1. /\ source' \in SourceRecord /\ source'.permission = "none"
        /\ source'.call = source.call /\ source'.early = source.early
    BY <1>6 DEF PermissionDenied, UVCSourceInv, UVCShape, SourceRecord
  <2>2. UNCHANGED <<uvcCamera, clones, recording>>
    BY <1>6 DEF PermissionDenied, connection
  <2> QED
    BY <2>1, <2>2 DEF UVCSourceInv, UVCShape, SurfaceOfMode, OnlyFailedOpensLeak, recording
<1>7. CASE StartRecordVideo
  <2>1. /\ source.call = "none" /\ isVideoRecording = FALSE /\ UNCHANGED clones
        /\ uvcCamera \in CameraRecord /\ source \in SourceRecord
    BY <1>7 DEF StartRecordVideo, Ready, UVCSourceInv, UVCShape
  <2>2. CASE /\ uvcCamera' = PreviewStopped(uvcCamera)
             /\ mediaRecorder' = "made" /\ UNCHANGED <<source, isVideoRecording>>
    <3>1. /\ uvcCamera' \in CameraRecord /\ uvcCamera'.state = uvcCamera.state
          /\ uvcCamera'.preview = FALSE
      BY <2>1, <2>2 DEF PreviewStopped, CameraRecord
    <3> QED
      BY <2>1, <2>2, <3>1 DEF UVCSourceInv, UVCShape, SurfaceOfMode, OnlyFailedOpensLeak
  <2>3. CASE /\ ShowAt("recorder")
             /\ mediaRecorder' = "made" /\ UNCHANGED <<source, isVideoRecording>>
    BY <2>1, <2>3, ShowGives DEF UVCSourceInv, UVCShape, SurfaceOfMode, OnlyFailedOpensLeak
  <2>4. CASE /\ ShowAt("recorder")
             /\ mediaRecorder' = "started" /\ isVideoRecording' = TRUE
             /\ source' = [source EXCEPT !.early = uvcCamera.state # "open"]
    <3>1. PICK early \in BOOLEAN : early <=> uvcCamera.state # "open"
      OBVIOUS
    <3>2. source' = [source EXCEPT !.early = early]
      BY <2>4, <3>1
    <3>3. /\ source' \in SourceRecord /\ source'.early = early
          /\ source'.call = "none" /\ source'.permission = source.permission
      BY <2>1, <3>2 DEF SourceRecord
    <3>4. /\ uvcCamera' \in CameraRecord /\ uvcCamera'.state = uvcCamera.state
          /\ uvcCamera'.preview => /\ uvcCamera'.callback /\ uvcCamera'.window = "recorder"
                                   /\ uvcCamera'.state = "open"
      BY <2>1, <2>4, ShowGives
    <3> QED
      BY <2>1, <2>4, <3>1, <3>3, <3>4
         DEF UVCSourceInv, UVCShape, SurfaceOfMode, OnlyFailedOpensLeak
  <2> QED
    BY <1>7, <2>2, <2>3, <2>4 DEF StartRecordVideo
<1>8. CASE StopRecordVideo \/ CloseUVCCamera
  <2>1. PICK call \in {"show", "showFirst", "clear"} :
          /\ source' = [source EXCEPT !.early = FALSE, !.call = call]
          /\ call = "clear" => ~isVideoRecording
    BY <1>8 DEF StopRecordVideo, CloseUVCCamera
  <2>2. /\ source' \in SourceRecord /\ source'.call = call
        /\ source'.permission = source.permission
    BY <2>1 DEF UVCSourceInv, UVCShape, SourceRecord
  <2>3. /\ isVideoRecording' = FALSE /\ source.call = "none" /\ UNCHANGED <<uvcCamera, clones>>
        /\ ~isVideoRecording => mediaRecorder' = mediaRecorder
    BY <1>8 DEF StopRecordVideo, CloseUVCCamera, Ready, RecorderReleased, connection
  <2> QED
    BY <2>1, <2>2, <2>3 DEF UVCSourceInv, UVCShape, SurfaceOfMode, OnlyFailedOpensLeak
<1>9. CASE ShowOnReader
  <2>1. PICK call \in {"none", "clear"} : source' = [source EXCEPT !.call = call]
    BY <1>9 DEF ShowOnReader
  <2>2. /\ source' \in SourceRecord /\ source'.early = source.early
        /\ source'.permission = source.permission
    BY <2>1 DEF UVCSourceInv, UVCShape, SourceRecord
  <2>3. ~isVideoRecording /\ UNCHANGED <<isVideoRecording, clones>> /\ ShowAt("reader")
    BY <1>9 DEF ShowOnReader, recording, UVCSourceInv
  <2> QED
    BY <2>2, <2>3, ShowGives DEF UVCSourceInv, UVCShape, SurfaceOfMode, OnlyFailedOpensLeak
<1>10. CASE ClearStream
  <2>1. /\ source' \in SourceRecord /\ source'.early = source.early
        /\ source'.permission = source.permission
        /\ source'.call = "close" /\ source.call = "clear"
    BY <1>10 DEF ClearStream, UVCSourceInv, UVCShape, SourceRecord
  <2>2. UNCHANGED <<uvcCamera, clones, recording>>
    BY <1>10 DEF ClearStream, connection
  <2> QED
    BY <2>1, <2>2 DEF UVCSourceInv, UVCShape, SurfaceOfMode, OnlyFailedOpensLeak, recording
<1>11. CASE CloseConnections
  <2>1. source' \in SourceRecord
    BY <1>11 DEF CloseConnections, UVCSourceInv, UVCShape, SourceRecord
  <2>2. ~isVideoRecording /\ UNCHANGED isVideoRecording
    BY <1>11 DEF CloseConnections, recording, UVCSourceInv
  <2>3. PICK c : c = PreviewStopped(uvcCamera)
    OBVIOUS
  <2>4. c \in CameraRecord /\ c.preview = FALSE /\ c.state = uvcCamera.state
    BY <2>3 DEF PreviewStopped, UVCSourceInv, UVCShape, CameraRecord
  <2>5. uvcCamera' = [c EXCEPT !.state = Closed(c.state), !.window = "none"]
    BY <1>11, <2>3 DEF CloseConnections
  <2>6. uvcCamera' \in CameraRecord /\ uvcCamera'.preview = FALSE /\ uvcCamera'.state # "open"
    BY <2>4, <2>5 DEF Closed, CameraRecord
  <2>7. clones' \in [open: Int, failed: Int] /\ OnlyFailedOpensLeak'
    <3>1. CASE uvcCamera.state = "open"
      <4>1. clones' = [clones EXCEPT !.open = @ - 1]
        BY <1>11, <3>1 DEF CloseConnections
      <4>2. /\ clones' \in [open: Int, failed: Int]
            /\ clones'.open = clones.open - 1 /\ clones'.failed = clones.failed
        BY <4>1 DEF UVCSourceInv, UVCShape
      <4> QED
        BY <2>6, <3>1, <4>2 DEF UVCSourceInv, UVCShape, OnlyFailedOpensLeak
    <3>2. CASE uvcCamera.state # "open"
      BY <1>11, <2>6, <3>2 DEF CloseConnections, UVCSourceInv, UVCShape, OnlyFailedOpensLeak
    <3> QED
      BY <3>1, <3>2
  <2> QED
    BY <2>1, <2>2, <2>6, <2>7 DEF UVCSourceInv, UVCShape, SurfaceOfMode
<1> QED
  BY <1>2, <1>3, <1>4, <1>5, <1>6, <1>7, <1>8, <1>9, <1>10, <1>11 DEF UVCSourceNext

\* In every sequence of calls, permissions and failures, with or without a camera, a running
\* preview reports to the callback and draws where the recording flag and the recorder say.
THEOREM PreviewShowsItsMode == UVCSourceSpec => []SurfaceOfMode
<1>1. UVCSourceInv => SurfaceOfMode
  BY DEF UVCSourceInv
<1> QED
  BY <1>1, UVCSourceInitInv, UVCSourceNextInv, PTL DEF UVCSourceSpec

\* However often the camera is opened and closed, no clone stays open but those of opens
\* that failed.
THEOREM ClonesAreClosed == UVCSourceSpec => []OnlyFailedOpensLeak
<1>1. UVCSourceInv => OnlyFailedOpensLeak
  BY DEF UVCSourceInv
<1> QED
  BY <1>1, UVCSourceInitInv, UVCSourceNextInv, PTL DEF UVCSourceSpec

=============================================================================
