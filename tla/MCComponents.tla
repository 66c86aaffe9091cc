----------------------------- MODULE MCComponents -----------------------------
(***************************************************************************)
(* Small instances of the components that share no state, for TLC: a       *)
(* behaviour is one of one component, and the others rest in their initial  *)
(* states, so that their state spaces add up instead of multiplying.        *)
(***************************************************************************)
EXTENDS UACAudioHandler, RuxorSerialDevices, RuxorSensors, KCameraSource, KCameraAutoCloseable,
        KUVCCameraSource

VARIABLE component    \* the one that runs

components == <<audioVars, serialVars, sensorVars, cameraVars, closeableVars, uvcSourceVars>>
allVars    == <<component, components>>

Init ==
  /\ component \in {"audio", "serial", "sensor", "camera", "closeable", "uvc"}
  /\ AudioInit /\ SerialInit /\ SensorInit /\ CameraInit /\ CloseableInit
  /\ UVCSourceInit
  /\ kind = "usb" => component = "serial"

Rest(c) == component = c /\ UNCHANGED component

NotAudio     == UNCHANGED <<serialVars, sensorVars, cameraVars, closeableVars, uvcSourceVars>>
NotSerial    == UNCHANGED <<audioVars, sensorVars, cameraVars, closeableVars, uvcSourceVars>>
NotSensor    == UNCHANGED <<audioVars, serialVars, cameraVars, closeableVars, uvcSourceVars>>
NotCamera    == UNCHANGED <<audioVars, serialVars, sensorVars, closeableVars, uvcSourceVars>>
NotCloseable == UNCHANGED <<audioVars, serialVars, sensorVars, cameraVars, uvcSourceVars>>
NotUVCSource == UNCHANGED <<audioVars, serialVars, sensorVars, cameraVars, closeableVars>>

Next ==
  \/ Rest("audio") /\ AudioNext /\ NotAudio
  \/ Rest("serial") /\ SerialNext /\ NotSerial
  \/ Rest("sensor") /\ SensorNext /\ NotSensor
  \/ Rest("camera") /\ CameraNext /\ NotCamera
  \/ Rest("closeable") /\ CloseableNext /\ NotCloseable
  \/ Rest("uvc") /\ UVCSourceNext /\ NotUVCSource

\* The threads of the components are scheduled, and their timeouts pass.
Fairness ==
  /\ WF_allVars(Rest("audio") /\ AudioThreadStep /\ NotAudio)
  /\ \A c \in AudioClients : WF_allVars(Rest("audio") /\ GetterStep(c) /\ NotAudio)
  /\ WF_allVars(Rest("sensor") /\ ConnectStep /\ NotSensor)
  /\ \A e \in Tasks : WF_allVars(Rest("sensor") /\ TaskStep(e) /\ NotSensor)
  /\ WF_allVars(Rest("camera") /\ CloseStep /\ NotCamera)
  /\ WF_allVars(Rest("camera") /\ BackgroundStep /\ NotCamera)

Spec == Init /\ [][Next]_allVars /\ Fairness
=============================================================================
