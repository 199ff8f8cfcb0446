------------------------------ MODULE Sensors ------------------------------
(* The sensors HAL (sensors): MultihalSensors, called by the HAL proxy under *)
(* m_apiMtx, and the thread that listens to the emulator's sensors service.  *)
(*                                                                           *)
(* The host is external: it turns sensors on and off as it is told, and      *)
(* sends readings of the ones that are on.  So is the proxy, which calls     *)
(* initialize before it activates a sensor.  Timestamps are left out, and so *)
(* are flush and injectSensorData, which post an event and change nothing.   *)
EXTENDS Naturals, Sequences

CONSTANTS Handles,        \* available sensors
          OnChange,       \* those that report changes only
          Values,
          PipeMax         \* bound: readings on their way

ASSUME SensorsBounds == PipeMax \in Nat

VARIABLES
  m_opMode,               \* "NORMAL" or "DATA_INJECTION"
  m_activeSensorsMask,
  m_halProxyCallback,     \* it is set
  protocolState,          \* OnChange -> the last value, or NoValue
  qemuPipe,               \* readings from the host
  hostOn,                 \* sensors the host runs
  listener                \* "down", "listening" or "quit" (told to)

sensorsVars == <<m_opMode, m_activeSensorsMask, m_halProxyCallback,
                 protocolState, qemuPipe, hostOn, listener>>

NoValue == "none"

SensorsInit ==
  /\ m_opMode = "NORMAL" /\ m_activeSensorsMask = {}
  /\ m_halProxyCallback = FALSE
  /\ protocolState = [h \in OnChange |-> NoValue]
  /\ qemuPipe = <<>> /\ hostOn = {}
  /\ listener = "down"

\* The object is made: the connection opened and the thread started.
construct ==
  /\ listener = "down"
  /\ listener' = "listening"
  /\ UNCHANGED <<m_opMode, m_activeSensorsMask, m_halProxyCallback,
                 protocolState, qemuPipe, hostOn>>

\* A faulty version: the mode is set whether sensors are active or not.
switchOperationMode(mode) ==
  /\ listener = "listening"
  /\ m_opMode' = mode
  /\ UNCHANGED <<m_activeSensorsMask, m_halProxyCallback, protocolState,
                 qemuPipe, hostOn, listener>>

\* Refused while sensors are active.
setOperationMode(mode) ==
  /\ listener = "listening" /\ m_activeSensorsMask = {}
  /\ m_opMode' = mode
  /\ UNCHANGED <<m_activeSensorsMask, m_halProxyCallback, protocolState,
                 qemuPipe, hostOn, listener>>

\* The host is told in NORMAL mode only; when the command cannot be sent
\* nothing changes.
activate(h, enabled) ==
  /\ listener = "listening" /\ m_halProxyCallback
  /\ (h \in m_activeSensorsMask) # enabled
  /\ m_activeSensorsMask' = IF enabled THEN m_activeSensorsMask \cup {h}
                                       ELSE m_activeSensorsMask \ {h}
  /\ hostOn' = IF m_opMode # "NORMAL" THEN hostOn
               ELSE IF enabled THEN hostOn \cup {h} ELSE hostOn \ {h}
  /\ UNCHANGED <<m_opMode, m_halProxyCallback, protocolState, qemuPipe, listener>>

\* disableAllSensors turns the active ones off one by one, in NORMAL mode, until
\* a command cannot be sent (off are those before it); the mask is cleared only
\* when all were sent.
disableAllSensors(off) ==
  IF m_opMode = "NORMAL"
  THEN /\ off \subseteq m_activeSensorsMask
       /\ hostOn' = hostOn \ off
       /\ m_activeSensorsMask' = IF off = m_activeSensorsMask
                                 THEN {} ELSE m_activeSensorsMask
  ELSE off = {} /\ m_activeSensorsMask' = {} /\ UNCHANGED hostOn

\* initialize goes on after a failure.
initialize ==
  /\ listener = "listening"
  /\ \E off \in SUBSET Handles : disableAllSensors(off)
  /\ m_opMode' = "NORMAL" /\ m_halProxyCallback' = TRUE
  /\ UNCHANGED <<protocolState, qemuPipe, listener>>

\* ~MultihalSensors: the sensors are disabled and the thread told to quit.
destroy ==
  /\ listener = "listening"
  /\ \E off \in SUBSET Handles : disableAllSensors(off)
  /\ listener' = "quit"
  /\ UNCHANGED <<m_opMode, m_halProxyCallback, protocolState, qemuPipe>>

\* The thread returns, and the connection is closed with the object.
listenerJoined ==
  /\ listener = "quit"
  /\ listener' = "down"
  /\ m_opMode' = "NORMAL" /\ m_activeSensorsMask' = {}
  /\ m_halProxyCallback' = FALSE
  /\ protocolState' = [h \in OnChange |-> NoValue]
  /\ qemuPipe' = <<>> /\ hostOn' = {}

\* The host sends a reading of a sensor that is on.
reading(h, v) ==
  /\ listener # "down" /\ h \in hostOn /\ Len(qemuPipe) < PipeMax
  /\ qemuPipe' = Append(qemuPipe, [handle |-> h, value |-> v])
  /\ UNCHANGED <<m_opMode, m_activeSensorsMask, m_halProxyCallback,
                 protocolState, hostOn, listener>>

\* parseQemuSensorEvent posts the reading, whatever the mode and the mask are
\* by now; one that only reports changes is compared with its last value.
parseQemuSensorEvent ==
  /\ listener # "down" /\ qemuPipe # <<>>
  /\ LET e == Head(qemuPipe) IN
     protocolState' = IF e.handle \in OnChange
                      THEN [protocolState EXCEPT ![e.handle] = e.value]
                      ELSE protocolState
  /\ qemuPipe' = Tail(qemuPipe)
  /\ UNCHANGED <<m_opMode, m_activeSensorsMask, m_halProxyCallback, hostOn,
                 listener>>

SensorsNext ==
  \/ construct \/ initialize \/ destroy \/ listenerJoined \/ parseQemuSensorEvent
  \/ \E mode \in {"NORMAL", "DATA_INJECTION"} : setOperationMode(mode)
  \/ \E h \in Handles, enabled \in BOOLEAN : activate(h, enabled)
  \/ \E h \in Handles, v \in Values : reading(h, v)

SensorsSpec == SensorsInit /\ [][SensorsNext]_sensorsVars

\* The variables have their types, and queues their bounds.
SensorsTypeOK ==
  /\ m_opMode \in {"NORMAL", "DATA_INJECTION"}
  /\ m_activeSensorsMask \subseteq Handles /\ hostOn \subseteq Handles
  /\ m_halProxyCallback \in BOOLEAN
  /\ protocolState \in [OnChange -> Values \cup {NoValue}]
  /\ qemuPipe \in Seq([handle : Handles, value : Values])
  /\ Len(qemuPipe) <= PipeMax
  /\ listener \in {"down", "listening", "quit"}

\* The host runs no sensor the framework did not activate, and none at all in
\* injection mode, also after commands that failed half way; and a reading can
\* only be posted to a callback that is set (postSensorEventLocked does not
\* look).
HostFollowsFramework ==
  /\ hostOn \subseteq m_activeSensorsMask
  /\ m_opMode = "DATA_INJECTION" => hostOn = {}
  /\ qemuPipe # <<>> => m_halProxyCallback
=============================================================================
