------------------------------ MODULE HalProofs ------------------------------
(* Proofs about the HALs of the camera, the audio streams and the sensors,   *)
(* for every value of the constants of their modules.                        *)
EXTENDS Camera3, Camera3A, AudioStream, Sensors, Functions,
        FiniteSetTheorems, TLAPS

-----------------------------------------------------------------------------
(* Audio                                                                     *)

\* What a stream's variables range over.  (AudioTypeOK also counts the streams.)
ATypes ==
  /\ mDev \in [Streams -> {"none", "open", "closed"}]
  /\ ioThread \in [Streams -> {"none", "wait", "process", "gone"}]
  /\ efState \in [Streams -> SUBSET (Requests \cup {"reply"})]
  /\ mCommandMQ \in [Streams -> {<<>>} \cup {<<c>> : c \in Commands}]
  /\ mStatusMQ \in [Streams -> {<<>>} \cup {<<c>> : c \in Commands \cup {NoCommand}}]
  /\ current \in [Streams -> Commands \cup {NoCommand}]
  /\ mPcm \in [Streams -> BOOLEAN]
  /\ caller \in [Streams -> {"idle", "write", "wait"}]
  /\ asked \in [Streams -> Commands \cup {NoCommand}]
  /\ lastCall \in [Streams -> {"none", "standby"}]
  /\ joining \in [Streams -> {"none", "close", "destroy"}]

Alive(s) == ioThread[s] \in {"wait", "process"}

\* The handshake between the queue user and the thread: one command at a time,
\* announced by one "command" bit and answered by one "reply" bit.  Bits and
\* entries that a thread leaves behind are cleared by the next prepare.
Handshake(s) ==
  /\ ioThread[s] = "none" => ~mPcm[s]
  /\ ioThread[s] = "process" =>
       /\ mPcm[s] /\ caller[s] = "wait" /\ current[s] = asked[s]
       /\ "command" \notin efState[s] /\ "reply" \notin efState[s]
  /\ lastCall[s] = "standby" => caller[s] = "idle"
  /\ Alive(s) /\ caller[s] # "wait" =>
       "command" \notin efState[s] /\ "reply" \notin efState[s]
  /\ Alive(s) => ~("command" \in efState[s] /\ "reply" \in efState[s])
  /\ Alive(s) /\ mCommandMQ[s] # <<>> => mCommandMQ[s] = <<asked[s]>>

\* RequestsKept of one stream.
Kept(s) ==
  /\ ioThread[s] = "process" => mPcm[s]
  /\ lastCall[s] = "standby" /\ ioThread[s] = "wait" /\ "standBy" \notin efState[s]
       => ~mPcm[s]
  /\ mStatusMQ[s] # <<>> /\ ioThread[s] \in {"wait", "process"}
       => caller[s] = "wait" /\ mStatusMQ[s] = <<asked[s]>>

AInv == ATypes /\ \A s \in Streams : Handshake(s) /\ Kept(s)

LEMMA InitAInv == AudioInit => AInv
  BY DEF AudioInit, AInv, ATypes, Handshake, Kept, Alive, Requests, NoCommand

\* Every step keeps the invariant: of the stream that moves by the handshake,
\* of the others because it leaves them alone.
LEMMA StepAInv == AInv /\ [AudioNext]_audioVars => AInv'
<1> SUFFICES ASSUME AInv, [AudioNext]_audioVars PROVE AInv'
  OBVIOUS
<1> USE DEF AInv, ATypes
<1>1. CASE UNCHANGED audioVars
  BY <1>1 DEF audioVars, streamVars, Handshake, Kept, Alive
<1>2. CASE closeDevice
  BY <1>2 DEF closeDevice, streamVars, Handshake, Kept, Alive
<1>3. ASSUME NEW s \in Streams, openStream(s) PROVE AInv'
  <2>1. ATypes'
    BY <1>3 DEF openStream, Requests, NoCommand
  <2>2. ASSUME NEW t \in Streams PROVE Handshake(t)' /\ Kept(t)'
    BY <1>3, <2>2 DEF openStream, Requests, NoCommand, Handshake, Kept, Alive
  <2> QED
    BY <2>1, <2>2
<1>4. ASSUME NEW s \in Streams, prepare(s) PROVE AInv'
  <2>1. ATypes'
    BY <1>4 DEF prepare, Requests, NoCommand
  <2>2. ASSUME NEW t \in Streams PROVE Handshake(t)' /\ Kept(t)'
    BY <1>4, <2>2 DEF prepare, Requests, NoCommand, Handshake, Kept, Alive
  <2> QED
    BY <2>1, <2>2
<1>5. ASSUME NEW s \in Streams, standby(s) PROVE AInv'
  <2>1. ATypes'
    BY <1>5, ZenonT(60) DEF standby, wake, Requests, NoCommand
  <2>2. ASSUME NEW t \in Streams PROVE Handshake(t)' /\ Kept(t)'
    BY <1>5, <2>2 DEF standby, wake, Requests, NoCommand, Handshake, Kept, Alive
  <2> QED
    BY <2>1, <2>2
<1>6. ASSUME NEW s \in Streams, closeStream(s) PROVE AInv'
  <2>1. ATypes'
    BY <1>6 DEF closeStream, requestExit, wake, Requests, NoCommand
  <2>2. ASSUME NEW t \in Streams PROVE Handshake(t)' /\ Kept(t)'
    BY <1>6, <2>2 DEF closeStream, requestExit, wake, Requests, NoCommand, Handshake, Kept, Alive
  <2> QED
    BY <2>1, <2>2
<1>7. ASSUME NEW s \in Streams, destroyStream(s) PROVE AInv'
  <2>1. ATypes'
    BY <1>7 DEF destroyStream, requestExit, wake, Requests, NoCommand
  <2>2. ASSUME NEW t \in Streams PROVE Handshake(t)' /\ Kept(t)'
    BY <1>7, <2>2 DEF destroyStream, requestExit, wake, Requests, NoCommand, Handshake, Kept, Alive
  <2> QED
    BY <2>1, <2>2
<1>8. ASSUME NEW s \in Streams, joined(s) PROVE AInv'
  <2>1. ATypes'
    BY <1>8 DEF joined, Requests, NoCommand
  <2>2. ASSUME NEW t \in Streams PROVE Handshake(t)' /\ Kept(t)'
    <3>1. CASE t = s
      BY <1>8, <3>1 DEF joined, Requests, NoCommand, Handshake, Kept, Alive
    <3>2. CASE t # s
      BY <1>8, <3>2, ZenonT(60) DEF joined, Handshake, Kept, Alive
    <3> QED
      BY <3>1, <3>2, ZenonT(60)
  <2> QED
    BY <2>1, <2>2
<1>9. ASSUME NEW s \in Streams, notify(s) PROVE AInv'
  <2>1. ATypes'
    BY <1>9, ZenonT(60) DEF notify, wake, Requests, NoCommand
  <2>2. ASSUME NEW t \in Streams PROVE Handshake(t)' /\ Kept(t)'
    BY <1>9, <2>2 DEF notify, wake, Requests, NoCommand, Handshake, Kept, Alive
  <2> QED
    BY <2>1, <2>2
<1>10. ASSUME NEW s \in Streams, readStatus(s) PROVE AInv'
  <2>1. ATypes'
    BY <1>10, ZenonT(60) DEF readStatus, Requests, NoCommand
  <2>2. ASSUME NEW t \in Streams PROVE Handshake(t)' /\ Kept(t)'
    BY <1>10, <2>2, SMTT(60) DEF readStatus, Requests, NoCommand, Handshake, Kept, Alive
  <2> QED
    BY <2>1, <2>2
<1>11. ASSUME NEW s \in Streams, threadLoop(s) PROVE AInv'
  <2> DEFINE bits == efState[s] \cap Requests
  <2> DEFINE taken == "command" \in bits /\ mCommandMQ[s] # <<>>
  <2>1. /\ ioThread[s] = "wait"
        /\ efState' = [efState EXCEPT ![s] = @ \ bits]
        /\ UNCHANGED <<mDev, mStatusMQ, caller, asked, lastCall, joining>>
    BY <1>11, ZenonT(60) DEF threadLoop
  <2>2. CASE "exit" \in bits
    <3>1. /\ ioThread' = [ioThread EXCEPT ![s] = "gone"]
          /\ UNCHANGED <<mPcm, mCommandMQ, current>>
      BY <1>11, <2>2 DEF threadLoop
    <3>2. ATypes'
      BY <2>1, <3>1, ZenonT(60)
    <3>3. ASSUME NEW t \in Streams PROVE Handshake(t)' /\ Kept(t)'
      BY <2>1, <3>1, <3>3, ZenonT(60) DEF Handshake, Kept, Alive
    <3> QED
      BY <3>2, <3>3
  <2>3. CASE "exit" \notin bits /\ taken
    <3>1. /\ mPcm' = [mPcm EXCEPT ![s] = TRUE]
          /\ current' = [current EXCEPT ![s] = mCommandMQ[s][1]]
          /\ mCommandMQ' = [mCommandMQ EXCEPT ![s] = <<>>]
          /\ ioThread' = [ioThread EXCEPT ![s] = "process"]
      BY <1>11, <2>3, ZenonT(60) DEF threadLoop, pcmAfter
    <3>2. mCommandMQ[s] = <<asked[s]>> /\ mCommandMQ[s][1] = asked[s]
      BY <2>1, <2>3 DEF Handshake, Alive
    <3>3. ATypes'
      BY <2>1, <3>1, <3>2, ZenonT(60)
    <3>4. ASSUME NEW t \in Streams PROVE Handshake(t)' /\ Kept(t)'
      BY <2>1, <2>3, <3>1, <3>2, <3>4, ZenonT(60) DEF Handshake, Kept, Alive, Requests
    <3> QED
      BY <3>3, <3>4
  <2>4. CASE "exit" \notin bits /\ ~taken
    <3>1. /\ mPcm' = [mPcm EXCEPT ![s] = pcmAfter(s, bits)]
          /\ UNCHANGED <<current, mCommandMQ, ioThread>>
      BY <1>11, <2>4 DEF threadLoop
    <3>2. pcmAfter(s, bits) \in BOOLEAN
      BY ZenonT(60) DEF pcmAfter
    <3>3. ATypes'
      BY <2>1, <3>1, <3>2
    <3>4. ASSUME NEW t \in Streams PROVE Handshake(t)' /\ Kept(t)'
      BY <2>1, <3>1, <3>2, <3>4, ZenonT(60) DEF Handshake, Kept, Alive, Requests, pcmAfter
    <3> QED
      BY <3>3, <3>4
  <2> QED
    BY <2>2, <2>3, <2>4, ZenonT(60)
<1>12. ASSUME NEW s \in Streams, processCommand(s) PROVE AInv'
  <2>1. ATypes'
    BY <1>12 DEF processCommand, wake, Requests, NoCommand
  <2>2. ASSUME NEW t \in Streams PROVE Handshake(t)' /\ Kept(t)'
    BY <1>12, <2>2 DEF processCommand, wake, Requests, NoCommand, Handshake, Kept, Alive
  <2> QED
    BY <2>1, <2>2
<1>13. ASSUME NEW s \in Streams, NEW c \in Commands, ask(s, c) PROVE AInv'
  <2>1. ATypes'
    BY <1>13, ZenonT(60) DEF ask
  <2>2. ASSUME NEW t \in Streams PROVE Handshake(t)' /\ Kept(t)'
    BY <1>13, <2>2 DEF ask, Handshake, Kept, Alive
  <2> QED
    BY <2>1, <2>2, ZenonT(60)
<1>14. ASSUME NEW s \in Streams, pcmFatal(s) PROVE AInv'
  BY <1>14 DEF pcmFatal, Handshake, Kept, Alive, Requests, NoCommand
<1> QED
  BY <1>1, <1>2, <1>3, <1>4, <1>5, <1>6, <1>7, <1>8, <1>9, <1>10, <1>11, <1>12, <1>13, <1>14, ZenonT(60) DEF AudioNext

\* Every stand-by and command is kept, whatever the thread's wakes merge
\* (threadLoop, processCommand), for any number of streams.
THEOREM KeepsRequests == AudioSpec => []RequestsKept
<1>1. AInv => RequestsKept
  BY DEF AInv, Kept, RequestsKept
<1> QED
  BY <1>1, InitAInv, StepAInv, PTL DEF AudioSpec

\* The device counts the streams that are open, and the thread answers commands
\* of the caller.
Open == {s \in Streams : mDev[s] = "open"}
Counted ==
  /\ mNStreams = Cardinality(Open) /\ mMixer \in BOOLEAN
  /\ mStatusMQ \in [Streams -> {<<>>} \cup {<<c>> : c \in Commands}]
  /\ \A s \in Streams : ioThread[s] = "process" => current[s] \in Commands

\* That is what the types say of an audio device with finitely many streams.
LEMMA CountedTypes == ATypes /\ Counted => AudioTypeOK
<1> SUFFICES ASSUME ATypes, Counted PROVE AudioTypeOK
  OBVIOUS
<1>1. Open \in SUBSET Streams
  BY DEF Open
<1>2. Cardinality(Open) \in Nat /\ Cardinality(Streams) \in Nat
      /\ Cardinality(Open) <= Cardinality(Streams)
  BY <1>1, AudioBounds, FS_Subset, FS_CardinalityType
<1>3. mNStreams \in 0..Cardinality(Streams)
  BY <1>2 DEF Counted
<1> QED
  BY <1>3, ZenonT(60) DEF Counted, ATypes, AudioTypeOK

LEMMA InitCounted == AudioInit => Counted
<1> SUFFICES ASSUME AudioInit PROVE Counted
  OBVIOUS
<1>1. Open = {}
  BY DEF AudioInit, Open
<1>2. Cardinality(Open) = 0
  BY <1>1, FS_EmptySet
<1> QED
  BY <1>2 DEF AudioInit, Counted

\* A stream is counted when it is opened and once more when it is closed or ends
\* unclosed (joined).
LEMMA StepCounted == ATypes /\ Counted /\ [AudioNext]_audioVars => Counted'
<1> SUFFICES ASSUME ATypes, Counted, [AudioNext]_audioVars PROVE Counted'
  OBVIOUS
<1>f. IsFiniteSet(Open)
  BY AudioBounds, FS_Subset DEF Open
<1>1. CASE closeDevice \/ UNCHANGED audioVars
  BY <1>1, ZenonT(60) DEF closeDevice, audioVars, deviceVars, streamVars, Counted, Open
<1>2. CASE \E s \in Streams : openStream(s)
  <2>1. PICK s \in Streams : openStream(s)
    BY <1>2, ZenonT(60)
  <2>2. Open' = Open \cup {s} /\ s \notin Open
    BY <2>1 DEF openStream, Open, ATypes
  <2>3. Cardinality(Open') = Cardinality(Open) + 1
    BY <2>2, <1>f, FS_AddElement, ZenonT(60)
  <2> QED
    BY <2>1, <2>3 DEF openStream, Counted
<1>3. CASE \E s \in Streams : joined(s)
  <2>1. PICK s \in Streams : joined(s)
    BY <1>3
  <2>2. Open' = Open \ {s}
    BY <2>1 DEF joined, Open, ATypes
  <2>3. Cardinality(Open') = IF mDev[s] = "open" THEN Cardinality(Open) - 1
                                                ELSE Cardinality(Open)
    <3>1. s \in Open <=> mDev[s] = "open"
      BY DEF Open
    <3> QED
      BY <2>2, <3>1, <1>f, FS_RemoveElement, ZenonT(60)
  <2> QED
    BY <2>1, <2>3 DEF joined, unrefDevice, Counted, ATypes
<1>4. ASSUME NEW s \in Streams,
             \/ prepare(s) \/ standby(s) \/ closeStream(s) \/ destroyStream(s)
             \/ \E c \in Commands : ask(s, c)
             \/ notify(s) \/ readStatus(s)
      PROVE  Counted'
  <2>1. UNCHANGED <<mNStreams, mMixer, mDev, current>>
    BY <1>4, ZenonT(60) DEF prepare, standby, closeStream, destroyStream, requestExit, ask, notify,
       readStatus, deviceVars
  <2>2. Open' = Open
    BY <2>1, ZenonT(60) DEF Open
  <2>3. mStatusMQ' \in [Streams -> {<<>>} \cup {<<c>> : c \in Commands}]
    BY <1>4, ZenonT(60) DEF prepare, standby, closeStream, destroyStream, requestExit, ask, notify,
       readStatus, Counted
  <2>4. \A r \in Streams : ioThread'[r] = "process" => ioThread[r] = "process"
    BY <1>4, ZenonT(60) DEF prepare, standby, closeStream, destroyStream, requestExit, ask, notify,
       readStatus, ATypes
  <2> QED
    BY <2>1, <2>2, <2>3, <2>4 DEF Counted
<1>5. ASSUME NEW s \in Streams, threadLoop(s) PROVE Counted'
  <2>1. UNCHANGED <<mNStreams, mMixer, mDev, mStatusMQ>>
    BY <1>5, ZenonT(60) DEF threadLoop, deviceVars
  <2>2. Open' = Open
    BY <2>1 DEF Open
  <2>3. mCommandMQ[s] # <<>> => mCommandMQ[s][1] \in Commands
    BY SMTT(60) DEF ATypes
  <2>4. \A r \in Streams : ioThread'[r] = "process" => current'[r] \in Commands
    BY <1>5, <2>3, SMTT(60) DEF threadLoop, ATypes, Counted
  <2> QED
    BY <2>1, <2>2, <2>4, ZenonT(60) DEF Counted
<1>6. ASSUME NEW s \in Streams, processCommand(s) PROVE Counted'
  <2>1. UNCHANGED <<mNStreams, mMixer, mDev>>
    BY <1>6 DEF processCommand, deviceVars
  <2>2. Open' = Open
    BY <2>1 DEF Open
  <2> QED
    BY <1>6, <2>1, <2>2, ZenonT(60) DEF processCommand, ATypes, Counted
<1>7. ASSUME NEW s \in Streams, pcmFatal(s) PROVE Counted'
  <2>1. Open' = {}
    BY <1>7 DEF pcmFatal, Open
  <2>2. Cardinality(Open') = 0
    BY <2>1, FS_EmptySet
  <2> QED
    BY <1>7, <2>2 DEF pcmFatal, Counted
<1> QED
  BY <1>1, <1>2, <1>3, <1>4, <1>5, <1>6, <1>7, ZenonT(60) DEF AudioNext

\* PrimaryDevice counts its open streams, for any finite number of them, and
\* never below zero (unrefDevice aborts), and the streams keep their types.
THEOREM AudioTypes == AudioSpec => []AudioTypeOK
<1>1. ATypes /\ Counted => AudioTypeOK
  BY CountedTypes
<1>2. AInv => ATypes
  BY DEF AInv
<1> QED
  BY <1>1, <1>2, InitAInv, StepAInv, InitCounted, StepCounted, PTL DEF AudioSpec

-----------------------------------------------------------------------------
(* Sensors                                                                   *)

\* A sensor is active only once the proxy has set its callback (activate comes
\* after initialize): with it the property is inductive, as a reading comes
\* from a sensor that the host runs, which is active.
SInv ==
  /\ m_opMode \in {"NORMAL", "DATA_INJECTION"}
  /\ HostFollowsFramework
  /\ m_activeSensorsMask # {} => m_halProxyCallback

LEMMA InitSInv == SensorsInit => SInv
  BY DEF SensorsInit, SInv, HostFollowsFramework

\* However far disableAllSensors gets, the host runs active sensors only, and
\* no sensor becomes active.
LEMMA DisableKeeps ==
  ASSUME SInv, NEW off, disableAllSensors(off)
  PROVE  /\ hostOn' \subseteq m_activeSensorsMask'
         /\ m_activeSensorsMask' \subseteq m_activeSensorsMask
         /\ m_opMode = "DATA_INJECTION" => hostOn' = {}
  BY ZenonT(60) DEF SInv, HostFollowsFramework, disableAllSensors

\* Every step keeps the invariant.
LEMMA StepSInv == SInv /\ [SensorsNext]_sensorsVars => SInv'
<1> SUFFICES ASSUME SInv, [SensorsNext]_sensorsVars PROVE SInv'
  OBVIOUS
<1> USE DEF SInv, HostFollowsFramework
<1>1. CASE construct
  BY <1>1 DEF construct
<1>2. CASE initialize
  <2>1. PICK off \in SUBSET Handles : disableAllSensors(off)
    BY <1>2 DEF initialize
  <2>2. m_opMode' = "NORMAL" /\ m_halProxyCallback' = TRUE
    BY <1>2 DEF initialize
  <2> QED
    BY <2>1, <2>2, DisableKeeps
<1>3. CASE destroy
  <2>1. PICK off \in SUBSET Handles : disableAllSensors(off)
    BY <1>3 DEF destroy
  <2>2. UNCHANGED <<m_opMode, m_halProxyCallback, qemuPipe>>
    BY <1>3 DEF destroy
  <2> QED
    BY <2>1, <2>2, DisableKeeps, ZenonT(60)
<1>4. CASE listenerJoined
  BY <1>4 DEF listenerJoined
<1>5. CASE parseQemuSensorEvent
  BY <1>5 DEF parseQemuSensorEvent
<1>6. CASE \E mode \in {"NORMAL", "DATA_INJECTION"} : setOperationMode(mode)
  BY <1>6 DEF setOperationMode
<1>7. CASE \E h \in Handles, enabled \in BOOLEAN : activate(h, enabled)
  BY <1>7 DEF activate
<1>8. CASE \E h \in Handles, v \in Values : reading(h, v)
  BY <1>8 DEF reading
<1>9. CASE UNCHANGED sensorsVars
  BY <1>9 DEF sensorsVars
<1> QED
  BY <1>1, <1>2, <1>3, <1>4, <1>5, <1>6, <1>7, <1>8, <1>9, ZenonT(60) DEF SensorsNext

\* The host runs no sensor that the framework did not activate, none in
\* injection mode, and readings find the callback set (activate,
\* setOperationMode, disableAllSensors).
THEOREM HostFollows == SensorsSpec => []HostFollowsFramework
<1>1. SInv => HostFollowsFramework
  BY ZenonT(60) DEF SInv
<1> QED
  BY <1>1, InitSInv, StepSInv, PTL DEF SensorsSpec

\* What is left of a queue that is read.
LEMMA OneRead ==
  ASSUME NEW S, NEW s \in Seq(S), s # <<>>, NEW n \in Nat, Len(s) <= n
  PROVE  Head(s) \in S /\ Tail(s) \in Seq(S) /\ Len(Tail(s)) <= n
OBVIOUS

\* A step keeps the types of the sensors; the readings on their way are bounded.
LEMMA StepSensorTypes == SensorsTypeOK /\ [SensorsNext]_sensorsVars => SensorsTypeOK'
<1> SUFFICES ASSUME SensorsTypeOK, [SensorsNext]_sensorsVars PROVE SensorsTypeOK'
  OBVIOUS
<1> DEFINE Reading == [handle : Handles, value : Values]
<1>t. qemuPipe \in Seq(Reading) /\ Len(qemuPipe) <= PipeMax
  BY ZenonT(60) DEF SensorsTypeOK
<1>e. <<>> \in Seq(Reading) /\ Len(<<>>) <= PipeMax
  <2> HIDE DEF Reading
  <2> QED
    BY SensorsBounds
<1> USE DEF SensorsTypeOK
<1>1. CASE construct \/ (\E mode \in {"NORMAL", "DATA_INJECTION"} : setOperationMode(mode))
           \/ UNCHANGED sensorsVars
  BY <1>1 DEF construct, setOperationMode, sensorsVars
<1>2. CASE initialize \/ destroy
  BY <1>2, ZenonT(60) DEF initialize, destroy, disableAllSensors
<1>3. CASE listenerJoined
  BY <1>3, <1>e, SensorsBounds, ZenonT(60) DEF listenerJoined
<1>4. CASE parseQemuSensorEvent
  <2>1. Head(qemuPipe) \in Reading /\ Tail(qemuPipe) \in Seq(Reading) /\ Len(Tail(qemuPipe)) <= PipeMax
    BY <1>4, <1>t, SensorsBounds, OneRead, ZenonT(60) DEF parseQemuSensorEvent
  <2> QED
    BY <1>4, <2>1, ZenonT(60) DEF parseQemuSensorEvent
<1>5. CASE \E h \in Handles, enabled \in BOOLEAN : activate(h, enabled)
  BY <1>5 DEF activate
<1>6. CASE \E h \in Handles, v \in Values : reading(h, v)
  <2>1. PICK h \in Handles, v \in Values : reading(h, v)
    BY <1>6
  <2>2. [handle |-> h, value |-> v] \in Reading
    BY ZenonT(60)
  <2>3. qemuPipe' \in Seq(Reading) /\ Len(qemuPipe') <= PipeMax
    <3> HIDE DEF Reading
    <3> QED
      BY <2>1, <2>2, <1>t, SensorsBounds DEF reading
  <2> QED
    BY <2>1, <2>3, ZenonT(60) DEF reading
<1> QED
  BY <1>1, <1>2, <1>3, <1>4, <1>5, <1>6 DEF SensorsNext

\* The mask, the last values and the readings on their way keep their types.
THEOREM SensorsTypes == SensorsSpec => []SensorsTypeOK
<1>1. SensorsInit => SensorsTypeOK
  <2> DEFINE Reading == [handle : Handles, value : Values]
  <2>1. <<>> \in Seq(Reading)
    <3> HIDE DEF Reading
    <3> QED
      OBVIOUS
  <2>2. SensorsInit => Len(qemuPipe) <= PipeMax
    BY SensorsBounds DEF SensorsInit
  <2>3. SensorsInit => protocolState \in [OnChange -> Values \cup {NoValue}]
    BY DEF SensorsInit
  <2> QED
    BY <2>1, <2>2, <2>3, ZenonT(60) DEF SensorsInit, SensorsTypeOK
<1> QED
  BY <1>1, StepSensorTypes, PTL DEF SensorsSpec

-----------------------------------------------------------------------------
(* The camera, for any number of requests and any length of the request      *)
(* queue.  Requests and images reach the readout thread on two ways; the     *)
(* invariant is that both hold the same frames in the same order (but for    *)
(* images that were overwritten), because buffers are set only after the     *)
(* sensor has taken the last ones, that no frame on either way is answered   *)
(* yet, and that the compressor is reserved for one request.                 *)

\* The requests that wait for an image: queued ones, the one the readout thread
\* waits with, and one whose buffers the sensor already has.
Queued == Range(mInFlightQueue)
Accepted ==
  Queued \cup (IF readoutAt = "image" THEN {mCurrentRequest} ELSE {})
         \cup (IF call = "queue" THEN {submitted} ELSE {})

\* The images in the sensor; the one of the last cycle is handed over before the
\* next is captured in its place.
Undelivered == IF sensorAt = "capture" THEN NoFrame ELSE mNextCapturedBuffers
Images == {mCapturedBuffers, Undelivered, nextBuffers, mNextBuffers} \ {NoFrame}

Later(f, g) == f # NoFrame /\ g # NoFrame => f < g

ImagesInOrder ==
  /\ Later(mCapturedBuffers, Undelivered) /\ Later(mCapturedBuffers, nextBuffers)
  /\ Later(mCapturedBuffers, mNextBuffers) /\ Later(Undelivered, nextBuffers)
  /\ Later(Undelivered, mNextBuffers) /\ Later(nextBuffers, mNextBuffers)

RequestsInOrder ==
  /\ \A i, j \in DOMAIN mInFlightQueue : i < j => mInFlightQueue[i] < mInFlightQueue[j]
  /\ readoutAt \in {"image", "idle", "send"} =>
       mCurrentRequest \in FrameNumbers /\ \A f \in Queued : mCurrentRequest < f
  /\ mCurrentRequest <= submitted /\ \A f \in Queued : f <= submitted
  /\ call \in {"jpeg", "room", "vsync", "queue"} =>
       /\ submitted \in FrameNumbers
       /\ mCurrentRequest < submitted /\ \A f \in Queued : f < submitted

\* The sensor has an image for every request, unless it has overwritten one, and
\* none besides, in their order.
SameFrames ==
  readoutAt # "exited" => Images \subseteq Accepted /\ (lost = 0 => Images = Accepted)
InStep == SameFrames /\ ImagesInOrder /\ RequestsInOrder

\* The requests in the readout thread have no result yet.
Unanswered ==
  /\ Queued \subseteq results
  /\ readoutAt \in {"image", "idle", "send"} => mCurrentRequest \in results

\* The sensor loses no buffers: they are set while it has none to take.
SensorInv ==
  /\ sensorAt = "control" => nextBuffers = NoFrame
  /\ sensorAt \in {"deliver", "blocked", "woken"} => mNextCapturedBuffers # NoFrame
  /\ (call = "vsync" /\ mGotVSync) => mNextBuffers = NoFrame

\* The requests that have reserved the compressor and not been read out.
Reserved ==
  {f \in Accepted \cup (IF call \in {"room", "vsync"} THEN {submitted} ELSE {}) :
     kind[f] # "preview"}

\* The compressor is reserved for one request, or busy with one that was.
OneReserved ==
  /\ \A f, g \in Reserved : f = g
  /\ Reserved # {} => mIsBusy /\ jpegThread \notin {"compress", "done"}
  /\ jpegThread \in {"compress", "done"} => mIsBusy
  /\ mJpegWaiting => jpegThread = "compress"

\* A closed camera has no call, and the queue has room for the request that was
\* let in.
CallsInv ==
  /\ camStatus = "CLOSED" => call = "none"
  /\ call \in {"vsync", "queue"} => Len(mInFlightQueue) < kMaxQueueSize

\* The readout thread is asked to exit when the sensor has, and by closeCamera.
SensorGone ==
  /\ readoutAt = "exited" \/ call = "join" => sensorAt = "exited"
  /\ readoutAt = "exited" => camStatus = "CLOSED" \/ call = "join"

\* The type invariant, by the thread a variable belongs to.
FrameworkTypes ==
  /\ camStatus \in {"CLOSED", "READY", "ACTIVE"} /\ configured \in BOOLEAN
  /\ call \in {"none", "jpeg", "room", "vsync", "queue", "shutDown", "join"}
  /\ submitted \in 0..MaxFrames /\ kind \in [FrameNumbers -> Kinds]
ReadoutTypes ==
  /\ mInFlightQueue \in Seq(FrameNumbers) /\ Len(mInFlightQueue) <= kMaxQueueSize
  /\ mThreadActive \in BOOLEAN /\ mCurrentRequest \in 0..MaxFrames
  /\ readoutAt \in {"take", "image", "idle", "send", "exited"}
ControlTypes == mNextBuffers \in 0..MaxFrames /\ mGotVSync \in BOOLEAN
SensorTypes ==
  /\ nextBuffers \in 0..MaxFrames
  /\ mNextCapturedBuffers \in 0..MaxFrames /\ mCapturedBuffers \in 0..MaxFrames
  /\ sensorAt \in {"control", "deliver", "blocked", "woken", "capture", "exited"}
  /\ lost \in Nat
JpegTypes ==
  /\ mIsBusy \in BOOLEAN /\ jpegBuffers \in 0..MaxFrames
  /\ mJpegWaiting \in BOOLEAN /\ mJpegFrameNumber \in 0..MaxFrames
  /\ jpegThread \in {"stopped", "compress", "done", "exiting"}
ResultTypes == results \subseteq FrameNumbers /\ jpegs \subseteq FrameNumbers

LEMMA TypesApart ==
  CameraTypeOK <=> /\ FrameworkTypes /\ ReadoutTypes /\ ControlTypes
                   /\ SensorTypes /\ JpegTypes /\ ResultTypes /\ orphan \in BOOLEAN
  BY ZenonT(60) DEF CameraTypeOK, FrameworkTypes, ReadoutTypes, ControlTypes, SensorTypes, JpegTypes,
     ResultTypes

\* What is left alone keeps its type.
LEMMA TypesStay ==
  ASSUME CameraTypeOK
  PROVE  /\ UNCHANGED frameworkVars => FrameworkTypes'
         /\ UNCHANGED readoutVars => ReadoutTypes'
         /\ UNCHANGED controlVars => ControlTypes'
         /\ UNCHANGED sensorVars => SensorTypes'
         /\ UNCHANGED jpegVars => JpegTypes'
         /\ UNCHANGED resultVars => ResultTypes'
<1>1. UNCHANGED frameworkVars => FrameworkTypes'
  BY TypesApart, ZenonT(60) DEF FrameworkTypes, frameworkVars
<1>2. UNCHANGED readoutVars => ReadoutTypes'
  BY TypesApart, ZenonT(60) DEF ReadoutTypes, readoutVars
<1>3. UNCHANGED controlVars => ControlTypes'
  BY TypesApart, ZenonT(60) DEF ControlTypes, controlVars
<1>4. UNCHANGED sensorVars => SensorTypes'
  BY TypesApart, ZenonT(60) DEF SensorTypes, sensorVars
<1>5. UNCHANGED jpegVars => JpegTypes'
  BY TypesApart, ZenonT(60) DEF JpegTypes, jpegVars
<1>6. UNCHANGED resultVars => ResultTypes'
  BY TypesApart, ZenonT(60) DEF ResultTypes, resultVars
<1> QED
  BY <1>1, <1>2, <1>3, <1>4, <1>5, <1>6, ZenonT(60)

CInv ==
  /\ CameraTypeOK /\ InStep /\ SensorInv /\ OneReserved /\ CallsInv
  /\ SensorGone /\ Unanswered

\* Images and requests are in one order, so the first of each are one frame when
\* no image was overwritten; else the image may be a later one.
LEMMA FirstImage ==
  ASSUME CInv, readoutAt = "image", mCapturedBuffers # NoFrame
  PROVE  /\ mCurrentRequest <= mCapturedBuffers
         /\ lost = 0 => mCurrentRequest = mCapturedBuffers
<1> USE DEF CInv, InStep
<1>1. mCapturedBuffers \in Nat /\ mCurrentRequest \in Nat
  BY CameraBounds DEF CameraTypeOK
<1>2. /\ mCurrentRequest \in Accepted /\ mCapturedBuffers \in Images
      /\ Images \subseteq Accepted /\ (lost = 0 => Images = Accepted)
  BY DEF Accepted, Images, SameFrames
<1>3. \A f \in Images : f = mCapturedBuffers \/ mCapturedBuffers < f
  BY DEF Images, ImagesInOrder, Later
<1>4. \A f \in Accepted : f = mCurrentRequest \/ mCurrentRequest < f
  BY DEF Accepted, RequestsInOrder
<1> QED
  BY <1>1, <1>2, <1>3, <1>4, SMTT(60)

LEMMA CInvInStep == CInv => PipelineInStep
<1> SUFFICES ASSUME CInv PROVE PipelineInStep
  BY ZenonT(60)
<1>1. readoutAt = "image" /\ kind[mCurrentRequest] = "jpeg" => ~mJpegWaiting
  BY SMTT(60) DEF CInv, OneReserved, Reserved, Accepted
<1>2. ASSUME sensorAt # "exited", NEW f \in {nextBuffers, mNextBuffers} \ {NoFrame}
      PROVE  f \in results \/ (call = "queue" /\ f = submitted)
  <2>1. f \in Accepted
    BY <1>2, ZenonT(60) DEF CInv, InStep, SameFrames, SensorGone, Images
  <2> QED
    BY <2>1, ZenonT(60) DEF CInv, Unanswered, Accepted
<1> QED
  BY <1>1, <1>2, FirstImage, ZenonT(60) DEF PipelineInStep

\* A request queue and what is appended to it.
LEMMA QueueAppend ==
  ASSUME NEW q \in Seq(FrameNumbers), NEW f \in FrameNumbers
  PROVE  /\ Append(q, f) \in Seq(FrameNumbers) /\ Len(Append(q, f)) = Len(q) + 1
         /\ Range(Append(q, f)) = Range(q) \cup {f}
         /\ (\A i, j \in DOMAIN q : i < j => q[i] < q[j]) /\ (\A g \in Range(q) : g < f)
              => \A i, j \in DOMAIN Append(q, f) : i < j => Append(q, f)[i] < Append(q, f)[j]
<1>1. /\ Append(q, f) \in Seq(FrameNumbers) /\ Len(Append(q, f)) = Len(q) + 1
      /\ DOMAIN q = 1..Len(q) /\ DOMAIN Append(q, f) = 1..(Len(q) + 1)
      /\ \A i \in 1..Len(q) : Append(q, f)[i] = q[i]
      /\ Append(q, f)[Len(q) + 1] = f
  OBVIOUS
<1>2. Range(Append(q, f)) = Range(q) \cup {f}
  BY <1>1 DEF Range
<1>3. ASSUME \A i, j \in DOMAIN q : i < j => q[i] < q[j], \A g \in Range(q) : g < f,
             NEW i \in DOMAIN Append(q, f), NEW j \in DOMAIN Append(q, f), i < j
      PROVE  Append(q, f)[i] < Append(q, f)[j]
  <2>1. i \in 1..Len(q) /\ (j \in 1..Len(q) \/ j = Len(q) + 1)
    BY <1>1, <1>3, SMTT(60)
  <2>2. q[i] \in Range(q)
    BY <1>1, <2>1, ZenonT(60) DEF Range
  <2> QED
    BY <1>1, <1>3, <2>1, <2>2, ZenonT(60)
<1> QED
  BY <1>1, <1>2, <1>3, ZenonT(60)

\* The first request of a queue, and the others.
LEMMA QueueTail ==
  ASSUME NEW q \in Seq(FrameNumbers), q # <<>>,
         \A i, j \in DOMAIN q : i < j => q[i] < q[j]
  PROVE  /\ Head(q) \in FrameNumbers /\ Tail(q) \in Seq(FrameNumbers)
         /\ Len(Tail(q)) < Len(q)
         /\ Range(q) = Range(Tail(q)) \cup {Head(q)}
         /\ \A f \in Range(Tail(q)) : Head(q) < f
         /\ \A i, j \in DOMAIN Tail(q) : i < j => Tail(q)[i] < Tail(q)[j]
<1>1. /\ Len(q) \in Nat \ {0} /\ Head(q) = q[1] /\ Head(q) \in FrameNumbers
      /\ Tail(q) \in Seq(FrameNumbers) /\ DOMAIN Tail(q) = 1..(Len(q) - 1)
      /\ DOMAIN q = 1..Len(q) /\ Len(Tail(q)) = Len(q) - 1
      /\ \A i \in 1..(Len(q) - 1) : Tail(q)[i] = q[i + 1]
  OBVIOUS
<1>2. Range(q) = Range(Tail(q)) \cup {Head(q)}
  <2>1. ASSUME NEW x \in Range(q) PROVE x \in Range(Tail(q)) \cup {Head(q)}
    <3>1. PICK i \in 1..Len(q) : x = q[i]
      BY <1>1, ZenonT(60) DEF Range
    <3>2. CASE i = 1
      BY <3>1, <3>2, <1>1
    <3>3. CASE i # 1
      <4>1. i - 1 \in 1..(Len(q) - 1) /\ x = Tail(q)[i - 1]
        BY <3>1, <3>3, <1>1, SMTT(60)
      <4> QED
        BY <4>1, <1>1, ZenonT(60) DEF Range
    <3> QED
      BY <3>2, <3>3, ZenonT(60)
  <2>2. ASSUME NEW x \in Range(Tail(q)) PROVE x \in Range(q)
    BY <1>1 DEF Range
  <2>3. Head(q) \in Range(q)
    BY <1>1, SMTT(60) DEF Range
  <2> QED
    BY <2>1, <2>2, <2>3, ZenonT(60)
<1>3. \A f \in Range(Tail(q)) : Head(q) < f
  BY <1>1 DEF Range
<1>4. ASSUME NEW i \in DOMAIN Tail(q), NEW j \in DOMAIN Tail(q), i < j
      PROVE  Tail(q)[i] < Tail(q)[j]
  <2>1. i + 1 \in DOMAIN q /\ j + 1 \in DOMAIN q /\ i + 1 < j + 1
    BY <1>1, <1>4
  <2> QED
    BY <1>1, <2>1, ZenonT(60)
<1> QED
  BY <1>1, <1>2, <1>3, <1>4

\* Nothing is queued in an empty queue.
LEMMA EmptyQueue == DOMAIN <<>> = {}
OBVIOUS

\* A camera without a request in its pipeline.
Empty ==
  /\ mInFlightQueue = <<>> /\ mCurrentRequest = NoFrame
  /\ mNextBuffers = NoFrame /\ nextBuffers = NoFrame /\ mNextCapturedBuffers = NoFrame
  /\ mCapturedBuffers = NoFrame
  /\ \/ readoutAt = "take" /\ sensorAt = "control"
     \/ readoutAt = "exited" /\ sensorAt = "exited" /\ camStatus = "CLOSED"
  /\ call = "none" /\ mJpegWaiting = FALSE /\ jpegThread = "stopped"

LEMMA EmptyPipeline ==
  ASSUME Empty, submitted \in 0..MaxFrames
  PROVE  InStep /\ SensorInv /\ OneReserved /\ CallsInv /\ SensorGone /\ Unanswered
<1>0. 0 <= submitted
  BY CameraBounds
<1>1. Queued = {} /\ DOMAIN mInFlightQueue = {}
  BY EmptyQueue, ZenonT(60) DEF Queued, Range, Empty
<1>2. SameFrames /\ ImagesInOrder
  BY <1>1, ZenonT(60) DEF SameFrames, Images, Accepted, Undelivered, ImagesInOrder, Later, Empty
<1>3. RequestsInOrder
  BY <1>0, <1>1, ZenonT(60) DEF RequestsInOrder, NoFrame, Empty
<1>4. Reserved = {}
  BY <1>1, ZenonT(60) DEF Reserved, Accepted, Empty
<1>5. SensorInv /\ OneReserved /\ CallsInv
  BY <1>4, ZenonT(60) DEF SensorInv, OneReserved, CallsInv, Empty
<1>6. SensorGone /\ Unanswered
  BY <1>1, ZenonT(60) DEF SensorGone, Unanswered, Empty
<1> QED
  BY <1>2, <1>3, <1>5, <1>6, ZenonT(60) DEF InStep

\* The same of a step that empties the pipeline.
LEMMA EmptiedPipeline ==
  ASSUME Empty', submitted' \in 0..MaxFrames
  PROVE  InStep' /\ SensorInv' /\ OneReserved' /\ CallsInv' /\ SensorGone' /\ Unanswered'
<1>0. 0 <= submitted'
  BY CameraBounds
<1>1. Queued' = {} /\ DOMAIN mInFlightQueue' = {}
  BY EmptyQueue, ZenonT(60) DEF Queued, Range, Empty
<1>2. SameFrames' /\ ImagesInOrder'
  BY <1>1, ZenonT(60) DEF SameFrames, Images, Accepted, Undelivered, ImagesInOrder, Later, Empty
<1>3. RequestsInOrder'
  BY <1>0, <1>1, ZenonT(60) DEF RequestsInOrder, NoFrame, Empty
<1>4. Reserved' = {}
  BY <1>1, ZenonT(60) DEF Reserved, Accepted, Empty
<1>5. SensorInv' /\ OneReserved' /\ CallsInv'
  BY <1>4, ZenonT(60) DEF SensorInv, OneReserved, CallsInv, Empty
<1>6. SensorGone' /\ Unanswered'
  BY <1>1, ZenonT(60) DEF SensorGone, Unanswered, Empty
<1> QED
  BY <1>2, <1>3, <1>5, <1>6, ZenonT(60) DEF InStep

LEMMA InitCInv == CameraInit => CInv
<1> SUFFICES ASSUME CameraInit PROVE CInv
  OBVIOUS
<1>1. 0 \in 0..MaxFrames
  BY CameraBounds
<1>2. Len(<<>>) = 0 /\ 0 <= kMaxQueueSize /\ <<>> \in Seq(FrameNumbers)
  BY CameraBounds
<1>3. CameraTypeOK
  BY <1>1, <1>2, CameraBounds, ZenonT(60) DEF CameraInit, CameraTypeOK, NoFrame
<1> QED
  BY <1>1, <1>3, EmptyPipeline, ZenonT(60) DEF CInv, CameraInit, NoFrame, Empty

LEMMA StepCInv == CInv /\ [CameraNext]_cameraVars => CInv'
<1> SUFFICES ASSUME CInv, [CameraNext]_cameraVars PROVE CInv'
  OBVIOUS
<1> USE CameraBounds
<1>t. /\ CameraTypeOK /\ InStep /\ SensorInv /\ OneReserved /\ CallsInv
      /\ SensorGone /\ Unanswered
  BY DEF CInv
<1>n. 0 \in 0..MaxFrames /\ FrameNumbers \subseteq 0..MaxFrames
  BY SMTT(60) DEF FrameNumbers
<1>g. FrameworkTypes /\ ReadoutTypes /\ ControlTypes /\ SensorTypes /\ JpegTypes /\ ResultTypes
  BY <1>t, TypesApart, ZenonT(60)
<1>f. /\ UNCHANGED frameworkVars => FrameworkTypes'
      /\ UNCHANGED readoutVars => ReadoutTypes'
      /\ UNCHANGED controlVars => ControlTypes'
      /\ UNCHANGED sensorVars => SensorTypes'
      /\ UNCHANGED jpegVars => JpegTypes'
      /\ UNCHANGED resultVars => ResultTypes'
  BY <1>t, TypesStay, ZenonT(60)
<1>b. orphan' \in BOOLEAN
  BY <1>t, ZenonT(60) DEF CameraTypeOK, CameraNext, otherSteps, undefinedUse, frameworkSteps, readoutJoined,
     sensorSteps, readoutSteps, jpegSteps, cameraVars
<1>k. FrameworkTypes' /\ ReadoutTypes' /\ ControlTypes' /\ SensorTypes' /\ JpegTypes' /\ ResultTypes'
        => CameraTypeOK'
  BY <1>b, ZenonT(60) DEF CameraTypeOK, FrameworkTypes, ReadoutTypes, ControlTypes, SensorTypes,
     JpegTypes, ResultTypes
<1>q. Queued \subseteq FrameNumbers
  BY <1>g, SMTT(60) DEF Queued, Range, ReadoutTypes
<1>c. UNCHANGED <<camStatus, call, mInFlightQueue>> => CallsInv'
  BY <1>t, ZenonT(60) DEF CallsInv
<1>r. UNCHANGED <<mInFlightQueue, readoutAt, mCurrentRequest, call, submitted>>
        => Accepted' = Accepted /\ RequestsInOrder'
  BY <1>t, ZenonT(60) DEF Accepted, Queued, InStep, RequestsInOrder
<1>i. UNCHANGED <<sensorVars, mNextBuffers>> => Images' = Images /\ ImagesInOrder'
  BY <1>t, ZenonT(60) DEF Images, Undelivered, sensorVars, InStep, ImagesInOrder
<1>m. ASSUME Images' = Images, Accepted' = Accepted, UNCHANGED <<lost, readoutAt>>
      PROVE  SameFrames'
  BY <1>m, <1>t, ZenonT(60) DEF InStep, SameFrames
<1>u. UNCHANGED <<mInFlightQueue, readoutAt, mCurrentRequest, results>> => Unanswered'
  BY <1>t, ZenonT(60) DEF Unanswered, Queued
<1>e. ASSUME readoutAt' = "exited" => readoutAt = "exited", call' = "join" => call = "join",
             sensorAt = "exited" => sensorAt' = "exited", call = "join" => call' = "join",
             camStatus = "CLOSED" => camStatus' = "CLOSED"
      PROVE  SensorGone'
  BY <1>e, <1>t, ZenonT(60) DEF SensorGone
<1>s. UNCHANGED <<sensorVars, controlVars>> /\ (call' = call \/ call' # "vsync") => SensorInv'
  BY <1>t, SMTT(60) DEF SensorInv, sensorVars, controlVars
<1>o. ASSUME UNCHANGED <<mIsBusy, jpegBuffers, mJpegWaiting, mJpegFrameNumber, jpegThread>>,
             Reserved' \subseteq Reserved
      PROVE  OneReserved'
  BY <1>o, <1>t, ZenonT(60) DEF OneReserved
<1>1. CASE UNCHANGED cameraVars
  <2>1. CameraTypeOK' /\ CallsInv'
    <3>1. CallsInv'
      BY <1>1, <1>c, ZenonT(60) DEF cameraVars, frameworkVars, readoutVars
    <3> QED
      BY <1>1, <3>1, <1>f, <1>k, ZenonT(60) DEF cameraVars
  <2>2. Accepted' = Accepted /\ Reserved' = Reserved
    BY <1>1, <1>r, ZenonT(60) DEF cameraVars, frameworkVars, readoutVars, Reserved
  <2>3. RequestsInOrder' /\ Images' = Images /\ ImagesInOrder' /\ SensorInv'
    BY <1>1, <1>r, <1>i, <1>s, ZenonT(60) DEF cameraVars, frameworkVars, readoutVars, controlVars
  <2>4. SameFrames' /\ Unanswered' /\ SensorGone'
    BY <1>1, <2>2, <2>3, <1>m, <1>u, <1>e, ZenonT(60) DEF cameraVars, frameworkVars, readoutVars, sensorVars,
       resultVars
  <2>5. OneReserved'
    BY <1>1, <2>2, <1>o, ZenonT(60) DEF cameraVars, jpegVars
  <2> QED
    BY <2>1, <2>3, <2>4, <2>5, ZenonT(60) DEF CInv, InStep
<1>2. CASE connectCamera
  <2> USE <1>2 DEF connectCamera
  <2>0. call' = "none"
    BY <1>t, ZenonT(60) DEF CallsInv
  <2>1. Empty' /\ submitted' \in 0..MaxFrames
    BY <2>0, <1>t, ZenonT(60) DEF Empty, CameraTypeOK
  <2>6. Len(<<>>) = 0 /\ 0 <= kMaxQueueSize /\ <<>> \in Seq(FrameNumbers)
    OBVIOUS
  <2>7. CameraTypeOK'
    BY <1>t, <1>b, <1>n, <2>6, ZenonT(60) DEF CameraTypeOK, resultVars, NoFrame
  <2> QED
    BY <2>1, <2>7, EmptiedPipeline, ZenonT(60) DEF CInv
<1>18. CASE readoutJoined \/ undefinedUse
  <2>0. leaveNothing /\ submitted' \in 0..MaxFrames
    BY <1>18, <1>t, <1>n, ZenonT(60) DEF readoutJoined, undefinedUse, CameraTypeOK
  <2>1. Empty'
    BY <2>0, ZenonT(60) DEF Empty, leaveNothing
  <2>2. Len(<<>>) = 0 /\ 0 <= kMaxQueueSize /\ <<>> \in Seq(FrameNumbers)
    OBVIOUS
  <2>3. CameraTypeOK'
    BY <1>b, <1>n, <2>0, <2>2, ZenonT(60) DEF CameraTypeOK, leaveNothing, NoFrame
  <2> QED
    BY <2>0, <2>1, <2>3, EmptiedPipeline, ZenonT(60) DEF CInv
<1>3. CASE closeCamera \/ sensorJoined \/ configureStreams \/ requestFails
  <2>0. /\ UNCHANGED <<submitted, kind, readoutVars, controlVars, sensorVars, jpegVars, resultVars>>
        /\ camStatus' \in {"CLOSED", "READY", "ACTIVE"} /\ configured' \in BOOLEAN
        /\ call \in {"none", "shutDown"} /\ call' \in {"none", "shutDown", "join"}
        /\ camStatus' = "CLOSED" => call' = "none"
        /\ call' = "join" => sensorAt = "exited"
        /\ camStatus # "CLOSED"
    BY <1>3, <1>t, ZenonT(60) DEF closeCamera, sensorJoined, configureStreams, requestFails, CameraTypeOK,
       CallsInv
  <2>1. CameraTypeOK' /\ CallsInv'
    <3>1. FrameworkTypes'
      BY <2>0, <1>g, ZenonT(60) DEF FrameworkTypes
    <3>2. CallsInv'
      BY <2>0, ZenonT(60) DEF CallsInv
    <3> QED
      BY <2>0, <3>1, <3>2, <1>f, <1>k, ZenonT(60)
  <2>2. Accepted' = Accepted /\ RequestsInOrder'
    BY <2>0, <1>t, ZenonT(60) DEF Accepted, Queued, readoutVars, InStep, RequestsInOrder
  <2>3. Reserved' = Reserved
    BY <2>0, <2>2, ZenonT(60) DEF Reserved
  <2>4. Images' = Images /\ ImagesInOrder' /\ SensorInv'
    BY <2>0, <1>i, <1>s, ZenonT(60) DEF controlVars
  <2>5. SameFrames' /\ Unanswered'
    BY <2>0, <2>2, <2>4, <1>m, <1>u, ZenonT(60) DEF readoutVars, sensorVars, resultVars
  <2>6. SensorGone'
    BY <2>0, <1>t, ZenonT(60) DEF SensorGone, readoutVars, sensorVars
  <2>7. OneReserved'
    BY <2>0, <2>3, <1>o, ZenonT(60) DEF jpegVars
  <2> QED
    BY <2>1, <2>2, <2>4, <2>5, <2>6, <2>7, ZenonT(60) DEF CInv, InStep
<1>4. ASSUME NEW k \in Kinds, processCaptureRequest(k) PROVE CInv'
  <2>0. /\ UNCHANGED <<configured, readoutVars, controlVars, sensorVars, jpegVars, resultVars>>
        /\ call = "none" /\ call' = (IF k = "preview" THEN "room" ELSE "jpeg")
        /\ submitted' = submitted + 1 /\ submitted < MaxFrames /\ camStatus' = "ACTIVE"
        /\ camStatus # "CLOSED"
        /\ kind' = [kind EXCEPT ![submitted + 1] = k]
    BY <1>4, ZenonT(60) DEF processCaptureRequest
  <2>1. submitted' \in FrameNumbers /\ submitted' \in 0..MaxFrames /\ submitted < submitted'
        /\ submitted \in Nat
    BY <2>0, <1>t, SMTT(60) DEF CameraTypeOK, FrameNumbers
  <2>2. kind' \in [FrameNumbers -> Kinds]
        /\ kind'[submitted'] = k /\ \A f \in FrameNumbers : f # submitted' => kind'[f] = kind[f]
    BY <2>0, <2>1, <1>t, ZenonT(60) DEF CameraTypeOK
  <2>3. CameraTypeOK' /\ CallsInv'
    <3>1. FrameworkTypes'
      BY <2>0, <2>1, <2>2, <1>g, ZenonT(60) DEF FrameworkTypes
    <3>2. CallsInv'
      BY <2>0, ZenonT(60) DEF CallsInv
    <3> QED
      BY <2>0, <3>1, <3>2, <1>f, <1>k, ZenonT(60)
  <2>4. Accepted' = Accepted /\ Queued' = Queued
    BY <2>0, ZenonT(60) DEF Accepted, Queued, readoutVars
  <2>5. Queued \subseteq FrameNumbers /\ mCurrentRequest \in 0..MaxFrames
    BY <1>g, <1>q, ZenonT(60) DEF ReadoutTypes
  <2>6. mCurrentRequest < submitted' /\ \A f \in Queued : f < submitted'
    BY <2>1, <2>5, <1>t, SMTT(60) DEF InStep, RequestsInOrder, FrameNumbers
  <2>7. RequestsInOrder'
    <3>1. mCurrentRequest <= submitted' /\ \A f \in Queued : f <= submitted'
      BY <2>1, <2>5, <2>6, SMTT(60) DEF FrameNumbers
    <3> QED
      BY <2>0, <2>1, <2>4, <2>6, <3>1, <1>t, ZenonT(60) DEF InStep, RequestsInOrder, readoutVars
  <2>8. Reserved' \subseteq Reserved
    <3>1. \A f \in Accepted : f # submitted' /\ f \in FrameNumbers
      BY <2>0, <2>1, <2>5, <2>6, <1>t, SMTT(60) DEF Accepted, FrameNumbers, InStep, RequestsInOrder
    <3> QED
      BY <3>1, <2>0, <2>2, <2>4, ZenonT(60) DEF Reserved
  <2>9. Images' = Images /\ ImagesInOrder' /\ SensorInv'
    BY <2>0, <1>i, <1>s, ZenonT(60) DEF controlVars
  <2>10. SameFrames' /\ Unanswered' /\ SensorGone'
    BY <2>0, <2>4, <2>9, <1>m, <1>u, <1>e, ZenonT(60) DEF readoutVars, sensorVars, resultVars
  <2>11. OneReserved'
    BY <2>0, <2>8, <1>o, ZenonT(60) DEF jpegVars
  <2> QED
    BY <2>3, <2>7, <2>9, <2>10, <2>11, ZenonT(60) DEF CInv, InStep
<1>5. CASE waitForDone
  <2>0. /\ UNCHANGED <<camStatus, configured, submitted, kind, readoutVars, controlVars, sensorVars,
                       jpegBuffers, mJpegWaiting, mJpegFrameNumber, jpegThread, resultVars>>
        /\ call = "jpeg" /\ call' = "room" /\ ~mIsBusy /\ mIsBusy' = TRUE
    BY <1>5, ZenonT(60) DEF waitForDone
  <2>1. CameraTypeOK' /\ CallsInv'
    <3>1. FrameworkTypes'
      BY <2>0, <1>g, ZenonT(60) DEF FrameworkTypes
    <3>2. JpegTypes'
      BY <2>0, <1>g, ZenonT(60) DEF JpegTypes
    <3>3. CallsInv'
      BY <2>0, <1>t, ZenonT(60) DEF CallsInv
    <3> QED
      BY <2>0, <3>1, <3>2, <3>3, <1>f, <1>k, ZenonT(60)
  <2>2. Accepted' = Accepted /\ RequestsInOrder'
    BY <2>0, <1>t, ZenonT(60) DEF Accepted, Queued, readoutVars, InStep, RequestsInOrder
  <2>3. Reserved = {} /\ jpegThread \notin {"compress", "done"}
    BY <2>0, <1>t, ZenonT(60) DEF OneReserved
  <2>4. Reserved' \subseteq {submitted}
    BY <2>0, <2>2, <2>3, ZenonT(60) DEF Reserved
  <2>5. OneReserved'
    BY <2>0, <2>3, <2>4, <1>t, ZenonT(60) DEF OneReserved
  <2>6. Images' = Images /\ ImagesInOrder' /\ SensorInv'
    BY <2>0, <1>i, <1>s, ZenonT(60) DEF controlVars
  <2>7. SameFrames' /\ Unanswered' /\ SensorGone'
    BY <2>0, <2>2, <2>6, <1>m, <1>u, <1>e, ZenonT(60) DEF readoutVars, sensorVars, resultVars
  <2> QED
    BY <2>1, <2>2, <2>5, <2>6, <2>7, ZenonT(60) DEF CInv, InStep
<1>6. CASE waitForReadout
  <2>0. /\ UNCHANGED <<camStatus, configured, submitted, kind, readoutVars, mNextBuffers, sensorVars,
                       jpegVars, resultVars>>
        /\ call = "room" /\ call' = "vsync" /\ mGotVSync' = FALSE
        /\ Len(mInFlightQueue) < kMaxQueueSize
    BY <1>6, ZenonT(60) DEF waitForReadout
  <2>1. CameraTypeOK' /\ CallsInv'
    <3>1. FrameworkTypes'
      BY <2>0, <1>g, ZenonT(60) DEF FrameworkTypes
    <3>2. ControlTypes'
      BY <2>0, <1>g, ZenonT(60) DEF ControlTypes
    <3>3. CallsInv'
      BY <2>0, <1>t, ZenonT(60) DEF CallsInv, readoutVars
    <3> QED
      BY <2>0, <3>1, <3>2, <3>3, <1>f, <1>k, ZenonT(60)
  <2>2. Accepted' = Accepted /\ RequestsInOrder'
    BY <2>0, <1>t, ZenonT(60) DEF Accepted, Queued, readoutVars, InStep, RequestsInOrder
  <2>3. Reserved' = Reserved
    BY <2>0, <2>2, ZenonT(60) DEF Reserved
  <2>4. SensorInv'
    BY <2>0, <1>t, ZenonT(60) DEF SensorInv, sensorVars
  <2>5. Images' = Images /\ ImagesInOrder'
    BY <2>0, <1>i, ZenonT(60)
  <2>6. SameFrames' /\ Unanswered' /\ SensorGone'
    BY <2>0, <2>2, <2>5, <1>m, <1>u, <1>e, ZenonT(60) DEF readoutVars, sensorVars, resultVars
  <2>7. OneReserved'
    BY <2>0, <2>3, <1>o, ZenonT(60) DEF jpegVars
  <2> QED
    BY <2>1, <2>2, <2>4, <2>5, <2>6, <2>7, ZenonT(60) DEF CInv, InStep
<1>7. CASE setDestinationBuffers
  <2>0. /\ UNCHANGED <<camStatus, configured, submitted, kind, mGotVSync, readoutVars, sensorVars,
                       jpegVars, resultVars>>
        /\ call = "vsync" /\ mGotVSync /\ mNextBuffers' = submitted /\ call' = "queue"
    BY <1>7, ZenonT(60) DEF setDestinationBuffers
  <2>1. CameraTypeOK' /\ CallsInv'
    <3>1. FrameworkTypes'
      BY <2>0, <1>g, ZenonT(60) DEF FrameworkTypes
    <3>2. ControlTypes'
      BY <2>0, <1>g, ZenonT(60) DEF ControlTypes, FrameworkTypes
    <3>3. CallsInv'
      BY <2>0, <1>t, ZenonT(60) DEF CallsInv, readoutVars
    <3> QED
      BY <2>0, <3>1, <3>2, <3>3, <1>f, <1>k, ZenonT(60)
  <2>2. Accepted' = Accepted \cup {submitted} /\ Queued' = Queued
    BY <2>0, ZenonT(60) DEF Accepted, Queued, readoutVars
  <2>3. RequestsInOrder'
    BY <2>0, <2>2, <1>t, ZenonT(60) DEF readoutVars, InStep, RequestsInOrder
  <2>r. readoutAt # "exited"
    BY <2>0, <1>t, ZenonT(60) DEF SensorGone, CallsInv
  <2>4. mNextBuffers = NoFrame /\ submitted # NoFrame
    BY <2>0, <1>t, SMTT(60) DEF SensorInv, InStep, RequestsInOrder, FrameNumbers, NoFrame
  <2>5. \A f \in Accepted : f < submitted
    BY <2>0, <1>t, ZenonT(60) DEF Accepted, InStep, RequestsInOrder
  <2>6. Images' = Images \cup {submitted}
    BY <2>0, <2>4, ZenonT(60) DEF Images, Undelivered, sensorVars
  <2>7. /\ mCapturedBuffers # NoFrame => mCapturedBuffers < submitted
        /\ Undelivered # NoFrame => Undelivered < submitted
        /\ nextBuffers # NoFrame => nextBuffers < submitted
    <3>1. Images \subseteq Accepted
      BY <1>t, <2>r, ZenonT(60) DEF InStep, SameFrames
    <3> QED
      BY <2>5, <3>1, ZenonT(60) DEF Images
  <2>8. ImagesInOrder'
    BY <2>0, <2>7, <1>t, ZenonT(60) DEF InStep, ImagesInOrder, Later, Undelivered, sensorVars
  <2>9. Reserved' = Reserved
    BY <2>0, <2>2, ZenonT(60) DEF Reserved
  <2>10. SensorInv'
    BY <2>0, <1>t, ZenonT(60) DEF SensorInv, sensorVars
  <2>11. SameFrames'
    BY <2>0, <2>2, <2>6, <1>t, ZenonT(60) DEF InStep, SameFrames, readoutVars, sensorVars
  <2>12. Unanswered' /\ SensorGone'
    BY <2>0, <1>u, <1>e, ZenonT(60) DEF readoutVars, sensorVars, resultVars
  <2>13. OneReserved'
    BY <2>0, <2>9, <1>o, ZenonT(60) DEF jpegVars
  <2> QED
    BY <2>1, <2>3, <2>8, <2>10, <2>11, <2>12, <2>13, ZenonT(60) DEF CInv, InStep
<1>8. CASE queueCaptureRequest
  <2>0. /\ UNCHANGED <<camStatus, configured, submitted, kind, mThreadActive, mCurrentRequest,
                       readoutAt, controlVars, sensorVars, jpegVars>>
        /\ call = "queue" /\ call' = "none"
        /\ mInFlightQueue' = Append(mInFlightQueue, submitted)
        /\ results' = results \cup {submitted}
        /\ jpegs' \in {jpegs, jpegs \cup {submitted}}
    BY <1>8, ZenonT(60) DEF queueCaptureRequest
  <2>1. submitted \in FrameNumbers /\ mCurrentRequest < submitted /\ \A f \in Queued : f < submitted
    BY <2>0, <1>t, ZenonT(60) DEF InStep, RequestsInOrder
  <2>2. /\ mInFlightQueue' \in Seq(FrameNumbers) /\ Len(mInFlightQueue') = Len(mInFlightQueue) + 1
        /\ Queued' = Queued \cup {submitted}
        /\ \A i, j \in DOMAIN mInFlightQueue' : i < j => mInFlightQueue'[i] < mInFlightQueue'[j]
    BY <2>0, <2>1, <1>t, QueueAppend, ZenonT(60) DEF CameraTypeOK, Queued, InStep, RequestsInOrder
  <2>3. Len(mInFlightQueue') <= kMaxQueueSize
    BY <2>0, <2>2, <1>t, SMTT(60) DEF CallsInv, CameraTypeOK
  <2>4. CameraTypeOK' /\ CallsInv'
    <3>1. FrameworkTypes'
      BY <2>0, <1>g, ZenonT(60) DEF FrameworkTypes
    <3>2. ReadoutTypes'
      BY <2>0, <2>2, <2>3, <1>g, ZenonT(60) DEF ReadoutTypes
    <3>3. ResultTypes'
      BY <2>0, <2>1, <1>g, ZenonT(60) DEF ResultTypes
    <3>4. CallsInv'
      BY <2>0, ZenonT(60) DEF CallsInv
    <3> QED
      BY <2>0, <3>1, <3>2, <3>3, <3>4, <1>f, <1>k, ZenonT(60)
  <2>5. Accepted' = Accepted
    BY <2>0, <2>2, ZenonT(60) DEF Accepted
  <2>6. RequestsInOrder'
    <3>1. Queued \subseteq FrameNumbers /\ mCurrentRequest \in 0..MaxFrames
      BY <1>g, <1>q, ZenonT(60) DEF ReadoutTypes
    <3>2. mCurrentRequest <= submitted /\ \A f \in Queued' : f <= submitted
      BY <2>1, <2>2, <3>1 DEF FrameNumbers
    <3> QED
      BY <2>0, <2>1, <2>2, <3>2, <1>t, ZenonT(60) DEF InStep, RequestsInOrder
  <2>7. Reserved' = Reserved
    BY <2>0, <2>5, ZenonT(60) DEF Reserved
  <2>8. Images' = Images /\ ImagesInOrder' /\ SensorInv'
    BY <2>0, <1>i, <1>s, ZenonT(60) DEF controlVars
  <2>9. SameFrames' /\ SensorGone'
    BY <2>0, <2>5, <2>8, <1>m, <1>e, ZenonT(60) DEF sensorVars
  <2>10. Unanswered'
    BY <2>0, <2>2, <1>t, ZenonT(60) DEF Unanswered
  <2>11. OneReserved'
    BY <2>0, <2>7, <1>o, ZenonT(60) DEF jpegVars
  <2> QED
    BY <2>4, <2>6, <2>8, <2>9, <2>10, <2>11, ZenonT(60) DEF CInv, InStep
<1>9. CASE waitTimesOut
  <2>0. /\ UNCHANGED <<camStatus, configured, submitted, readoutVars, controlVars, sensorVars, jpegVars,
                       resultVars>>
        /\ call \in {"jpeg", "room", "vsync"} /\ call' = "none"
        /\ kind' = [kind EXCEPT ![submitted] = "preview"]
    BY <1>9 DEF waitTimesOut
  <2>1. kind' \in [FrameNumbers -> Kinds] /\ \A f \in FrameNumbers : kind'[f] \in {kind[f], "preview"}
    BY <2>0, <1>t, ZenonT(60) DEF CameraTypeOK
  <2>2. CameraTypeOK' /\ CallsInv'
    <3>1. FrameworkTypes'
      BY <2>0, <2>1, <1>g, ZenonT(60) DEF FrameworkTypes
    <3>2. CallsInv'
      BY <2>0, ZenonT(60) DEF CallsInv
    <3> QED
      BY <2>0, <3>1, <3>2, <1>f, <1>k, ZenonT(60)
  <2>3. Accepted' = Accepted /\ RequestsInOrder'
    BY <2>0, <1>t, ZenonT(60) DEF Accepted, Queued, readoutVars, InStep, RequestsInOrder
  <2>4. Accepted \subseteq FrameNumbers
    <3>1. /\ readoutAt = "image" => mCurrentRequest \in FrameNumbers
          /\ call = "queue" => submitted \in FrameNumbers
      BY <1>t, ZenonT(60) DEF InStep, RequestsInOrder
    <3> QED
      BY <2>0, <3>1, <1>q, ZenonT(60) DEF Accepted
  <2>5. Reserved' \subseteq Reserved
    BY <2>0, <2>1, <2>3, <2>4, ZenonT(60) DEF Reserved
  <2>6. Images' = Images /\ ImagesInOrder' /\ SensorInv'
    BY <2>0, <1>i, <1>s, ZenonT(60) DEF controlVars
  <2>7. SameFrames' /\ Unanswered' /\ SensorGone'
    BY <2>0, <2>3, <2>6, <1>m, <1>u, <1>e, ZenonT(60) DEF readoutVars, sensorVars, resultVars
  <2>8. OneReserved'
    BY <2>0, <2>5, <1>o, ZenonT(60) DEF jpegVars
  <2> QED
    BY <2>2, <2>3, <2>6, <2>7, <2>8, ZenonT(60) DEF CInv, InStep
<1>10. CASE readControls
  <2>0. /\ UNCHANGED <<frameworkVars, readoutVars, mCapturedBuffers, mNextCapturedBuffers, lost,
                       jpegVars, resultVars>>
        /\ sensorAt = "control" /\ nextBuffers' = mNextBuffers /\ mNextBuffers' = NoFrame
        /\ mGotVSync' = TRUE
        /\ sensorAt' = (IF mNextCapturedBuffers # NoFrame THEN "deliver" ELSE "capture")
    BY <1>10, ZenonT(60) DEF readControls
  <2>1. CameraTypeOK' /\ CallsInv'
    <3>1. ControlTypes'
      BY <2>0, <1>n, ZenonT(60) DEF ControlTypes, NoFrame
    <3>2. SensorTypes'
      BY <2>0, <1>g, ZenonT(60) DEF SensorTypes, ControlTypes
    <3>3. CallsInv'
      BY <2>0, <1>c, ZenonT(60) DEF frameworkVars, readoutVars
    <3> QED
      BY <2>0, <3>1, <3>2, <3>3, <1>f, <1>k, ZenonT(60)
  <2>2. nextBuffers = NoFrame /\ Undelivered' = Undelivered
    BY <2>0, <1>t, ZenonT(60) DEF SensorInv, Undelivered
  <2>3. Images' = Images /\ ImagesInOrder'
    BY <2>0, <2>2, <1>t, ZenonT(60) DEF Images, InStep, ImagesInOrder, Later
  <2>4. SensorInv'
    BY <2>0, SMTT(60) DEF SensorInv
  <2>5. Accepted' = Accepted /\ RequestsInOrder' /\ Reserved' = Reserved
    BY <2>0, <1>r, ZenonT(60) DEF frameworkVars, readoutVars, Reserved
  <2>6. SameFrames' /\ Unanswered' /\ SensorGone'
    BY <2>0, <2>3, <2>5, <1>m, <1>u, <1>e, ZenonT(60) DEF frameworkVars, readoutVars, resultVars
  <2>7. OneReserved'
    BY <2>0, <2>5, <1>o, ZenonT(60) DEF jpegVars
  <2> QED
    BY <2>1, <2>3, <2>4, <2>5, <2>6, <2>7, ZenonT(60) DEF CInv, InStep
<1>11. CASE deliver
  <2>0. /\ UNCHANGED <<frameworkVars, readoutVars, controlVars, nextBuffers, mNextCapturedBuffers,
                       jpegVars, resultVars>>
        /\ sensorAt \in {"deliver", "woken"}
        /\ \/ sensorAt' = "blocked" /\ mCapturedBuffers' = mCapturedBuffers /\ lost' = lost
           \/ /\ sensorAt' = "capture" /\ mCapturedBuffers' = mNextCapturedBuffers
              /\ mCapturedBuffers = NoFrame /\ lost' = lost
           \/ /\ sensorAt' = "capture" /\ mCapturedBuffers' = mNextCapturedBuffers
              /\ mCapturedBuffers # NoFrame /\ lost' = lost + 1
    BY <1>11, ZenonT(60) DEF deliver
  <2>l. lost + 1 \in Nat /\ lost + 1 # 0
    BY <1>t, SMTT(60) DEF CameraTypeOK
  <2>1. CameraTypeOK' /\ CallsInv'
    <3>1. SensorTypes'
      BY <2>0, <2>l, <1>g, ZenonT(60) DEF SensorTypes
    <3>2. CallsInv'
      BY <2>0, <1>c, ZenonT(60) DEF frameworkVars, readoutVars
    <3> QED
      BY <2>0, <3>1, <3>2, <1>f, <1>k, ZenonT(60)
  <2>2. /\ Images' \subseteq Images /\ ImagesInOrder'
        /\ lost' # lost + 1 => Images' = Images /\ lost' = lost
    <3>1. lost' = lost => lost' # lost + 1
      BY <1>t, SMTT(60) DEF CameraTypeOK
    <3>2. Images' \subseteq Images /\ ImagesInOrder'
      BY <2>0, <1>t, ZenonT(60) DEF Images, InStep, ImagesInOrder, Later, Undelivered, controlVars
    <3>3. lost' # lost + 1 => Images' = Images /\ lost' = lost
      BY <2>0, ZenonT(60) DEF Images, Undelivered, controlVars
    <3> QED
      BY <3>2, <3>3, ZenonT(60)
  <2>3. SensorInv'
    BY <2>0, <1>t, ZenonT(60) DEF SensorInv, frameworkVars, controlVars
  <2>4. Accepted' = Accepted /\ RequestsInOrder' /\ Reserved' = Reserved
    BY <2>0, <1>r, ZenonT(60) DEF frameworkVars, readoutVars, Reserved
  <2>5. SameFrames'
    BY <2>0, <2>l, <2>2, <2>4, <1>t, ZenonT(60) DEF InStep, SameFrames, readoutVars
  <2>6. Unanswered' /\ SensorGone'
    BY <2>0, <1>u, <1>e, ZenonT(60) DEF frameworkVars, readoutVars, resultVars
  <2>7. OneReserved'
    BY <2>0, <2>4, <1>o, ZenonT(60) DEF jpegVars
  <2> QED
    BY <2>1, <2>2, <2>3, <2>4, <2>5, <2>6, <2>7, ZenonT(60) DEF CInv, InStep
<1>19. CASE spuriousWakeup \/ sensorExits
  <2>0. /\ UNCHANGED <<frameworkVars, readoutVars, controlVars, nextBuffers, mNextCapturedBuffers,
                       mCapturedBuffers, lost, jpegVars, resultVars>>
        /\ \/ sensorAt = "blocked" /\ sensorAt' = "woken"
           \/ sensorAt = "control" /\ sensorAt' = "exited"
    BY <1>19, ZenonT(60) DEF spuriousWakeup, sensorExits
  <2>1. CameraTypeOK' /\ CallsInv'
    <3>1. SensorTypes'
      BY <2>0, <1>g, ZenonT(60) DEF SensorTypes
    <3>2. CallsInv'
      BY <2>0, <1>c, ZenonT(60) DEF frameworkVars, readoutVars
    <3> QED
      BY <2>0, <3>1, <3>2, <1>f, <1>k, ZenonT(60)
  <2>2. Undelivered' = Undelivered
    BY <2>0, ZenonT(60) DEF Undelivered
  <2>3. Images' = Images /\ ImagesInOrder'
    BY <2>0, <2>2, <1>t, ZenonT(60) DEF Images, InStep, ImagesInOrder, controlVars
  <2>4. SensorInv'
    BY <2>0, <1>t, ZenonT(60) DEF SensorInv, frameworkVars, controlVars
  <2>5. Accepted' = Accepted /\ RequestsInOrder' /\ Reserved' = Reserved
    BY <2>0, <1>r, ZenonT(60) DEF frameworkVars, readoutVars, Reserved
  <2>6. SameFrames' /\ Unanswered' /\ SensorGone'
    BY <2>0, <2>3, <2>5, <1>m, <1>u, <1>e, ZenonT(60) DEF frameworkVars, readoutVars, resultVars
  <2>7. OneReserved'
    BY <2>0, <2>5, <1>o, ZenonT(60) DEF jpegVars
  <2> QED
    BY <2>1, <2>3, <2>4, <2>5, <2>6, <2>7, ZenonT(60) DEF CInv, InStep
<1>12. CASE capture
  <2>0. /\ UNCHANGED <<frameworkVars, readoutVars, controlVars, mCapturedBuffers, lost, jpegVars,
                       resultVars>>
        /\ sensorAt = "capture" /\ mNextCapturedBuffers' = nextBuffers /\ nextBuffers' = NoFrame
        /\ sensorAt' \in {"control", "exited"}
    BY <1>12, SMTT(60) DEF capture
  <2>1. CameraTypeOK' /\ CallsInv'
    <3>1. SensorTypes'
      BY <2>0, <1>g, <1>n, ZenonT(60) DEF SensorTypes, NoFrame
    <3>2. CallsInv'
      BY <2>0, <1>c, ZenonT(60) DEF frameworkVars, readoutVars
    <3> QED
      BY <2>0, <3>1, <3>2, <1>f, <1>k, ZenonT(60)
  <2>2. Images' = Images /\ ImagesInOrder'
    BY <2>0, <1>t, ZenonT(60) DEF Images, InStep, ImagesInOrder, Later, Undelivered, controlVars
  <2>3. SensorInv'
    BY <2>0, <1>t, ZenonT(60) DEF SensorInv, frameworkVars, controlVars
  <2>4. Accepted' = Accepted /\ RequestsInOrder' /\ Reserved' = Reserved
    BY <2>0, <1>r, ZenonT(60) DEF frameworkVars, readoutVars, Reserved
  <2>5. SameFrames' /\ Unanswered' /\ SensorGone'
    BY <2>0, <2>2, <2>4, <1>m, <1>u, <1>e, ZenonT(60) DEF frameworkVars, readoutVars, resultVars
  <2>6. OneReserved'
    BY <2>0, <2>4, <1>o, ZenonT(60) DEF jpegVars
  <2> QED
    BY <2>1, <2>2, <2>3, <2>4, <2>5, <2>6, ZenonT(60) DEF CInv, InStep
<1>13. CASE takeRequest
  <2>0. /\ UNCHANGED <<frameworkVars, controlVars, sensorVars, jpegVars, resultVars>>
        /\ readoutAt = "take" /\ readoutAt' = "image" /\ mThreadActive' = TRUE
        /\ mInFlightQueue # <<>> /\ mCurrentRequest' = Head(mInFlightQueue)
        /\ mInFlightQueue' = Tail(mInFlightQueue)
    BY <1>13, SMTT(60) DEF takeRequest
  <2>1. /\ mCurrentRequest' \in FrameNumbers /\ mInFlightQueue' \in Seq(FrameNumbers)
        /\ Len(mInFlightQueue') < Len(mInFlightQueue)
        /\ Queued = Queued' \cup {mCurrentRequest'}
        /\ \A f \in Queued' : mCurrentRequest' < f
        /\ \A i, j \in DOMAIN mInFlightQueue' : i < j => mInFlightQueue'[i] < mInFlightQueue'[j]
    BY <2>0, <1>t, QueueTail, ZenonT(60) DEF CameraTypeOK, Queued, InStep, RequestsInOrder
  <2>2. /\ Len(mInFlightQueue') <= kMaxQueueSize
        /\ Len(mInFlightQueue) < kMaxQueueSize => Len(mInFlightQueue') < kMaxQueueSize
    BY <2>1, <1>t, SMTT(60) DEF CameraTypeOK
  <2>3. CameraTypeOK' /\ CallsInv'
    <3>1. ReadoutTypes'
      BY <2>0, <2>1, <2>2, <1>n, ZenonT(60) DEF ReadoutTypes
    <3>2. CallsInv'
      BY <2>0, <2>2, <1>t, ZenonT(60) DEF CallsInv, frameworkVars
    <3> QED
      BY <2>0, <3>1, <3>2, <1>f, <1>k, ZenonT(60)
  <2>4. Accepted' = Accepted
    BY <2>0, <2>1, ZenonT(60) DEF Accepted, frameworkVars
  <2>5. RequestsInOrder'
    BY <2>0, <2>1, <1>t, ZenonT(60) DEF InStep, RequestsInOrder, frameworkVars
  <2>6. Reserved' = Reserved
    BY <2>0, <2>4, ZenonT(60) DEF Reserved, frameworkVars
  <2>7. Images' = Images /\ ImagesInOrder' /\ SensorInv'
    BY <2>0, <1>i, <1>s, ZenonT(60) DEF frameworkVars, controlVars
  <2>8. SameFrames'
    BY <2>0, <2>4, <2>7, <1>t, ZenonT(60) DEF InStep, SameFrames, sensorVars
  <2>9. Unanswered'
    BY <2>0, <2>1, <1>t, ZenonT(60) DEF Unanswered, resultVars
  <2>10. SensorGone'
    BY <2>0, <1>e, ZenonT(60) DEF frameworkVars, sensorVars
  <2>11. OneReserved'
    BY <2>0, <2>6, <1>o, ZenonT(60) DEF jpegVars
  <2> QED
    BY <2>3, <2>5, <2>7, <2>8, <2>9, <2>10, <2>11, ZenonT(60) DEF CInv, InStep
<1>20. CASE readoutExits
  <2>0. /\ UNCHANGED <<frameworkVars, mInFlightQueue, mThreadActive, mCurrentRequest, controlVars,
                       sensorVars, jpegVars, resultVars>>
        /\ call = "join" /\ readoutAt' = "exited"
    BY <1>20, ZenonT(60) DEF readoutExits
  <2>1. CameraTypeOK' /\ CallsInv'
    <3>1. ReadoutTypes'
      BY <2>0, <1>g, ZenonT(60) DEF ReadoutTypes
    <3>2. CallsInv'
      BY <2>0, <1>c, ZenonT(60) DEF frameworkVars
    <3> QED
      BY <2>0, <3>1, <3>2, <1>f, <1>k, ZenonT(60)
  <2>2. Queued' = Queued /\ RequestsInOrder'
    BY <2>0, <1>t, ZenonT(60) DEF Queued, InStep, RequestsInOrder, frameworkVars
  <2>3. Reserved' \subseteq Reserved
    BY <2>0, <2>2, ZenonT(60) DEF Reserved, Accepted, frameworkVars
  <2>4. ImagesInOrder' /\ SensorInv'
    BY <2>0, <1>i, <1>s, ZenonT(60) DEF frameworkVars, controlVars
  <2>5. SameFrames' /\ Unanswered'
    BY <2>0, <2>2, <1>t, ZenonT(60) DEF SameFrames, Unanswered, resultVars
  <2>6. SensorGone'
    BY <2>0, <1>t, ZenonT(60) DEF SensorGone, frameworkVars, sensorVars
  <2>7. OneReserved'
    BY <2>0, <2>3, <1>o, ZenonT(60) DEF jpegVars
  <2> QED
    BY <2>1, <2>2, <2>4, <2>5, <2>6, <2>7, ZenonT(60) DEF CInv, InStep
<1>14. CASE takeImage
  <2>0. /\ UNCHANGED <<frameworkVars, mInFlightQueue, mCurrentRequest, controlVars, nextBuffers,
                       mNextCapturedBuffers, lost, results>>
        /\ readoutAt = "image" /\ readoutAt' \in {"idle", "send"} /\ mThreadActive' \in {mThreadActive, FALSE}
        /\ mCapturedBuffers # NoFrame /\ mCapturedBuffers' = NoFrame
        /\ sensorAt' = (IF sensorAt = "blocked" THEN "woken" ELSE sensorAt)
        /\ IF kind[mCurrentRequest] = "jpeg"
             THEN startJpeg(mCurrentRequest) ELSE UNCHANGED <<jpegVars, jpegs>>
    BY <1>14, ZenonT(60) DEF takeImage, sensorWakes
  <2>1. /\ mCurrentRequest \in FrameNumbers /\ \A f \in Queued : mCurrentRequest < f
        /\ mCurrentRequest <= mCapturedBuffers
        /\ lost = 0 => mCurrentRequest = mCapturedBuffers
    BY <2>0, FirstImage, <1>t, ZenonT(60) DEF InStep, RequestsInOrder
  <2>2. /\ Accepted' = Accepted \ {mCurrentRequest} /\ Queued' = Queued
        /\ mCurrentRequest \in Accepted
    <3>1. Queued' = Queued
      BY <2>0, ZenonT(60) DEF Queued
    <3>2. mCurrentRequest \notin Queued /\ (call = "queue" => mCurrentRequest # submitted)
      BY <2>1, <1>t, SMTT(60) DEF InStep, RequestsInOrder, FrameNumbers
    <3> QED
      BY <2>0, <3>1, <3>2, ZenonT(60) DEF Accepted, frameworkVars
  <2>3. RequestsInOrder'
    BY <2>0, <2>2, <1>t, ZenonT(60) DEF InStep, RequestsInOrder, frameworkVars
  <2>4. Undelivered' = Undelivered
    BY <2>0, ZenonT(60) DEF Undelivered
  <2>5. Images' = Images \ {mCapturedBuffers}
    <3>0. mCapturedBuffers \in 0..MaxFrames
      BY <1>g, ZenonT(60) DEF SensorTypes
    <3>1. /\ Undelivered # mCapturedBuffers /\ nextBuffers # mCapturedBuffers
          /\ mNextBuffers # mCapturedBuffers
      BY <2>0, <3>0, <1>t, SMTT(60) DEF InStep, ImagesInOrder, Later
    <3> QED
      BY <2>0, <2>4, <3>1, ZenonT(60) DEF Images, controlVars
  <2>12. SameFrames'
    <3>0. mCapturedBuffers \in Nat /\ Images \subseteq Nat /\ mCurrentRequest \in Nat
      <4>1. mCapturedBuffers \in Nat /\ mCurrentRequest \in Nat
        BY <1>t, SMTT(60) DEF CameraTypeOK
      <4>2. mNextCapturedBuffers \in Nat /\ nextBuffers \in Nat /\ mNextBuffers \in Nat
        BY <1>t, SMTT(60) DEF CameraTypeOK
      <4> QED
        BY <4>1, <4>2, ZenonT(60) DEF Images, Undelivered
    <3>1. \A f \in Images : f # mCapturedBuffers => mCapturedBuffers < f
      BY <2>0, <1>t, ZenonT(60) DEF Images, InStep, ImagesInOrder, Later
    <3>2. \A f \in Images' : mCurrentRequest # f
      BY <2>1, <2>5, <3>0, <3>1, SMTT(60)
    <3>3. Images \subseteq Accepted /\ (lost = 0 => Images = Accepted)
      BY <2>0, <1>t, ZenonT(60) DEF InStep, SameFrames
    <3> QED
      BY <2>0, <2>1, <2>2, <2>5, <3>2, <3>3, ZenonT(60) DEF SameFrames
  <2>6. ImagesInOrder'
    BY <2>0, <2>4, <1>t, ZenonT(60) DEF InStep, ImagesInOrder, Later, controlVars
  <2>7. SensorInv'
    BY <2>0, <1>t, ZenonT(60) DEF SensorInv, controlVars, frameworkVars
  <2>8. Reserved' = Reserved \ {mCurrentRequest}
    <3>1. call \in {"room", "vsync"} => mCurrentRequest # submitted
      BY <2>1, <1>t DEF InStep, RequestsInOrder, FrameNumbers
    <3> QED
      BY <2>0, <2>2, <3>1, ZenonT(60) DEF Reserved, frameworkVars
  <2>9. OneReserved'
    <3>1. CASE jpegThread' = "compress" /\ kind[mCurrentRequest] = "jpeg" /\ startJpeg(mCurrentRequest)
      <4>1. mCurrentRequest \in Reserved
        BY <2>2, <3>1, ZenonT(60) DEF Reserved
      <4>2. mIsBusy /\ jpegThread \notin {"compress", "done"} /\ Reserved' = {}
        BY <2>8, <4>1, <1>t, ZenonT(60) DEF OneReserved
      <4> QED
        BY <3>1, <4>2, ZenonT(60) DEF startJpeg, OneReserved, jpegVars
    <3>2. CASE UNCHANGED jpegVars
      BY <2>8, <3>2, <1>o, ZenonT(60) DEF jpegVars
    <3> QED
      BY <2>0, <3>1, <3>2, ZenonT(60) DEF startJpeg
  <2>10. /\ mIsBusy' \in BOOLEAN /\ jpegBuffers' \in 0..MaxFrames
         /\ mJpegWaiting' \in BOOLEAN /\ mJpegFrameNumber' \in 0..MaxFrames
         /\ jpegThread' \in {"stopped", "compress", "done", "exiting"}
         /\ jpegs' \subseteq FrameNumbers
    BY <2>0, <2>1, <1>t, <1>n, ZenonT(60) DEF startJpeg, jpegVars, CameraTypeOK
  <2>11. CameraTypeOK' /\ CallsInv'
    <3>1. ReadoutTypes'
      BY <2>0, <1>g, ZenonT(60) DEF ReadoutTypes
    <3>2. SensorTypes'
      BY <2>0, <1>g, <1>n, ZenonT(60) DEF SensorTypes, NoFrame
    <3>3. JpegTypes'
      BY <2>10, ZenonT(60) DEF JpegTypes
    <3>4. ResultTypes'
      BY <2>0, <2>10, <1>g, ZenonT(60) DEF ResultTypes
    <3>5. CallsInv'
      BY <2>0, <1>c, ZenonT(60) DEF frameworkVars
    <3> QED
      BY <2>0, <3>1, <3>2, <3>3, <3>4, <3>5, <1>f, <1>k, ZenonT(60)
  <2>13. Unanswered'
    BY <2>0, <2>2, <1>t, ZenonT(60) DEF Unanswered
  <2>14. SensorGone'
    BY <2>0, <1>e, ZenonT(60) DEF frameworkVars
  <2> QED
    BY <2>3, <2>6, <2>7, <2>9, <2>11, <2>12, <2>13, <2>14, ZenonT(60) DEF CInv, InStep
<1>15. CASE signalReadoutIdle
  <2>0. /\ UNCHANGED <<configured, call, submitted, kind, mInFlightQueue, mThreadActive,
                       mCurrentRequest, controlVars, sensorVars, jpegVars, resultVars>>
        /\ camStatus' \in {camStatus, "READY"} /\ call \in {"none", "join"}
        /\ camStatus = "CLOSED" => camStatus' = "CLOSED"
        /\ readoutAt = "idle" /\ readoutAt' = "send"
    BY <1>15, ZenonT(60) DEF signalReadoutIdle
  <2>1. CameraTypeOK' /\ CallsInv'
    <3>1. FrameworkTypes'
      BY <2>0, <1>g, ZenonT(60) DEF FrameworkTypes
    <3>2. ReadoutTypes'
      BY <2>0, <1>g, ZenonT(60) DEF ReadoutTypes
    <3>3. CallsInv'
      BY <2>0, <1>t, ZenonT(60) DEF CallsInv
    <3> QED
      BY <2>0, <3>1, <3>2, <3>3, <1>f, <1>k, ZenonT(60)
  <2>2. Accepted' = Accepted /\ RequestsInOrder'
    BY <2>0, <1>t, ZenonT(60) DEF Accepted, Queued, InStep, RequestsInOrder
  <2>3. Reserved' = Reserved
    BY <2>0, <2>2, ZenonT(60) DEF Reserved
  <2>4. Images' = Images /\ ImagesInOrder' /\ SensorInv'
    BY <2>0, <1>i, <1>s, ZenonT(60) DEF controlVars
  <2>5. SameFrames'
    BY <2>0, <2>2, <2>4, <1>t, ZenonT(60) DEF InStep, SameFrames, sensorVars
  <2>6. Unanswered'
    BY <2>0, <1>t, ZenonT(60) DEF Unanswered, Queued, resultVars
  <2>7. SensorGone'
    BY <2>0, <1>e, ZenonT(60) DEF sensorVars
  <2>8. OneReserved'
    BY <2>0, <2>3, <1>o, ZenonT(60) DEF jpegVars
  <2> QED
    BY <2>1, <2>2, <2>4, <2>5, <2>6, <2>7, <2>8, ZenonT(60) DEF CInv, InStep
<1>16. CASE sendCaptureResult
  <2>0. /\ UNCHANGED <<camStatus, configured, call, submitted, mInFlightQueue, mThreadActive,
                       controlVars, sensorVars, jpegVars, jpegs>>
        /\ readoutAt = "send" /\ readoutAt' = "take" /\ mCurrentRequest' = NoFrame
        /\ results' = results \ {mCurrentRequest}
        /\ kind' = [kind EXCEPT ![mCurrentRequest] = "preview"]
    BY <1>16 DEF sendCaptureResult
  <2>1. kind' \in [FrameNumbers -> Kinds] /\ \A f \in FrameNumbers : kind'[f] \in {kind[f], "preview"}
    BY <2>0, <1>t, ZenonT(60) DEF CameraTypeOK
  <2>2. CameraTypeOK' /\ CallsInv'
    <3>1. FrameworkTypes'
      BY <2>0, <2>1, <1>g, ZenonT(60) DEF FrameworkTypes
    <3>2. ReadoutTypes'
      BY <2>0, <1>g, <1>n, ZenonT(60) DEF ReadoutTypes, NoFrame
    <3>3. ResultTypes'
      BY <2>0, <1>g DEF ResultTypes
    <3>4. CallsInv'
      BY <2>0, <1>c, ZenonT(60)
    <3> QED
      BY <2>0, <3>1, <3>2, <3>3, <3>4, <1>f, <1>k, ZenonT(60)
  <2>3. Accepted' = Accepted
    BY <2>0, SMTT(60) DEF Accepted, Queued
  <2>4. RequestsInOrder'
    <3>1. NoFrame <= submitted /\ (submitted \in FrameNumbers => NoFrame < submitted)
      BY <1>t, SMTT(60) DEF CameraTypeOK, NoFrame, FrameNumbers
    <3> QED
      BY <2>0, <3>1, <1>t, ZenonT(60) DEF InStep, RequestsInOrder, Queued
  <2>5. /\ Accepted \subseteq FrameNumbers
        /\ call \in {"jpeg", "room", "vsync", "queue"} => submitted \in FrameNumbers
    <3>1. call \in {"jpeg", "room", "vsync", "queue"} => submitted \in FrameNumbers
      BY <1>t, ZenonT(60) DEF InStep, RequestsInOrder
    <3> QED
      BY <2>0, <3>1, <1>q, ZenonT(60) DEF Accepted
  <2>6. Reserved' \subseteq Reserved
    BY <2>0, <2>1, <2>3, <2>5, ZenonT(60) DEF Reserved
  <2>7. Images' = Images /\ ImagesInOrder' /\ SensorInv'
    BY <2>0, <1>i, <1>s, ZenonT(60) DEF controlVars
  <2>8. SameFrames'
    BY <2>0, <2>3, <2>7, <1>t, ZenonT(60) DEF InStep, SameFrames, sensorVars
  <2>9. Unanswered'
    <3>1. mCurrentRequest \notin Queued
      BY <2>0, <1>t, SMTT(60) DEF InStep, RequestsInOrder, FrameNumbers
    <3> QED
      BY <2>0, <3>1, <1>t, ZenonT(60) DEF Unanswered, Queued
  <2>10. SensorGone'
    BY <2>0, <1>e, ZenonT(60) DEF sensorVars
  <2>11. OneReserved'
    BY <2>0, <2>6, <1>o, ZenonT(60) DEF jpegVars
  <2> QED
    BY <2>2, <2>4, <2>7, <2>8, <2>9, <2>10, <2>11, ZenonT(60) DEF CInv, InStep
<1>17. CASE jpegSteps
  <2>0. /\ UNCHANGED <<frameworkVars, readoutVars, controlVars, sensorVars, mJpegFrameNumber, results>>
        /\ mIsBusy' \in BOOLEAN /\ mJpegWaiting' \in BOOLEAN /\ jpegBuffers' \in {jpegBuffers, NoFrame}
        /\ jpegThread' \in {"done", "exiting", "stopped"} /\ jpegs' \subseteq jpegs
    BY <1>17, <1>t, ZenonT(60) DEF jpegSteps, onJpegDone, cleanUp, jpegThreadEnds, resultVars, CameraTypeOK
  <2>1. CameraTypeOK' /\ CallsInv'
    <3>1. JpegTypes'
      BY <2>0, <1>g, <1>n, ZenonT(60) DEF JpegTypes, NoFrame
    <3>2. ResultTypes'
      BY <2>0, <1>g DEF ResultTypes
    <3>3. CallsInv'
      BY <2>0, <1>c, ZenonT(60) DEF frameworkVars, readoutVars
    <3> QED
      BY <2>0, <3>1, <3>2, <3>3, <1>f, <1>k, ZenonT(60)
  <2>2. Accepted' = Accepted /\ RequestsInOrder' /\ Reserved' = Reserved
    BY <2>0, <1>r, ZenonT(60) DEF frameworkVars, readoutVars, Reserved
  <2>3. OneReserved'
    <3>1. OneReserved
      BY <1>t, ZenonT(60)
    <3>2. \/ jpegThread = "compress" /\ jpegThread' = "done" /\ mIsBusy' = mIsBusy
          \/ jpegThread = "done" /\ jpegThread' = "exiting"
          \/ jpegThread = "exiting" /\ jpegThread' = "stopped" /\ mIsBusy' = mIsBusy
      BY <1>17, ZenonT(60) DEF jpegSteps, onJpegDone, cleanUp, jpegThreadEnds
    <3>3. mJpegWaiting' = FALSE \/ (mJpegWaiting' = mJpegWaiting /\ jpegThread # "compress")
      BY <1>17, ZenonT(60) DEF jpegSteps, onJpegDone, cleanUp, jpegThreadEnds
    <3>4. \A f, g \in Reserved' : f = g
      BY <2>2, <3>1, ZenonT(60) DEF OneReserved
    <3>5. Reserved' # {} => mIsBusy' /\ jpegThread' \notin {"compress", "done"}
      BY <2>2, <3>1, <3>2, ZenonT(60) DEF OneReserved
    <3>6. jpegThread' \in {"compress", "done"} => mIsBusy'
      BY <3>1, <3>2, ZenonT(60) DEF OneReserved
    <3>7. mJpegWaiting' => jpegThread' = "compress"
      BY <3>1, <3>3, ZenonT(60) DEF OneReserved
    <3> QED
      BY <3>4, <3>5, <3>6, <3>7, ZenonT(60) DEF OneReserved
  <2>4. Images' = Images /\ ImagesInOrder' /\ SensorInv'
    BY <2>0, <1>i, <1>s, ZenonT(60) DEF frameworkVars, controlVars
  <2>5. SameFrames' /\ Unanswered' /\ SensorGone'
    BY <2>0, <2>2, <2>4, <1>m, <1>u, <1>e, ZenonT(60) DEF frameworkVars, readoutVars, sensorVars
  <2> QED
    BY <2>1, <2>2, <2>3, <2>4, <2>5, ZenonT(60) DEF CInv, InStep
<1> QED
  BY <1>1, <1>2, <1>3, <1>4, <1>5, <1>6, <1>7, <1>8, <1>9, <1>10, <1>11, <1>12, <1>13, <1>14, <1>15,
     <1>16, <1>17, <1>18, <1>19, <1>20, ZenonT(60) DEF CameraNext, otherSteps, frameworkSteps, sensorSteps,
     readoutSteps

\* Whatever the number of requests, their kinds and the length of the queue, and
\* whenever the camera is closed: unless the sensor has overwritten an image, the
\* readout thread joins every request with its own image; it never joins one with
\* an image from before the request, finds the compressor free for a JPEG, and
\* answers no request whose buffers the sensor has yet to fill.
THEOREM PipelineStaysInStep == CameraSpec => []PipelineInStep
<1> QED
  BY CInvInStep, InitCInv, StepCInv, PTL DEF CameraSpec

\* The variables of the camera have their types, and its queue its bound.
THEOREM CameraTypes == CameraSpec => []CameraTypeOK
<1>1. CInv => CameraTypeOK
  BY ZenonT(60) DEF CInv
<1> QED
  BY <1>1, InitCInv, StepCInv, PTL DEF CameraSpec

-----------------------------------------------------------------------------
(* The fake 3A                                                              *)

\* A quotient, cut downwards, is between 0 and what is divided.
LEMMA DividedBetween ==
  ASSUME NEW a \in Int, NEW n \in Nat \ {0}
  PROVE  /\ a \div n \in Int
         /\ a >= 0 => 0 <= a \div n /\ a \div n <= a
         /\ a <= 0 => a <= a \div n /\ a \div n <= 0
  BY Z3

\* A tracking step stays between the exposure time and its target.
LEMMA ConvergeBetween ==
  ASSUME NEW lo \in Nat, NEW hi \in Nat, NEW c \in lo..hi, NEW t \in lo..hi
  PROVE  converge(c, t) \in lo..hi
<1>1. TrackRate \in Nat \ {0} /\ t - c \in Int
  BY ThreeABounds
<1>2. /\ (t - c) \div TrackRate \in Int
      /\ t >= c => 0 <= (t - c) \div TrackRate /\ (t - c) \div TrackRate <= t - c
      /\ t <= c => t - c <= (t - c) \div TrackRate /\ (t - c) \div TrackRate <= 0
  BY <1>1, DividedBetween
<1> QED
  BY <1>2 DEF converge

\* The exposure times a scene asks for, at once or by an occasional scan.
Targets == SceneTimes \cup UNION {Wandered[e] : e \in SceneTimes}

\* The exposure time and its target are between any bounds of the targets.
Exposed(lo, hi) ==
  mAeTargetExposureTime \in lo..hi /\ mAeCurrentExposureTime \in lo..hi

\* doFakeAE with any of the settings.
LEMMA ExposureStep ==
  ASSUME NEW lo \in Nat, NEW hi \in Nat, Targets \subseteq lo..hi,
         ThreeATypeOK, Exposed(lo, hi), NEW r \in Settings, NEW face \in BOOLEAN, doFakeAE(r, face)
  PROVE  /\ Exposed(lo, hi)' /\ mAeCounter' \in Nat
         /\ mAeState' \in {"INACTIVE", "SEARCHING", "CONVERGED", "LOCKED", "PRECAPTURE"}
<1>1. sceneExposureTime(face) \in lo..hi /\ Wandered[sceneExposureTime(face)] \subseteq lo..hi
  BY ZenonT(60) DEF sceneExposureTime, Targets, SceneTimes
<1>2. precaptureCounter \in Nat /\ precaptureCounter + 1 \in Nat /\ mAeCounter + 1 \in Nat
  BY SMTT(60) DEF ThreeATypeOK, precaptureCounter
<1>3. CASE precapture(face, r.aeLock)
  <2>1. mAeTargetExposureTime' \in lo..hi
    BY <1>1, <1>3, ZenonT(60) DEF precapture
  <2>2. mAeCurrentExposureTime' \in lo..hi
    BY <1>1, <1>3, ConvergeBetween, ZenonT(60) DEF precapture, Exposed
  <2> QED
    BY <1>2, <1>3, <2>1, <2>2, SMTT(60) DEF precapture, Exposed
<1>4. CASE scan(face)
  <2>1. mAeTargetExposureTime' \in lo..hi
    BY <1>1, <1>4, ZenonT(60) DEF scan, Exposed
  <2>2. mAeCurrentExposureTime' \in lo..hi
    BY <1>1, <1>4, ConvergeBetween, ZenonT(60) DEF scan, Exposed
  <2>3. mAeCounter' \in Nat /\ mAeState' \in {"INACTIVE", "SEARCHING", "CONVERGED", "LOCKED", "PRECAPTURE"}
    BY <1>2, <1>4 DEF scan, ThreeATypeOK
  <2> QED
    BY <2>1, <2>2, <2>3, ZenonT(60) DEF Exposed
<1>5. CASE UNCHANGED <<mAeCounter, mAeTargetExposureTime, mAeCurrentExposureTime>>
           /\ mAeState' \in {"INACTIVE", "LOCKED"}
  BY <1>5, ZenonT(60) DEF Exposed, ThreeATypeOK
<1>6. CASE UNCHANGED aeVars
  BY <1>6, ZenonT(60) DEF aeVars, Exposed, ThreeATypeOK
<1> QED
  BY <1>3, <1>4, <1>5, <1>6, ZenonT(60) DEF doFakeAE

LEMMA ThreeAStep ==
  ASSUME NEW lo \in Nat, NEW hi \in Nat, Targets \subseteq lo..hi,
         ThreeATypeOK, Exposed(lo, hi), [ThreeANext]_threeAVars
  PROVE  ThreeATypeOK' /\ Exposed(lo, hi)'
<1>1. CASE UNCHANGED threeAVars
  BY <1>1, SMTT(60) DEF threeAVars, aeVars, afVars, ThreeATypeOK, Exposed
<1>2. ASSUME NEW r \in Settings, process3A(r), r.control = "OFF"
      PROVE  ThreeATypeOK' /\ Exposed(lo, hi)'
  BY <1>2, ZenonT(60) DEF process3A, ThreeATypeOK, Exposed
<1>3. ASSUME NEW r \in Settings, process3A(r), r.control # "OFF"
      PROVE  ThreeATypeOK' /\ Exposed(lo, hi)'
  <2>0. r \in Controls
    BY ThreeABounds, ZenonT(60)
  <2>1. /\ mFacePriority' \in BOOLEAN
        /\ doFakeAE(r, mFacePriority')
        /\ \/ r.ae = "BAD" /\ UNCHANGED <<afVars, mAwbState>>
           \/ doFakeAF(r) /\ doFakeAWB(r)
    BY <1>3, ZenonT(60) DEF process3A
  <2>2. /\ Exposed(lo, hi)' /\ mAeCounter' \in Nat
        /\ mAeState' \in {"INACTIVE", "SEARCHING", "CONVERGED", "LOCKED", "PRECAPTURE"}
    BY <2>1, ExposureStep, ZenonT(60)
  <2>3. mAwbState' \in {"INACTIVE", "CONVERGED", "LOCKED"}
    BY <2>1, ZenonT(60) DEF doFakeAWB, ThreeATypeOK
  <2>4. /\ mAfMode' \in {"OFF", "AUTO", "CONTINUOUS"}
        /\ mAfState' \in {"INACTIVE", "PASSIVE_SCAN", "PASSIVE_FOCUSED", "ACTIVE_SCAN"} \cup Locked
    <3>1. afStep(mAfState, r.afTrigger = "START", r.af, mAfMode # r.af)
            \subseteq {"INACTIVE", "PASSIVE_SCAN", "PASSIVE_FOCUSED", "ACTIVE_SCAN"} \cup Locked
      BY DEF afStep, ThreeATypeOK, Locked
    <3>2. CASE UNCHANGED afVars
      BY <3>2 DEF afVars, ThreeATypeOK
    <3>3. CASE doFakeAF(r) /\ r.af \in {"BAD", "OFF"}
      BY <3>3 DEF doFakeAF, afVars, ThreeATypeOK
    <3>4. CASE doFakeAF(r) /\ r.af \notin {"BAD", "OFF"}
      <4>1. /\ mAfMode' = r.af
            /\ \/ mAfState' = mAfState \/ mAfState' = "INACTIVE"
               \/ mAfState' \in afStep(mAfState, r.afTrigger = "START", r.af, mAfMode # r.af)
        BY <3>4, ZenonT(60) DEF doFakeAF
      <4> QED
        BY <3>1, <3>4, <4>1, <2>0, ZenonT(60) DEF Controls, ThreeATypeOK
    <3> QED
      BY <2>1, <3>2, <3>3, <3>4, ZenonT(60)
  <2>5. mAeTargetExposureTime' \in Nat /\ mAeCurrentExposureTime' \in Nat
    BY <2>2 DEF Exposed
  <2> QED
    BY <2>1, <2>2, <2>3, <2>4, <2>5, ZenonT(60) DEF ThreeATypeOK
<1> QED
  BY <1>1, <1>2, <1>3, ZenonT(60) DEF ThreeANext

\* Tracking never overshoots: whatever the requests ask for, the exposure time
\* stays between the bounds of what scenes and occasional scans aim at.
THEOREM ExposureStaysBetween ==
  ASSUME NEW lo \in Nat, NEW hi \in Nat, Targets \subseteq lo..hi
  PROVE  ThreeASpec => [](ThreeATypeOK /\ Exposed(lo, hi))
<1>0. kNormalExposureTime \in lo..hi /\ kNormalExposureTime \in Nat /\ 0 \in Nat
  BY ThreeABounds, ZenonT(60) DEF Targets, SceneTimes
<1>1. ThreeAInit => ThreeATypeOK /\ Exposed(lo, hi)
  BY <1>0, ZenonT(60) DEF ThreeAInit, ThreeATypeOK, Exposed
<1>2. ThreeATypeOK /\ Exposed(lo, hi) /\ [ThreeANext]_threeAVars
        => ThreeATypeOK' /\ Exposed(lo, hi)'
  BY ThreeAStep
<1> QED
  BY <1>1, <1>2, PTL DEF ThreeASpec
=============================================================================
