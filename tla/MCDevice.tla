------------------------------ MODULE MCDevice ------------------------------
(* The parts of the device beside the radio on one small instance: the DHCP *)
(* client, the Wi-Fi forwarder and HAL, an audio stream, the camera's        *)
(* pipeline and its 3A routine, the sensors, the GNSS, the fingerprint HAL   *)
(* and libril's wake lock.                                                   *)
(*                                                                           *)
(* They are processes of their own (or, for the camera's two and the wake    *)
(* lock, state that the rest of the process does not touch) and share no     *)
(* variable, so no property relates two of them, and interleaving them would *)
(* only multiply their states.  A behaviour moves one part, the one that the *)
(* initial state picks; the others rest in their initial states.             *)
EXTENDS DhcpClient, WifiForwarder, WifiHal, AudioStream, Camera3, Camera3A,
        Sensors, Gnss, Fingerprint, WakeLock

VARIABLE part            \* the part that moves

-----------------------------------------------------------------------------
(* Instances                                                                 *)

(* A lease whose T2 is estimated, with an overflow (5 * 7 in a word of 32),  *)
(* one whose timers the server gives, and an answer without a lease.         *)
MCGrants == {[lease |-> 5, t1 |-> 1, t2 |-> 0], [lease |-> 5, t1 |-> 1, t2 |-> 2],
             [lease |-> 0, t1 |-> 0, t2 |-> 0]}

(* A broadcast, a unicast frame between local radios and one from another    *)
(* emulator to an address that is only known as an alias.                    *)
MCFrame(from, tx, src, dst, n) ==
  [from |-> from, transmitter |-> tx, source |-> src, destination |-> dst,
   attempts |-> n, window |-> 1]
MCInfo == [b |-> MCFrame("Local", "l1", "l1", "all", 1),
           u |-> MCFrame("Local", "l2", "x", "l1", 2),
           v |-> MCFrame("Remote", "r", "r", "x", 1)]

(* Requests that turn 3A off, or each routine, that focus, lock, begin a     *)
(* precapture and track, and two that are refused on the way.                *)
MCControls(c, ae, lock, pre, af, trigger, awb) ==
  [control |-> c, ae |-> ae, aeLock |-> lock, precapture |-> pre, af |-> af,
   afTrigger |-> trigger, awb |-> awb, awbLock |-> lock]
MCSettings == {
  MCControls("OFF", "OFF", FALSE, FALSE, "OFF", "IDLE", "OFF"),
  MCControls("AUTO", "OFF", FALSE, FALSE, "OFF", "IDLE", "OFF"),
  MCControls("AUTO", "ON", FALSE, FALSE, "AUTO", "START", "AUTO"),
  MCControls("AUTO", "ON", TRUE, FALSE, "BAD", "IDLE", "AUTO"),
  MCControls("AUTO", "BAD", FALSE, TRUE, "AUTO", "START", "AUTO"),
  MCControls("FACE", "ON", TRUE, FALSE, "CONTINUOUS", "BAD", "AUTO"),
  MCControls("FACE", "ON", FALSE, TRUE, "CONTINUOUS", "CANCEL", "AUTO"),
  MCControls("FACE", "ON", FALSE, FALSE, "CONTINUOUS", "IDLE", "AUTO")}

MCWandered == [e \in {40, 80} |-> {e \div 2}]

(* A group with two fingers, which fill the table, and one without a file.   *)
MCStored == {[g |-> <<1, 2>>, h |-> <<>>]}

-----------------------------------------------------------------------------
allVars == <<part, dhcpVars, wifiVars, audioVars, cameraVars, threeAVars,
             sensorsVars, gnssVars, wakeVars, wifiHalVars, fingerVars>>

(* What rests while a part moves.                                           *)
dhcpAlone == <<part, wifiVars, audioVars, cameraVars, threeAVars,
               sensorsVars, gnssVars, wakeVars, wifiHalVars, fingerVars>>
wifiAlone == <<part, dhcpVars, audioVars, cameraVars, threeAVars,
               sensorsVars, gnssVars, wakeVars, wifiHalVars, fingerVars>>
audioAlone == <<part, dhcpVars, wifiVars, cameraVars, threeAVars,
                sensorsVars, gnssVars, wakeVars, wifiHalVars, fingerVars>>
cameraAlone == <<part, dhcpVars, wifiVars, audioVars, threeAVars,
                 sensorsVars, gnssVars, wakeVars, wifiHalVars, fingerVars>>
threeAAlone == <<part, dhcpVars, wifiVars, audioVars, cameraVars,
                 sensorsVars, gnssVars, wakeVars, wifiHalVars, fingerVars>>
sensorsAlone == <<part, dhcpVars, wifiVars, audioVars, cameraVars,
                  threeAVars, gnssVars, wakeVars, wifiHalVars, fingerVars>>
gnssAlone == <<part, dhcpVars, wifiVars, audioVars, cameraVars, threeAVars,
               sensorsVars, wakeVars, wifiHalVars, fingerVars>>
wakeAlone == <<part, dhcpVars, wifiVars, audioVars, cameraVars, threeAVars,
               sensorsVars, gnssVars, wifiHalVars, fingerVars>>
wifiHalAlone == <<part, dhcpVars, wifiVars, audioVars, cameraVars,
                  threeAVars, sensorsVars, gnssVars, wakeVars, fingerVars>>
fingerAlone == <<part, dhcpVars, wifiVars, audioVars, cameraVars, threeAVars,
                 sensorsVars, gnssVars, wakeVars, wifiHalVars>>

DeviceInit ==
  /\ part \in {"dhcp", "wifi", "audio", "camera", "3A", "sensors", "gnss",
             "wake", "wifiHal", "finger"}
  /\ Init /\ ForwarderInit /\ AudioInit /\ CameraInit /\ ThreeAInit
  /\ SensorsInit /\ GnssInit /\ WakeInit /\ WifiHalInit /\ FingerprintInit
  /\ part # "wake" => version = 12
  /\ part # "gnss" => host = CHOOSE b \in FirstBytes(0) : TRUE

DeviceNext ==
  \/ part = "dhcp" /\ Next /\ UNCHANGED dhcpAlone
  \/ part = "wifi" /\ ForwarderNext /\ UNCHANGED wifiAlone
  \/ part = "audio" /\ AudioNext /\ UNCHANGED audioAlone
  \/ part = "camera" /\ CameraNext /\ UNCHANGED cameraAlone
  \/ part = "3A" /\ ThreeANext /\ UNCHANGED threeAAlone
  \/ part = "sensors" /\ SensorsNext /\ UNCHANGED sensorsAlone
  \/ part = "gnss" /\ GnssNext /\ UNCHANGED gnssAlone
  \/ part = "wake" /\ WakeNext /\ UNCHANGED wakeAlone
  \/ part = "wifiHal" /\ WifiHalNext /\ UNCHANGED wifiHalAlone
  \/ part = "finger" /\ FingerprintNext /\ UNCHANGED fingerAlone

(* The fairness of each part's module, asked of the part that moves.  As it  *)
(* never changes, one condition stands for a condition of every part.        *)
DeviceFairness ==
  /\ WF_allVars(
       \/ part = "dhcp" /\ run /\ UNCHANGED dhcpAlone
       \/ part = "wifi" /\ onTimeout /\ UNCHANGED wifiAlone
       \/ part = "audio" /\ (\E s \in Streams : threadLoop(s)) /\ UNCHANGED audioAlone
       \/ part = "camera" /\ frameworkSteps /\ UNCHANGED cameraAlone
       \/ part = "3A" /\ meteredRequest /\ UNCHANGED threeAAlone
       \/ part = "wifiHal" /\ clientSteps /\ UNCHANGED wifiHalAlone
       \/ part = "finger" /\ listenerSteps /\ UNCHANGED fingerAlone)
  /\ WF_allVars(
       \/ part = "dhcp" /\ waitAndReceive /\ UNCHANGED dhcpAlone
       \/ part = "wifi" /\ pollTick /\ UNCHANGED wifiAlone
       \/ part = "audio" /\ (\E s \in Streams : processCommand(s)) /\ UNCHANGED audioAlone
       \/ part = "camera" /\ sensorSteps /\ UNCHANGED cameraAlone
       \/ part = "wifiHal" /\ loopSteps /\ UNCHANGED wifiHalAlone
       \/ part = "finger" /\ fingerprintSteps /\ UNCHANGED fingerAlone)
  /\ WF_allVars(
       \/ part = "dhcp" /\ timeout /\ UNCHANGED dhcpAlone
       \/ part = "audio" /\ (\E s \in Streams : joined(s)) /\ UNCHANGED audioAlone
       \/ part = "camera" /\ jpegSteps /\ UNCHANGED cameraAlone)
  /\ WF_allVars(
       \/ part = "dhcp" /\ tick /\ UNCHANGED dhcpAlone
       \/ part = "audio" /\ (\E s \in Streams : notify(s)) /\ UNCHANGED audioAlone)
  /\ WF_allVars(part = "audio" /\ (\E s \in Streams : readStatus(s)) /\ UNCHANGED audioAlone)
  /\ SF_allVars(part = "camera" /\ readoutSteps /\ UNCHANGED cameraAlone)

DeviceSpec == DeviceInit /\ [][DeviceNext]_allVars /\ DeviceFairness

-----------------------------------------------------------------------------
(* The properties of the parts are in their modules.                         *)

(* Every part has its types (each module's TypeOK).                          *)
DeviceTypeOK ==
  /\ part = "dhcp" => TypeOK
  /\ part = "wifi" => ForwarderTypeOK
  /\ part = "audio" => AudioTypeOK
  /\ part = "camera" => CameraTypeOK
  /\ part = "3A" => ThreeATypeOK
  /\ part = "sensors" => SensorsTypeOK
  /\ part = "gnss" => GnssTypeOK
  /\ part = "wake" => WakeTypeOK
  /\ part = "wifiHal" => WifiHalTypeOK
  /\ part = "finger" => FingerprintTypeOK

(* fingerprint_close, fingerprint_remove, wifi_cleanup and the camera's      *)
(* closeCamera return.                                                       *)
ShutdownReturns == CallsReturn /\ CleanupReturns /\ CloseReturns
=============================================================================
