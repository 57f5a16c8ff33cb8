------------------------- MODULE MqttSessionProofs -------------------------
(***************************************************************************)
(* What holds of MqttSession for every set of messages and faults, every   *)
(* limit of unanswered publications and every length of the CONNACK wait.  *)
(***************************************************************************)
EXTENDS MqttSession, MqttConfigProofs

-----------------------------------------------------------------------------
(* The inductive invariant *)

Opening == {"boot", "connect", "sensors", "connack", "enable"}

(* Until sending is enabled no run of the telemetry work gets past its first
   test.  So when SetEnabled raises the flag, ran is still false: the flag
   cannot turn on in a session whose telemetry has died. *)
NotSending ==
    /\ main \in Opening \/ net \in {"none", "wait"} =>
          ~ ran /\ ~ enabled /\ wq = "idle"
    /\ main \in {"connack", "enable"} => net \in {"up", "dead"}

(* From the handler of CONNACK on the CONNACK watchdog is cancelled, and only
   a device that starts, and so has no session, arms it. *)
WatchdogOff ==
    /\ connected \/ main \in {"connack", "enable"} => ~ countdown
    /\ main = "boot" => ~ connected

\* The test of ismqttOffline still holds when the work publishes: the other
\* thread can only reset the counter.
RoomToSend == wq = "publish" => sentCount < MaxSent

IInv ==
    /\ TypeOK
    /\ ChainAlive
    /\ NotSending
    /\ WatchdogOff
    /\ RoomToSend

-----------------------------------------------------------------------------
\* The bounds of the counters admit zero.
LEMMA ZeroInRange ==
    0 \in 0 .. ConnectWait - 1 /\ 0 \in 0 .. MaxSent /\ 0 \in 0 .. MaxPongs
BY SessionAssumption

\* Before start-up.
LEMMA InitInv == Init => IInv
<1> SUFFICES ASSUME Init PROVE IInv
  OBVIOUS
<1>1. TypeOK
  BY ZeroInRange, DefaultConfigType DEF Init, TypeOK, MainPcs, WqPcs
<1>2. ChainAlive /\ NotSending /\ WatchdogOff /\ RoomToSend
  BY DEF Init, ChainAlive, NotSending, Opening, WatchdogOff, RoomToSend
<1> QED
  BY <1>1, <1>2 DEF IInv

\* A restart is a start.
LEMMA RestartInv == IInv /\ Restart => IInv'
<1> SUFFICES ASSUME IInv, Restart PROVE IInv'
  OBVIOUS
<1>1. TypeOK'
  BY ZeroInRange DEF Restart, IInv, TypeOK, MainPcs, WqPcs
<1>2. ChainAlive' /\ NotSending' /\ WatchdogOff' /\ RoomToSend'
  BY DEF Restart, ChainAlive, NotSending, Opening, WatchdogOff, RoomToSend
<1> QED
  BY <1>1, <1>2 DEF IInv

\* The main thread from start-up to the first poll, and the CONNACK.
LEMMA OpeningInv ==
    IInv /\ (StartCountdown \/ Connect \/ SensorsInit \/ Connack
             \/ ConnackRefused \/ SetConnected \/ SetEnabled) => IInv'
<1> SUFFICES ASSUME IInv, StartCountdown \/ Connect \/ SensorsInit \/ Connack
                          \/ ConnackRefused \/ SetConnected \/ SetEnabled
             PROVE  IInv'
  OBVIOUS
<1> USE DEF IInv, TypeOK, MainPcs, WqPcs, ChainAlive, NotSending, Opening,
            WatchdogOff, RoomToSend, works, flags
<1>1. CASE StartCountdown
  BY <1>1 DEF StartCountdown
<1>2. CASE Connect
  BY <1>2 DEF Connect
<1>3. CASE SensorsInit
  BY <1>3 DEF SensorsInit
<1>4. CASE Connack
  BY <1>4 DEF Connack
<1>5. CASE ConnackRefused
  BY <1>5 DEF ConnackRefused
<1>6. CASE SetConnected
  BY <1>6 DEF SetConnected
<1>7. CASE SetEnabled
  BY <1>7 DEF SetEnabled
<1> QED
  BY <1>1, <1>2, <1>3, <1>4, <1>5, <1>6, <1>7

\* The main thread in its loop: answers, updates, and the way to the restart.
LEMMA LoopInv ==
    IInv /\ (PingResponse \/ UpdateDone \/ ReceiveOversize \/ KeepAlive
             \/ LinkLost \/ ClearConnected \/ ClearEnabled \/ Break) => IInv'
<1> SUFFICES ASSUME IInv, PingResponse \/ UpdateDone \/ ReceiveOversize
                          \/ KeepAlive \/ LinkLost \/ ClearConnected
                          \/ ClearEnabled \/ Break
             PROVE  IInv'
  OBVIOUS
<1> USE SessionAssumption
    DEF IInv, TypeOK, MainPcs, WqPcs, ChainAlive, NotSending, Opening,
        WatchdogOff, RoomToSend, works, flags
<1>1. CASE PingResponse
  BY <1>1 DEF PingResponse
<1>2. CASE UpdateDone
  BY <1>2 DEF UpdateDone
<1>3. CASE ReceiveOversize
  BY <1>3 DEF ReceiveOversize
<1>4. CASE KeepAlive
  BY <1>4 DEF KeepAlive
<1>5. CASE LinkLost
  BY <1>5 DEF LinkLost
<1>6. CASE ClearConnected
  BY <1>6 DEF ClearConnected
<1>7. CASE ClearEnabled
  BY <1>7 DEF ClearEnabled
<1>8. CASE Break
  BY <1>8 DEF Break
<1> QED
  BY <1>1, <1>2, <1>3, <1>4, <1>5, <1>6, <1>7, <1>8

\* A configuration message may restart the telemetry work and never stops it.
LEMMA ReceiveInv ==
    ASSUME NEW m \in Messages, IInv, Receive(m)
    PROVE  IInv'
<1>1. cfg' \in Config
  BY UpdatedType, SessionAssumption DEF Receive, IInv, TypeOK
<1>2. env' \in BOOLEAN /\ (env => env')
  BY DEF Receive, IInv, TypeOK
<1> QED
  BY <1>1, <1>2
     DEF Receive, IInv, TypeOK, MainPcs, WqPcs, ChainAlive, NotSending,
         Opening, WatchdogOff, RoomToSend, flags

\* The CONNACK watchdog counts on.
LEMMA TickInv == IInv /\ CountdownTick => IInv'
BY SessionAssumption
   DEF CountdownTick, IInv, TypeOK, MainPcs, WqPcs, ChainAlive, NotSending,
       Opening, WatchdogOff, RoomToSend, flags

\* The telemetry work up to the lock, and in bulk mode.
LEMMA BulkInv ==
    IInv /\ (EnvStart \/ EnvLock \/ EnvSample \/ EnvSampleFails
             \/ EnvUploadOver) => IInv'
<1> SUFFICES ASSUME IInv, EnvStart \/ EnvLock \/ EnvSample
                          \/ EnvSampleFails \/ EnvUploadOver
             PROVE  IInv'
  OBVIOUS
<1>1. Packed \in Config /\ IncSampling(Packed) \in Config
  BY CountingType DEF Packed, IInv, TypeOK
<1> USE DEF IInv, TypeOK, MainPcs, WqPcs, ChainAlive, NotSending, Opening,
            WatchdogOff, RoomToSend, works, flags
<1>2. CASE EnvStart
  BY <1>2 DEF EnvStart
<1>3. CASE EnvLock
  BY <1>3 DEF EnvLock
<1>4. CASE EnvSample
  BY <1>1, <1>4 DEF EnvSample
<1>5. CASE EnvSampleFails
  BY <1>1, <1>5 DEF EnvSampleFails
<1>6. CASE EnvUploadOver
  BY <1>6 DEF EnvUploadOver
<1> QED
  BY <1>2, <1>3, <1>4, <1>5, <1>6

\* The telemetry work when it publishes, up to where it submits itself.
LEMMA PublishInv ==
    IInv /\ (EnvPing \/ EnvPingFails \/ EnvPublish \/ EnvPayloadFails
             \/ EnvSubmit) => IInv'
<1> SUFFICES ASSUME IInv, EnvPing \/ EnvPingFails \/ EnvPublish
                          \/ EnvPayloadFails \/ EnvSubmit
             PROVE  IInv'
  OBVIOUS
<1>1. Uploaded \in Config
  BY CountingType DEF Uploaded, IInv, TypeOK
<1> USE SessionAssumption
    DEF IInv, TypeOK, MainPcs, WqPcs, ChainAlive, NotSending, Opening,
        WatchdogOff, RoomToSend, works, flags
<1>2. CASE EnvPing
  BY <1>2 DEF EnvPing, Publishing, ismqttOffline, Answered
<1>3. CASE EnvPingFails
  BY <1>3 DEF EnvPingFails, Publishing
<1>4. CASE EnvPublish
  BY <1>1, <1>4 DEF EnvPublish
<1>5. CASE EnvPayloadFails
  BY <1>1, <1>5 DEF EnvPayloadFails
<1>6. CASE EnvSubmit
  BY <1>6 DEF EnvSubmit
<1> QED
  BY <1>2, <1>3, <1>4, <1>5, <1>6

\* Every step preserves the invariant.
LEMMA StepInv == IInv /\ [Next]_vars => IInv'
<1>1. IInv /\ UNCHANGED vars => IInv'
  BY DEF vars, IInv, TypeOK, ChainAlive, NotSending, WatchdogOff, RoomToSend
<1>2. ConnectFails \/ ErrorReboot \/ CountdownExpires \/ EnvOffline => Restart
  BY DEF ConnectFails, ErrorReboot, CountdownExpires, EnvOffline
<1> QED
  BY <1>1, <1>2, RestartInv, OpeningInv, LoopInv, ReceiveInv, TickInv, BulkInv,
     PublishInv
     DEF Next, MainStep, Countdown, EnvBody, Network

\* The invariant excludes the step that would reboot a connected device.
LEMMA NoRebootStep == IInv => [~ CountdownFiresConnected]_vars
BY DEF IInv, WatchdogOff, CountdownFiresConnected, CountdownExpires

\* Every reachable state has the declared types.  In particular mqttSentCount
\* never passes MQTT_NO_RESPONSE_MAX_COUNT, although the thread that resets it
\* and the work that tests and raises it share no lock.
THEOREM TypeCorrect == Spec => []TypeOK
BY InitInv, StepInv, PTL DEF Spec, IInv

\* Telemetry that ran once in a session stays pending or running while sending
\* is enabled, whatever fails in it and whichever message restarts it.
THEOREM TelemetryGoesOn == Spec => []ChainAlive
BY InitInv, StepInv, PTL DEF Spec, IInv

\* The CONNACK watchdog never reboots a device that holds a session, in every
\* interleaving of its work with the event handler.
THEOREM SessionNotRebooted == Spec => NoRebootInSession
BY InitInv, StepInv, NoRebootStep, PTL DEF Spec, NoRebootInSession
=============================================================================
