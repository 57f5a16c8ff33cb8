---------------------------- MODULE MqttSession ----------------------------
(***************************************************************************)
(* The life of one MQTT session: the main thread connects, polls the       *)
(* socket and runs the event handler of mqtt.c; the system work queue,     *)
(* which has priority, runs the delayed works cloud_reboot_work and        *)
(* send_env_data_work.  The two threads share connected, send_data_enable, *)
(* mqttSentCount and, under iotex_config_mutex, the configuration.  Time   *)
(* is abstracted: a pending delayed work may expire at any moment.         *)
(***************************************************************************)
EXTENDS MqttConfig

CONSTANTS
    MaxSent,      \* MQTT_NO_RESPONSE_MAX_COUNT
    ConnectWait,  \* CONFIG_CLOUD_WAIT_DURATION, in runs of cloud_reboot_work
    MaxPongs,     \* PINGRESPs in flight: bounds the model, not the code
    Messages,     \* configuration messages the server may send
    Faults        \* what may fail, a subset of FaultKinds

FaultKinds == {"connect", "refused", "link", "oversize", "payload", "store"}

ASSUME SessionAssumption ==
    /\ MaxSent \in Nat \ {0}
    /\ ConnectWait \in Nat \ {0}
    /\ MaxPongs \in Nat
    /\ Faults \subseteq FaultKinds
    /\ \A m \in Messages \ {Malformed} : IsMessage(m)

VARIABLES
    cfg,        \* __config
    net,        \* the transport: "none", CONNECT sent, "up" or "dead"
    connected,  \* mqtt.c
    enabled,    \* send_data_enable
    main,       \* program counter of the main thread
    wq,         \* program counter of the system work queue
    env,        \* send_env_data_work is pending
    countdown,  \* cloud_reboot_work is pending
    cnt,        \* its static counter
    sentCount,  \* mqttSentCount
    pongs,      \* PINGRESPs the main thread has not read yet
    ran         \* history: send_env_data_work completed in this session

vars == <<cfg, net, connected, enabled, main, wq, env, countdown, cnt,
          sentCount, pongs, ran>>
works == <<wq, env, countdown, cnt, ran>>
flags == <<connected, enabled>>

MainPcs == {"boot", "connect", "sensors", "loop", "connack", "enable",
            "update", "disconnect", "lost"}
WqPcs == {"idle", "lock", "body", "publish", "submit"}

TypeOK ==
    /\ cfg \in Config
    /\ net \in {"none", "wait", "up", "dead"}
    /\ connected \in BOOLEAN
    /\ enabled \in BOOLEAN
    /\ main \in MainPcs
    /\ wq \in WqPcs
    /\ env \in BOOLEAN
    /\ countdown \in BOOLEAN
    /\ cnt \in 0 .. ConnectWait - 1
    /\ sentCount \in 0 .. MaxSent
    /\ pongs \in 0 .. MaxPongs
    /\ ran \in BOOLEAN

Init ==
    /\ cfg = DefaultConfig
    /\ net = "none"
    /\ connected = FALSE
    /\ enabled = FALSE
    /\ main = "boot"
    /\ wq = "idle"
    /\ env = FALSE
    /\ countdown = FALSE
    /\ cnt = 0
    /\ sentCount = 0
    /\ pongs = 0
    /\ ran = FALSE

\* sys_reboot: the configuration comes back from flash (BulkUpload).
Restart ==
    /\ net' = "none"
    /\ connected' = FALSE
    /\ enabled' = FALSE
    /\ main' = "boot"
    /\ wq' = "idle"
    /\ env' = FALSE
    /\ countdown' = FALSE
    /\ cnt' = 0
    /\ sentCount' = 0
    /\ pongs' = 0
    /\ ran' = FALSE
    /\ UNCHANGED cfg

\* iotex_config_mutex: held by the update, or by the work past its lock.
MutexFree == main # "update" /\ wq \in {"idle", "lock"}

Answered == pongs' \in {pongs, pongs + 1} /\ pongs' <= MaxPongs

-----------------------------------------------------------------------------
(* Main thread: iotex_mqtt_client_init, sensors_init *)

\* cloud_reboot_work is started before the blocking mqtt_connect.
StartCountdown ==
    /\ main = "boot"
    /\ countdown' = TRUE
    /\ main' = "connect"
    /\ UNCHANGED <<cfg, net, flags, wq, env, cnt, sentCount, pongs, ran>>

Connect ==
    /\ main = "connect"
    /\ net' = "wait"
    /\ main' = "sensors"
    /\ UNCHANGED <<cfg, flags, works, sentCount, pongs>>

ConnectFails ==
    /\ main = "connect"
    /\ "connect" \in Faults
    /\ Restart

SensorsInit ==
    /\ main = "sensors"
    /\ env' = TRUE
    /\ main' = "loop"
    /\ UNCHANGED <<cfg, net, flags, wq, countdown, cnt, sentCount, pongs, ran>>

-----------------------------------------------------------------------------
(* Main thread: mqtt_evt_handler, called by mqtt_input and mqtt_live.  The
   work queue may run between any two of its statements. *)

ConnackKeepsCountdown ==
    /\ main = "loop"
    /\ net = "wait"
    /\ net' = "up"
    /\ main' = "connack"
    /\ UNCHANGED <<cfg, flags, works, sentCount, pongs>>
Connack ==
    /\ main = "loop"
    /\ net = "wait"
    /\ net' = "up"
    /\ countdown' = FALSE        \* k_delayed_work_cancel, pending or queued
    /\ main' = "connack"
    /\ UNCHANGED <<cfg, flags, wq, env, cnt, sentCount, pongs, ran>>

ConnackRefused ==
    /\ main = "loop"
    /\ net = "wait"
    /\ "refused" \in Faults
    /\ net' = "dead"             \* the broker closes the connection
    /\ UNCHANGED <<cfg, flags, main, works, sentCount, pongs>>

SetConnected ==
    /\ main = "connack"
    /\ connected' = TRUE
    /\ main' = "enable"
    /\ UNCHANGED <<cfg, net, enabled, works, sentCount, pongs>>

SetEnabled ==
    /\ main = "enable"
    /\ enabled' = TRUE
    /\ main' = "loop"
    /\ UNCHANGED <<cfg, net, connected, works, sentCount, pongs>>

\* default: mqttGetResponse.
PingResponse ==
    /\ main = "loop"
    /\ pongs > 0
    /\ pongs' = pongs - 1
    /\ sentCount' = 0
    /\ UNCHANGED <<cfg, net, flags, main, works>>

\* MQTT_EVT_PUBLISH: the parser may call RestartEnvWork, which cancels and
\* submits send_env_data_work, and the mutex stays locked until the save.
ReceiveCancelsOnly(m) ==
    /\ main = "loop"
    /\ net = "up"
    /\ m # Malformed
    /\ MutexFree
    /\ cfg' = Updated(cfg, m)
    /\ env' = (env /\ RestartDelay(cfg, m) < 0)
    /\ main' = "update"
    /\ UNCHANGED <<net, flags, wq, countdown, cnt, sentCount, pongs, ran>>
Receive(m) ==
    /\ main = "loop"
    /\ net = "up"
    /\ m # Malformed
    /\ MutexFree
    /\ cfg' = Updated(cfg, m)
    /\ env' = (env \/ RestartDelay(cfg, m) >= 0)
    /\ main' = "update"
    /\ UNCHANGED <<net, flags, wq, countdown, cnt, sentCount, pongs, ran>>

UpdateDone ==
    /\ main = "update"
    /\ main' = "loop"
    /\ UNCHANGED <<cfg, net, flags, works, sentCount, pongs>>

\* A payload that payload_buf cannot hold: the handler disconnects.
ReceiveOversize ==
    /\ main = "loop"
    /\ net = "up"
    /\ "oversize" \in Faults
    /\ net' = "dead"
    /\ main' = "disconnect"
    /\ UNCHANGED <<cfg, flags, works, sentCount, pongs>>

\* mqtt_live pings for the keep-alive.
KeepAlive ==
    /\ main = "loop"
    /\ net = "up"
    /\ pongs' = pongs + 1
    /\ pongs' <= MaxPongs
    /\ UNCHANGED <<cfg, net, flags, main, works, sentCount>>

\* poll, mqtt_live or mqtt_input fails.  The client disconnects, its handler
\* clears the two flags and error_handler reboots.
LinkLost ==
    /\ main = "loop"
    /\ net = "dead"
    /\ main' = "disconnect"
    /\ UNCHANGED <<cfg, net, flags, works, sentCount, pongs>>

ClearConnected ==
    /\ main = "disconnect"
    /\ connected
    /\ connected' = FALSE
    /\ UNCHANGED <<cfg, net, enabled, main, works, sentCount, pongs>>

ClearEnabled ==
    /\ main = "disconnect"
    /\ ~ connected
    /\ enabled' = FALSE
    /\ main' = "lost"
    /\ UNCHANGED <<cfg, net, connected, works, sentCount, pongs>>

ErrorReboot ==
    /\ main = "lost"
    /\ Restart

-----------------------------------------------------------------------------
(* Work queue: cloud_reboot_work_fn *)

CountdownTickOnce ==
    /\ wq = "idle"
    /\ countdown
    /\ cnt + 1 < ConnectWait
    /\ cnt' = cnt + 1
    /\ countdown' = FALSE
    /\ UNCHANGED <<cfg, net, flags, main, wq, env, sentCount, pongs, ran>>
CountdownTick ==
    /\ wq = "idle"
    /\ countdown
    /\ cnt + 1 < ConnectWait
    /\ cnt' = cnt + 1            \* and the work submits itself again
    /\ UNCHANGED <<cfg, net, flags, main, wq, env, countdown, sentCount, pongs, ran>>

CountdownExpires ==
    /\ wq = "idle"
    /\ countdown
    /\ cnt + 1 >= ConnectWait
    /\ Restart

-----------------------------------------------------------------------------
(* Work queue: send_env_data_work_fn *)

EnvStart ==
    /\ wq = "idle"
    /\ env
    /\ env' = FALSE
    /\ wq' = IF enabled THEN "lock" ELSE "idle"
    /\ UNCHANGED <<cfg, net, flags, main, countdown, cnt, sentCount, pongs, ran>>

EnvLock ==
    /\ wq = "lock"
    /\ MutexFree
    /\ wq' = "body"
    /\ UNCHANGED <<cfg, net, flags, main, env, countdown, cnt, sentCount, pongs, ran>>

\* Bulk mode, batch not complete (BulkUpload has the flash operations).  A
\* sensor or the write may fail; the block size is set before the write.
Packed == SetBlockSize(cfg, cfg.channel)

EnvSample ==
    /\ wq = "body"
    /\ IsBulk(cfg)
    /\ NeedSampling(cfg)
    /\ cfg' = IncSampling(Packed)
    /\ wq' = "submit"
    /\ UNCHANGED <<net, flags, main, env, countdown, cnt, sentCount, pongs, ran>>

EnvSampleFails ==
    /\ wq = "body"
    /\ IsBulk(cfg)
    /\ NeedSampling(cfg)
    /\ "store" \in Faults
    /\ cfg' \in {cfg, Packed}
    /\ wq' = "submit"
    /\ UNCHANGED <<net, flags, main, env, countdown, cnt, sentCount, pongs, ran>>

NothingToUpload == IsBulk(cfg) /\ ~ NeedSampling(cfg) /\ UploadOver(cfg)

EnvUploadOver ==
    /\ wq = "body"
    /\ NothingToUpload
    /\ wq' = "submit"
    /\ UNCHANGED <<cfg, net, flags, main, env, countdown, cnt, sentCount, pongs, ran>>

Publishing ==
    /\ wq = "body"
    /\ IsBulk(cfg) => ~ NeedSampling(cfg) /\ ~ UploadOver(cfg)

ismqttOfflineOffByOne == sentCount > MaxSent
ismqttOffline == sentCount >= MaxSent

EnvOffline ==
    /\ Publishing
    /\ ~ connected \/ ismqttOffline
    /\ Restart

EnvPing ==
    /\ Publishing
    /\ connected
    /\ ~ ismqttOffline
    /\ net = "up"
    /\ Answered
    /\ wq' = "publish"
    /\ UNCHANGED <<cfg, net, flags, main, env, countdown, cnt, sentCount, ran>>

\* The write fails: the client disconnects and runs the handler right here, on
\* the work queue; the payload is skipped.
EnvPingFails ==
    /\ Publishing
    /\ connected
    /\ ~ ismqttOffline
    /\ net = "dead"
    /\ connected' = FALSE
    /\ enabled' = FALSE
    /\ wq' = "submit"
    /\ UNCHANGED <<cfg, net, main, env, countdown, cnt, sentCount, pongs, ran>>

Uploaded == IF IsBulk(cfg) THEN IncUpload(cfg) ELSE cfg

EnvPublishUncounted ==
    /\ wq = "publish"
    /\ cfg' = Uploaded
    /\ wq' = "submit"
    /\ UNCHANGED <<net, flags, main, env, countdown, cnt, sentCount, pongs, ran>>
\* The result of the publication is only printed.
EnvPublish ==
    /\ wq = "publish"
    /\ sentCount' = sentCount + 1
    /\ cfg' = Uploaded
    /\ wq' = "submit"
    /\ UNCHANGED <<net, flags, main, env, countdown, cnt, pongs, ran>>

\* A sensor or an allocation fails: nothing is published or counted as sent.
EnvPayloadFails ==
    /\ wq = "publish"
    /\ "payload" \in Faults
    /\ cfg' = Uploaded
    /\ wq' = "submit"
    /\ UNCHANGED <<net, flags, main, env, countdown, cnt, sentCount, pongs, ran>>

EnvSubmit ==
    /\ wq = "submit"
    /\ env' = TRUE
    /\ wq' = "idle"              \* and unlock
    /\ ran' = TRUE
    /\ UNCHANGED <<cfg, net, flags, main, countdown, cnt, sentCount, pongs>>

-----------------------------------------------------------------------------
\* The transport breaks, or the peer closes it.
Break ==
    /\ "link" \in Faults
    /\ net \in {"wait", "up"}
    /\ net' = "dead"
    /\ UNCHANGED <<cfg, flags, main, works, sentCount, pongs>>

MainStep ==
    \/ StartCountdown
    \/ Connect
    \/ SensorsInit
    \/ SetConnected
    \/ SetEnabled
    \/ UpdateDone
    \/ LinkLost
    \/ ClearConnected
    \/ ClearEnabled
    \/ ErrorReboot

Countdown == CountdownTick \/ CountdownExpires

EnvBody ==
    \/ EnvSample
    \/ EnvSampleFails
    \/ EnvUploadOver
    \/ EnvOffline
    \/ EnvPing
    \/ EnvPingFails
    \/ EnvPublish
    \/ EnvPayloadFails
    \/ EnvSubmit

Network ==
    \/ ConnectFails
    \/ Connack
    \/ ConnackRefused
    \/ KeepAlive
    \/ ReceiveOversize
    \/ Break

Next ==
    \/ MainStep
    \/ PingResponse
    \/ Countdown
    \/ EnvStart
    \/ EnvLock
    \/ EnvBody
    \/ Network
    \/ \E m \in Messages : Receive(m)

Spec == Init /\ [][Next]_vars

(* Expired works run in the order they were queued and the holder of the mutex
   releases it, so a work that is pending, or waits for the mutex, again and
   again does run.  The main thread polls for ever.  Nothing is assumed of the
   broker or of the network. *)
FairSpec ==
    /\ Spec
    /\ SF_vars(MainStep)
    /\ SF_vars(PingResponse)
    /\ SF_vars(Countdown)
    /\ SF_vars(EnvStart)
    /\ SF_vars(EnvLock)
    /\ WF_vars(EnvBody)

-----------------------------------------------------------------------------
(* Properties *)

\* Telemetry that ran once in a session goes on while sending is enabled: the
\* work is pending or running, whatever failed in it and whatever message
\* restarted it in the meantime (main.c:337-368).
ChainAlive == ran /\ enabled => env \/ wq # "idle"

\* The connection watchdog never reboots a device that holds a session
\* ("Cancel reboot worker", mqtt.c:201).
CountdownFiresConnected == CountdownExpires /\ connected

NoRebootInSession == [][~ CountdownFiresConnected]_vars

\* "Reboot the device if CONNACK has not arrived" (mqtt.c:176): a device
\* without a session connects or restarts, also after it lost the session.
ConnectedOrReboot == ~ connected ~> connected \/ main = "boot"

\* A session in which the broker sends nothing any more ends in a restart,
\* unless the sensors or the flash fail for ever or the batch has nothing to
\* upload: the telemetry in progress runs into mqttSentCount (main.c:544-581).
Silent == pongs = 0 /\ main # "update" /\ ~ NothingToUpload
Recovery == SF_vars(EnvSample) /\ SF_vars(EnvPublish)
SilenceDetected ==
    Recovery => []((ran /\ enabled /\ []Silent) => <>(main = "boot"))

\* Telemetry starts in every session: "Send sensor data after initialization"
\* (main.c:724).
DataFlows == enabled ~> ran \/ ~ enabled
=============================================================================
