----------------------------- MODULE BulkUpload -----------------------------
(***************************************************************************)
(* Bulk mode: send_env_data_work_fn samples the sensors into flash until   *)
(* the batch is full and then uploads it record by record, while the MQTT  *)
(* thread may change the configuration.  Both run under                    *)
(* iotex_config_mutex, so one operation (op) is in progress at a time; its *)
(* program counter (pc) stops before every flash operation and before the  *)
(* publication, which is where a power failure can separate RAM, flash and *)
(* broker.  save_mqtt_config is two flash operations, delete then write.   *)
(*                                                                         *)
(* The data records live in an NVS history: deleting the id appends a      *)
(* marker that later reads still count.                                    *)
(***************************************************************************)
EXTENDS MqttConfig, SequencesExt

CONSTANTS
    Samples,    \* the records of samples; each differs by its time stamp
    Retained,   \* history entries that survive NVS garbage collection
    Messages,   \* configuration messages the server may send
    CrashAt,    \* the <<op, pc>> at which power may fail
    Faults,     \* what may fail, a subset of FaultKinds
    NoConfig,   \* flash holds no configuration
    Deleted,    \* the history entry nvs_delete appends
    Nothing     \* a buffer whose contents were never written

FaultKinds == {"store", "wipe", "delete", "write",
               "link", "ping", "json", "publish"}
Ops == {"none", "sample", "upload", "update"}
Pcs == {"idle", "stored", "read", "sent", "wipe", "save", "write"}

ASSUME BulkAssumption ==
    /\ Retained \in Nat \ {0}
    /\ Faults \subseteq FaultKinds
    /\ CrashAt \subseteq Ops \X Pcs
    /\ \A m \in Messages \ {Malformed} : IsMessage(m)

ASSUME DistinctAssumption ==
    /\ NoConfig \notin Config
    /\ Deleted \notin Samples
    /\ Nothing \notin Samples

VARIABLES
    cfg,      \* __config
    nvsCfg,   \* SID_MQTT_DATA_CHANNEL_CONFIG in flash
    log,      \* SID_MQTT_BULK_UPLOAD_DATA in flash, oldest entry first
    op,       \* the operation holding iotex_config_mutex
    pc,       \* its next step
    buf,      \* its data buffer
    \* History variables: no guard reads them.
    batch,    \* the records cfg.sampled counts, in sampling order
    nvsBatch, \* the records nvsCfg.sampled counts
    sent      \* the records of the batch the broker got

vars == <<cfg, nvsCfg, log, op, pc, buf, batch, nvsBatch, sent>>
flash == <<nvsCfg, nvsBatch, log>>

-----------------------------------------------------------------------------
(* The NVS history *)

Collect(l) ==
    IF Len(l) <= Retained THEN l ELSE SubSeq(l, Len(l) - Retained + 1, Len(l))

\* nvs_delete writes no marker when there is nothing to delete.
MarkDeleted(l) ==
    IF l = <<>> THEN l
    ELSE IF Last(l) = Deleted THEN l ELSE Collect(Append(l, Deleted))

\* iotex_local_storage_hist: position 0 is the newest entry.  When it fails
\* the caller's buffer keeps what the stack held.
History(l, k) ==
    LET i == Len(l) - k
    IN  IF i \in DOMAIN l /\ l[i] # Deleted THEN l[i] ELSE Nothing

\* The time stamp of a sample is not that of any record still of interest.
Batches == ToSet(batch) \cup ToSet(nvsBatch)
Fresh == Samples \ (ToSet(log) \cup Batches)

-----------------------------------------------------------------------------
TypeOK ==
    /\ cfg \in Config
    /\ nvsCfg \in Config \cup {NoConfig}
    /\ log \in Seq(Samples \cup {Deleted})
    /\ op \in Ops
    /\ pc \in Pcs
    /\ buf \in Samples \cup {Nothing}
    /\ batch \in Seq(Samples)
    /\ nvsBatch \in Seq(Samples)
    /\ sent \subseteq Samples \cup {Nothing}

Init ==
    /\ cfg = DefaultConfig
    /\ nvsCfg = NoConfig
    /\ log = <<>>
    /\ op = "none"
    /\ pc = "idle"
    /\ buf = Nothing
    /\ batch = <<>>
    /\ nvsBatch = <<>>
    /\ sent = {}

Goto(o, p) == op' = o /\ pc' = p
Release == Goto("none", "idle")       \* config_mutex_unlock

-----------------------------------------------------------------------------
(* Sampling: sampling_and_store_sensor_data, iotex_mqtt_sampling_data_and_store
   and iotex_mqtt_inc_current_sampling_count *)

SampleStore ==
    /\ pc = "idle"
    /\ IsBulk(cfg)
    /\ NeedSampling(cfg)
    /\ cfg' = SetBlockSize(cfg, cfg.channel)
    /\ \E r \in Fresh :
          /\ log' = Collect(Append(log, r))
          /\ buf' = r
    /\ sent' = sent \cap Batches     \* forget the records of past batches
    /\ Goto("sample", "stored")
    /\ UNCHANGED <<nvsCfg, batch, nvsBatch>>

\* The write fails: the block size in RAM is changed all the same.
SampleNotStored ==
    /\ pc = "idle"
    /\ "store" \in Faults
    /\ IsBulk(cfg)
    /\ NeedSampling(cfg)
    /\ cfg' = SetBlockSize(cfg, cfg.channel)
    /\ UNCHANGED <<flash, op, pc, buf, batch, sent>>

SampleCountUnsaved ==
    /\ pc = "stored"
    /\ cfg' = IncSampling(cfg)
    /\ batch' = Append(batch, buf)
    /\ Release
    /\ UNCHANGED <<flash, buf, sent>>
SampleCount ==
    /\ pc = "stored"
    /\ cfg' = IncSampling(cfg)
    /\ batch' = Append(batch, buf)
    /\ Goto("sample", "save")
    /\ UNCHANGED <<flash, buf, sent>>

-----------------------------------------------------------------------------
(* Upload: iotex_mqtt_bulk_upload_sampling_data and
   iotex_mqtt_inc_current_upload_count *)

UploadRead ==
    /\ pc = "idle"
    /\ IsBulk(cfg)
    /\ ~ NeedSampling(cfg)
    /\ ~ UploadOver(cfg)
    /\ buf' = History(log, HisBlock(cfg))
    /\ Goto("upload", "read")
    /\ UNCHANGED <<cfg, flash, batch, sent>>

\* The result of the publication is printed and otherwise ignored.
UploadPublish ==
    /\ pc = "read"
    /\ \/ sent' = sent \cup {buf}
       \/ /\ Faults \cap {"json", "publish"} # {}
          /\ sent' = sent
    /\ Goto("upload", "sent")
    /\ UNCHANGED <<cfg, flash, buf, batch>>

UploadPingIgnored ==
    /\ pc = "read"
    /\ "ping" \in Faults
    /\ Goto("upload", "sent")
    /\ UNCHANGED <<cfg, flash, buf, batch, sent>>
UploadPingFails ==
    /\ pc = "read"
    /\ "ping" \in Faults
    /\ Release
    /\ UNCHANGED <<cfg, flash, buf, batch, sent>>

\* The end of the batch is not saved.
UploadCountUnsaved ==
    /\ pc = "sent"
    /\ cfg' = IncUpload(cfg)
    /\ IF cfg'.sampled = 0
       THEN batch' = <<>> /\ Release
       ELSE batch' = batch /\ Goto("upload", "save")
    /\ UNCHANGED <<flash, buf, sent>>
UploadCount ==
    /\ pc = "sent"
    /\ cfg' = IncUpload(cfg)
    /\ batch' = IF cfg'.sampled = 0 THEN <<>> ELSE batch
    /\ Goto("upload", "save")
    /\ UNCHANGED <<flash, buf, sent>>

-----------------------------------------------------------------------------
(* Configuration messages: iotex_mqtt_update_config.  A Malformed message
   changes nothing. *)

ReceiveKeepCounters(m) ==
    /\ pc = "idle"
    /\ m # Malformed
    /\ cfg' = Parse(cfg, m)
    /\ IF StartsNewBatch(cfg, m)
       THEN batch' = <<>> /\ Goto("update", "wipe")
       ELSE batch' = batch /\ Goto("update", "save")
    /\ UNCHANGED <<flash, buf, sent>>
Receive(m) ==
    /\ pc = "idle"
    /\ m # Malformed
    /\ cfg' = Updated(cfg, m)
    /\ IF StartsNewBatch(cfg, m)
       THEN batch' = <<>> /\ Goto("update", "wipe")
       ELSE batch' = batch /\ Goto("update", "save")
    /\ UNCHANGED <<flash, buf, sent>>

\* The result of the deletion is ignored.
WipeData ==
    /\ pc = "wipe"
    /\ \/ log' = MarkDeleted(log)
       \/ "wipe" \in Faults /\ log' = log
    /\ Goto(op, "save")
    /\ UNCHANGED <<cfg, nvsCfg, buf, batch, nvsBatch, sent>>

-----------------------------------------------------------------------------
(* save_mqtt_config; its callers ignore a failure *)

SaveDelete ==
    /\ pc = "save"
    /\ nvsCfg' = NoConfig
    /\ nvsBatch' = <<>>
    /\ Goto(op, "write")
    /\ UNCHANGED <<cfg, log, buf, batch, sent>>

SaveDeleteFails ==
    /\ pc = "save"
    /\ "delete" \in Faults
    /\ Release
    /\ UNCHANGED <<cfg, flash, buf, batch, sent>>

SaveWrite ==
    /\ pc = "write"
    /\ nvsCfg' = cfg
    /\ nvsBatch' = batch
    /\ Release
    /\ UNCHANGED <<cfg, log, buf, batch, sent>>

SaveWriteFails ==
    /\ pc = "write"
    /\ "write" \in Faults
    /\ Release
    /\ UNCHANGED <<cfg, flash, buf, batch, sent>>

-----------------------------------------------------------------------------
(* Power failure, and the reboot the code asks for when the session is not
   connected or the broker stopped answering (pc = "read").  Start-up ends in
   iotex_mqtt_load_config, which leaves the defaults when flash has nothing. *)

Load == IF nvsCfg = NoConfig THEN DefaultConfig ELSE nvsCfg

Reboot ==
    /\ \/ <<op, pc>> \in CrashAt
       \/ pc = "read" /\ "link" \in Faults
    /\ cfg' = Load
    /\ batch' = nvsBatch
    /\ buf' = Nothing
    /\ Release
    /\ UNCHANGED <<flash, sent>>

EnvWork == SampleStore \/ SampleNotStored \/ UploadRead

Continue ==
    \/ SampleCount
    \/ UploadPublish
    \/ UploadPingFails
    \/ UploadCount
    \/ WipeData
    \/ SaveDelete
    \/ SaveDeleteFails
    \/ SaveWrite
    \/ SaveWriteFails

Next ==
    \/ EnvWork
    \/ Continue
    \/ \E m \in Messages : Receive(m)
    \/ Reboot

Spec == Init /\ [][Next]_vars

(* The mutex holder never waits for anything but flash and the modem.  That the
   telemetry work runs again is not assumed: main.c:341 returns without
   submitting it. *)
FairSpec == Spec /\ WF_vars(Continue)

-----------------------------------------------------------------------------
(* Properties *)

\* In RAM and in flash the upload cursor never overtakes the sampling cursor,
\* and outside bulk mode there is no batch at all, whatever message, failed
\* flash operation or power failure intervened (config.c:68-98, 231-233).
CursorOrder ==
    /\ CursorOrderOf(cfg)
    /\ nvsCfg # NoConfig => CursorOrderOf(nvsCfg)

\* Between operations flash holds the configuration and the progress that RAM
\* holds, so a restart repeats at most the interrupted step (config.c:72, 89).
\* The block size is apart: a sample that could not be stored has changed it.
ButBlock(c) == [c EXCEPT !.block = 0]

FlashMirrorsRam ==
    pc = "idle" /\ nvsCfg # NoConfig =>
        ButBlock(nvsCfg) = ButBlock(cfg) /\ nvsBatch = batch

\* What an upload step reads from the LIFO history is the record its cursor
\* stands for: batches go out in the order they were sampled (config.c:272).
ReadsNextRecord ==
    pc \in {"read", "sent"} =>
        /\ cfg.uploaded + 1 \in DOMAIN batch
        /\ buf = batch[cfg.uploaded + 1]

\* A record counted as uploaded, in RAM or in flash, did reach the broker.
UploadedWereSent ==
    /\ \A i \in 1 .. cfg.uploaded : batch[i] \in sent
    /\ nvsCfg # NoConfig =>
          \A i \in 1 .. nvsCfg.uploaded : nvsBatch[i] \in sent

\* The counters are reset after an upload only when every record sampled for
\* the batch reached the broker: "All of data is uploaded" (config.c:74).
BatchFinishes == pc = "sent" /\ pc' = "save" /\ cfg'.sampled = 0

WholeBatchSent == [][BatchFinishes => ToSet(batch) \subseteq sent]_vars

\* A restart loses at most the step it interrupted: what RAM held is what the
\* restored configuration becomes by redoing that step ("Save upload count, for
\* breakpoint retransmission", config.c:72; "breakpoint resampling", :89).
Progress(c) == <<c.bulk, c.cnt, c.sampled, c.uploaded>>

BreakpointKept ==
    [][Reboot /\ op # "update" =>
          Progress(cfg) \in
              {Progress(cfg'), Progress(IncSampling(cfg')), Progress(IncUpload(cfg'))}
      ]_vars

\* Restarts come to an end.
StaysUp == <>[][~ Reboot]_vars

\* The telemetry work goes on: whenever it again and again finds the mutex free
\* and something to do, it does it.  In bulk mode a run past main.c:341 submits
\* the next one; a device whose work returned there does not satisfy this.
TelemetryRuns == SF_vars(EnvWork)

\* What is tried again and again works at some time: the store, and the ping
\* before a publication.
RetriesWork == SF_vars(SampleStore) /\ SF_vars(UploadPublish)

\* While power, session and telemetry go on, a batch in progress is eventually
\* over and the next one starts, from every state a restart can leave ("Auto
\* switch to upload mode", "Auto switch to sampling mode", config.h:81, 88).
BatchEnds ==
    StaysUp /\ TelemetryRuns /\ RetriesWork => (cfg.sampled > 0 ~> cfg.sampled = 0)
=============================================================================
