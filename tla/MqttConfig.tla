----------------------------- MODULE MqttConfig -----------------------------
(***************************************************************************)
(* The device configuration of mqtt/config.c: the one static record        *)
(* __config, its getters, the two progress counters and the parser of      *)
(* configuration messages.  The module has no variables: BulkUpload and    *)
(* MqttSession keep a value of Config and change it with these operators.  *)
(*                                                                         *)
(* A configuration message is a function whose domain is the set of keys   *)
(* the JSON object carries AS STRINGS (the parser ignores every other      *)
(* item); its values are the integers that atoi() returns.  Malformed is   *)
(* the message that does not parse or does not fit config_buffer.          *)
(***************************************************************************)
EXTENDS Integers

CONSTANTS
    U16,             \* 65536: uint16_t fields wrap modulo U16
    BulkSamples,     \* 10: sampling count a "bulk_upload" item installs
    BulkFrequency,   \* 10: sampling frequency a "bulk_upload" item installs
    DefaultChannel,  \* CONFIG_MQTT_CONFIG_DATA_CHANNEL
    DefaultPeriod,   \* CONFIG_MQTT_CONFIG_UPLOAD_PERIOD
    Malformed        \* a payload the parser rejects

ASSUME U16Assumption == U16 \in Nat \ {0}

ASSUME DefaultsAssumption ==
    /\ BulkSamples \in 1 .. U16 - 1
    /\ BulkFrequency \in 1 .. U16 - 1
    /\ DefaultChannel \in 0 .. U16 - 1
    /\ DefaultPeriod \in 0 .. U16 - 1

Word == 0 .. U16 - 1     \* the values of a uint16_t

\* iotex_mqtt_config.  bulk is a uint32_t assigned from an int: the conversion
\* is injective, and the code only compares it with 0 and with its old value.
Config ==
    [bulk : Int, channel : Word, period : Word, cnt : Word, freq : Word,
     uploaded : Word, sampled : Word, block : Word]

Keys == {"bulk_upload", "data_channel", "upload_period",
         "bulk_upload_sampling_cnt", "bulk_upload_sampling_freq", "beep"}

IsMessage(m) ==
    /\ DOMAIN m \subseteq Keys
    /\ \A k \in DOMAIN m : m[k] \in Int

\* The initializer of __config when CONFIG_MQTT_CONFIG_BULK_UPLOAD is not set.
DefaultConfig ==
    [bulk |-> 0, channel |-> DefaultChannel, period |-> DefaultPeriod,
     cnt |-> 0, freq |-> 0, uploaded |-> 0, sampled |-> 0, block |-> 0]

-----------------------------------------------------------------------------
(* Getters *)

IsBulk(c) == c.bulk # 0

NeedSampling(c) == c.sampled < c.cnt

UploadOverEarly(c) == c.uploaded + 1 >= c.cnt
UploadOver(c) == c.uploaded >= c.cnt

\* Position in the LIFO history of the next record to upload.
HisBlockOffByOne(c) == IF c.uploaded < c.cnt THEN c.cnt - c.uploaded ELSE 0
HisBlock(c) == IF c.uploaded < c.cnt THEN c.cnt - c.uploaded - 1 ELSE 0

-----------------------------------------------------------------------------
(* Progress counters; each is followed by save_mqtt_config in the callers *)

ResetCounters(c) == [c EXCEPT !.uploaded = 0, !.sampled = 0]

IncUploadKeepSampled(c) ==
    LET d == [c EXCEPT !.uploaded = (@ + 1) % U16]
    IN  IF UploadOver(d) THEN [d EXCEPT !.uploaded = 0] ELSE d
IncUpload(c) ==
    LET d == [c EXCEPT !.uploaded = (@ + 1) % U16]
    IN  IF UploadOver(d) THEN ResetCounters(d) ELSE d

IncSampling(c) ==
    LET d == [c EXCEPT !.sampled = (@ + 1) % U16]
    IN  IF NeedSampling(d) THEN d ELSE [d EXCEPT !.uploaded = 0]

\* The cursors are in order, and outside bulk mode there is no batch.
CursorOrderOf(c) ==
    /\ c.uploaded <= c.sampled
    /\ ~ IsBulk(c) => c.sampled = 0

SetBlockSize(c, size) == [c EXCEPT !.block = size]

-----------------------------------------------------------------------------
(* iotex_mqtt_parse_config: the items are applied in this order.  Beep has no
   effect on the record; RestartEnvWork is RestartDelay below. *)

ParseBulk(c, m) ==
    IF "bulk_upload" \in DOMAIN m
    THEN [c EXCEPT !.bulk = m["bulk_upload"],
                   !.freq = BulkFrequency, !.cnt = BulkSamples]
    ELSE c

ParseChannel(c, m) ==
    IF "data_channel" \in DOMAIN m
    THEN [c EXCEPT !.channel = m["data_channel"] % U16] ELSE c

ParsePeriod(c, m) ==
    IF "upload_period" \in DOMAIN m
    THEN [c EXCEPT !.period = m["upload_period"] % U16] ELSE c

ParseCountWide(c, m) ==
    IF "bulk_upload_sampling_cnt" \in DOMAIN m
    THEN [c EXCEPT !.cnt = m["bulk_upload_sampling_cnt"]] ELSE c
ParseCount(c, m) ==
    IF "bulk_upload_sampling_cnt" \in DOMAIN m
    THEN [c EXCEPT !.cnt = m["bulk_upload_sampling_cnt"] % U16] ELSE c

ParseFrequency(c, m) ==
    IF "bulk_upload_sampling_freq" \in DOMAIN m
    THEN [c EXCEPT !.freq = m["bulk_upload_sampling_freq"] % U16] ELSE c

Parse(c, m) ==
    ParseFrequency(ParseCount(ParsePeriod(ParseChannel(
        ParseBulk(c, m), m), m), m), m)

\* ret == 2: the mode changed, or the batch size changed in bulk mode.  The
\* batch size is compared with what the bulk_upload item, if any, installed.
StartsNewBatch(c, m) ==
    LET b == ParseBulk(c, m)
    IN  \/ b.bulk # c.bulk
        \/ IsBulk(b) /\ ParseCount(b, m).cnt # b.cnt

\* Update the record as iotex_mqtt_update_config does before it saves it.
Updated(c, m) ==
    IF StartsNewBatch(c, m) THEN ResetCounters(Parse(c, m)) ELSE Parse(c, m)

\* The delay (s) handed to RestartEnvWork, or -1 when it is not called.
RestartDelay(c, m) ==
    LET d == Parse(c, m)
    IN  IF IsBulk(d)
        THEN IF "bulk_upload_sampling_freq" \in DOMAIN m THEN d.freq ELSE -1
        ELSE IF "upload_period" \in DOMAIN m THEN d.period ELSE -1
=============================================================================
