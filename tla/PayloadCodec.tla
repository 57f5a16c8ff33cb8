---------------------------- MODULE PayloadCodec ----------------------------
(***************************************************************************)
(* The record format of mqtt/payload.c.  In bulk mode a sample is packed   *)
(* into bytes, stored, and unpacked into a JSON document when its turn     *)
(* comes; in periodic mode the document is made from the sensors directly. *)
(* A byte is the pair of the field it was packed for and its number in it, *)
(* so a document shows which bytes of the record each item was made from.  *)
(* Only the bytes of the voltage have their values: it is the one reading  *)
(* that is converted, and an item with it is a number of millivolts.       *)
(* The data channel stays as it is: BulkUpload has its changes.            *)
(*                                                                         *)
(* Left out of both documents are the random item and the signature, which *)
(* both have, and how numbers are printed.                                 *)
(***************************************************************************)
EXTENDS Integers, SequencesExt

CONSTANTS
    Channels,  \* data channels considered, each the set of its bits
    Voltages,  \* what the modem may report, in millivolts
    Orders,    \* the orders in which the build may read the bytes of VBAT
    Faults     \* the sensors that may fail, a subset of {"env", "action"}

EnvSensor == {"GAS", "TEMP", "PRESSURE", "HUMIDITY"}
ActionSensor == {"TEMP2", "GYROSCOPE", "ACCELEROMETER", "CUSTOM_MOTION"}
Bits == {"SNR", "VBAT", "GPS", "LIGHT"} \cup EnvSensor \cup ActionSensor
Millivolts == 0 .. 9999     \* four digits, modem_helper.c:163

ASSUME CodecAssumption ==
    /\ Channels \subseteq SUBSET Bits
    /\ Voltages \subseteq Millivolts
    /\ Orders \subseteq {"low first", "high first"}
    /\ Faults \subseteq {"env", "action"}

\* Fields in packing order, with their number of bytes.  CUSTOM_MOTION makes
\* the sensor be read and packs nothing.
Fields ==
    <<"SNR", "VBAT", "GPS", "GAS", "TEMP", "PRESSURE", "HUMIDITY", "LIGHT",
      "TEMP2", "GYROSCOPE", "ACCELEROMETER">>
Width(f) ==
    CASE f = "SNR" -> 1
      [] f = "VBAT" -> 2
      [] f = "GPS" -> 16            \* latitude, longitude
      [] f \in {"GYROSCOPE", "ACCELEROMETER"} -> 6
      [] f = "TIME" -> 8
      [] OTHER -> 4

VARIABLES
    channel,    \* __config.data_channel
    trans_key,  \* documents that are still to carry the public key
    reading,    \* what the sensors gave for the last sample
    record,     \* the bytes stored for it
    doc         \* the document uploaded for it

codec == <<channel, trans_key, reading, record, doc>>

Byte(f, i) == <<f, i>>
Blank == Byte("none", 255)       \* 0xFF, of a sample without a position
Unset == Byte("none", 0)         \* a byte nothing was written to
Octet == 0 .. 255
Bytes == ((Range(Fields) \cup {"TIME"}) \X Octet) \cup {Blank, Unset}

\* vol_Integer: a float of volts, times 1000, cut to a uint16_t.  The cut loses
\* a millivolt where the product falls just short of the whole number, as it
\* does for 91 of the 10000 voltages.
Cut(v) == {v, v - 1} \cap Nat
Readings ==
    UNION {[fix : BOOLEAN, vbat : {v}, vol : Cut(v)] : v \in Voltages}

-----------------------------------------------------------------------------
(* iotex_mqtt_sampling_data_and_store *)

Value(f, r) ==
    IF f = "VBAT"
    THEN <<Byte(f, r.vol % 256), Byte(f, r.vol \div 256)>>
    ELSE [i \in 1 .. Width(f) |-> Byte(f, i)]
NoFixTwice == [i \in 1 .. 2 * Width("GPS") |-> Blank]
NoFix == [i \in 1 .. Width("GPS") |-> Blank]

PackSkippingNoFix(f, ch, r) ==
    IF f \notin ch \/ (f = "GPS" /\ ~ r.fix) THEN <<>> ELSE Value(f, r)
Pack(f, ch, r) ==
    IF f \notin ch THEN <<>>
    ELSE IF f = "GPS" /\ ~ r.fix THEN NoFix ELSE Value(f, r)

Stamp == [i \in 1 .. Width("TIME") |-> Byte("TIME", i)]

Packed(ch, r) ==
    FlattenSeq([i \in DOMAIN Fields |-> Pack(Fields[i], ch, r)]) \o Stamp

SensorFails ==
    \/ "env" \in Faults /\ channel \cap EnvSensor # {}
    \/ "action" \in Faults /\ channel \cap ActionSensor # {}

-----------------------------------------------------------------------------
(* iotex_mqtt_bin_to_json *)

\* The channel bit that makes the decoder read field f: the light is read
\* when the humidity is selected.
GateSwapped(f) ==
    CASE f = "LIGHT" -> "HUMIDITY"
      [] f = "GYROSCOPE" -> "ACCELEROMETER"
      [] OTHER -> f
Gate(f) == IF f = "LIGHT" THEN "HUMIDITY" ELSE f

Decoded(ch) == {f \in Range(Fields) : Gate(f) \in ch}

\* write_cnt before the decoder comes to field i.
Cursor(ch) ==
    LET at[i \in 1 .. Len(Fields) + 1] ==
          IF i = 1 THEN 0
          ELSE at[i - 1] + IF Fields[i - 1] \in Decoded(ch)
                           THEN Width(Fields[i - 1]) ELSE 0
    IN  at

ReadBytes(from, n) ==
    [k \in 1 .. n |-> IF from + k \in DOMAIN record THEN record[from + k] ELSE Unset]

FieldRead(f) ==
    ReadBytes(Cursor(channel)[CHOOSE i \in DOMAIN Fields : Fields[i] = f], Width(f))

\* Two bytes as a number, the first being the low one.  The two increments of
\* line 520 are not sequenced, so that either may be.
Number(low, high) == low[2] + 256 * high[2]

\* A position whose longitude is all blank is the string "null".
Item(f, order) ==
    LET b == FieldRead(f)
    IN  CASE f = "VBAT" /\ order = "low first" -> <<Number(b[1], b[2])>>
          [] f = "VBAT" /\ order = "high first" -> <<Number(b[2], b[1])>>
          [] f = "GPS" /\ \A i \in 9 .. 16 : b[i] = Blank -> NoFix
          [] OTHER -> b

StampRead == ReadBytes(Cursor(channel)[Len(Fields) + 1], Width("TIME"))

\* The time stamp is copied out of the record, and epoch_buf, which was never
\* written, is what enters the document.
Document(order) ==
    [f \in Decoded(channel) \cup {"TIME"} |->
        IF f = "TIME" THEN [i \in 1 .. Width("TIME") |-> Unset] ELSE Item(f, order)]

\* iotex_mqtt_get_selected_payload, of the same readings.  The first documents
\* after a start carry the public key, or garbage if the load of it fails.
PeriodicItem(f) ==
    CASE f = "VBAT" -> <<reading.vbat>>
      [] f = "GPS" /\ ~ reading.fix -> NoFix
      [] f = "TIME" -> Stamp
      [] f = "ecc_pubkey" -> <<"hex digits">>
      [] OTHER -> Value(f, reading)

PeriodicDocument ==
    [f \in (channel \cap Range(Fields)) \cup {"TIME"}
               \cup (IF trans_key > 0 THEN {"ecc_pubkey"} ELSE {}) |->
        PeriodicItem(f)]

NoDocument == [f \in {} |-> <<>>]

-----------------------------------------------------------------------------
CodecTypeOK ==
    /\ channel \in Channels
    /\ trans_key \in 0 .. 2
    /\ reading \in Readings
    /\ record = <<>> \/ Len(record) \in 8 .. 63
    /\ Range(record) \subseteq Bytes
    /\ DOMAIN doc \subseteq Bits \cup {"TIME"}

CodecInit ==
    /\ channel \in Channels
    /\ trans_key = 2
    /\ reading \in Readings
    /\ record = <<>>
    /\ doc = NoDocument

Sample ==
    /\ reading' \in Readings
    /\ record' = Packed(channel, reading')
    /\ doc' = NoDocument
    /\ UNCHANGED <<channel, trans_key>>

\* A sensor does not answer: nothing is stored.
SampleFails ==
    /\ SensorFails
    /\ UNCHANGED codec

Upload ==
    /\ record # <<>>
    /\ \E order \in Orders : doc' = Document(order)
    /\ UNCHANGED <<channel, trans_key, reading, record>>

\* A document of periodic mode, of other readings: only the first two of a
\* start change anything here.
Publish ==
    /\ trans_key > 0
    /\ trans_key' = trans_key - 1
    /\ UNCHANGED <<channel, reading, record, doc>>

\* The record is in flash.
Restart ==
    /\ trans_key' = 2
    /\ doc' = NoDocument
    /\ UNCHANGED <<channel, reading, record>>

CodecNext == Sample \/ SampleFails \/ Upload \/ Publish \/ Restart

CodecSpec == CodecInit /\ [][CodecNext]_codec

-----------------------------------------------------------------------------
(* Properties *)

\* The channels for which packer and decoder agree on the light.
LightPaired == "LIGHT" \in channel <=> "HUMIDITY" \in channel

AheadOfLight == {"SNR", "VBAT", "GPS"} \cup EnvSensor

\* What of a document is compared: the light only where it is paired, never the
\* public key, which no document of bulk mode carries.
Compared(items) ==
    items \ ({"ecc_pubkey"} \cup IF LightPaired THEN {} ELSE {"LIGHT"})

Arrives(f) ==
    IF f = "VBAT"
    THEN \E v \in {reading.vbat - 1, reading.vbat} : doc[f] = <<v>>
    ELSE doc[f] = PeriodicDocument[f]

\* An uploaded sample has the measurements of the document that periodic mode
\* would have sent for the same readings: the same items, each made of its own
\* bytes, the voltage to a millivolt ("unpack with the same sequence when
\* uploaded", payload.c:187).  For a channel with the light or the humidity alone
\* this is so up to the light only.  The time stamp is not compared.
MeasurementsArrive ==
    doc # NoDocument =>
        /\ Compared(DOMAIN doc) = Compared(DOMAIN PeriodicDocument)
        /\ \A f \in DOMAIN doc \ {"TIME"} :
              LightPaired \/ f \in AheadOfLight => Arrives(f)

\* The decoder comes out at the time stamp, having consumed as many bytes as
\* were packed, for these channels and for no other (payload.c:607, 656).
StampAligned == record # <<>> => (StampRead = Stamp <=> LightPaired)
=============================================================================
