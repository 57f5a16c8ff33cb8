-------------------------- MODULE MqttConfigProofs --------------------------
(***************************************************************************)
(* Lemmas about the operators of MqttConfig: which of them keep a          *)
(* configuration a configuration, although every field is cut to 16 bits,  *)
(* and which keep its cursors in order.                                    *)
(***************************************************************************)
EXTENDS MqttConfig, TLAPS

\* The defaults are a configuration without a batch.
LEMMA DefaultConfigType ==
    DefaultConfig \in Config /\ CursorOrderOf(DefaultConfig)
BY U16Assumption, DefaultsAssumption
   DEF DefaultConfig, Config, Word, CursorOrderOf, IsBulk

\* Counting a sample of a batch that is not full yields a configuration: the
\* uint16_t counter does not wrap, and stays ahead of the upload cursor.
LEMMA IncSamplingOrder ==
    ASSUME NEW c \in Config, CursorOrderOf(c), IsBulk(c), NeedSampling(c)
    PROVE  /\ IncSampling(c) \in Config
           /\ CursorOrderOf(IncSampling(c))
           /\ IncSampling(c).sampled = c.sampled + 1
<1> DEFINE d == [c EXCEPT !.sampled = (@ + 1) % U16]
<1>1. c.sampled + 1 \in Word /\ (c.sampled + 1) % U16 = c.sampled + 1
  BY U16Assumption DEF Config, Word, NeedSampling
<1>2. d \in Config /\ d.sampled = c.sampled + 1 /\ d.uploaded = c.uploaded
      /\ d.bulk = c.bulk
  BY <1>1 DEF Config
<1>3. 0 \in Word
  BY U16Assumption DEF Word
<1> HIDE DEF d
<1>4. IncSampling(c) = d \/ IncSampling(c) = [d EXCEPT !.uploaded = 0]
  BY DEF IncSampling, d
<1>5. CASE IncSampling(c) = d
  BY <1>2, <1>5 DEF CursorOrderOf, IsBulk, Config, Word
<1>6. CASE IncSampling(c) = [d EXCEPT !.uploaded = 0]
  BY <1>2, <1>3, <1>6 DEF CursorOrderOf, IsBulk, Config, Word
<1> QED
  BY <1>4, <1>5, <1>6

\* Resetting the counters leaves the rest of a configuration.
LEMMA ResetType ==
    ASSUME NEW c \in Config
    PROVE  /\ ResetCounters(c) \in Config
           /\ ResetCounters(c).uploaded = 0
           /\ ResetCounters(c).sampled = 0
           /\ ResetCounters(c).bulk = c.bulk
<1> DEFINE d == [c EXCEPT !.uploaded = 0]
<1>1. 0 \in Word
  BY U16Assumption DEF Word
<1>2. d \in Config /\ d.uploaded = 0 /\ d.bulk = c.bulk
  BY <1>1 DEF Config
<1>3. ResetCounters(c) = [d EXCEPT !.sampled = 0]
  BY DEF ResetCounters
<1> HIDE DEF d
<1> QED
  BY <1>1, <1>2, <1>3 DEF Config

\* Counting an upload of a full batch does not wrap either and does not
\* overtake the sampling cursor; the last one resets both.
LEMMA IncUploadOrder ==
    ASSUME NEW c \in Config, CursorOrderOf(c), IsBulk(c),
           ~ NeedSampling(c), ~ UploadOver(c)
    PROVE  IncUpload(c) \in Config /\ CursorOrderOf(IncUpload(c))
<1> DEFINE d == [c EXCEPT !.uploaded = (@ + 1) % U16]
<1>1. c.uploaded + 1 \in Word /\ (c.uploaded + 1) % U16 = c.uploaded + 1
      /\ c.uploaded + 1 <= c.sampled
  BY U16Assumption DEF Config, Word, NeedSampling, UploadOver
<1>2. d \in Config /\ d.sampled = c.sampled /\ d.uploaded = c.uploaded + 1
      /\ d.bulk = c.bulk
  BY <1>1 DEF Config
<1>3. 0 \in Word
  BY U16Assumption DEF Word
<1> HIDE DEF d
<1>4. IncUpload(c) = d \/ IncUpload(c) = ResetCounters(d)
  BY DEF IncUpload, d
<1>5. CASE IncUpload(c) = d
  BY <1>1, <1>2, <1>5 DEF CursorOrderOf, IsBulk
<1>6. CASE IncUpload(c) = ResetCounters(d)
  BY <1>2, <1>6, ResetType DEF CursorOrderOf
<1> QED
  BY <1>4, <1>5, <1>6

\* Each counter is cut to 16 bits: counting keeps a configuration one in every
\* state, also where the cursors are not in order.
LEMMA CountingType ==
    ASSUME NEW c \in Config
    PROVE  /\ IncSampling(c) \in Config
           /\ IncUpload(c) \in Config
           /\ SetBlockSize(c, c.channel) \in Config
<1> DEFINE d == [c EXCEPT !.sampled = (@ + 1) % U16]
           e == [c EXCEPT !.uploaded = (@ + 1) % U16]
<1>1. /\ 0 \in Word
      /\ (c.sampled + 1) % U16 \in Word
      /\ (c.uploaded + 1) % U16 \in Word
  BY U16Assumption DEF Config, Word
<1>2. d \in Config /\ e \in Config
  BY <1>1 DEF Config
<1>3. IncSampling(c) = d \/ IncSampling(c) = [d EXCEPT !.uploaded = 0]
  BY DEF IncSampling
<1>4. IncUpload(c) = e \/ IncUpload(c) = ResetCounters(e)
  BY DEF IncUpload
<1> HIDE DEF d, e
<1>5. IncSampling(c) \in Config
  BY <1>1, <1>2, <1>3 DEF Config
<1>6. IncUpload(c) \in Config
  BY <1>2, <1>4, ResetType
<1>7. SetBlockSize(c, c.channel) \in Config
  BY DEF SetBlockSize, Config
<1> QED
  BY <1>5, <1>6, <1>7

\* Parsing a message yields a configuration whose counters are untouched.
LEMMA ParseType ==
    ASSUME NEW c \in Config, NEW m, IsMessage(m)
    PROVE  /\ Parse(c, m) \in Config
           /\ Parse(c, m).bulk = ParseBulk(c, m).bulk
           /\ Parse(c, m).uploaded = c.uploaded
           /\ Parse(c, m).sampled = c.sampled
<1> DEFINE P(d) == /\ d \in Config
                   /\ d.bulk = ParseBulk(c, m).bulk
                   /\ d.uploaded = c.uploaded
                   /\ d.sampled = c.sampled
<1>1. \A k \in DOMAIN m : m[k] \in Int /\ m[k] % U16 \in Word
  BY U16Assumption DEF Word, IsMessage
<1>2. P(ParseBulk(c, m))
  <2>1. CASE "bulk_upload" \in DOMAIN m
    <3> DEFINE d == [c EXCEPT !.bulk = m["bulk_upload"]]
               e == [d EXCEPT !.freq = BulkFrequency]
               f == [e EXCEPT !.cnt = BulkSamples]
    <3>1. d \in Config /\ d.bulk = m["bulk_upload"]
          /\ d.uploaded = c.uploaded /\ d.sampled = c.sampled
      BY <1>1, <2>1 DEF Config
    <3>2. ParseBulk(c, m) = f
      BY <2>1 DEF ParseBulk
    <3>3. BulkFrequency \in Word /\ BulkSamples \in Word
      BY DefaultsAssumption DEF Word
    <3> HIDE DEF d
    <3>4. e \in Config /\ e.bulk = d.bulk
          /\ e.uploaded = c.uploaded /\ e.sampled = c.sampled
      BY <3>1, <3>3 DEF Config
    <3> HIDE DEF e
    <3>5. f \in Config /\ f.bulk = e.bulk
          /\ f.uploaded = c.uploaded /\ f.sampled = c.sampled
      BY <3>4, <3>3 DEF Config
    <3> QED
      BY <3>2, <3>5
  <2>2. CASE "bulk_upload" \notin DOMAIN m
    BY <2>2 DEF ParseBulk
  <2> QED
    BY <2>1, <2>2
<1>3. ASSUME NEW d, P(d) PROVE P(ParseChannel(d, m))
  BY <1>1, <1>3 DEF ParseChannel, Config
<1>4. ASSUME NEW d, P(d) PROVE P(ParsePeriod(d, m))
  BY <1>1, <1>4 DEF ParsePeriod, Config
<1>5. ASSUME NEW d, P(d) PROVE P(ParseCount(d, m))
  BY <1>1, <1>5 DEF ParseCount, Config
<1>6. ASSUME NEW d, P(d) PROVE P(ParseFrequency(d, m))
  BY <1>1, <1>6 DEF ParseFrequency, Config
<1> HIDE DEF P
<1>7. P(Parse(c, m))
  BY <1>2, <1>3, <1>4, <1>5, <1>6 DEF Parse
<1> QED
  BY <1>7 DEF P

\* An update yields a configuration.
LEMMA UpdatedType ==
    ASSUME NEW c \in Config, NEW m, IsMessage(m)
    PROVE  Updated(c, m) \in Config
BY ParseType, ResetType DEF Updated

\* An update keeps the cursors in order: they are reset, or the mode stays.
LEMMA UpdatedOrder ==
    ASSUME NEW c \in Config, CursorOrderOf(c),
           NEW m, IsMessage(m)
    PROVE  Updated(c, m) \in Config /\ CursorOrderOf(Updated(c, m))
<1>1. CASE StartsNewBatch(c, m)
  BY <1>1, ParseType, ResetType DEF Updated, CursorOrderOf, Config, Word
<1>2. CASE ~ StartsNewBatch(c, m)
  <2>1. ParseBulk(c, m).bulk = c.bulk
    BY <1>2 DEF StartsNewBatch
  <2> QED
    BY <1>2, <2>1, ParseType DEF Updated, CursorOrderOf, IsBulk
<1> QED
  BY <1>1, <1>2
=============================================================================
