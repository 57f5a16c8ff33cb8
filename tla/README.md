# Verification of the Pebble firmware

This directory holds TLA+ models of the Pebble tracker application, the program
in `src/nrf/applications/asset_tracker/src`, with TLC configurations and TLAPS
proofs. Paths below are relative to that directory unless they start with
`src/`.

Run from here:

    tlc -config BulkAll.cfg MCBulkUpload     # one run of PROJECT.json
    tlapm BulkProofs.tla                     # the proofs of one component

## 1. The system

Pebble is an nRF9160 device that reads environment, motion, light, position and
battery, signs the readings and publishes them over MQTT. The rest of the
repository is the nRF Connect SDK, MCUboot, mbed TLS and vendor libraries, which
the application calls; they are not modelled, only what the application relies on
of them (marked external in the map).

Four contexts run the application:

| context | runs | priority |
|---|---|---|
| main thread | start-up, `poll` loop, `mqtt_evt_handler`, `updateLedPattern` | preemptible |
| system work queue | `send_env_data_work`, `cloud_reboot_work`, LED animation, the first half of the watchdog feed | preempts main |
| application work queue | the second half of the watchdog feed | preemptible |
| interrupts | charger pin, GPS UART | highest |

They share `__config` (under `iotex_config_mutex`), `connected`,
`send_data_enable` and `mqttSentCount` (without a lock), `patternIndex` and `leds`
(without a lock), and the flash.

### Inventory

**Device configuration** (`mqtt/config.c`). State: the record `__config` with mode,
data channel, period, batch size, sampling frequency, the two progress counters
`current_sampling_cnt` and `current_upload_cnt` and the size of a stored record; a
copy of it in flash. Operations: getters, `iotex_mqtt_parse_config`,
`iotex_mqtt_update_config`, the two counters, save (delete, then write) and load.
Hard: 16-bit conversions, items that are applied in order and compared with each
other, a save of two flash operations whose failure nobody sees. Correct when the
cursors stay in order in RAM and in flash and a restart loses at most one step.

**Bulk sampling and upload** (`main.c:815-872`, `mqtt/payload.c`). State: the
records in the NVS history of one id, newest first, and the cursors. Operations:
sample and store, read and publish, count, delete on a new batch. Hard: power
failure between any two flash operations, retries after failed pings, messages in
the middle of a batch. Correct when records go out in sampling order, none is
counted that was not sent, and every batch ends.

**MQTT session and telemetry work** (`main.c`, `mqtt/mqtt.c`). State: the client,
`connected`, `send_data_enable`, `mqttSentCount`, two delayed works and the counter
of one. Operations: connect, the event handler, keep-alive, the CONNACK watchdog
`cloud_reboot_work`, the telemetry work, offline detection, reboot. Hard: two
threads and two works, a work that must submit itself again on every path, a
configuration message that resubmits it from the other thread, a CONNACK that
races the watchdog. Correct when telemetry goes on, a device with a session is
not rebooted by the CONNACK watchdog, and a device without a session, or with a
silent broker, ends in a restart.

**Record format** (`mqtt/payload.c`). State: none but the record; packing and
unpacking walk the channel bits in two separate pieces of code. Correct when a
stored record decodes to the measurements that the same readings give in periodic mode, and
the decoder, which reads without lengths, ends where the packer did.

**Status LED** (`ui/led_pwm.c`, `hal/hal_gpio.c`). State: `patternIndex`, the effect
and the position of the animation, the animation work. Three contexts change it.
Hard: lost updates of a shared bit set, an animation that runs while its effect is
exchanged. Correct when the LED shows the pattern once it settles and the
animation leaves its effect only in the short window the code leaves open.

**Hardware watchdog** (`watchdog/watchdog.c`). State: the watchdog counter, a
delayed work, a work on another queue. Correct when a hang of either queue resets
the device and nothing else does.

**Modem clock** (`modem/modem_helper.c`). A pure computation on the date the modem
answers. Correct when every day gets its number.

**Local storage** (`nvs/local_storage.c`). Delete, save, load, history over Zephyr
NVS. Modelled inside BulkUpload, as that is its only caller with a protocol.

**GPS receiver** (`gps_controller/gps_controller.c`). State: the line that the UART
interrupt collects, the last `$GNRMC` line and its flag. Operations: the interrupt, and
`getGPS`, which parses the line in place on the work queue. Hard: the receiver waits
for nobody, so the line may be replaced between any two steps of the parser; lost
characters; buffers without a bound. Correct when the parser stays in the line, a
damaged sentence costs no later one, and no position is reported twice.

**Device keys** (`sign/ecdsa.c`). State: the AES key in a KMU slot, the record of the encrypted
private key and the public key in flash. Operation: the start, which makes both
or decrypts. Hard: power failing between slot and record, reads and writes whose results nobody
tests, each of which may fail on its own. Correct when the
device signs with the key it publishes and keeps its identity.

**Buttons and power key** (`src/nrf/lib/dk_buttons_and_leds`, `ui/ui.c`, `main.c:663-750`). State: the
library's mode (wait for the interrupt or scan), its last scan, and the delayed work that
switches off. Hard: the pin changes while interrupt and scan hand it over to each
other, and everything waits for a work queue that other works keep for seconds. Correct when
the library's assertions hold, a press of five seconds switches off, and nothing shorter does.

**Not modelled**: sensor drivers (I/O, they appear as calls that may fail), buzzer
and NMOS outputs, motion and orientation, the cloud codec and the environment
sensors of the SDK sample (not in the build of this board), `ota/http_update.c` (its
call is commented out, main.c:885), unit tests and vendor drivers.

`PROJECT.json` lists the hazards at their lines and the properties that cover them.

## 2. Plan

| order | module | models | status |
|---|---|---|---|
| 1 | `MqttConfig` | the record, the parser and the counters, no variables | done |
| 2 | `BulkUpload` | bulk mode over flash, extends MqttConfig | done |
| 3 | `MqttConfigProofs`, `BulkProofs` | types and cursors, what flash mirrors, what a restart resumes | done |
| 4 | `MqttSession`, `MqttSessionProofs` | session, works and threads, extends MqttConfig | done |
| 5 | `LedEffect`, `LedEffectProofs` | status LED | done |
| 6 | `Watchdog`, `WatchdogProofs` | watchdog feed | done |
| 7 | `PayloadCodec`, `PayloadProofs` | record format | done |
| 8 | `ModemClock`, `PayloadProofs` | date arithmetic | done |
| 9 | `BatchQueue`, `BulkDelivery` | the durable queue that bulk upload promises, and the refinement | done |
| 10 | `BulkProofs` | delivery properties and the refinement for every batch size | done |
| 11 | `GpsReader`, `GpsReaderProofs` | UART interrupt against the parser | done |
| 12 | `DeviceKeys`, `PayloadProofs` | key provisioning with power failures | done |
| 13 | `PowerButton`, `PowerButtonProofs` | button library and the work that switches off | done |
| 14 | `Tracker` | composition of session and bulk mode with a broker that keeps what was not acknowledged | open |

`MqttSession` and `BulkUpload` use the same operators of `MqttConfig`: the session
keeps the configuration and abstracts the flash, bulk mode keeps the flash and
abstracts the session into the fault `link`, the point where the code finds itself
offline and restarts. Their composition is item 14.

Every module takes its parameters as CONSTANTs with named assumptions, has one
action per operation or per step between which another context or a power failure
may come, and no RECURSIVE operator. A definition that carries a suffix, such as
`ReceiveKeepCounters` beside `Receive`, is a deliberately wrong variant with which
the properties are tried (`mutants` in PROJECT.json); no specification uses it.

## 3. The modules

### MqttConfig
`Config` is the struct `iotex_mqtt_config`. A message is a function from the keys
that arrive as JSON strings to the integers `atoi` makes of them: the parser
ignores every other item. `Parse` applies the items in the order of the code; 
`StartsNewBatch` is its return value 2, whose two comparisons see the items applied
so far; `Updated` adds the reset of the counters. uint16_t fields wrap modulo `U16`.
`IncUpload`, `IncSampling`, `HisBlock` are the functions of the same names.

### BulkUpload
Variables `cfg` and `nvsCfg` are `__config` and its copy in flash, `log` the history of
records in flash with the marker a deletion appends, `op` and `pc` the operation that
holds the mutex and where it stands, `buf` its data buffer. `batch`, `nvsBatch` and `sent` are
history variables: the records the counters stand for and those the broker got.

| actions | code |
|---|---|
| SampleStore, SampleNotStored, SampleCount | sampling_and_store_sensor_data and the store in payload.c |
| UploadRead, UploadPublish, UploadPingFails, UploadCount | iotex_mqtt_bulk_upload_sampling_data |
| Receive, WipeData | iotex_mqtt_update_config |
| SaveDelete, SaveWrite and their failures | save_mqtt_config |
| Reboot | a power failure at a point of `CrashAt`, or the restart of main.c:838; then iotex_mqtt_load_config |

A step ends before each flash operation and before the publication, as those are
the points a power failure can separate.

### BatchQueue and BulkDelivery
`BatchQueue` is what the server may rely on, without the device: a queue of the records of
one batch, a cursor, and the set of records that arrived. `BulkDelivery` extends
`BulkUpload` and maps it there: the queue is the batch flash stands for, the cursor is the
one a restart would load (`Load`), and a save counts as done once it has deleted the old record. A power
failure has no counterpart in the queue: it is a stutter, which is the point.
`DeliveryConditions` names the conditions: power fails in `BetweenSteps` only, publications do not fail
silently, the history is as long as a batch, no message installs a batch larger
than `BulkSamples`.

### GpsReader
`kind`, `id`, `at` are the receiver, which sends one sentence after the other; `uart_buf1`,
`print_buf1`, `printit` are the variables of the code. `Receive` is the interrupt for one
character; `Scan` and the `Read` actions are the searches and the fields of `getRMC`, one step each, as the
interrupt may come between any two. A character is one token, and so is a
number. A line replaced under the parser by one with its commas elsewhere leaves the
parser at a place that depends on widths: `Torn` allows every outcome. Where strchr
finds nothing the code goes on at address 1: `Wild` is a read of whatever is there, or a
fault, which the watchdog turns into a restart.

### DeviceKeys
`flash` is the record of SID_ECC_KEY, `kmu` the slot, `pc` the step of `startup_check_ecc_key`; `pair`, `aes`
and `priv` are in RAM. The record is read twice in a start, and each read fails on its own or because the
storage is not mounted, unnoticed by the code: `Start` chooses whether the check sees the record (`blind`: if it does not,
keys are generated), `Decrypt` whether `get_ecc_key` sees it (`unread`: if it does not, the bytes of the stack are decrypted).
The save may work in a start whose check was blind. Every other call has its failure. `PowerFails` is possible at
every step. `spoiled` is a history variable: a blind start has replaced the AES key, and no record was saved since.

### PowerButton
`state`, `last`, `initial` are variables of the button library, `irq` the interrupt of the pin.
`Interrupt` is `button_pressed`; `ScanRead` and `ScanEnd` are `buttons_scan_fn`, split where
the pin may have changed since it was read, the second with `button_handler` and `ui_evt_handler`.
`queue` and `running` are the system work queue. `Tick` is ten milliseconds; it passes while
another work runs, so that scans and the work that switches off pile up behind it.

### MqttSession
`main` and `wq` are the program counters of the main thread and the system work
queue, `env` and `countdown` say that the two delayed works are pending, `cnt` is the
static counter of `cloud_reboot_work`, `net` the transport as far as the client can see it,
`pongs` the PINGRESPs in flight, `ran` a history variable. The event handler is one action
per case, split where it writes two flags, since the work queue may run in between.
`Restart` is `sys_reboot`, called by both threads. Time is abstracted: a pending work may run
at any moment, which contains every delay the configuration can set.

### LedEffect
`pattern` is `patternIndex` as a set of masks; a read-modify-write of it is a load into `reg` or
`wreg` and a store. `effect`, `step`, `substep` and `work` are the struct `leds`; `job` says which caller
the main thread is in. `Animate` is `work_handler` while the position is in the effect. Beyond the last substep
of a step (`Overrun`) the division is by zero or by a negative count and `effect_substep`, a uint16_t,
counts on until it wraps. Beyond the last step (`RunOff`) the count it is compared with is foreign memory, so that the
step may go on by one or not, and the work is not submitted again. `Trap` is the outcome of a division by zero that resets
the device.

### Watchdog
Time is discrete and passes (`Tick`) only when no queue has work to run. The feed is at
one place of its relay: the timer, the system work queue, or the application work
queue. `sys` is what the system work queue executes; `beep` is the time for which the main
thread sleeps with the mutex locked. `MarginAssumption` states what the code relies
on and checks nowhere: period, longest beep and longest run of the telemetry work
together stay below the timeout.

### PayloadCodec
A byte is a pair of the field it was packed for and its index, so a document shows
which bytes each item was made from; the two bytes of the voltage, the one reading that is converted, have values.
`reading` is what the sensors gave for the stored sample: a position or none, the voltage, and the voltage as cut to a uint16_t
(`Cut`: the float of volts times 1000 may fall just short of the whole number, which costs a millivolt for 91 of
the 10000 voltages, 251 mV the lowest). `Packed` is the packer, `Document` the unpacker with its
own gates and cursor, `PeriodicDocument` the document of the other mode for the same readings, with the public key
while `trans_key` counts down. `Orders` is the order
in which the compiler reads the two bytes of the battery voltage, which the language
leaves open (payload.c:520). `MeasurementsArrive` compares two documents item by item. It does not compare the time stamp, which the
unpacker copies out of the record and then drops, nor the public key, which the first two documents of periodic mode after a start carry and
no document of bulk mode does (payload.c:454-464); neither does it look at the random item, the signature or
the way a number is printed.

### ModemClock
The model steps through every day the modem can answer and compares
`EpochDay`, the formula of the code, with a count. `Accumulated` is the table of month lengths after the
loop that adds each entry to the next (modem_helper.c:81-84).

`PayloadProofs` holds the theorems of the three modules a payload is made of: DeviceKeys signs it, PayloadCodec gives its
measurements, ModemClock its time. To be extended together, the last two name their state and
specification after themselves (`ClockSpec`, `CodecSpec`, `CodecTypeOK`); they share no variable.

## 4. The runs

| run | states | what it shows |
|---|---|---|
| BulkAll | 179,458 | types and cursor order with power failing at every step, every fault, and messages whose numbers overflow (65536, -1) |
| BulkResume | 288,812 | flash mirrors RAM between operations; a restart loses at most the interrupted step; batches end while power, session and telemetry go on |
| BulkDelivery | 2,634 | records leave in sampling order, counted records were sent, complete batches were sent completely; BulkUpload implements BatchQueue |
| SessionAll | 33,738 | telemetry survives every fault and message; no restart in a session; liveness of connection and of silence detection |
| LedAll | 48,768 | the three safety properties of the LED and its two liveness properties, with a position that runs away until it wraps |
| WatchdogAll | 1,758 | no reset of a healthy device, reset of a hung one |
| CodecRoundTrip | 294,912 | all 4096 channels, with and without position, two voltages and a millivolt lost or not |
| ClockAll | 36,525 | every day of 2000 to 2099 |
| GpsAll | 468,357 | the parser stays in the line, sentences survive damage, no position twice, positions for ever |
| KeysAll | 4,357 | key pair and identity through every failure of a start |
| ButtonAll | 332 | the library's assertions; switching off on a long press, and only then |
| SessionLate | violation | section 7, item 1 |

### Bounds
* BulkAll: a batch of one record installed by a `bulk_upload` item, which a count item raises to
  2 or to 0 modulo 65536. The cursor order can break only where a count meets a size,
  and both are reached. Five records and symmetry; a record is used again only when
  nothing refers to it. `Retained = 1` makes garbage collection happen at once.
* BulkResume and BulkDelivery: batches of 1, 2 and, in BulkDelivery, 3 records: 3 is the smallest
  in which a record has two neighbours. `Retained` is as large as the batch, the case the
  code is written for. Every message may arrive again and again. BulkResume has every fault but the failing
  halves of a save (`ResumeFaults`): FlashMirrorsRam and BreakpointKept do not hold after one. BatchEnds is
  therefore not checked after a failed save either.
* GpsAll: five positions (`Ids`), so that one is sent again only when no buffer and no call has it any more,
  which the proof of UsedOnce asks for too (`EnoughIds`);
  a call of `getGPS` meets at most one character (`Burst`), as it takes less than the millisecond
  a character needs at 9600 baud; that character may be the one that completes a line,
  so the replacement under the parser happens. `MaxLost = 1`: a lost line end doubles a line, and two doubled lines
  in a row really overflow the 128 bytes; `BufSize = 25` is to the longest of the model's
  lines, 16 tokens, as 128 is to 82.
* KeysAll: three pairs and three AES keys: one in flash, one in the slot or in use, one to
  generate. Either read fails in any start, any number of times.
* ButtonAll: five ticks to switch off instead of 500; the proofs are for any number.
* `CrashAt` names where power may fail. BulkAll uses every point. BulkResume leaves out the
  point inside a save, BulkDelivery the points between a flash operation and the save
  that belongs to it, and failing publications: there the stated property does not
  hold (section 7).
* SessionAll: `MaxSent = 3` as in the code; `ConnectWait = 3` instead of 30, the counter must be
  able to advance, to be kept across a lost session and to expire; at most 2
  PINGRESPs in flight, a reset of the counter needs one and its race with the
  next publication two; a batch of one record or of
  none.
* LedAll: three substeps of a breathing step instead of 15, enough for a position inside a step, at
  its end and beyond the two steps of a blinking effect; a substep counter that wraps at
  6 instead of 65536 (`U16`), so that it can run past every count of the effects and come round.
* CodecRoundTrip: every channel there is; 3584 mV, whose lost millivolt changes both of its bytes, and 3700 mV, where it changes one. That the modem answers
  four digits is taken from modem_helper.c:163; a failed command, after which an unwritten answer is parsed, is left out.
* WatchdogAll: timeout and period in seconds as configured; the longest work and beep
  are 2, so that their sum is the largest the margin admits.

### Fairness
* BulkUpload: the holder of the mutex goes on (weak), and nothing else. BatchEnds has its premises in
  the property. Restarts come to an end (`StaysUp`). The telemetry work runs again and again (`TelemetryRuns`): a run that got past main.c:341 in
  bulk mode submits the next one (main.c:354), and the system work queue has priority over the thread that takes the mutex for messages; but a
  run that finds sending disabled returns without submitting itself, and then no batch ends until a message or a restart
  submits it again. Which devices that happens to is MqttSession's matter: ChainAlive says that it does not happen to telemetry that ran once while
  sending stays enabled, SessionLate where it does. Stores and pings that are tried again and again work at some time (`RetriesWork`).
* MqttSession: strong fairness of the main thread's steps and of the start of pending works, as queued works
  run in order and the mutex is released; weak fairness of the body of a
  work. Nothing is assumed of the broker, so CONNACK and
  PINGRESP may never come. SilenceDetected has the antecedent that sensors, flash and
  heap do not fail for ever and the batch has something to upload: a device in bulk mode with an empty
  or an exceeded batch (section 7, item 1) publishes nothing and so never counts the
  missing answers.
* LedEffect: strong fairness of the main thread, which the short handlers of the work
  queue interrupt but do not starve, and weak fairness of the second half of the work
  queue's update. The animation needs none. The liveness properties
  speak of devices that do not trap for ever.
* GpsReader: the receiver sends for ever, the environment work submits itself again and again
  and getGPS waits for nothing (weak each). `ClearSky` is a premise: no lost characters and no
  sentences without a position after some time.
* PowerButton: an enabled interrupt is taken and the work queue goes on (weak); each waiting work has its
  turn, as the queue is first come first served (strong), and time passes (strong). HeldPowersOff
  therefore holds with a work queue that is never empty.
* Watchdog: runnable work runs, time passes, the hardware resets.

## 5. The proofs

For every value of the constants that satisfies the named assumptions:

* `BulkProofs!TypeCorrect`, `CursorsInOrder`. Cursor order is not inductive:
  the counting steps rely on what was tested when the operation began. `CursorInv` adds
  `StepContext`, that a sample in progress means a batch that is not full and an upload in
  progress one that is full and not over; the mutex keeps it true, as messages wait
  until `pc = "idle"`. The lemmas of `MqttConfigProofs` (IncSamplingOrder, IncUploadOrder,
  ParseType, UpdatedOrder) carry the arithmetic modulo `U16`; one lemma per group of operations
  carries the step. Assumptions: U16Assumption, DefaultsAssumption,
  BulkAssumption, DistinctAssumption. Batch sizes, message sets, faults and crash points are arbitrary.
* `BulkProofs!FlashIsCurrent`, `RestartResumes`. `ResumeInv` adds to CursorInv which step belongs to which operation
  (`Steps`) and, for every step, how far the counters in RAM are ahead of those a restart loads
  (`RestartRedoes`): not at all, or by the one step in progress. Hypothesis `SavesComplete`: no save fails
  halfway and power does not fail inside one, as section 7 says what happens then. FlashIsCurrent leaves out the block size:
  a sample that could not be stored has changed it in RAM (payload.c:279), and nothing saves it.
* `MqttSessionProofs!TypeCorrect`, `TelemetryGoesOn`, `SessionNotRebooted`. ChainAlive is not inductive: the flag
  `send_data_enable` might turn on after the work has died. `NotSending` says that until the flag turns on no
  run of the work gets past its first test, so at that moment there is nothing to keep alive;
  this is also where SessionLate enters, as ChainAlive speaks only of telemetry that ran once. `WatchdogOff` says that from the
  CONNACK handler on the countdown is cancelled, and armed only before a session. `RoomToSend` keeps the
  test of `ismqttOffline` valid until the publication. Assumptions: SessionAssumption, U16Assumption,
  DefaultsAssumption.
* `LedEffectProofs!TypeCorrect`, `LteNotLost`, `DerailmentConfined`. `IInv` adds `LteCopies`, that every
  copy of the pattern that may still be written back has the LTE bit once
  the device is connected, and `Cancelled`, that the animation is cancelled while its
  position is reset, and that one which is pending has not run off its steps: that is what bounds the step, as
  running off ends the animation. Inside a step nothing bounds the position but its type. Assumption: LedAssumption, any number of substeps below the width of the counter.
* `WatchdogProofs!TypeCorrect`, `HealthyNotReset`. `IInv` says that the feed is at
  one place of its relay (`OneFeed`), that it does not wait behind other work when
  the queue is free (`FeedFirst`), and bounds how late it is in each place (`Lateness`). The bound is
  `Period + MaxBeep + MaxWork`, which MarginAssumption keeps below the timeout.
* `BulkProofs!ReadsInOrder`, `CountedWereSent`, `BatchesComplete`, `QueueImplemented`. `DeliveryInv` relates three views of a batch:
  the history in flash is the batch newest first, the cursors count it, and what they count has been sent, in RAM
  and in what a restart would load. A lemma per group of operations; the arithmetic
  of `HisBlock` is the lemma that position and cursor meet at the same record. `QueueImplemented` has a step of `BatchQueue` or a stutter
  for every action. Hypothesis: `DeliveryConditions`, beside the assumptions of BulkUpload.
* `PayloadProofs!TypeCorrect`, `KeysMatch`, `IdentityNotReplaced`. That slot and record belong together is broken
  in the middle of every start that makes keys. `InStart` says that a start which can read the record replaces it only
  while its CRC is zero, `LastingReadable` that a record with a CRC can be decrypted unless a blind start spoiled it. The
  three exceptions of KeyPairMatches and the one of IdentityKept are needed: each names a failure the code ignores and after
  which the claim is false. Assumption: KeysAssumption.
* `PayloadProofs!DaysCounted`. `ClockInv` adds to EpochCountsDays that the date is one of the calendar, which the step from the last day of a
  month needs. `AccumulatedTable` is the one table that solves the loop; from it follow that a month adds its
  length (`MonthByMonth`), that the formula for whole years agrees with the leap years (`YearByYear`), and one lemma per action.
  Assumption: CenturyAssumption, any set of years in 2000 to 2099 with the first; the modem answers
  two digits, so there are no others.
* `PayloadProofs!CodecTypeCorrect`, `StampFound`, `RoundTrip`. `CodecInv` says that the record is what was packed and
  the document what the decoder makes of it; the rest is about the two functions. `PackedGrows` unrolls
  the record field by field, `FieldLies` and `GrowsOnly` say where a field is and that it stays there, and
  `CursorFollows`, the heart of it, that the decoder comes to each field at the byte the packer had come to. A record is at most
  63 bytes, of a buffer of 128. `Shift` is by how much the two are apart: four bytes behind the light if light or humidity is selected alone, else none.
  CodecTypeCorrect and StampFound hold for every set of channels and both byte orders; StampFound is an equivalence, so
  it also says for which channels the decoder goes astray. RoundTrip has the hypothesis that the low byte of the voltage is read
  first, as without it the property is false (section 7); the number that arrives is the one that was cut,
  at most a millivolt below what the modem said. Assumption: CodecAssumption.
  Induction over fields is done over a set of numbers without a least counterexample (`AllUpTo`).
* `PowerButtonProofs!TypeCorrect`, `AssertionsHold`, `OffWasHeld`. `Scanner` restates OneScanner place by place;
  `Pressed` says that the work is in the timer or in the queue, and that timer and reported press
  add up to `Hold`. Assumption: ButtonAssumption.
* `GpsReaderProofs!TypeCorrect`, `ResyncHolds`. `LineInv` adds to the types that `printit` stays set while a call parses
  (`CallContext`) and that a sentence nothing of which was lost is in `uart_buf1` as far as it was sent, whatever the buffer
  held before, since the dollar empties it (`WholeSoFar`). Assumption: GpsAssumption; any number of lost characters.
* `GpsReaderProofs!NoneUsedTwice`. `NumberInv` says where a number can be: not in a line and among those returned
  (`Unused`), not in the line in the making and the one being parsed (`Apart`), and, for the one being sent, in
  neither (`NewNumber`). As the model numbers positions modulo `Ids`, `Recent` bounds how old a number in a buffer can be, and
  the hypothesis `EnoughIds` keeps that below `Ids`; it concerns the model's numbering, not the code.
* `GpsReaderProofs!StaysInBounds`. `ShapeInv` says how long the line in the making is and that one that begins with a dollar misses
  at most one token; `CommaInv` that the commas the parser still counts on are ahead of it, by a
  witness of their places (`Ladder`). Hypothesis `Narrow`: at most one character lost, a
  buffer longer than a sentence. With two lost the property is false, so the bound is part of the statement.

Only model-checked:

* The liveness properties, as the prover has no support for ENABLED and fairness: BatchEnds,
  ConnectedOrReboot, SilenceDetected, ChargerShown, EffectFollows, HangResets, PositionAgain, HeldPowersOff, ReleaseSettles.

Every other invariant and action property of a passing run is a theorem.

## 6. What is left out, and why

* The two numbers of a period are not compared: time is abstracted in MqttSession.
* Subscription, topics, heartbeat, signature and the random item of a document: no
  property depends on them.
* Allocation failures in the JSON functions appear as the faults `json` and `payload`.
* The broker keeps no unacknowledged message across a restart.
* An overfull store: `Retained` smaller than a batch is only run for types and cursors.
* ModemClock starts from an answer; a failed AT command is not modelled.
* GpsReader: hemisphere, speed and course, and the arithmetic of degrees. The
  letter of the hemisphere is read from an unwritten field if it is none of those
  expected (gps_controller.c:116). Two lost characters, which can overflow `uart_buf1`. The length of a field: `getRMC` copies
  one into 20 bytes up to the next comma (gps_controller.c:111, 130), which two lost commas, or a line replaced while strchr
  looks for it, put further away.
* DeviceKeys: a record that flash itself has corrupted; the third read of the record, for its publication (ecdsa.c:75), which
  sends what was on the stack if it fails.
* PayloadCodec: a modem that does not answer; the time stamp and the public key, which the two documents do not share.
* BulkUpload: no property says what is lost when more samples are taken than the flash keeps (config.h:31), or when power
  fails between the halves of a save (config.c:24-28); Watchdog: none says what the longest beep is (led_pwm.c:313).
* PowerButton: a press between `ui_init` and `work_init` (main.c:926-940) starts a work that is initialised only
  afterwards; the long press, which does nothing where the GPS is external.
* The rest of the repository, more than 99 % of its lines, is the SDK, vendor code
  and tests that the application is built with. The models cover the application's own state machines; they
  reach into the SDK only where the application depends on the order of steps there (the button library).

## 7. Where the code departs from its comments

One disagreement is a run of its own:

1. **SessionLate**. `send_env_data_work_fn` returns without submitting itself when sending is not enabled
   (main.c:341). When CONNACK comes after its first run, 10 s after start-up, no telemetry is sent in that
   session until a configuration message restarts the work.

Others were met while modelling and are reflected in the bounds of section 4 or in a
definition, without a run:

* A `bulk_upload` item sets the batch size to 10 (config.c:174) and resets the counters only if the
  flag changed. A batch that was larger and is sampled and uploaded beyond 10 is then neither to be sampled nor
  to be uploaded, and the device stays so: BulkResume and BulkDelivery have no batch larger than `BulkSamples`.
* A record is stored (payload.c:282) and then counted and saved. After a power failure in
  between it is sampled again, and the positions counted from the newest record are off by one:
  the oldest record of the batch is not uploaded. BulkDelivery leaves this point out.
* The unpacker reads the light under the humidity bit (payload.c:607), the packer stores it under
  the light bit (payload.c:249). For a channel with one of them alone everything behind the light, the time stamp included, is read
  from the wrong place: StampAligned says that it is these channels and no others, and MeasurementsArrive compares there only what
  precedes the light.
* The public key is in the first documents of periodic mode and in none of bulk mode (payload.c:454): a device that
  starts in bulk mode does not publish it.
* Power failing between delete and write of a save (config.c:24-28) restarts with the
  defaults: BulkResume leaves this point out.
* The samples are deleted before the reset counters are saved (config.c:234-238), and a failed
  publication counts as an upload (main.c:829-841): BulkDelivery leaves both out.
* A record is decoded with the channel of the present configuration (main.c:828), not the one it was
  packed with.
* A message that repeats the configuration in force may delete the samples: its count
  is compared with the 10 that its own `bulk_upload` item installed (config.c:174, 193).
* A period of zero means off in config.h:24 and 30 seconds in config.c:40.
* Items that are JSON numbers are ignored (config.c:170), although config.h:6-15 and mqtt_unittest.c:63-80
  use numbers.
* The animation may run between the assignment of its effect and the reset of its position (led_pwm.c:256):
  ConfinedDerailment says that this window is the only one.
* The bytes of the battery voltage are read in an unspecified order (payload.c:520): CodecRoundTrip fixes it.
* The time stamp of a stored record does not reach the document, which carries a buffer nobody wrote
  (payload.c:659): `Document` has it so.
* A sentence that replaces another while it is parsed may give a position of both: the latitude of one and the
  longitude of the next (gps_controller.c:65, 114, 131). `Torn` has it.
* The storage's start-up (main.c:903), the loads and the save of the key (ecdsa.c:49, 109, 143) are not tested, and
  local_storage.c:72 reports a failed read as success. A start that cannot read the record to check it generates keys: if the save works,
  they replace a good record and the device has another identity (IdentityKept excepts it); if not, the AES key of
  the record is gone, and every later start decrypts it with the wrong one (KeyPairMatches excepts it). A start that cannot read
  it the second time signs with a key made of what was on the stack. A record whose CRC is 0 by chance is replaced at every start.
* main.c:902 says that gpio must be first, to hold the power on; the storage and the keys come before it (main.c:903-911).
* A button held since the start is not reported (dk_buttons_and_leds.c:142-156). A release and a press that both
  fall into the time of a long work are not seen either, so that the five seconds may have a gap.
