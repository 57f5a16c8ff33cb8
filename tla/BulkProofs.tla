----------------------------- MODULE BulkProofs -----------------------------
(***************************************************************************)
(* What holds of BulkUpload: for every set of messages and faults and      *)
(* every placement of power failures; where every save that has begun is   *)
(* completed; and, under DeliveryConditions, that it implements            *)
(* BatchQueue.                                                             *)
(***************************************************************************)
EXTENDS BulkDelivery, MqttConfigProofs, SequenceTheorems, TLAPS

USE DEF Ops, Pcs

(* What the operation in progress knows since it took the mutex: a sample is
   stored only while the batch is not full, a record is read only when it is
   and has not been uploaded.  Without it the counting steps could overtake. *)
StepContext ==
    /\ pc = "stored" => IsBulk(cfg) /\ NeedSampling(cfg)
    /\ pc \in {"read", "sent"} =>
          IsBulk(cfg) /\ ~ NeedSampling(cfg) /\ ~ UploadOver(cfg)
    /\ pc = "stored" => buf \in Samples

CursorInv == TypeOK /\ CursorOrder /\ StepContext

-----------------------------------------------------------------------------
(* Lemmas about the history of records *)

\* Garbage collection and deletion keep the history a history.
LEMMA CollectType ==
    ASSUME NEW l \in Seq(Samples \cup {Deleted})
    PROVE  Collect(l) \in Seq(Samples \cup {Deleted})
<1>1. CASE Len(l) > Retained
  <2>1. Len(l) - Retained + 1 \in 1 .. Len(l) + 1
    BY <1>1, BulkAssumption, LenProperties
  <2> QED
    BY <1>1, <2>1, SubSeqProperties, LenProperties, BulkAssumption DEF Collect
<1> QED
  BY <1>1, BulkAssumption, LenProperties DEF Collect

LEMMA MarkDeletedType ==
    ASSUME NEW l \in Seq(Samples \cup {Deleted})
    PROVE  MarkDeleted(l) \in Seq(Samples \cup {Deleted})
BY CollectType, AppendProperties DEF MarkDeleted

\* A read returns a stored record or leaves the buffer alone.
LEMMA HistoryType ==
    ASSUME NEW l \in Seq(Samples \cup {Deleted}), NEW k \in Nat
    PROVE  History(l, k) \in Samples \cup {Nothing}
BY ElementOfSeq, LenProperties DEF History

-----------------------------------------------------------------------------
(* The invariant *)

\* The initial state: default configuration, empty flash, mutex free.
LEMMA InitInv == Init => CursorInv
<1> SUFFICES ASSUME Init PROVE CursorInv
  OBVIOUS
<1>1. TypeOK
  BY DefaultConfigType, EmptySeq DEF Init, TypeOK
<1>2. CursorOrder /\ StepContext
  BY DefaultConfigType DEF Init, CursorOrder, StepContext
<1> QED
  BY <1>1, <1>2 DEF CursorInv

\* Storing and counting a sample.
LEMMA SampleInv ==
    CursorInv /\ (SampleStore \/ SampleNotStored \/ SampleCount) => CursorInv'
<1> SUFFICES ASSUME CursorInv,
                    SampleStore \/ SampleNotStored \/ SampleCount
             PROVE  CursorInv'
  OBVIOUS
<1> USE DEF CursorInv, TypeOK, CursorOrder, StepContext, Goto, Release, flash
<1>1. /\ SetBlockSize(cfg, cfg.channel) \in Config
      /\ CursorOrderOf(SetBlockSize(cfg, cfg.channel))
      /\ IsBulk(cfg) => IsBulk(SetBlockSize(cfg, cfg.channel))
      /\ NeedSampling(cfg) => NeedSampling(SetBlockSize(cfg, cfg.channel))
  BY DEF SetBlockSize, Config, CursorOrderOf, IsBulk, NeedSampling
<1>2. CASE SampleStore
  <2>1. PICK r \in Samples : log' = Collect(Append(log, r)) /\ buf' = r
    BY <1>2 DEF SampleStore, Fresh
  <2>2. buf' \in Samples
    BY <2>1
  <2>3. log' \in Seq(Samples \cup {Deleted})
    BY <2>1, <2>2, AppendProperties, CollectType
  <2>4. UNCHANGED <<nvsCfg, batch, nvsBatch>> /\ sent' \subseteq sent
    BY <1>2 DEF SampleStore
  <2>5. /\ cfg' = SetBlockSize(cfg, cfg.channel)
        /\ op' = "sample" /\ pc' = "stored"
        /\ IsBulk(cfg) /\ NeedSampling(cfg)
    BY <1>2 DEF SampleStore
  <2>6. TypeOK'
    BY <1>1, <2>2, <2>3, <2>4, <2>5
  <2>7. CursorOrder'
    BY <1>1, <2>4, <2>5
  <2>8. StepContext'
    BY <1>1, <2>2, <2>5
  <2> QED
    BY <2>6, <2>7, <2>8
<1>3. CASE SampleNotStored
  BY <1>1, <1>3 DEF SampleNotStored
<1>4. CASE SampleCount
  <2>1. cfg' \in Config /\ CursorOrderOf(cfg')
    BY <1>4, IncSamplingOrder DEF SampleCount
  <2>2. batch' \in Seq(Samples)
    BY <1>4, AppendProperties DEF SampleCount
  <2> QED
    BY <1>4, <2>1, <2>2 DEF SampleCount
<1> QED
  BY <1>2, <1>3, <1>4

\* Reading, publishing and counting a record.
LEMMA UploadInv ==
    CursorInv /\ (UploadRead \/ UploadPublish \/ UploadPingFails \/ UploadCount)
        => CursorInv'
<1> SUFFICES ASSUME CursorInv, UploadRead \/ UploadPublish
                               \/ UploadPingFails \/ UploadCount
             PROVE  CursorInv'
  OBVIOUS
<1> USE DEF CursorInv, TypeOK, CursorOrder, StepContext, Goto, Release, flash
<1>1. CASE UploadRead
  <2>1. HisBlock(cfg) \in Nat
    BY DEF HisBlock, Config, Word
  <2>2. buf' \in Samples \cup {Nothing}
    BY <1>1, <2>1, HistoryType DEF UploadRead
  <2> QED
    BY <1>1, <2>2 DEF UploadRead
<1>2. CASE UploadPublish
  BY <1>2 DEF UploadPublish
<1>3. CASE UploadPingFails
  BY <1>3 DEF UploadPingFails
<1>4. CASE UploadCount
  <2>1. cfg' \in Config /\ CursorOrderOf(cfg')
    BY <1>4, IncUploadOrder DEF UploadCount
  <2>2. batch' \in Seq(Samples)
    BY <1>4, EmptySeq DEF UploadCount
  <2> QED
    BY <1>4, <2>1, <2>2 DEF UploadCount
<1> QED
  BY <1>1, <1>2, <1>3, <1>4

\* Applying a message.
LEMMA ReceiveInv ==
    ASSUME NEW m \in Messages, CursorInv, Receive(m)
    PROVE  CursorInv'
<1> USE DEF CursorInv, TypeOK, CursorOrder, StepContext, Goto, flash
<1>1. cfg' \in Config /\ CursorOrderOf(cfg')
  BY UpdatedOrder, BulkAssumption DEF Receive
<1>2. batch' \in Seq(Samples)
  BY EmptySeq DEF Receive
<1>3. op' = "update" /\ pc' \in {"wipe", "save"}
  BY DEF Receive
<1>4. UNCHANGED <<nvsCfg, nvsBatch, log, buf, sent>>
  BY DEF Receive
<1> QED
  BY <1>1, <1>2, <1>3, <1>4

\* The flash operations of an update and of a save.
LEMMA SaveInv ==
    CursorInv /\ (WipeData \/ SaveDelete \/ SaveDeleteFails
                  \/ SaveWrite \/ SaveWriteFails) => CursorInv'
<1> SUFFICES ASSUME CursorInv, WipeData \/ SaveDelete \/ SaveDeleteFails
                               \/ SaveWrite \/ SaveWriteFails
             PROVE  CursorInv'
  OBVIOUS
<1> USE DEF CursorInv, TypeOK, CursorOrder, StepContext, Goto, Release, flash
<1>1. CASE WipeData
  <2>1. log' \in Seq(Samples \cup {Deleted})
    BY <1>1, MarkDeletedType DEF WipeData
  <2> QED
    BY <1>1, <2>1 DEF WipeData
<1>2. CASE SaveDelete
  BY <1>2, EmptySeq DEF SaveDelete
<1>3. CASE SaveDeleteFails
  BY <1>3 DEF SaveDeleteFails
<1>4. CASE SaveWrite
  BY <1>4 DEF SaveWrite
<1>5. CASE SaveWriteFails
  BY <1>5 DEF SaveWriteFails
<1> QED
  BY <1>1, <1>2, <1>3, <1>4, <1>5

\* A restart, wherever it strikes.
LEMMA RebootInv == CursorInv /\ Reboot => CursorInv'
<1> SUFFICES ASSUME CursorInv, Reboot PROVE CursorInv'
  OBVIOUS
<1>1. cfg' \in Config /\ CursorOrderOf(cfg')
  BY DefaultConfigType DEF CursorInv, TypeOK, CursorOrder, Reboot, Load
<1> QED
  BY <1>1 DEF CursorInv, TypeOK, CursorOrder, StepContext, Reboot, Release,
              Goto, flash

\* Every step preserves the invariant.
LEMMA NextInv == CursorInv /\ [Next]_vars => CursorInv'
<1>1. CursorInv /\ UNCHANGED vars => CursorInv'
  BY DEF vars, CursorInv, TypeOK, CursorOrder, StepContext
<1> QED
  BY <1>1, SampleInv, UploadInv, ReceiveInv, SaveInv, RebootInv
     DEF Next, EnvWork, Continue

\* Every reachable state has the declared types.  In particular the uint16_t
\* counters never wrap and the parser's conversions keep every field in range.
THEOREM TypeCorrect == Spec => []TypeOK
BY InitInv, NextInv, PTL DEF Spec, CursorInv

\* The upload cursor never overtakes the sampling cursor, in RAM or in flash,
\* and outside bulk mode no batch is open: for every message the server can
\* send, every failing flash operation and a power failure at every step.
THEOREM CursorsInOrder == Spec => []CursorOrder
BY InitInv, NextInv, PTL DEF Spec, CursorInv

-----------------------------------------------------------------------------
(* Breakpoint resampling and retransmission: what a restart restores *)

(* A save that has begun is completed: its two flash operations work, and
   power does not fail between them.  Everything else may fail, anywhere. *)
SavesComplete ==
    /\ Faults \cap {"delete", "write"} = {}
    /\ \A o \in Ops : <<o, "write">> \notin CrashAt

\* Which steps belong to which operation.
Steps ==
    /\ pc = "idle" <=> op = "none"
    /\ pc = "stored" => op = "sample"
    /\ pc \in {"read", "sent"} => op = "upload"
    /\ pc = "wipe" => op = "update"

(* Until the save, RAM is one step of the operation ahead of what a restart
   would load.  A sample that could not be stored has changed the block size
   all the same, which no save follows: the rest is mirrored. *)
RestartRedoes ==
    /\ pc \in {"idle", "stored", "read", "sent"} =>
          Progress(cfg) = Progress(Load) /\ nvsBatch = batch
    /\ pc \in {"idle", "stored", "read", "sent"} => ButBlock(cfg) = ButBlock(Load)
    /\ pc = "save" /\ op = "sample" => Progress(cfg) = Progress(IncSampling(Load))
    /\ pc = "save" /\ op = "upload" => Progress(cfg) = Progress(IncUpload(Load))

ResumeInv == SavesComplete /\ CursorInv /\ Steps /\ RestartRedoes

\* What flash holds changes only with the saves.
LEMMA LoadUnchanged == nvsCfg' = nvsCfg => Load' = Load
BY DEF Load

\* A restart loads a configuration.
LEMMA LoadType == TypeOK => Load \in Config
BY DefaultConfigType DEF TypeOK, Load

\* Counting does not look at what the progress leaves out.
LEMMA CountProgress ==
    ASSUME NEW c \in Config, NEW d \in Config, Progress(c) = Progress(d)
    PROVE  /\ Progress(IncSampling(c)) = Progress(IncSampling(d))
           /\ Progress(IncUpload(c)) = Progress(IncUpload(d))
<1> DEFINE S(x) == [x EXCEPT !.sampled = (@ + 1) % U16]
           U(x) == [x EXCEPT !.uploaded = (@ + 1) % U16]
<1>1. /\ 0 \in Word
      /\ \A x \in Config : /\ (x.sampled + 1) % U16 \in Word
                           /\ (x.uploaded + 1) % U16 \in Word
  BY U16Assumption DEF Config, Word
<1>2. /\ S(c) \in Config /\ S(d) \in Config /\ Progress(S(c)) = Progress(S(d))
      /\ U(c) \in Config /\ U(d) \in Config /\ Progress(U(c)) = Progress(U(d))
  BY <1>1 DEF Config, Progress
<1>3. \A x \in Config :
          /\ IncSampling(x) = IF NeedSampling(S(x)) THEN S(x)
                              ELSE [S(x) EXCEPT !.uploaded = 0]
          /\ IncUpload(x) = IF UploadOver(U(x)) THEN ResetCounters(U(x)) ELSE U(x)
  BY DEF IncSampling, IncUpload
<1> HIDE DEF S, U
<1>4. Progress(IncSampling(c)) = Progress(IncSampling(d))
  BY <1>1, <1>2, <1>3 DEF Progress, NeedSampling, Config
<1>5. \A x \in Config : /\ ResetCounters(x).bulk = x.bulk
                        /\ ResetCounters(x).cnt = x.cnt
                        /\ ResetCounters(x).uploaded = 0
                        /\ ResetCounters(x).sampled = 0
  <2> SUFFICES ASSUME NEW x \in Config
               PROVE  /\ ResetCounters(x).bulk = x.bulk
                      /\ ResetCounters(x).cnt = x.cnt
                      /\ ResetCounters(x).uploaded = 0
                      /\ ResetCounters(x).sampled = 0
    OBVIOUS
  <2> DEFINE y == [x EXCEPT !.uploaded = 0]
  <2>1. y \in Config /\ y.cnt = x.cnt
    BY <1>1 DEF Config
  <2>2. ResetCounters(x) = [y EXCEPT !.sampled = 0]
    BY DEF ResetCounters
  <2> HIDE DEF y
  <2> QED
    BY <2>1, <2>2, ResetType DEF Config
<1>6. Progress(IncUpload(c)) = Progress(IncUpload(d))
  BY <1>2, <1>3, <1>5 DEF Progress, UploadOver
<1> QED
  BY <1>4, <1>6

\* Before the first message RAM has the defaults and flash has nothing.
LEMMA InitResume == SavesComplete /\ Init => ResumeInv
<1> SUFFICES ASSUME SavesComplete, Init PROVE ResumeInv
  OBVIOUS
<1>1. Steps /\ RestartRedoes
  BY DEF Init, Steps, RestartRedoes, Load
<1> QED
  BY <1>1, InitInv DEF ResumeInv

\* Sampling and uploading, up to the save.
LEMMA OperationResume ==
    ResumeInv /\ (SampleStore \/ SampleNotStored \/ SampleCount \/ UploadRead
                  \/ UploadPublish \/ UploadPingFails \/ UploadCount)
        => Steps' /\ RestartRedoes'
<1> SUFFICES ASSUME ResumeInv,
                    SampleStore \/ SampleNotStored \/ SampleCount \/ UploadRead
                    \/ UploadPublish \/ UploadPingFails \/ UploadCount
             PROVE  Steps' /\ RestartRedoes'
  OBVIOUS
<1> USE DEF ResumeInv, CursorInv, Steps, RestartRedoes, Goto, Release, flash
<1>1. cfg \in Config /\ Load \in Config
  BY LoadType DEF TypeOK
<1>2. nvsCfg' = nvsCfg /\ nvsBatch' = nvsBatch /\ Load' = Load
  BY LoadUnchanged
     DEF SampleStore, SampleNotStored, SampleCount, UploadRead, UploadPublish,
         UploadPingFails, UploadCount
<1>3. /\ Progress(SetBlockSize(cfg, cfg.channel)) = Progress(cfg)
      /\ ButBlock(SetBlockSize(cfg, cfg.channel)) = ButBlock(cfg)
  BY <1>1 DEF SetBlockSize, Progress, ButBlock, Config
<1>4. CASE SampleStore
  BY <1>2, <1>3, <1>4 DEF SampleStore
<1>5. CASE SampleNotStored
  BY <1>2, <1>3, <1>5 DEF SampleNotStored
<1>6. CASE SampleCount
  <2>1. Progress(cfg') = Progress(IncSampling(Load))
    BY <1>1, <1>6, CountProgress DEF SampleCount
  <2> QED
    BY <1>2, <1>6, <2>1 DEF SampleCount
<1>7. CASE UploadRead
  BY <1>2, <1>7 DEF UploadRead
<1>8. CASE UploadPublish
  BY <1>2, <1>8 DEF UploadPublish
<1>9. CASE UploadPingFails
  BY <1>2, <1>9 DEF UploadPingFails
<1>10. CASE UploadCount
  <2>1. Progress(cfg') = Progress(IncUpload(Load))
    BY <1>1, <1>10, CountProgress DEF UploadCount
  <2> QED
    BY <1>2, <1>10, <2>1 DEF UploadCount
<1> QED
  BY <1>4, <1>5, <1>6, <1>7, <1>8, <1>9, <1>10

\* Messages, the flash operations of a save and restarts.
LEMMA FlashResume ==
    ResumeInv /\ ((\E m \in Messages : Receive(m)) \/ WipeData \/ SaveDelete
                  \/ SaveWrite \/ Reboot)
        => Steps' /\ RestartRedoes'
<1> SUFFICES ASSUME ResumeInv,
                    (\E m \in Messages : Receive(m)) \/ WipeData \/ SaveDelete
                    \/ SaveWrite \/ Reboot
             PROVE  Steps' /\ RestartRedoes'
  OBVIOUS
<1> USE DEF ResumeInv, CursorInv, Steps, RestartRedoes, Goto, Release, flash
<1>1. CASE \E m \in Messages : Receive(m)
  BY <1>1 DEF Receive
<1>2. CASE WipeData
  BY <1>2 DEF WipeData
<1>3. CASE SaveDelete
  BY <1>3 DEF SaveDelete, TypeOK
<1>4. CASE SaveWrite
  <2>1. Load' = cfg /\ cfg' = cfg /\ nvsBatch' = batch /\ batch' = batch
    BY <1>4, DistinctAssumption DEF SaveWrite, TypeOK, Load
  <2> QED
    BY <1>4, <2>1 DEF SaveWrite
<1>5. CASE Reboot
  <2>1. Load' = Load
    BY <1>5, LoadUnchanged DEF Reboot
  <2> QED
    BY <1>5, <2>1 DEF Reboot
<1> QED
  BY <1>1, <1>2, <1>3, <1>4, <1>5

\* Every step preserves the invariant.
LEMMA NextResume == ResumeInv /\ [Next]_vars => ResumeInv'
<1> SUFFICES ASSUME ResumeInv, [Next]_vars PROVE ResumeInv'
  OBVIOUS
<1>1. CursorInv'
  BY NextInv DEF ResumeInv
<1>2. Steps' /\ RestartRedoes'
  <2>1. CASE UNCHANGED vars
    BY <2>1, LoadUnchanged
       DEF vars, ResumeInv, Steps, RestartRedoes, Progress, ButBlock
  <2>2. ~ SaveDeleteFails /\ ~ SaveWriteFails
    BY DEF ResumeInv, SavesComplete, SaveDeleteFails, SaveWriteFails
  <2> QED
    BY <2>1, <2>2, OperationResume, FlashResume DEF Next, EnvWork, Continue
<1> QED
  BY <1>1, <1>2 DEF ResumeInv

\* Where every save is completed, flash holds between operations exactly the
\* configuration, but for the block size, and the batch that RAM holds, for every
\* batch size, every message and every other failure and power failure.
THEOREM FlashIsCurrent ==
    ASSUME SavesComplete
    PROVE  Spec => []FlashMirrorsRam
<1>1. ResumeInv => FlashMirrorsRam
  BY DEF ResumeInv, RestartRedoes, FlashMirrorsRam, Load
<1> QED
  BY <1>1, InitResume, NextResume, PTL DEF Spec

\* Where every save is completed, a restart out of sampling or uploading loses
\* at most the step it interrupted.
THEOREM RestartResumes == ASSUME SavesComplete PROVE Spec => BreakpointKept
<1> DEFINE Kept ==
      Reboot /\ op # "update" =>
          Progress(cfg) \in
              {Progress(cfg'), Progress(IncSampling(cfg')), Progress(IncUpload(cfg'))}
<1>1. ASSUME ResumeInv, Reboot, op # "update"
      PROVE  Progress(cfg) \in
                 {Progress(cfg'), Progress(IncSampling(cfg')), Progress(IncUpload(cfg'))}
  <2>1. cfg' = Load /\ op \in Ops /\ pc \in Pcs
    BY <1>1 DEF Reboot, ResumeInv, CursorInv, TypeOK
  <2>2. pc # "write"
    BY <1>1, <2>1 DEF Reboot, ResumeInv, SavesComplete
  <2>3. \/ pc \in {"idle", "stored", "read", "sent"}
        \/ pc = "save" /\ op \in {"sample", "upload"}
    BY <1>1, <2>1, <2>2 DEF ResumeInv, Steps
  <2> QED
    BY <1>1, <2>1, <2>3 DEF ResumeInv, RestartRedoes
<1>2. ResumeInv /\ [Next]_vars => [Kept]_vars
  BY <1>1
<1> QED
  BY <1>2, InitResume, NextResume, PTL DEF Spec, BreakpointKept

-----------------------------------------------------------------------------
(* The queue: batches reach the broker *)

\* s is the newest part of the history l.
EndsWith(l, s) ==
    /\ Len(s) <= Len(l)
    /\ \A i \in 1 .. Len(s) : s[i] = l[Len(l) - Len(s) + i]

(* The parts of the inductive invariant.  Sizes: the cursors count the records
   of their batch, and no batch outgrows the store. *)
SizesOf(c, b) ==
    /\ c.cnt <= BulkSamples
    /\ c.sampled <= c.cnt
    /\ Len(b) = c.sampled

Sizes == SizesOf(cfg, batch) /\ SizesOf(Load, nvsBatch)

(* Up to the save the operation differs from flash by its own step only. *)
SameProgress == nvsBatch = batch /\ Load.uploaded = cfg.uploaded

Reset == batch = <<>> /\ cfg.uploaded = 0

SampleAhead ==
    \E r \in Samples :
       /\ r \notin sent
       /\ r \notin Range(nvsBatch)
       /\ batch = Append(nvsBatch, r)
       /\ cfg.uploaded \in {Load.uploaded, 0}

UploadAhead ==
    /\ Load.uploaded < Len(nvsBatch)
    /\ nvsBatch[Load.uploaded + 1] \in sent
    /\ \/ batch = nvsBatch /\ cfg.uploaded = Load.uploaded + 1
       \/ Reset /\ Load.uploaded + 1 = Len(nvsBatch)

OneStepAhead ==
    /\ pc \in {"idle", "stored", "read", "sent"} => SameProgress
    /\ pc = "wipe" => Reset
    /\ pc = "save" /\ op = "sample" => SampleAhead
    /\ pc = "save" /\ op = "upload" => UploadAhead
    /\ pc = "save" /\ op = "update" => SameProgress \/ Reset

\* The newest entries of the history are the records of the batch.
HistoryHolds ==
    /\ pc # "stored" => EndsWith(log, batch)
    /\ pc = "stored" =>
          /\ EndsWith(log, Append(batch, buf))
          /\ buf \notin Range(batch)
          /\ buf \notin sent
    /\ pc = "wipe" \/ (pc = "save" /\ op = "upload") => EndsWith(log, nvsBatch)

\* What the broker has.
Delivered ==
    /\ ReadsNextRecord
    /\ UploadedWereSent
    /\ pc = "sent" => buf \in sent

DeliveryInv ==
    /\ DeliveryConditions
    /\ CursorInv /\ Sizes /\ Steps /\ OneStepAhead /\ HistoryHolds /\ Delivered

-----------------------------------------------------------------------------
(* Lemmas about the history *)

\* A batch that fits the store survives garbage collection.
LEMMA CollectKeepsEnd ==
    ASSUME NEW l \in Seq(Samples \cup {Deleted}), NEW s \in Seq(Samples),
           EndsWith(l, s), Len(s) <= Retained
    PROVE  EndsWith(Collect(l), s)
<1>1. CASE Len(l) <= Retained
  BY <1>1 DEF Collect
<1>2. CASE Len(l) > Retained
  <2> DEFINE m == Len(l) - Retained + 1
  <2>1. /\ Len(l) \in Nat /\ Len(s) \in Nat /\ Retained \in Nat \ {0}
        /\ m \in 1 .. Len(l) + 1 /\ m <= Len(l)
    BY <1>2, BulkAssumption, LenProperties
  <2>2. Collect(l) = SubSeq(l, m, Len(l))
    BY <1>2, <2>1 DEF Collect
  <2>3. /\ Len(SubSeq(l, m, Len(l))) = Len(l) - m + 1
        /\ \A i \in 1 .. Len(l) - m + 1 : SubSeq(l, m, Len(l))[i] = l[m + i - 1]
    BY <2>1, SubSeqProperties
  <2>4. Len(Collect(l)) = Retained
    BY <2>1, <2>2, <2>3
  <2>5. ASSUME NEW i \in 1 .. Len(s)
        PROVE  s[i] = Collect(l)[Retained - Len(s) + i]
    <3>1. Retained - Len(s) + i \in 1 .. Len(l) - m + 1
      BY <2>1
    <3>2. m + (Retained - Len(s) + i) - 1 = Len(l) - Len(s) + i
      BY <2>1
    <3>3. Collect(l)[Retained - Len(s) + i] = l[Len(l) - Len(s) + i]
      BY <2>2, <2>3, <3>1, <3>2
    <3> QED
      BY <3>3 DEF EndsWith
  <2> QED
    BY <2>4, <2>5 DEF EndsWith
<1> QED
  BY <1>1, <1>2, BulkAssumption, LenProperties

\* Storing a record extends the history and the batch alike.
LEMMA AppendKeepsEnd ==
    ASSUME NEW l \in Seq(Samples \cup {Deleted}), NEW s \in Seq(Samples),
           EndsWith(l, s), NEW r \in Samples
    PROVE  EndsWith(Append(l, r), Append(s, r))
<1>1. Len(l) \in Nat /\ Len(s) \in Nat /\ Len(s) <= Len(l)
  BY LenProperties DEF EndsWith
<1>2. /\ Len(Append(l, r)) = Len(l) + 1
      /\ Len(Append(s, r)) = Len(s) + 1
      /\ \A i \in 1 .. Len(l) : Append(l, r)[i] = l[i]
      /\ \A i \in 1 .. Len(s) : Append(s, r)[i] = s[i]
      /\ Append(l, r)[Len(l) + 1] = r
      /\ Append(s, r)[Len(s) + 1] = r
  BY AppendProperties
<1> DEFINE L == Append(l, r)
           S == Append(s, r)
<1>3. ASSUME NEW i \in 1 .. Len(S)
      PROVE  S[i] = L[Len(L) - Len(S) + i]
  <2>1. i \in 1 .. Len(s) + 1 /\ Len(L) - Len(S) + i = Len(l) - Len(s) + i
    BY <1>1, <1>2
  <2>2. CASE i = Len(s) + 1
    BY <1>1, <1>2, <2>1, <2>2
  <2>3. CASE i \in 1 .. Len(s)
    <3>1. Len(l) - Len(s) + i \in 1 .. Len(l)
      BY <1>1, <2>3
    <3> QED
      BY <1>2, <2>1, <2>3, <3>1 DEF EndsWith
  <2> QED
    BY <1>1, <2>1, <2>2, <2>3
<1>4. Len(S) <= Len(L)
  BY <1>1, <1>2
<1> HIDE DEF L, S
<1> QED
  BY <1>3, <1>4 DEF EndsWith, L, S

\* The position that the upload cursor asks for holds the record it stands for.
LEMMA HistoryReadsBatch ==
    ASSUME NEW l \in Seq(Samples \cup {Deleted}), NEW s \in Seq(Samples),
           EndsWith(l, s), NEW k \in Nat, k < Len(s)
    PROVE  History(l, Len(s) - k - 1) = s[k + 1]
<1> DEFINE i == Len(l) - (Len(s) - k - 1)
<1>1. Len(l) \in Nat /\ Len(s) \in Nat /\ Len(s) <= Len(l)
  BY LenProperties DEF EndsWith
<1>2. i \in 1 .. Len(l) /\ k + 1 \in 1 .. Len(s)
      /\ i = Len(l) - Len(s) + (k + 1)
  BY <1>1
<1>3. l[i] = s[k + 1] /\ s[k + 1] \in Samples
  BY <1>2, ElementOfSeq DEF EndsWith
<1>4. i \in DOMAIN l /\ l[i] # Deleted
  BY <1>2, <1>3, LenProperties, DistinctAssumption
<1> QED
  BY <1>3, <1>4 DEF History

-----------------------------------------------------------------------------
(* Lemmas about the cursors *)

\* Counting a sample keeps the sizes and restarts or keeps the upload.
LEMMA CountSample ==
    ASSUME NEW c \in Config, CursorOrderOf(c), IsBulk(c), NeedSampling(c),
           NEW b \in Seq(Samples), SizesOf(c, b), NEW r \in Samples
    PROVE  /\ SizesOf(IncSampling(c), Append(b, r))
           /\ IncSampling(c).uploaded \in {c.uploaded, 0}
<1> DEFINE d == [c EXCEPT !.sampled = (@ + 1) % U16]
<1>1. c.sampled + 1 <= c.cnt /\ Len(Append(b, r)) = c.sampled + 1
  BY AppendProperties DEF NeedSampling, SizesOf, Config, Word
<1>2. d \in Config /\ d.uploaded = c.uploaded /\ d.cnt = c.cnt
  <2>1. (c.sampled + 1) % U16 \in Word
    BY U16Assumption DEF Config, Word
  <2> QED
    BY <2>1 DEF Config
<1>3. IncSampling(c).sampled = c.sampled + 1
  BY IncSamplingOrder
<1> HIDE DEF d
<1>4. IncSampling(c) = d \/ IncSampling(c) = [d EXCEPT !.uploaded = 0]
  BY DEF IncSampling, d
<1>5. IncSampling(c).cnt = c.cnt /\ IncSampling(c).uploaded \in {c.uploaded, 0}
  BY <1>2, <1>4 DEF Config
<1> QED
  BY <1>1, <1>3, <1>5 DEF SizesOf

\* Counting an upload moves the cursor by one record, or is the end of a batch
\* of which it was the last record.
LEMMA CountUpload ==
    ASSUME NEW c \in Config, CursorOrderOf(c), IsBulk(c),
           ~ NeedSampling(c), ~ UploadOver(c),
           NEW b \in Seq(Samples), SizesOf(c, b)
    PROVE  LET d == IncUpload(c)
           IN  \/ /\ d.sampled = c.sampled /\ d.sampled # 0
                  /\ d.uploaded = c.uploaded + 1
                  /\ SizesOf(d, b)
               \/ /\ d.sampled = 0 /\ d.uploaded = 0
                  /\ c.uploaded + 1 = Len(b)
                  /\ SizesOf(d, <<>>)
<1> DEFINE e == [c EXCEPT !.uploaded = (@ + 1) % U16]
           f == [e EXCEPT !.uploaded = 0]
<1>1. /\ c.uploaded + 1 \in Word /\ (c.uploaded + 1) % U16 = c.uploaded + 1
      /\ c.uploaded < c.cnt /\ c.sampled = c.cnt /\ Len(b) = c.cnt
      /\ c.cnt \in Nat /\ c.cnt # 0 /\ c.uploaded \in Nat
  BY U16Assumption DEF Config, Word, NeedSampling, UploadOver, SizesOf
<1>2. /\ e \in Config /\ e.uploaded = c.uploaded + 1
      /\ e.cnt = c.cnt /\ e.sampled = c.sampled
  BY <1>1 DEF Config
<1>3. IncUpload(c) = IF UploadOver(e) THEN ResetCounters(e) ELSE e
  BY DEF IncUpload
<1> HIDE DEF e
<1>4. CASE ~ UploadOver(e)
  BY <1>1, <1>2, <1>3, <1>4 DEF SizesOf
<1>5. CASE UploadOver(e)
  <2>1. c.uploaded + 1 = Len(b)
    BY <1>1, <1>2, <1>5 DEF UploadOver
  <2>2. ResetCounters(e) = [f EXCEPT !.sampled = 0]
    BY DEF ResetCounters
  <2>3. f \in Config /\ f.cnt = c.cnt
    <3>1. 0 \in Word
      BY U16Assumption DEF Word
    <3> QED
      BY <1>2, <3>1 DEF Config
  <2> HIDE DEF f
  <2>4. ResetCounters(e).cnt = c.cnt
    BY <2>2, <2>3 DEF Config
  <2>5. IncUpload(c).sampled = 0 /\ IncUpload(c).uploaded = 0
        /\ IncUpload(c).cnt = c.cnt
    BY <1>2, <1>3, <1>5, <2>4, ResetType
  <2>6. SizesOf(IncUpload(c), <<>>)
    BY <2>5, <1>1 DEF SizesOf
  <2> QED
    BY <2>1, <2>5, <2>6
<1> QED
  BY <1>4, <1>5

\* The batch size a message leaves.
LEMMA ParsedCount ==
    ASSUME NEW c \in Config, NEW m, IsMessage(m)
    PROVE  Parse(c, m).cnt = ParseCount(ParseBulk(c, m), m).cnt
<1> DEFINE b == ParseBulk(c, m)
<1>1. \A k \in DOMAIN m : m[k] \in Int /\ m[k] % U16 \in Word
  BY U16Assumption DEF Word, IsMessage
<1>2. b \in Config
  <2>1. BulkFrequency \in Word /\ BulkSamples \in Word
    BY DefaultsAssumption DEF Word
  <2> QED
    BY <1>1, <2>1 DEF ParseBulk, Config
<1> HIDE DEF b
<1>3. ParseChannel(b, m) \in Config /\ ParseChannel(b, m).cnt = b.cnt
  BY <1>1, <1>2 DEF ParseChannel, Config
<1> DEFINE d == ParseChannel(b, m)
<1> HIDE DEF d
<1>4. ParsePeriod(d, m) \in Config /\ ParsePeriod(d, m).cnt = d.cnt
  BY <1>1, <1>3 DEF ParsePeriod, Config, d
<1> DEFINE e == ParsePeriod(d, m)
<1> HIDE DEF e
<1>5. e \in Config /\ e.cnt = b.cnt
  BY <1>3, <1>4 DEF d, e
<1>6. /\ ParseCount(e, m) \in Config
      /\ ParseCount(e, m).cnt = ParseCount(b, m).cnt
  BY <1>1, <1>2, <1>5 DEF ParseCount, Config
<1> DEFINE f == ParseCount(e, m)
<1> HIDE DEF f
<1>7. ParseFrequency(f, m).cnt = f.cnt
  BY <1>6 DEF ParseFrequency, Config, f
<1> QED
  BY <1>6, <1>7 DEF Parse, b, d, e, f

\* No message shrinks a batch that goes on.
LEMMA UpdateSizes ==
    ASSUME DeliveryConditions,
           NEW c \in Config, CursorOrderOf(c),
           NEW b \in Seq(Samples), SizesOf(c, b),
           NEW m \in Messages, m # Malformed
    PROVE  IF StartsNewBatch(c, m)
           THEN SizesOf(Updated(c, m), <<>>) /\ Updated(c, m).uploaded = 0
           ELSE SizesOf(Updated(c, m), b) /\ Updated(c, m).uploaded = c.uploaded
<1> DEFINE d == ParseBulk(c, m)
           p == Parse(c, m)
<1>1. IsMessage(m) /\ p \in Config /\ p.bulk = d.bulk
      /\ p.uploaded = c.uploaded /\ p.sampled = c.sampled
  BY ParseType, BulkAssumption
<1>2. p.cnt = ParseCount(d, m).cnt
  BY <1>1, ParsedCount
<1>3. d.cnt = c.cnt \/ d.cnt = BulkSamples
  BY DEF ParseBulk, Config
<1>4. d \in Config
  <2>1. BulkFrequency \in Word /\ BulkSamples \in Word
    BY DefaultsAssumption DEF Word
  <2> QED
    BY <1>1, <2>1 DEF ParseBulk, Config, IsMessage
<1>5. c.cnt <= BulkSamples /\ c.sampled <= c.cnt /\ Len(b) = c.sampled
      /\ c.cnt \in Nat /\ c.sampled \in Nat /\ BulkSamples \in Nat
  BY DefaultsAssumption DEF SizesOf, Config, Word
<1> HIDE DEF d
<1>6. ParseCount(d, m).cnt <= BulkSamples
  <2>1. CASE "bulk_upload_sampling_cnt" \in DOMAIN m
    <3>1. ParseCount(d, m).cnt = m["bulk_upload_sampling_cnt"] % U16
      BY <1>4, <2>1 DEF ParseCount, Config
    <3> QED
      BY <2>1, <3>1 DEF DeliveryConditions
  <2>2. CASE "bulk_upload_sampling_cnt" \notin DOMAIN m
    BY <1>3, <1>5, <2>2 DEF ParseCount
  <2> QED
    BY <2>1, <2>2
<1> HIDE DEF p
<1>7. CASE StartsNewBatch(c, m)
  <2>1. Updated(c, m) = ResetCounters(p)
    BY <1>7 DEF Updated, p
  <2>2. /\ ResetCounters(p).uploaded = 0
        /\ ResetCounters(p).sampled = 0
        /\ ResetCounters(p) \in Config
    BY <1>1, ResetType
  <2>3. ResetCounters(p).cnt = p.cnt
    <3> DEFINE q == [p EXCEPT !.uploaded = 0]
    <3>1. q \in Config /\ q.cnt = p.cnt
      <4>1. 0 \in Word
        BY U16Assumption DEF Word
      <4> QED
        BY <1>1, <4>1 DEF Config
    <3>2. ResetCounters(p) = [q EXCEPT !.sampled = 0]
      BY DEF ResetCounters
    <3> HIDE DEF q
    <3> QED
      BY <3>1, <3>2 DEF Config
  <2>4. ResetCounters(p).cnt \in Nat
    BY <2>2 DEF Config, Word
  <2> QED
    BY <1>2, <1>6, <1>7, <2>1, <2>2, <2>3, <2>4 DEF SizesOf
<1>8. CASE ~ StartsNewBatch(c, m)
  <2>1. Updated(c, m) = p
    BY <1>8 DEF Updated, p
  <2>2. d.bulk = c.bulk /\ (IsBulk(d) => p.cnt = d.cnt)
    BY <1>2, <1>8 DEF StartsNewBatch, d
  <2>3. ~ IsBulk(d) => c.sampled = 0
    BY <2>2 DEF IsBulk, CursorOrderOf
  <2>4. p.cnt \in Nat
    BY <1>1 DEF Config, Word
  <2>5. c.sampled <= p.cnt
    BY <1>3, <1>5, <2>2, <2>3, <2>4
  <2> QED
    BY <1>1, <1>2, <1>5, <1>6, <1>8, <2>1, <2>5 DEF SizesOf
<1> QED
  BY <1>7, <1>8

-----------------------------------------------------------------------------
(* The invariant *)

LEMMA EmptyEnd ==
    ASSUME NEW l \in Seq(Samples \cup {Deleted}) PROVE EndsWith(l, <<>>)
BY LenProperties DEF EndsWith

Deliverable == Sizes /\ Steps /\ OneStepAhead /\ HistoryHolds /\ Delivered

\* The initial state: no batch, neither in RAM nor in flash.
LEMMA InitDelivery == DeliveryConditions /\ Init => DeliveryInv
<1> SUFFICES ASSUME DeliveryConditions, Init PROVE DeliveryInv
  OBVIOUS
<1>1. CursorInv
  BY InitInv
<1>2. Sizes
  BY DefaultsAssumption DEF Init, Sizes, SizesOf, Load, DefaultConfig
<1>3. Steps /\ OneStepAhead
  BY DEF Init, Steps, OneStepAhead, SameProgress, Load
<1>4. HistoryHolds
  BY EmptyEnd, EmptySeq DEF Init, HistoryHolds
<1>5. Delivered
  BY DEF Init, Delivered, ReadsNextRecord, UploadedWereSent, DefaultConfig
<1> QED
  BY <1>1, <1>2, <1>3, <1>4, <1>5 DEF DeliveryInv

\* Storing a sample: it is a new record, and the newest one of the history.
LEMMA SampleStoreDelivery == DeliveryInv /\ SampleStore => Deliverable'
<1> SUFFICES ASSUME DeliveryInv, SampleStore PROVE Deliverable'
  OBVIOUS
<1> USE DEF DeliveryInv, CursorInv, TypeOK, Goto, SampleStore
<1>1. Load' = Load
  BY LoadUnchanged
<1>2. /\ cfg'.uploaded = cfg.uploaded
      /\ cfg'.sampled = cfg.sampled /\ cfg'.cnt = cfg.cnt
      /\ batch' = batch /\ nvsBatch' = nvsBatch /\ nvsCfg' = nvsCfg
      /\ pc = "idle" /\ pc' = "stored" /\ op' = "sample"
  BY DEF SetBlockSize, Config
<1>3. PICK r \in Fresh : log' = Collect(Append(log, r)) /\ buf' = r
  OBVIOUS
<1>4. /\ r \in Samples
      /\ r \notin Range(batch) /\ r \notin Range(nvsBatch)
      /\ r \notin sent'
  BY <1>3 DEF Fresh, Batches, ToSet, Range
<1>5. Sizes'
  BY <1>1, <1>2 DEF Sizes, SizesOf
<1>6. Steps'
  BY <1>2 DEF Steps
<1>7. OneStepAhead'
  BY <1>1, <1>2 DEF OneStepAhead, SameProgress
<1>8. HistoryHolds'
  <2>1. EndsWith(log, batch)
    BY <1>2 DEF HistoryHolds
  <2>2. EndsWith(Append(log, r), Append(batch, r))
    BY <1>4, <2>1, AppendKeepsEnd
  <2>3. Len(Append(batch, r)) <= Retained
    <3>1. Len(Append(batch, r)) = Len(batch) + 1
      BY <1>4, AppendProperties
    <3> QED
      BY <3>1, BulkAssumption, DefaultsAssumption
         DEF DeliveryConditions, Sizes, SizesOf, NeedSampling, Config, Word
  <2>4. /\ Append(log, r) \in Seq(Samples \cup {Deleted})
        /\ Append(batch, r) \in Seq(Samples)
    BY <1>4, AppendProperties
  <2>5. EndsWith(log', Append(batch, r))
    BY <1>3, <2>2, <2>3, <2>4, CollectKeepsEnd
  <2> QED
    BY <1>2, <1>3, <1>4, <2>5 DEF HistoryHolds
<1>9. Delivered'
  <2>1. sent' = sent \cap Batches
    OBVIOUS
  <2>2. \A i \in 1 .. cfg.uploaded : batch[i] \in sent'
    <3>1. \A i \in 1 .. cfg.uploaded : i \in DOMAIN batch
      BY LenProperties
         DEF Sizes, SizesOf, CursorOrder, CursorOrderOf, Config, Word
    <3> QED
      BY <2>1, <3>1 DEF Delivered, UploadedWereSent, Batches, ToSet
  <2>3. nvsCfg # NoConfig =>
            \A i \in 1 .. nvsCfg.uploaded : nvsBatch[i] \in sent'
    <3> SUFFICES ASSUME nvsCfg # NoConfig
                 PROVE  \A i \in 1 .. nvsCfg.uploaded : nvsBatch[i] \in sent'
      OBVIOUS
    <3>1. \A i \in 1 .. nvsCfg.uploaded : i \in DOMAIN nvsBatch
      BY LenProperties
         DEF Sizes, SizesOf, Load, CursorOrder, CursorOrderOf, Config, Word
    <3> QED
      BY <2>1, <3>1 DEF Delivered, UploadedWereSent, Batches, ToSet
  <2> QED
    BY <1>2, <2>2, <2>3 DEF Delivered, ReadsNextRecord, UploadedWereSent
<1> QED
  BY <1>5, <1>6, <1>7, <1>8, <1>9 DEF Deliverable

\* A sample that was not stored leaves only another block size.
LEMMA SampleNotStoredDelivery == DeliveryInv /\ SampleNotStored => Deliverable'
<1> SUFFICES ASSUME DeliveryInv, SampleNotStored PROVE Deliverable'
  OBVIOUS
<1>1. /\ cfg'.uploaded = cfg.uploaded
      /\ cfg'.sampled = cfg.sampled /\ cfg'.cnt = cfg.cnt
      /\ pc = "idle"
      /\ UNCHANGED <<batch, nvsBatch, nvsCfg, log, op, pc, buf, sent>>
  BY DEF DeliveryInv, CursorInv, TypeOK, SampleNotStored, SetBlockSize, Config,
         flash
<1>2. Load' = Load
  BY <1>1, LoadUnchanged
<1>3. Sizes'
  BY <1>1, <1>2 DEF DeliveryInv, Sizes, SizesOf
<1>4. Steps' /\ OneStepAhead' /\ HistoryHolds'
  BY <1>1, <1>2 DEF DeliveryInv, Steps, OneStepAhead, SameProgress, HistoryHolds
<1>5. Delivered'
  BY <1>1 DEF DeliveryInv, Delivered, ReadsNextRecord, UploadedWereSent
<1> QED
  BY <1>3, <1>4, <1>5 DEF Deliverable

\* Counting the sample: the batch in RAM is one record ahead of flash.
LEMMA SampleCountDelivery == DeliveryInv /\ SampleCount => Deliverable'
<1> SUFFICES ASSUME DeliveryInv, SampleCount PROVE Deliverable'
  OBVIOUS
<1> USE DEF DeliveryInv, CursorInv, TypeOK, Goto, SampleCount, flash
<1>1. Load' = Load
  BY LoadUnchanged
<1>2. /\ pc = "stored" /\ pc' = "save" /\ op' = "sample"
      /\ batch' = Append(batch, buf)
      /\ UNCHANGED <<nvsBatch, nvsCfg, log, buf, sent>>
      /\ buf \in Samples
  BY DEF StepContext
<1>3. /\ SizesOf(cfg', batch')
      /\ cfg'.uploaded \in {cfg.uploaded, 0}
  BY <1>2, CountSample DEF CursorOrder, StepContext, Sizes
<1>4. SameProgress
  BY <1>2 DEF OneStepAhead
<1>5. Sizes'
  BY <1>1, <1>2, <1>3 DEF Sizes
<1>6. Steps'
  BY <1>2 DEF Steps
<1>7. OneStepAhead'
  <2>1. /\ buf \notin Range(batch) /\ buf \notin sent
    BY <1>2 DEF HistoryHolds
  <2>2. SampleAhead'
    BY <1>1, <1>2, <1>3, <1>4, <2>1 DEF SampleAhead, SameProgress
  <2> QED
    BY <1>2, <2>2 DEF OneStepAhead
<1>8. HistoryHolds'
  BY <1>2 DEF HistoryHolds
<1>9. Delivered'
  <2>1. \A i \in 1 .. cfg'.uploaded : batch'[i] \in sent
    <3>1. cfg.uploaded \in Nat /\ cfg.uploaded <= Len(batch)
      BY DEF Sizes, SizesOf, CursorOrder, CursorOrderOf, Config, Word
    <3>2. \A i \in 1 .. Len(batch) : batch'[i] = batch[i]
      BY <1>2, AppendProperties
    <3>3. \A i \in 1 .. cfg'.uploaded : i \in 1 .. cfg.uploaded
      BY <1>3, <3>1
    <3>4. \A i \in 1 .. cfg.uploaded : i \in 1 .. Len(batch)
      BY <3>1, LenProperties
    <3> QED
      BY <3>2, <3>3, <3>4 DEF Delivered, UploadedWereSent
  <2> QED
    BY <1>2, <2>1 DEF Delivered, ReadsNextRecord, UploadedWereSent
<1> QED
  BY <1>5, <1>6, <1>7, <1>8, <1>9 DEF Deliverable

\* Reading: the history position of the cursor holds the record it stands for.
LEMMA UploadReadDelivery == DeliveryInv /\ UploadRead => Deliverable'
<1> SUFFICES ASSUME DeliveryInv, UploadRead PROVE Deliverable'
  OBVIOUS
<1> USE DEF DeliveryInv, CursorInv, TypeOK, Goto, UploadRead, flash
<1>1. Load' = Load
  BY LoadUnchanged
<1>2. /\ pc = "idle" /\ pc' = "read" /\ op' = "upload"
      /\ UNCHANGED <<cfg, batch, nvsBatch, nvsCfg, log, sent>>
  OBVIOUS
<1>3. /\ cfg.uploaded \in Nat /\ cfg.uploaded < cfg.cnt
      /\ cfg.cnt = Len(batch) /\ Len(batch) \in Nat
  BY DEF Sizes, SizesOf, NeedSampling, UploadOver, Config, Word
<1>4. History(log, Len(batch) - cfg.uploaded - 1) = batch[cfg.uploaded + 1]
  BY <1>2, <1>3, HistoryReadsBatch DEF HistoryHolds
<1>5. buf' = batch[cfg.uploaded + 1]
  BY <1>3, <1>4 DEF HisBlock
<1>6. cfg.uploaded + 1 \in DOMAIN batch
  BY <1>3, LenProperties
<1>7. Sizes' /\ Steps' /\ OneStepAhead' /\ HistoryHolds'
  BY <1>1, <1>2
     DEF Sizes, SizesOf, Steps, OneStepAhead, SameProgress, HistoryHolds
<1>8. Delivered'
  BY <1>2, <1>5, <1>6 DEF Delivered, ReadsNextRecord, UploadedWereSent
<1> QED
  BY <1>7, <1>8 DEF Deliverable

\* Publishing: only failures that DeliveryConditions leave out lose the record.
LEMMA UploadPublishDelivery == DeliveryInv /\ UploadPublish => Deliverable'
<1> SUFFICES ASSUME DeliveryInv, UploadPublish PROVE Deliverable'
  OBVIOUS
<1> USE DEF DeliveryInv, CursorInv, TypeOK, Goto, UploadPublish, flash
<1>1. Load' = Load
  BY LoadUnchanged
<1>2. /\ pc = "read" /\ pc' = "sent" /\ op' = "upload"
      /\ UNCHANGED <<cfg, batch, nvsBatch, nvsCfg, log, buf>>
  OBVIOUS
<1>3. sent' = sent \cup {buf}
  BY DEF DeliveryConditions
<1>4. Sizes' /\ Steps' /\ OneStepAhead' /\ HistoryHolds'
  BY <1>1, <1>2
     DEF Sizes, SizesOf, Steps, OneStepAhead, SameProgress, HistoryHolds
<1>5. Delivered'
  BY <1>2, <1>3 DEF Delivered, ReadsNextRecord, UploadedWereSent
<1> QED
  BY <1>4, <1>5 DEF Deliverable

LEMMA UploadPingFailsDelivery == DeliveryInv /\ UploadPingFails => Deliverable'
<1> SUFFICES ASSUME DeliveryInv, UploadPingFails PROVE Deliverable'
  OBVIOUS
<1> USE DEF DeliveryInv, Goto, Release, UploadPingFails, flash
<1>1. Load' = Load
  BY LoadUnchanged
<1>2. Sizes' /\ Steps' /\ OneStepAhead' /\ HistoryHolds'
  BY <1>1
     DEF Sizes, SizesOf, Steps, OneStepAhead, SameProgress, HistoryHolds
<1>3. Delivered'
  BY DEF Delivered, ReadsNextRecord, UploadedWereSent
<1> QED
  BY <1>2, <1>3 DEF Deliverable

\* Counting the upload: the cursor in RAM is one delivered record ahead of
\* flash, or the batch is over in RAM.
LEMMA UploadCountDelivery == DeliveryInv /\ UploadCount => Deliverable'
<1> SUFFICES ASSUME DeliveryInv, UploadCount PROVE Deliverable'
  OBVIOUS
<1> USE DEF DeliveryInv, CursorInv, TypeOK, Goto, UploadCount, flash
<1>1. Load' = Load
  BY LoadUnchanged
<1>2. /\ pc = "sent" /\ pc' = "save" /\ op' = "upload"
      /\ UNCHANGED <<nvsBatch, nvsCfg, log, buf, sent>>
      /\ cfg' = IncUpload(cfg)
      /\ batch' = IF cfg'.sampled = 0 THEN <<>> ELSE batch
  OBVIOUS
<1>3. /\ cfg.uploaded + 1 \in DOMAIN batch
      /\ batch[cfg.uploaded + 1] \in sent
      /\ nvsBatch = batch /\ Load.uploaded = cfg.uploaded
      /\ cfg.uploaded \in Nat /\ Load.uploaded < Len(nvsBatch)
  <2>1. cfg.uploaded + 1 \in DOMAIN batch /\ buf = batch[cfg.uploaded + 1]
        /\ buf \in sent
    BY <1>2 DEF Delivered, ReadsNextRecord
  <2>2. nvsBatch = batch /\ Load.uploaded = cfg.uploaded
    BY <1>2 DEF OneStepAhead, SameProgress
  <2>3. cfg.uploaded \in Nat
    BY DEF Config, Word
  <2>4. cfg.uploaded < Len(batch)
    BY <2>1, <2>3, LenProperties
  <2> QED
    BY <2>1, <2>2, <2>3, <2>4
<1>4. \/ /\ cfg'.sampled # 0 /\ batch' = batch
         /\ cfg'.uploaded = cfg.uploaded + 1
         /\ SizesOf(cfg', batch)
      \/ /\ cfg'.sampled = 0 /\ batch' = <<>> /\ cfg'.uploaded = 0
         /\ cfg.uploaded + 1 = Len(batch)
         /\ SizesOf(cfg', <<>>)
  BY <1>2, CountUpload DEF CursorOrder, StepContext, Sizes
<1>5. Sizes'
  BY <1>1, <1>2, <1>4 DEF Sizes
<1>6. Steps'
  BY <1>2 DEF Steps
<1>7. OneStepAhead'
  <2>1. UploadAhead'
    BY <1>1, <1>2, <1>3, <1>4 DEF UploadAhead, Reset
  <2> QED
    BY <1>2, <2>1 DEF OneStepAhead
<1>8. HistoryHolds'
  <2>1. EndsWith(log, batch) /\ EndsWith(log, nvsBatch)
    BY <1>2, <1>3 DEF HistoryHolds
  <2> QED
    BY <1>2, <1>4, <2>1, EmptyEnd DEF HistoryHolds
<1>9. Delivered'
  <2>1. \A i \in 1 .. cfg'.uploaded : batch'[i] \in sent
    <3>1. CASE cfg'.uploaded = cfg.uploaded + 1 /\ batch' = batch
      <4>1. \A i \in 1 .. cfg.uploaded + 1 :
                i \in 1 .. cfg.uploaded \/ i = cfg.uploaded + 1
        BY <1>3
      <4> QED
        BY <1>3, <3>1, <4>1 DEF Delivered, UploadedWereSent
    <3>2. CASE cfg'.uploaded = 0
      BY <3>2
    <3> QED
      BY <1>4, <3>1, <3>2
  <2> QED
    BY <1>2, <2>1 DEF Delivered, ReadsNextRecord, UploadedWereSent
<1> QED
  BY <1>5, <1>6, <1>7, <1>8, <1>9 DEF Deliverable

\* A message keeps the batch and its cursors, or resets all of them.
LEMMA ReceiveDelivery ==
    ASSUME NEW m \in Messages, DeliveryInv, Receive(m)
    PROVE  Deliverable'
<1> USE DEF DeliveryInv, CursorInv, TypeOK, Goto, Receive, flash
<1>1. Load' = Load
  BY LoadUnchanged
<1>2. /\ pc = "idle" /\ pc' \in {"wipe", "save"} /\ op' = "update"
      /\ UNCHANGED <<nvsBatch, nvsCfg, log, buf, sent>>
  OBVIOUS
<1>3. \/ /\ batch' = <<>> /\ pc' = "wipe" /\ cfg'.uploaded = 0
         /\ SizesOf(cfg', <<>>)
      \/ /\ batch' = batch /\ pc' = "save" /\ cfg'.uploaded = cfg.uploaded
         /\ SizesOf(cfg', batch)
  BY UpdateSizes DEF CursorOrder, Sizes
<1>4. nvsBatch = batch /\ Load.uploaded = cfg.uploaded /\ EndsWith(log, batch)
  BY <1>2 DEF OneStepAhead, SameProgress, HistoryHolds
<1>5. Sizes'
  BY <1>1, <1>2, <1>3 DEF Sizes
<1>6. Steps'
  BY <1>2 DEF Steps
<1>7. OneStepAhead'
  BY <1>1, <1>2, <1>3, <1>4 DEF OneStepAhead, SameProgress, Reset
<1>8. HistoryHolds'
  BY <1>2, <1>3, <1>4, EmptyEnd DEF HistoryHolds
<1>9. Delivered'
  BY <1>2, <1>3 DEF Delivered, ReadsNextRecord, UploadedWereSent
<1> QED
  BY <1>5, <1>6, <1>7, <1>8, <1>9 DEF Deliverable

\* Deleting the data: no record of the new batch is in the history yet.
LEMMA WipeDelivery == DeliveryInv /\ WipeData => Deliverable'
<1> SUFFICES ASSUME DeliveryInv, WipeData PROVE Deliverable'
  OBVIOUS
<1> USE DEF DeliveryInv, CursorInv, TypeOK, Goto, WipeData
<1>1. Load' = Load
  BY LoadUnchanged
<1>2. /\ pc = "wipe" /\ pc' = "save" /\ op' = "update"
      /\ UNCHANGED <<cfg, batch, nvsBatch, nvsCfg, buf, sent>>
  BY DEF Steps
<1>3. Reset
  BY <1>2 DEF OneStepAhead
<1>4. log' \in Seq(Samples \cup {Deleted})
  BY MarkDeletedType
<1>5. HistoryHolds'
  BY <1>2, <1>3, <1>4, EmptyEnd DEF HistoryHolds, Reset
<1>6. Sizes' /\ Steps' /\ OneStepAhead'
  BY <1>1, <1>2, <1>3 DEF Sizes, SizesOf, Steps, OneStepAhead, Reset
<1>7. Delivered'
  BY <1>2 DEF Delivered, ReadsNextRecord, UploadedWereSent
<1> QED
  BY <1>5, <1>6, <1>7 DEF Deliverable

\* The delete of a save: until the write, flash holds no batch at all.
LEMMA SaveDeleteDelivery == DeliveryInv /\ SaveDelete => Deliverable'
<1> SUFFICES ASSUME DeliveryInv, SaveDelete PROVE Deliverable'
  OBVIOUS
<1> USE DEF DeliveryInv, Goto, SaveDelete
<1>1. /\ pc = "save" /\ pc' = "write" /\ nvsCfg' = NoConfig /\ nvsBatch' = <<>>
      /\ UNCHANGED <<cfg, batch, log, buf, sent, op>>
  OBVIOUS
<1>2. SizesOf(DefaultConfig, <<>>) /\ Load' = DefaultConfig
  BY <1>1, DefaultsAssumption DEF SizesOf, DefaultConfig, Load
<1>3. Sizes'
  BY <1>1, <1>2 DEF Sizes, SizesOf
<1>4. Steps' /\ OneStepAhead' /\ HistoryHolds'
  BY <1>1 DEF Steps, OneStepAhead, HistoryHolds
<1>5. Delivered'
  BY <1>1 DEF Delivered, ReadsNextRecord, UploadedWereSent
<1> QED
  BY <1>3, <1>4, <1>5 DEF Deliverable

\* The write of a save: RAM and flash agree.
LEMMA SaveWriteDelivery == DeliveryInv /\ SaveWrite => Deliverable'
<1> SUFFICES ASSUME DeliveryInv, SaveWrite PROVE Deliverable'
  OBVIOUS
<1> USE DEF DeliveryInv, CursorInv, TypeOK, Goto, Release, SaveWrite
<1>1. /\ pc = "write" /\ pc' = "idle" /\ op' = "none"
      /\ nvsCfg' = cfg /\ nvsBatch' = batch
      /\ UNCHANGED <<cfg, batch, log, buf, sent>>
  OBVIOUS
<1>2. Load' = cfg
  BY <1>1, DistinctAssumption DEF Load
<1>3. Sizes'
  BY <1>1, <1>2 DEF Sizes, SizesOf
<1>4. Steps' /\ OneStepAhead' /\ HistoryHolds'
  BY <1>1, <1>2 DEF Steps, OneStepAhead, SameProgress, HistoryHolds
<1>5. Delivered'
  BY <1>1 DEF Delivered, ReadsNextRecord, UploadedWereSent
<1> QED
  BY <1>3, <1>4, <1>5 DEF Deliverable

\* A restart where no half of a step is missing in flash.
LEMMA RebootDelivery == DeliveryInv /\ Reboot => Deliverable'
<1> SUFFICES ASSUME DeliveryInv, Reboot PROVE Deliverable'
  OBVIOUS
<1> USE DEF DeliveryInv, CursorInv, TypeOK, Goto, Release, Reboot, flash
<1>1. /\ pc' = "idle" /\ op' = "none" /\ cfg' = Load /\ batch' = nvsBatch
      /\ UNCHANGED <<nvsBatch, nvsCfg, log, sent>>
  OBVIOUS
<1>2. Load' = Load
  BY <1>1, LoadUnchanged
<1>3. \/ pc \in {"idle", "read", "sent", "wipe"}
      \/ pc = "save" /\ op = "upload"
  BY DEF DeliveryConditions, BetweenSteps
<1>4. EndsWith(log, nvsBatch)
  BY <1>3 DEF HistoryHolds, OneStepAhead, SameProgress
<1>5. Sizes'
  BY <1>1, <1>2 DEF Sizes
<1>6. Steps' /\ OneStepAhead' /\ HistoryHolds'
  BY <1>1, <1>2, <1>4 DEF Steps, OneStepAhead, SameProgress, HistoryHolds
<1>7. Delivered'
  BY <1>1, <1>2 DEF Delivered, ReadsNextRecord, UploadedWereSent, Load,
                    DefaultConfig
<1> QED
  BY <1>5, <1>6, <1>7 DEF Deliverable

\* Every step preserves the invariant.
LEMMA NextDelivery == DeliveryInv /\ [Next]_vars => DeliveryInv'
<1> SUFFICES ASSUME DeliveryInv, [Next]_vars PROVE DeliveryInv'
  OBVIOUS
<1>1. CursorInv'
  BY NextInv DEF DeliveryInv
<1>2. Deliverable'
  <2>1. CASE UNCHANGED vars
    BY <2>1 DEF vars, DeliveryInv, Deliverable, Sizes, SizesOf, Load, Steps,
                OneStepAhead, SameProgress, Reset, SampleAhead, UploadAhead,
                HistoryHolds, Delivered, ReadsNextRecord, UploadedWereSent
  <2>2. ~ SaveDeleteFails /\ ~ SaveWriteFails
    BY DEF DeliveryInv, DeliveryConditions, SaveDeleteFails, SaveWriteFails
  <2> QED
    BY <2>1, <2>2, SampleStoreDelivery, SampleNotStoredDelivery,
       SampleCountDelivery, UploadReadDelivery, UploadPublishDelivery,
       UploadPingFailsDelivery, UploadCountDelivery, ReceiveDelivery,
       WipeDelivery, SaveDeleteDelivery, SaveWriteDelivery, RebootDelivery
       DEF Next, EnvWork, Continue
<1> QED
  BY <1>1, <1>2 DEF DeliveryInv, Deliverable

\* Every upload step reads the record that its cursor stands for, for every
\* batch that fits the store and every restart between two steps.
THEOREM ReadsInOrder ==
    ASSUME DeliveryConditions PROVE Spec => []ReadsNextRecord
BY InitDelivery, NextDelivery, PTL DEF Spec, DeliveryInv, Delivered

\* A record that is counted, in RAM or in flash, reached the broker.
THEOREM CountedWereSent ==
    ASSUME DeliveryConditions PROVE Spec => []UploadedWereSent
BY InitDelivery, NextDelivery, PTL DEF Spec, DeliveryInv, Delivered

\* What the broker has when the last record of a batch is counted.
LEMMA LastRecord ==
    ASSUME NEW c \in Nat, NEW b \in Seq(Samples), c + 1 = Len(b),
           \A i \in 1 .. c : b[i] \in sent, b[c + 1] \in sent
    PROVE  Range(b) \subseteq sent
<1>1. \A i \in DOMAIN b : i \in 1 .. c \/ i = c + 1
  BY LenProperties
<1> QED
  BY <1>1 DEF Range

LEMMA FinishStep ==
    DeliveryInv /\ [Next]_vars /\ BatchFinishes => ToSet(batch) \subseteq sent
<1> SUFFICES ASSUME DeliveryInv, [Next]_vars, BatchFinishes
             PROVE  ToSet(batch) \subseteq sent
  OBVIOUS
<1>1. UploadCount
  BY DEF BatchFinishes, Next, EnvWork, Continue, SampleStore, SampleNotStored,
         SampleCount, UploadRead, UploadPublish, UploadPingFails, Receive,
         WipeData, SaveDelete, SaveDeleteFails, SaveWrite, SaveWriteFails,
         Reboot, Release, Goto, vars
<1>2. cfg.uploaded + 1 = Len(batch)
  BY <1>1, CountUpload
     DEF BatchFinishes, UploadCount, DeliveryInv, CursorInv, TypeOK,
         CursorOrder, StepContext, Sizes
<1>3. batch[cfg.uploaded + 1] \in sent
  BY DEF BatchFinishes, DeliveryInv, Delivered, ReadsNextRecord
<1>4. cfg.uploaded \in Nat /\ batch \in Seq(Samples)
  BY DEF DeliveryInv, CursorInv, TypeOK, Config, Word
<1>5. Range(batch) \subseteq sent
  BY <1>2, <1>3, <1>4, LastRecord DEF DeliveryInv, Delivered, UploadedWereSent
<1> QED
  BY <1>5 DEF Range, ToSet

\* The counters are reset after an upload only when the broker has the batch.
THEOREM BatchesComplete ==
    ASSUME DeliveryConditions PROVE Spec => WholeBatchSent
<1>1. DeliveryInv /\ [Next]_vars => [BatchFinishes => ToSet(batch) \subseteq sent]_vars
  BY FinishStep
<1> QED
  BY <1>1, InitDelivery, NextDelivery, PTL DEF Spec, WholeBatchSent

-----------------------------------------------------------------------------
(* The refinement.  Only a publication, the delete of a save and the two ends
   of a reconfiguration are steps of the queue. *)

Stutter ==
    UNCHANGED <<DurableBatch, DurableCfg.uploaded,
                sent \cap Range(DurableBatch), op = "update">>

\* Nothing durable changes outside a save.
LEMMA Volatile ==
    ASSUME pc # "write", pc' # "write", nvsCfg' = nvsCfg, nvsBatch' = nvsBatch
    PROVE  /\ DurableBatch = nvsBatch /\ DurableBatch' = nvsBatch
           /\ DurableCfg = Load /\ DurableCfg' = Load
BY LoadUnchanged DEF DurableBatch, DurableCfg

LEMMA StutterSteps ==
    ASSUME DeliveryInv,
           SampleStore \/ SampleNotStored \/ SampleCount \/ UploadRead
           \/ UploadPingFails \/ UploadCount \/ WipeData
    PROVE  Stutter
<1> USE DEF DeliveryInv, Steps, Goto, Release, flash
<1>1. pc # "write" /\ pc' # "write" /\ nvsCfg' = nvsCfg /\ nvsBatch' = nvsBatch
  BY DEF SampleStore, SampleNotStored, SampleCount, UploadRead, UploadPingFails,
         UploadCount, WipeData
<1>2. (op = "update") = (op' = "update")
  BY DEF SampleStore, SampleNotStored, SampleCount, UploadRead, UploadPingFails,
         UploadCount, WipeData
<1>3. sent \cap Range(nvsBatch) = sent' \cap Range(nvsBatch)
  <2>1. sent' = sent \/ sent' = sent \cap Batches
    BY DEF SampleStore, SampleNotStored, SampleCount, UploadRead,
           UploadPingFails, UploadCount, WipeData
  <2>2. Range(nvsBatch) \subseteq Batches
    BY DEF Batches, ToSet, Range
  <2> QED
    BY <2>1, <2>2
<1> QED
  BY <1>1, <1>2, <1>3, Volatile DEF Stutter

LEMMA PublishDelivers == DeliveryInv /\ UploadPublish => Queue!Deliver
<1> SUFFICES ASSUME DeliveryInv, UploadPublish PROVE Queue!Deliver
  OBVIOUS
<1> USE DEF DeliveryInv, CursorInv, TypeOK, Goto, UploadPublish, flash
<1>1. /\ pc = "read" /\ pc' = "sent" /\ op = "upload" /\ op' = "upload"
      /\ sent' = sent \cup {buf}
      /\ nvsCfg' = nvsCfg /\ nvsBatch' = nvsBatch
  BY DEF DeliveryConditions, Steps
<1>2. /\ DurableBatch = nvsBatch /\ DurableBatch' = nvsBatch
      /\ DurableCfg = Load /\ DurableCfg' = Load
  BY <1>1, Volatile
<1>3. /\ nvsBatch = batch /\ Load.uploaded = cfg.uploaded
      /\ cfg.uploaded \in Nat
  BY <1>1 DEF OneStepAhead, SameProgress, Config, Word
<1>4. /\ cfg.uploaded + 1 \in DOMAIN batch /\ buf = batch[cfg.uploaded + 1]
  BY <1>1 DEF Delivered, ReadsNextRecord
<1>5. cfg.uploaded < Len(batch) /\ buf \in Range(nvsBatch)
  BY <1>3, <1>4, LenProperties DEF Range
<1>6. sent' \cap Range(nvsBatch) = (sent \cap Range(nvsBatch)) \cup {buf}
  BY <1>1, <1>5
<1> QED
  BY <1>1, <1>2, <1>3, <1>4, <1>5, <1>6 DEF Queue!Deliver

LEMMA ReceiveReconfigures ==
    ASSUME NEW m \in Messages, DeliveryInv, Receive(m)
    PROVE  Queue!Reconfigure
<1> USE DEF DeliveryInv, Goto, Receive, flash
<1>1. /\ pc = "idle" /\ pc' # "write" /\ op # "update" /\ op' = "update"
      /\ nvsCfg' = nvsCfg /\ nvsBatch' = nvsBatch /\ sent' = sent
  BY DEF Steps
<1>2. /\ DurableBatch = nvsBatch /\ DurableBatch' = nvsBatch
      /\ DurableCfg = Load /\ DurableCfg' = Load
  BY <1>1, Volatile
<1> QED
  BY <1>1, <1>2 DEF Queue!Reconfigure

\* The delete of a save makes durable what the operation did.
LEMMA SaveCommits ==
    ASSUME DeliveryInv, SaveDelete
    PROVE  Queue!Next \/ Stutter
<1> USE DEF DeliveryInv, CursorInv, TypeOK, Goto, SaveDelete
<1>1. /\ pc = "save" /\ pc' = "write" /\ op' = op
      /\ UNCHANGED <<cfg, batch, sent>>
      /\ op \in {"sample", "upload", "update"}
  BY DEF Steps, Ops
<1>2. /\ DurableBatch = nvsBatch /\ DurableBatch' = batch
      /\ DurableCfg = Load /\ DurableCfg' = cfg
  BY <1>1 DEF DurableBatch, DurableCfg
<1>3. sent \cap Range(<<>>) = {}
  BY DEF Range
<1>4. CASE op = "sample"
  <2>1. PICK r \in Samples :
           /\ r \notin sent /\ r \notin Range(nvsBatch)
           /\ batch = Append(nvsBatch, r)
           /\ cfg.uploaded \in {Load.uploaded, 0}
    BY <1>1, <1>4 DEF OneStepAhead, SampleAhead
  <2>2. sent \cap Range(batch) = sent \cap Range(nvsBatch)
    <3>1. /\ Len(batch) = Len(nvsBatch) + 1 /\ Len(nvsBatch) \in Nat
          /\ \A i \in 1 .. Len(nvsBatch) : batch[i] = nvsBatch[i]
          /\ batch[Len(nvsBatch) + 1] = r
      BY <2>1, AppendProperties, LenProperties
    <3>2. /\ DOMAIN batch = 1 .. Len(nvsBatch) + 1
          /\ DOMAIN nvsBatch = 1 .. Len(nvsBatch)
      BY <3>1, LenProperties
    <3>3. Range(batch) = Range(nvsBatch) \cup {r}
      <4>1. \A i \in 1 .. Len(nvsBatch) + 1 :
                i \in 1 .. Len(nvsBatch) \/ i = Len(nvsBatch) + 1
        BY <3>1
      <4>2. Len(nvsBatch) + 1 \in DOMAIN batch
            /\ 1 .. Len(nvsBatch) \subseteq 1 .. Len(nvsBatch) + 1
        BY <3>1, <3>2
      <4> QED
        BY <3>1, <3>2, <4>1, <4>2 DEF Range
    <3> QED
      BY <2>1, <3>3
  <2>3. Queue!Put(r)
    BY <1>1, <1>2, <2>1, <2>2 DEF Queue!Put, Queue!Range, Range
  <2> QED
    BY <2>3 DEF Queue!Next
<1>5. CASE op = "upload"
  <2>1. UploadAhead
    BY <1>1, <1>5 DEF OneStepAhead
  <2>2. /\ Load.uploaded \in Nat /\ Len(nvsBatch) \in Nat
        /\ DOMAIN nvsBatch = 1 .. Len(nvsBatch)
    BY LenProperties, DefaultConfigType DEF Load, Config, Word
  <2>3. Load.uploaded + 1 \in DOMAIN nvsBatch
    BY <2>1, <2>2 DEF UploadAhead
  <2>4. CASE batch = nvsBatch /\ cfg.uploaded = Load.uploaded + 1
    <3>1. Queue!Advance
      BY <1>1, <1>2, <2>1, <2>3, <2>4 DEF UploadAhead, Queue!Advance, Range
    <3> QED
      BY <3>1 DEF Queue!Next
  <2>5. CASE Reset /\ Load.uploaded + 1 = Len(nvsBatch)
    <3>1. \A i \in 1 .. Load.uploaded : nvsBatch[i] \in sent
      BY <2>2 DEF Delivered, UploadedWereSent, Load, DefaultConfig
    <3>2. Range(nvsBatch) \subseteq sent
      BY <2>1, <2>2, <2>5, <3>1, LastRecord DEF UploadAhead
    <3>3. nvsBatch # <<>>
      BY <2>2, <2>5
    <3>4. Queue!Finish
      BY <1>1, <1>2, <1>3, <2>5, <3>2, <3>3
         DEF Queue!Finish, Queue!Empty, Queue!Range, Range, Reset
    <3> QED
      BY <3>4 DEF Queue!Next
  <2> QED
    BY <2>1, <2>4, <2>5 DEF UploadAhead
<1>6. CASE op = "update"
  <2>1. SameProgress \/ Reset
    BY <1>1, <1>6 DEF OneStepAhead
  <2>2. CASE SameProgress
    BY <1>1, <1>2, <2>2 DEF SameProgress, Stutter
  <2>3. CASE Reset
    <3>1. Queue!Discard
      BY <1>1, <1>2, <1>3, <1>6, <2>3 DEF Queue!Discard, Queue!Empty, Reset
    <3> QED
      BY <3>1 DEF Queue!Next
  <2> QED
    BY <2>1, <2>2, <2>3
<1> QED
  BY <1>1, <1>4, <1>5, <1>6

\* The write of a save and a restart end a reconfiguration, if there was one.
LEMMA OperationEnds ==
    ASSUME DeliveryInv, SaveWrite \/ Reboot
    PROVE  Queue!Reconfigure \/ Stutter
<1> USE DEF DeliveryInv, CursorInv, TypeOK, Goto, Release, flash
<1>1. op' = "none" /\ sent' = sent
  BY DEF SaveWrite, Reboot
<1>2. DurableBatch' = DurableBatch /\ DurableCfg' = DurableCfg
  <2>1. CASE SaveWrite
    <3>1. nvsCfg' = cfg /\ nvsBatch' = batch /\ pc = "write" /\ pc' = "idle"
      BY <2>1 DEF SaveWrite
    <3>2. Load' = cfg
      BY <3>1, DistinctAssumption DEF Load
    <3> QED
      BY <3>1, <3>2 DEF DurableBatch, DurableCfg
  <2>2. CASE Reboot
    <3>1. pc # "write" /\ pc' = "idle" /\ nvsCfg' = nvsCfg /\ nvsBatch' = nvsBatch
      BY <2>2 DEF DeliveryConditions, Reboot, BetweenSteps
    <3> QED
      BY <3>1, Volatile
  <2> QED
    BY <2>1, <2>2
<1>3. CASE op = "update"
  BY <1>1, <1>2, <1>3 DEF Queue!Reconfigure
<1>4. CASE op # "update"
  BY <1>1, <1>2, <1>4 DEF Stutter
<1> QED
  BY <1>3, <1>4

\* Bulk upload implements the durable queue: no restart between two steps, no
\* failed store, lost session or missing ping answer and no configuration
\* message, in whatever order they come, loses a record of the batch.
THEOREM QueueImplemented ==
    ASSUME DeliveryConditions PROVE Spec => DurableQueue
<1>1. Init => Queue!Init
  BY DEF Init, Queue!Init, DurableBatch, DurableCfg, Load, DefaultConfig, Range
<1>2. DeliveryInv /\ [Next]_vars => [Queue!Next]_(Queue!vars)
  <2> SUFFICES ASSUME DeliveryInv, [Next]_vars
               PROVE  Queue!Next \/ Stutter
    BY DEF Queue!vars, Stutter
  <2>1. CASE UNCHANGED vars
    BY <2>1 DEF vars, Stutter, DurableBatch, DurableCfg, Load
  <2>2. ~ SaveDeleteFails /\ ~ SaveWriteFails
    BY DEF DeliveryInv, DeliveryConditions, SaveDeleteFails, SaveWriteFails
  <2>3. Queue!Deliver \/ Queue!Reconfigure => Queue!Next
    BY DEF Queue!Next
  <2> QED
    BY <2>1, <2>2, <2>3, StutterSteps, PublishDelivers, ReceiveReconfigures,
       SaveCommits, OperationEnds DEF Next, EnvWork, Continue
<1> QED
  BY <1>1, <1>2, InitDelivery, NextDelivery, PTL DEF Spec, DurableQueue, Queue!Spec
=============================================================================
