--------------------------- MODULE PayloadProofs ---------------------------
(***************************************************************************)
(* What a payload is made of, for every value of the constants: the key it *)
(* is signed with (DeviceKeys), the day its time stamp counts to           *)
(* (ModemClock), and the record its measurements come from (PayloadCodec). *)
(*                                                                         *)
(* Keys.  Neither property is inductive: that a record and the slot belong *)
(* together is needed where a start ends by decrypting, and is broken for  *)
(* a while whenever a start replaces the slot.  InStart says that a start  *)
(* which can read the record replaces it only while it is not a lasting    *)
(* one, and what the start holds until the save.                           *)
(*                                                                         *)
(* Clock and codec.  Both are sums in disguise.  The table of the days     *)
(* before each month, the record up to each field and the cursor at each   *)
(* field are functions defined by themselves; each is unrolled by showing  *)
(* one function that solves its definition, and compared with the others   *)
(* field by field or month by month.                                       *)
(***************************************************************************)
EXTENDS DeviceKeys, PayloadCodec, ModemClock, SequenceTheorems,
        WellFoundedInduction, TLAPS

-----------------------------------------------------------------------------
(* The keys *)

Making == {"generate", "provision", "encrypt", "save"}

\* A record is absent or carries one pair and the key it is encrypted with.
WholeRecord ==
    \/ flash = NoRecord
    \/ /\ flash.pub \in Pairs
       /\ flash.sealed = flash.pub
       /\ flash.under \in AesKeys

\* A record a start relies on can be decrypted with the slot.
Readable == flash.pub \in Pairs /\ flash.under = kmu

LastingReadable == flash.crc = "other" => Readable \/ spoiled

InStart ==
    /\ pc \in Making => blind \/ flash.crc = "zero"
    /\ pc \in {"provision", "encrypt", "save"} => pair \in Pairs
    /\ pc \in {"encrypt", "save"} => aes \in AesKeys /\ kmu = aes
    /\ pc = "decrypt" => Readable \/ unsaved \/ spoiled

IInv ==
    /\ TypeOK
    /\ WholeRecord
    /\ LastingReadable
    /\ InStart
    /\ KeyPairMatches

LEMMA InitIInv == Init => IInv
<1> SUFFICES ASSUME Init PROVE IInv
    OBVIOUS
<1>1. NoRecord \in Record /\ NoRecord.crc # "other"
    BY DEF NoRecord, Record
<1>2. TypeOK
    BY <1>1 DEF Init, TypeOK, Steps
<1>3. WholeRecord /\ LastingReadable /\ InStart
    BY <1>1 DEF Init, WholeRecord, LastingReadable, InStart, Making
<1> QED
    BY <1>2, <1>3 DEF Init, IInv, KeyPairMatches

LEMMA StartStep == IInv /\ Start => IInv'
<1> SUFFICES ASSUME IInv, Start PROVE IInv'
    OBVIOUS
<1> USE DEF Start
<1>1. flash.crc \in {"zero", "other"}
    BY DEF IInv, TypeOK, Record
<1>2. pc' \in {"decrypt", "generate"}
    OBVIOUS
<1>3. TypeOK'
    BY <1>2 DEF IInv, TypeOK, Steps
<1>4. (WholeRecord /\ LastingReadable)'
    BY DEF IInv, WholeRecord, LastingReadable, Readable
<1>5. InStart'
    BY <1>1, <1>2 DEF IInv, InStart, Making, LastingReadable, Readable, Valid
<1> QED
    BY <1>2, <1>3, <1>4, <1>5 DEF IInv, KeyPairMatches

LEMMA FailStep == IInv /\ Fail => IInv'
BY DEF IInv, Fail, ram, TypeOK, WholeRecord, LastingReadable, Readable, InStart,
       Making, KeyPairMatches

LEMMA GenerateStep == IInv /\ Generate => IInv'
BY DEF IInv, Generate, TypeOK, Steps, WholeRecord, LastingReadable, Readable,
       InStart, Making, KeyPairMatches

\* The slot may be replaced: nothing lasting is in flash, or the start cannot
\* see it and has spoiled it.
LEMMA ProvisionStep == IInv /\ (Provision \/ ProvisionFails) => IInv'
<1> SUFFICES ASSUME IInv, Provision \/ ProvisionFails PROVE IInv'
    OBVIOUS
<1> USE DEF Provision, ProvisionFails
<1>1. TypeOK'
    BY DEF IInv, TypeOK, Steps
<1>2. LastingReadable'
    BY DEF IInv, LastingReadable, InStart, Making
<1>3. WholeRecord'
    BY DEF IInv, WholeRecord
<1>4. InStart'
    BY DEF IInv, TypeOK, InStart, Making
<1> QED
    BY <1>1, <1>2, <1>3, <1>4 DEF IInv, KeyPairMatches

LEMMA EncryptStep == IInv /\ Encrypt => IInv'
BY DEF IInv, Encrypt, ram, TypeOK, Steps, WholeRecord, LastingReadable, Readable,
       InStart, Making, KeyPairMatches

LEMMA SaveStep == IInv /\ Save => IInv'
<1> SUFFICES ASSUME IInv, Save PROVE IInv'
    OBVIOUS
<1>1. PICK c \in {"zero", "other"} :
        flash' = [pub |-> pair, sealed |-> pair, under |-> aes, crc |-> c]
    BY DEF Save
<1>2. pair \in Pairs /\ aes \in AesKeys /\ kmu = aes
    BY DEF IInv, InStart, Save
<1>3. flash' \in Record
    BY <1>1, <1>2 DEF Record
<1>4. WholeRecord' /\ Readable'
    BY <1>1, <1>2 DEF Save, WholeRecord, Readable
<1>5. TypeOK'
    BY <1>3 DEF IInv, TypeOK, Steps, Save, ram
<1>6. InStart'
    BY <1>4 DEF IInv, InStart, Making, Save, ram
<1> QED
    BY <1>4, <1>5, <1>6 DEF IInv, LastingReadable, KeyPairMatches, Save

LEMMA SaveFailsStep == IInv /\ SaveFails => IInv'
BY DEF IInv, SaveFails, TypeOK, Steps, WholeRecord, LastingReadable, Readable,
       InStart, Making, KeyPairMatches

LEMMA DecryptStep == IInv /\ Decrypt => IInv'
<1> SUFFICES ASSUME IInv, Decrypt PROVE IInv'
    OBVIOUS
<1>1. priv' \in Pairs \cup {NoKey}
    BY DEF Decrypt, Decrypted, IInv, TypeOK, Record
<1>2. TypeOK'
    BY <1>1 DEF IInv, TypeOK, Decrypt
<1>3. KeyPairMatches'
  <2> SUFFICES ASSUME ~ unsaved, ~ unread', ~ spoiled PROVE Matches'
      BY DEF KeyPairMatches, Decrypt
  <2>1. Readable
      BY DEF IInv, InStart, Decrypt
  <2>2. flash.sealed = flash.pub
      BY DEF IInv, WholeRecord, NoRecord
  <2>3. priv' = flash.pub /\ flash' = flash
      BY <2>1, <2>2 DEF Decrypt, Decrypted, Readable
  <2>4. flash.pub # NoKey
      BY <2>1, KeysAssumption DEF Readable
  <2> QED
      BY <2>3, <2>4 DEF Matches
<1>4. (WholeRecord /\ LastingReadable)'
    BY DEF IInv, Decrypt, WholeRecord, LastingReadable, Readable
<1>5. InStart'
    BY DEF Decrypt, InStart, Making
<1> QED
    BY <1>2, <1>3, <1>4, <1>5 DEF IInv

LEMMA PowerFailsStep == IInv /\ PowerFails => IInv'
<1> SUFFICES ASSUME IInv, PowerFails PROVE IInv'
    OBVIOUS
<1> USE DEF PowerFails
<1>1. TypeOK'
    BY DEF IInv, TypeOK
<1>2. (WholeRecord /\ LastingReadable)'
    BY DEF IInv, WholeRecord, LastingReadable, Readable
<1>3. (InStart /\ KeyPairMatches)'
    BY DEF InStart, Making, KeyPairMatches
<1> QED
    BY <1>1, <1>2, <1>3 DEF IInv

LEMMA NextIInv == IInv /\ [Next]_vars => IInv'
<1> SUFFICES ASSUME IInv, [Next]_vars PROVE IInv'
    OBVIOUS
<1>1. CASE UNCHANGED vars
    BY <1>1 DEF IInv, vars, ram, TypeOK, WholeRecord, LastingReadable, Readable,
                InStart, KeyPairMatches, Matches
<1>2. CASE Next
    BY <1>2, StartStep, FailStep, GenerateStep, ProvisionStep, EncryptStep,
       SaveStep, SaveFailsStep, DecryptStep, PowerFailsStep DEF Next
<1> QED
    BY <1>1, <1>2

LEMMA Always == Spec => []IInv
BY InitIInv, NextIInv, PTL DEF Spec

\* The variables keep their types.
THEOREM TypeCorrect == Spec => []TypeOK
<1>1. IInv => TypeOK
    BY DEF IInv
<1> QED
    BY <1>1, Always, PTL

\* Wherever power fails and whatever call fails, a device that is up signs
\* with the key of its record, except in a start that could not save the record
\* or read it back, and with a record that a blind start has spoiled
\* (ecdsa.c:41-155).
THEOREM KeysMatch == Spec => []KeyPairMatches
<1>1. IInv => KeyPairMatches
    BY DEF IInv
<1> QED
    BY <1>1, Always, PTL

\* A record that holds is replaced only in a start that could not read it:
\* only Save writes the record, and it comes after a check (ecdsa.c:109-143).
THEOREM IdentityNotReplaced == Spec => IdentityKept
<1>1. IInv /\ [Next]_vars
        => [flash.crc # "zero" /\ flash'.pub # flash.pub => blind]_vars
  <2> SUFFICES ASSUME IInv, Next, flash' # flash PROVE flash.crc = "zero" \/ blind
      BY DEF vars
  <2>1. pc = "save"
      BY DEF Next, Start, Fail, Generate, Provision, ProvisionFails, Encrypt, Save,
             SaveFails, Decrypt, PowerFails
  <2> QED
      BY <2>1 DEF IInv, InStart, Making
<1> QED
    BY <1>1, Always, PTL DEF Spec, IdentityKept

-----------------------------------------------------------------------------
(* The time stamp *)

Years == 2000 .. 2099
Months == 1 .. 12

February(y) == IF isLeap(y) THEN 29 ELSE 28

\* The days up to the end of each month.
UpTo(y) ==
    <<31, 31 + February(y), 62 + February(y), 92 + February(y),
      123 + February(y), 153 + February(y), 184 + February(y),
      215 + February(y), 245 + February(y), 276 + February(y),
      306 + February(y), 337 + February(y)>>

LEMMA FebruaryLength == ASSUME NEW y PROVE February(y) \in {28, 29}
BY DEF February

\* The loop computes those sums: its table is the only one it can end with.
LEMMA AccumulatedTable ==
    ASSUME NEW y
    PROVE  /\ Accumulated(y)[0] = 0
           /\ \A m \in Months : Accumulated(y)[m] = UpTo(y)[m]
<1> DEFINE Entry(t, i) == IF i = 0 THEN 0 ELSE t[i - 1] + daysPerMonth(y)[i]
           table == [i \in 0 .. 12 |-> IF i = 0 THEN 0 ELSE UpTo(y)[i]]
           days == Accumulated(y)
<1>1. \A i \in 1 .. 12 : table[i] = table[i - 1] + daysPerMonth(y)[i]
  BY FebruaryLength DEF UpTo, daysPerMonth, February
<1>2. table = [i \in 0 .. 12 |-> Entry(table, i)]
  BY <1>1
<1> HIDE DEF table
<1>3. days = [i \in 0 .. 12 |-> Entry(days, i)]
  BY <1>2 DEF Accumulated
<1> HIDE DEF days
<1>4. days[0] = 0 /\ \A i \in 1 .. 12 : days[i] = days[i - 1] + daysPerMonth(y)[i]
  BY <1>3
<1>5. days[0] = 0 /\ \A m \in 1 .. 12 : days[m] = UpTo(y)[m]
  BY <1>4, FebruaryLength DEF UpTo, daysPerMonth, February
<1> QED
  BY <1>5 DEF days, Months

\* In the years of the modem the two rules for leap years agree.
LEMMA LeapYears ==
    ASSUME NEW y \in Years
    PROVE  February(y) = MonthLength(y, 2)
BY DEF isLeap, Years, February, MonthLength

LEMMA MonthLengthType ==
    ASSUME NEW y, NEW m
    PROVE  MonthLength(y, m) \in 28 .. 31
BY DEF MonthLength

\* The days of a year, as the calendar of the modem has them.
YearLength(y) == 337 + MonthLength(y, 2)

\* From one month to the next the table grows by the length of the month.
LEMMA MonthByMonth ==
    ASSUME NEW y \in Years, NEW m \in Months
    PROVE  /\ Accumulated(y)[m] = Accumulated(y)[m - 1] + MonthLength(y, m)
           /\ Accumulated(y)[m] \in Nat
           /\ Accumulated(y)[m - 1] \in Nat
<1>1. UpTo(y)[1] = MonthLength(y, 1)
  BY DEF UpTo, MonthLength
<1>2. \A i \in 2 .. 12 : UpTo(y)[i] = UpTo(y)[i - 1] + MonthLength(y, i)
  BY LeapYears, FebruaryLength DEF UpTo, MonthLength
<1>3. \A i \in Months : UpTo(y)[i] \in Nat
  BY FebruaryLength DEF UpTo, Months
<1>4. CASE m = 1
  BY <1>1, <1>3, <1>4, AccumulatedTable, MonthLengthType DEF Months
<1>5. CASE m \in 2 .. 12
  <2>1. m - 1 \in Months
    BY <1>5 DEF Months
  <2> QED
    BY <1>2, <1>3, <1>5, <2>1, AccumulatedTable
<1> QED
  BY <1>4, <1>5 DEF Months

\* The last entry of the table is the length of the year.
LEMMA WholeYear ==
    ASSUME NEW y \in Years
    PROVE  Accumulated(y)[12] = YearLength(y)
<1>1. UpTo(y)[12] = YearLength(y)
  BY LeapYears DEF UpTo, YearLength
<1> QED
  BY <1>1, AccumulatedTable DEF Months

\* What the formula adds for the years before.
YearStart(y) ==
    (y - 1900 - 70) * 365 + (y - 1900 - 69) \div 4
        - (y - 1900 - 1) \div 100 + (y - 1900 + 299) \div 400

\* From one year to the next that is the length of the year.
LEMMA YearByYear ==
    ASSUME NEW y \in Years, y + 1 \in Years
    PROVE  YearStart(y + 1) = YearStart(y) + YearLength(y)
<1>1. y \in 2000 .. 2098
  BY DEF Years
<1>2. /\ (y + 1 - 1900 - 1) \div 100 = 1
      /\ (y - 1900 - 1) \div 100 = IF y = 2000 THEN 0 ELSE 1
  BY <1>1
<1>3. /\ (y + 1 - 1900 + 299) \div 400 = 1
      /\ (y - 1900 + 299) \div 400 = IF y = 2000 THEN 0 ELSE 1
  BY <1>1
<1>4. (y + 1 - 1900 - 69) \div 4
          = (y - 1900 - 69) \div 4 + IF y % 4 = 0 THEN 1 ELSE 0
  BY <1>1
<1> QED
  BY <1>1, <1>2, <1>3, <1>4 DEF YearStart, YearLength, MonthLength

LEMMA YearStartType == ASSUME NEW y \in Years PROVE YearStart(y) \in Int
BY DEF Years, YearStart

\* The formula, in these terms.
LEMMA EpochDayIs ==
    ASSUME NEW y \in Years, NEW m \in Months, NEW d \in Nat
    PROVE  EpochDay(y, m, d) = Accumulated(y)[m - 1] + d - 1 + YearStart(y)
<1>1. Accumulated(y)[m - 1] \in Nat /\ YearStart(y) \in Int
  BY MonthByMonth, YearStartType
<1> QED
  BY <1>1 DEF EpochDay, YearStart, Years

LEMMA DayAfterDay ==
    ASSUME NEW y \in Years, NEW m \in Months, NEW d \in Nat
    PROVE  EpochDay(y, m, d + 1) = EpochDay(y, m, d) + 1
<1>1. Accumulated(y)[m - 1] \in Nat /\ YearStart(y) \in Int
  BY MonthByMonth, YearStartType
<1> QED
  BY <1>1, EpochDayIs

\* From the last day of a month to the first of the next it adds one.
LEMMA MonthAfterMonth ==
    ASSUME NEW y \in Years, NEW m \in Months, m + 1 \in Months
    PROVE  EpochDay(y, m + 1, 1) = EpochDay(y, m, MonthLength(y, m)) + 1
<1>1. MonthLength(y, m) \in Nat /\ m \in Nat /\ m + 1 - 1 = m
  BY MonthLengthType DEF Months
<1>2. /\ Accumulated(y)[m] = Accumulated(y)[m - 1] + MonthLength(y, m)
      /\ Accumulated(y)[m - 1] \in Nat /\ YearStart(y) \in Int
  BY MonthByMonth, YearStartType
<1>3. EpochDay(y, m + 1, 1) = Accumulated(y)[m] + YearStart(y)
  BY <1>1, <1>2 DEF EpochDay, YearStart, Years
<1>4. EpochDay(y, m, MonthLength(y, m))
          = Accumulated(y)[m - 1] + MonthLength(y, m) - 1 + YearStart(y)
  BY <1>1, EpochDayIs
<1> QED
  BY <1>1, <1>2, <1>3, <1>4

\* From the last day of a year to the first of the next it adds one.
LEMMA YearAfterYear ==
    ASSUME NEW y \in Years, y + 1 \in Years
    PROVE  EpochDay(y + 1, 1, 1) = EpochDay(y, 12, 31) + 1
<1>1. 1 \in Months /\ 12 \in Months /\ 12 - 1 = 11 /\ 1 - 1 = 0
  BY DEF Months
<1>2. /\ Accumulated(y)[12] = Accumulated(y)[12 - 1] + 31
      /\ Accumulated(y)[12 - 1] \in Nat
  BY <1>1, MonthByMonth DEF MonthLength
<1>3. /\ Accumulated(y)[12] = YearLength(y)
      /\ Accumulated(y + 1)[0] = 0
  BY WholeYear, AccumulatedTable
<1>4. YearStart(y) \in Int /\ YearStart(y + 1) \in Int
  BY YearStartType
<1>5. EpochDay(y + 1, 1, 1)
          = Accumulated(y + 1)[1 - 1] + 1 - 1 + YearStart(y + 1)
  BY <1>1, EpochDayIs
<1>6. EpochDay(y, 12, 31) = Accumulated(y)[12 - 1] + 31 - 1 + YearStart(y)
  BY <1>1, EpochDayIs
<1> QED
  BY <1>1, <1>2, <1>3, <1>4, <1>5, <1>6, YearByYear

\* 1 January 2000.
LEMMA FirstDay == EpochDay(2000, 1, 1) = Before2000
<1>1. 2000 \in Years /\ 1 \in Months /\ 1 - 1 = 0
  BY DEF Years, Months
<1>2. EpochDay(2000, 1, 1) = Accumulated(2000)[1 - 1] + 1 - 1 + YearStart(2000)
  BY <1>1, EpochDayIs
<1> QED
  BY <1>1, <1>2, AccumulatedTable DEF YearStart, Before2000

\* The modem answers with a day that exists.
OnCalendar ==
    /\ year \in Century
    /\ month \in Months
    /\ day \in 1 .. MonthLength(year, month)
    /\ since \in Nat

ClockInv == OnCalendar /\ EpochCountsDays

\* The calendar starts on its first day.
LEMMA ClockStarts == ClockInit => ClockInv
<1>1. 1 \in 1 .. MonthLength(2000, 1) /\ 1 \in Months
  BY MonthLengthType DEF Months
<1> QED
  BY <1>1, FirstDay, CenturyAssumption
     DEF ClockInit, ClockInv, OnCalendar, EpochCountsDays, Before2000

\* Every step of the calendar is one day of the formula.
LEMMA ClockSteps == ClockInv /\ [ClockNext]_clock => ClockInv'
<1> SUFFICES ASSUME ClockInv, [ClockNext]_clock PROVE ClockInv'
  OBVIOUS
<1>1. /\ year \in Years /\ month \in Months /\ day \in Nat /\ since \in Nat
      /\ MonthLength(year, month) \in 28 .. 31
      /\ day \in 1 .. MonthLength(year, month)
      /\ year \in Century
      /\ EpochDay(year, month, day) = Before2000 + since
  BY CenturyAssumption, MonthLengthType
     DEF ClockInv, OnCalendar, EpochCountsDays, Years
<1>2. Before2000 \in Nat
  BY DEF Before2000
<1>3. SUFFICES /\ year' \in Century /\ month' \in Months
               /\ day' \in 1 .. MonthLength(year', month')
               /\ since' \in Nat
               /\ EpochDay(year', month', day') = Before2000 + since'
  BY DEF ClockInv, OnCalendar, EpochCountsDays, Before2000
<1>4. CASE NextDay
  <2>1. EpochDay(year, month, day + 1) = EpochDay(year, month, day) + 1
    BY <1>1, DayAfterDay
  <2> QED
    BY <1>1, <1>2, <1>4, <2>1 DEF NextDay
<1>5. CASE NextMonth
  <2>1. month + 1 \in Months /\ day = MonthLength(year, month)
    BY <1>1, <1>5 DEF NextMonth, Months
  <2>2. EpochDay(year, month + 1, 1) = EpochDay(year, month, day) + 1
    BY <1>1, <2>1, MonthAfterMonth
  <2>3. 1 \in 1 .. MonthLength(year, month + 1)
    BY MonthLengthType
  <2> QED
    BY <1>1, <1>2, <1>5, <2>1, <2>2, <2>3 DEF NextMonth
<1>6. CASE NextYear
  <2>1. 1 \in 1 .. MonthLength(year', 1) /\ 1 \in Months
    BY MonthLengthType DEF Months
  <2>2. month = 12 /\ day = 31
    BY <1>6 DEF NextYear, MonthLength
  <2>3. CASE year + 1 \in Century
    <3>1. Century \subseteq Years
      BY CenturyAssumption DEF Years
    <3>2. EpochDay(year + 1, 1, 1) = EpochDay(year, 12, 31) + 1
      BY <1>1, <2>3, <3>1, YearAfterYear
    <3> QED
      BY <1>1, <1>2, <1>6, <2>1, <2>2, <2>3, <3>2 DEF NextYear
  <2>4. CASE year + 1 \notin Century
    BY <1>2, <1>6, <2>1, <2>4, FirstDay, CenturyAssumption DEF NextYear
  <2> QED
    BY <2>3, <2>4
<1>7. CASE UNCHANGED clock
  BY <1>1, <1>7 DEF clock
<1> QED
  BY <1>4, <1>5, <1>6, <1>7 DEF ClockNext

\* On every day the modem can answer, whatever span of years that is, the
\* number the code computes is the number of days since 1970
\* (modem_helper.c:69-97).
THEOREM DaysCounted == ClockSpec => []EpochCountsDays
BY ClockStarts, ClockSteps, PTL DEF ClockSpec, ClockInv

-----------------------------------------------------------------------------
(* The record *)

\* Induction up to n, over a set of numbers.
LEMMA AllUpTo ==
    ASSUME NEW n \in Nat, NEW P \in SUBSET (1 .. n),
           n > 0 => 1 \in P,
           \A k \in P : k < n => k + 1 \in P
    PROVE  P = 1 .. n
<1> DEFINE R == OpToRel(<, Nat)
           Bad == (1 .. n) \ P
<1>1. \A a, b \in Nat : a < b => <<a, b>> \in R
  BY Zenon DEF OpToRel
<1>2. IsWellFoundedOn(R, Nat)
  BY NatLessThanWellFounded
<1> HIDE DEF R
<1> SUFFICES ASSUME Bad # {} PROVE FALSE
  OBVIOUS
<1>3. Bad \in SUBSET Nat
  OBVIOUS
<1>4. PICK x \in Bad : \A y \in Bad : ~ (<<y, x>> \in R)
  BY <1>2, <1>3, WFMin
<1>5. x - 1 \in P /\ x - 1 < n /\ x - 1 + 1 = x
  <2>1. x \in 1 .. n /\ x # 1 /\ x \notin P
    OBVIOUS
  <2>2. x - 1 \in 1 .. n /\ x - 1 < x /\ x - 1 \in Nat /\ x \in Nat
    BY <2>1
  <2>3. x - 1 \notin Bad
    BY <1>1, <1>4, <2>2
  <2> QED
    BY <2>1, <2>2, <2>3
<1> QED
  BY <1>5

\* FlattenSeq, unrolled: each sequence is appended to those before it.
Unrolled(s, n, flat) ==
    /\ flat[1] = s[1]
    /\ \A i \in 2 .. n : flat[i] = flat[i - 1] \o s[i]
    /\ FlattenSeq(s) = flat[n]

LEMMA Flattened ==
    ASSUME NEW S, NEW n \in Nat, n > 0, NEW s \in [1 .. n -> Seq(S)]
    PROVE  \E flat \in [1 .. n -> Seq(S)] : Unrolled(s, n, flat)
<1> DEFINE Step(f, i) == IF i = 1 THEN s[i] ELSE f[i - 1] \o s[i]
           Unrolls(f, k) == f = [i \in 1 .. k |-> Step(f, i)]
           Far == {k \in 1 .. n : \E f \in [1 .. k -> Seq(S)] : Unrolls(f, k)}
<1>1. 1 \in Far
  <2> DEFINE f == [i \in 1 .. 1 |-> s[1]]
  <2>1. f \in [1 .. 1 -> Seq(S)] /\ Unrolls(f, 1)
    OBVIOUS
  <2>2. 1 \in 1 .. n
    OBVIOUS
  <2> HIDE DEF f, Unrolls
  <2> QED
    BY <2>1, <2>2
<1>2. ASSUME NEW k \in Far, k < n PROVE k + 1 \in Far
  <2>1. PICK f \in [1 .. k -> Seq(S)] : Unrolls(f, k)
    OBVIOUS
  <2> DEFINE g == [i \in 1 .. k + 1 |-> IF i = k + 1 THEN f[k] \o s[i] ELSE f[i]]
  <2>2. /\ f[k] \in Seq(S) /\ s[k + 1] \in Seq(S)
        /\ f[k] \o s[k + 1] \in Seq(S)
    BY <1>2, ConcatProperties
  <2>3. g \in [1 .. k + 1 -> Seq(S)]
    BY <2>2
  <2>4. \A i \in 1 .. k : f[i] = Step(f, i)
    BY <2>1
  <2>5. ASSUME NEW i \in 1 .. k + 1 PROVE g[i] = Step(g, i)
    <3>1. CASE i = k + 1
      <4>1. k \in 1 .. n /\ k \in 1 .. k + 1 /\ i # 1 /\ i - 1 = k
        BY <3>1
      <4>2. g[i - 1] = f[k]
        BY <4>1
      <4>3. g[i] = f[k] \o s[i]
        BY <3>1
      <4>4. Step(g, i) = g[i - 1] \o s[i]
        BY <4>1
      <4> HIDE DEF g
      <4> QED
        BY <4>2, <4>3, <4>4
    <3>2. CASE i # k + 1 /\ i = 1
      <4>1. i \in 1 .. k /\ g[i] = f[i]
        BY <3>2
      <4>2. f[i] = s[i]
        BY <2>4, <3>2, <4>1
      <4> HIDE DEF g
      <4> QED
        BY <3>2, <4>1, <4>2
    <3>3. CASE i # k + 1 /\ i # 1
      <4>1. i \in 1 .. k /\ i - 1 \in 1 .. k
        BY <3>3
      <4>2. g[i] = f[i] /\ g[i - 1] = f[i - 1]
        BY <4>1
      <4> QED
        BY <2>4, <3>3, <4>1, <4>2
    <3> QED
      BY <3>1, <3>2, <3>3
  <2>6. Unrolls(g, k + 1)
    <3>1. g = [i \in 1 .. k + 1 |-> g[i]]
      OBVIOUS
    <3> HIDE DEF g
    <3> QED
      BY <2>5, <3>1
  <2>7. k + 1 \in 1 .. n
    BY <1>2
  <2> HIDE DEF g, Unrolls
  <2> QED
    BY <2>3, <2>6, <2>7
<1>3. n \in Far
  <2>1. Far \in SUBSET (1 .. n)
    OBVIOUS
  <2> HIDE DEF Far
  <2>2. Far = 1 .. n
    BY <1>1, <1>2, <2>1, AllUpTo
  <2> QED
    BY <2>2
<1> DEFINE flat == CHOOSE f : f = [i \in 1 .. n |-> Step(f, i)]
<1>4. flat = [i \in 1 .. n |-> Step(flat, i)]
  BY <1>3
<1>5. Len(s) = n
  OBVIOUS
<1>6. FlattenSeq(s) = flat[n]
  BY <1>5 DEF FlattenSeq
<1> HIDE DEF flat
<1>7. flat[1] = s[1] /\ \A i \in 2 .. n : flat[i] = flat[i - 1] \o s[i]
  <2>1. \A i \in 1 .. n : flat[i] = Step(flat, i)
    BY <1>4
  <2>2. flat[1] = s[1]
    <3>1. 1 \in 1 .. n
      OBVIOUS
    <3> QED
      BY <2>1, <3>1
  <2>3. ASSUME NEW i \in 2 .. n PROVE flat[i] = flat[i - 1] \o s[i]
    <3>1. i \in 1 .. n /\ i # 1
      OBVIOUS
    <3> QED
      BY <2>1, <3>1
  <2> QED
    BY <2>2, <2>3
<1>8. {i \in 1 .. n : flat[i] \in Seq(S)} = 1 .. n
  <2> DEFINE P == {i \in 1 .. n : flat[i] \in Seq(S)}
  <2>1. 1 \in P
    BY <1>7
  <2>2. ASSUME NEW k \in P, k < n PROVE k + 1 \in P
    <3>1. PICK i \in 2 .. n : i = k + 1 /\ i - 1 = k
      BY <2>2
    <3>2. flat[i] = flat[i - 1] \o s[i]
      BY <1>7
    <3>3. flat[i - 1] \in Seq(S) /\ s[i] \in Seq(S)
      BY <3>1
    <3>4. flat[i] \in Seq(S)
      BY <3>2, <3>3, ConcatProperties
    <3> QED
      BY <3>1, <3>4
  <2>3. P \in SUBSET (1 .. n)
    OBVIOUS
  <2> HIDE DEF P
  <2>4. P = 1 .. n
    BY <2>1, <2>2, <2>3, AllUpTo
  <2> QED
    BY <2>4 DEF P
<1>9. flat \in [1 .. n -> Seq(S)]
  BY <1>4, <1>8
<1> QED
  BY <1>6, <1>7, <1>9 DEF Unrolled


-----------------------------------------------------------------------------
\* The places of the fields in a record.
Count == Len(Fields)
Places == 1 .. Count

LEMMA FieldsAre ==
    /\ Count = 11 /\ Count \in Nat /\ Count > 0
    /\ Fields \in [Places -> Range(Fields)]
    /\ DOMAIN Fields = Places
    /\ \A f \in Range(Fields) : \E i \in Places : Fields[i] = f
    /\ \A i, j \in Places : Fields[i] = Fields[j] => i = j
    /\ Range(Fields) = Bits \ {"CUSTOM_MOTION"}
    /\ "TIME" \notin Range(Fields)
<1>1. DOMAIN Fields = Places /\ Count = 11 /\ Places = 1 .. 11
  BY DEF Fields, Places, Count
<1>2. Range(Fields) = {Fields[i] : i \in Places}
  BY <1>1 DEF Range
<1>3. \A i, j \in Places : Fields[i] = Fields[j] => i = j
  BY <1>1 DEF Fields
<1>4. {Fields[i] : i \in Places} = Bits \ {"CUSTOM_MOTION"}
  BY <1>1 DEF Fields, Bits, EnvSensor, ActionSensor
<1>5. Fields = [i \in Places |-> Fields[i]]
  BY <1>1 DEF Fields
<1>6. "TIME" \notin Bits
  BY DEF Bits, EnvSensor, ActionSensor
<1> QED
  BY <1>1, <1>2, <1>3, <1>4, <1>5, <1>6

LEMMA WidthType == ASSUME NEW f PROVE Width(f) \in 1 .. 16
BY DEF Width

\* A reading has a voltage of two bytes, cut by at most a millivolt.
LEMMA ReadingFacts ==
    ASSUME NEW r \in Readings
    PROVE  /\ r.fix \in BOOLEAN
           /\ r.vbat \in Int
           /\ r.vol \in Nat
           /\ r.vol = r.vbat \/ r.vol = r.vbat - 1
           /\ r.vol % 256 \in Octet
           /\ r.vol \div 256 \in Octet
<1>1. PICK v \in Voltages : r \in [fix : BOOLEAN, vbat : {v}, vol : Cut(v)]
  BY DEF Readings
<1>2. v \in Int /\ v >= 0 /\ v <= 9999
  <2>1. v \in Millivolts
    BY CodecAssumption
  <2> QED
    BY <2>1 DEF Millivolts
<1>3. r.fix \in BOOLEAN /\ r.vbat = v /\ r.vol \in Cut(v)
  BY <1>1
<1>4. r.vol \in Nat /\ (r.vol = v \/ r.vol = v - 1)
  BY <1>3 DEF Cut
<1> DEFINE m == r.vol
<1>5. m \in Int /\ m >= 0 /\ m <= 9999
  BY <1>2, <1>4
<1> HIDE DEF m
<1>6. /\ m % 256 \in Int /\ 0 <= m % 256 /\ m % 256 <= 255
      /\ m \div 256 \in Int /\ 0 <= m \div 256 /\ m \div 256 <= 255
  BY <1>5
<1>7. m % 256 \in Octet /\ m \div 256 \in Octet
  BY <1>6 DEF Octet
<1> QED
  BY <1>2, <1>3, <1>4, <1>7 DEF m

\* The bytes of the fields, none of which is one of the time stamp.
FieldBytes == (Range(Fields) \X Octet) \cup {Blank}

LEMMA FieldBytesFacts ==
    /\ FieldBytes \subseteq Bytes
    /\ Byte("TIME", 1) \notin FieldBytes
    /\ Byte("TIME", 1) # Unset
BY FieldsAre DEF FieldBytes, Bytes, Byte, Blank, Unset

LEMMA ByteType ==
    ASSUME NEW f \in Range(Fields), NEW i \in Octet
    PROVE  Byte(f, i) \in FieldBytes
BY DEF Byte, FieldBytes

LEMMA PlaceIsOctet == ASSUME NEW f, NEW i \in 1 .. Width(f) PROVE i \in Octet
BY WidthType DEF Octet

\* The bytes of a value.

LEMMA ValueFacts ==
    ASSUME NEW f \in Range(Fields), NEW r \in Readings
    PROVE  Value(f, r) \in Seq(FieldBytes) /\ Len(Value(f, r)) = Width(f)
<1>1. CASE f = "VBAT"
  <2>1. Value(f, r) = <<Byte(f, r.vol % 256), Byte(f, r.vol \div 256)>>
    BY <1>1 DEF Value
  <2> DEFINE low == Byte(f, r.vol % 256)
             high == Byte(f, r.vol \div 256)
  <2>2. low \in FieldBytes /\ high \in FieldBytes
    <3> DEFINE i == r.vol % 256
               j == r.vol \div 256
    <3>1. i \in Octet /\ j \in Octet
      BY ReadingFacts
    <3> HIDE DEF i, j
    <3>2. Byte(f, i) \in FieldBytes /\ Byte(f, j) \in FieldBytes
      BY <3>1, ByteType
    <3> QED
      BY <3>2 DEF i, j
  <2>3. Width(f) = 2
    BY <1>1 DEF Width
  <2>4. Value(f, r) = <<low, high>>
    BY <2>1
  <2> HIDE DEF low, high
  <2> QED
    BY <2>2, <2>3, <2>4
<1>2. CASE f # "VBAT"
  <2>1. Value(f, r) = [i \in 1 .. Width(f) |-> Byte(f, i)]
    BY <1>2 DEF Value
  <2>2. Value(f, r) \in [1 .. Width(f) -> FieldBytes]
    BY <2>1, PlaceIsOctet, ByteType
  <2> QED
    BY <2>2, WidthType
<1> QED
  BY <1>1, <1>2

LEMMA StampFacts ==
    /\ Stamp \in Seq(Bytes) /\ Len(Stamp) = Width("TIME") /\ Len(Stamp) = 8
    /\ Stamp[1] = Byte("TIME", 1) /\ Stamp[5] # Stamp[1]
<1>1. \A i \in 1 .. Width("TIME") : Byte("TIME", i) \in Bytes
  BY PlaceIsOctet DEF Byte, Bytes
<1>2. Stamp \in [1 .. Width("TIME") -> Bytes]
  BY <1>1 DEF Stamp
<1>3. Width("TIME") = 8
  BY DEF Width
<1>4. Stamp[1] = Byte("TIME", 1) /\ Stamp[5] = Byte("TIME", 5)
  BY <1>3 DEF Stamp
<1> QED
  BY <1>2, <1>3, <1>4 DEF Byte

LEMMA NoFixFacts == NoFix \in Seq(FieldBytes) /\ Len(NoFix) = Width("GPS")
<1>1. NoFix \in [1 .. Width("GPS") -> FieldBytes]
  BY DEF NoFix, FieldBytes
<1> QED
  BY <1>1, WidthType

\* What is packed for a field.
LEMMA PackFacts ==
    ASSUME NEW ch, NEW r \in Readings, NEW f \in Range(Fields)
    PROVE  /\ Pack(f, ch, r) \in Seq(FieldBytes)
           /\ Len(Pack(f, ch, r)) = IF f \in ch THEN Width(f) ELSE 0
BY ValueFacts, NoFixFacts DEF Pack

-----------------------------------------------------------------------------
\* What a record consists of up to each of its fields.
Grown(ch, r, flat) ==
    /\ flat \in [Places -> Seq(FieldBytes)]
    /\ flat[1] = Pack(Fields[1], ch, r)
    /\ \A i \in 2 .. Count : flat[i] = flat[i - 1] \o Pack(Fields[i], ch, r)
    /\ Packed(ch, r) = flat[Count] \o Stamp

LEMMA PackedGrows ==
    ASSUME NEW ch, NEW r \in Readings
    PROVE  \E flat : Grown(ch, r, flat)
<1> DEFINE s == [i \in Places |-> Pack(Fields[i], ch, r)]
<1>0. Count \in Nat /\ Count > 0
  BY FieldsAre
<1>1. s \in [1 .. Count -> Seq(FieldBytes)]
  BY FieldsAre, PackFacts DEF Places
<1>2. Packed(ch, r) = FlattenSeq(s) \o Stamp
  BY FieldsAre DEF Packed
<1>3. \A i \in Places : s[i] = Pack(Fields[i], ch, r)
  OBVIOUS
<1> HIDE DEF s
<1>4. PICK flat \in [1 .. Count -> Seq(FieldBytes)] : Unrolled(s, Count, flat)
  BY <1>0, <1>1, Flattened
<1>5. 1 \in Places /\ \A i \in 2 .. Count : i \in Places
  BY <1>0 DEF Places
<1>6. Grown(ch, r, flat)
  BY <1>2, <1>3, <1>4, <1>5 DEF Grown, Places, Unrolled
<1> QED
  BY <1>6

\* The bytes before field i.
Before(flat, i) == IF i = 1 THEN 0 ELSE Len(flat[i - 1])

\* Each field lies behind the bytes before it.
LEMMA FieldLies ==
    ASSUME NEW ch, NEW r \in Readings, NEW flat, Grown(ch, r, flat), NEW i \in Places
    PROVE  /\ Before(flat, i) \in Nat
           /\ Len(flat[i]) = Before(flat, i) + Len(Pack(Fields[i], ch, r))
           /\ \A k \in 1 .. Len(Pack(Fields[i], ch, r)) :
                flat[i][Before(flat, i) + k] = Pack(Fields[i], ch, r)[k]
<1>0. Count \in Nat /\ i \in 1 .. Count /\ Fields[i] \in Range(Fields)
  BY FieldsAre DEF Places
<1> DEFINE p == Pack(Fields[i], ch, r)
<1>1. p \in Seq(FieldBytes)
  BY <1>0, PackFacts
<1>2. CASE i = 1
  <2>1. flat[i] = p /\ Before(flat, i) = 0
    BY <1>2 DEF Grown, Before
  <2> HIDE DEF p
  <2>2. Len(p) \in Nat /\ \A k \in 1 .. Len(p) : 0 + k = k
    BY <1>1
  <2> QED
    BY <2>1, <2>2 DEF p
<1>3. CASE i # 1
  <2>1. i \in 2 .. Count /\ i - 1 \in Places
    BY <1>0, <1>3 DEF Places
  <2>2. flat[i] = flat[i - 1] \o p /\ flat[i - 1] \in Seq(FieldBytes)
    BY <2>1 DEF Grown
  <2>3. Before(flat, i) = Len(flat[i - 1])
    BY <1>3 DEF Before
  <2> HIDE DEF p
  <2>4. /\ Len(flat[i]) = Len(flat[i - 1]) + Len(p)
        /\ \A k \in 1 .. Len(p) : flat[i][Len(flat[i - 1]) + k] = p[k]
    BY <1>1, <2>2
  <2>5. Before(flat, i) \in Nat
    BY <2>2, <2>3
  <2>6. \A k \in 1 .. Len(p) : flat[i][Before(flat, i) + k] = p[k]
    BY <2>3, <2>4
  <2> QED
    BY <2>3, <2>4, <2>5, <2>6 DEF p
<1> QED
  BY <1>2, <1>3

\* What was packed stays where it is as more fields follow.
LEMMA GrowsOnly ==
    ASSUME NEW ch, NEW r \in Readings, NEW flat, Grown(ch, r, flat), NEW i \in Places
    PROVE  /\ Len(flat[i]) <= Len(flat[Count])
           /\ \A k \in 1 .. Len(flat[i]) : flat[Count][k] = flat[i][k]
<1> DEFINE Keeps(j) == /\ Len(flat[i]) <= Len(flat[j])
                       /\ \A k \in 1 .. Len(flat[i]) : flat[j][k] = flat[i][k]
           P == {j \in 1 .. Count : j < i \/ Keeps(j)}
<1>0. Count \in Nat /\ Count > 0 /\ i \in 1 .. Count
  BY FieldsAre DEF Places
<1>1. \A j \in Places : flat[j] \in Seq(FieldBytes) /\ Len(flat[j]) \in Nat
  BY DEF Grown
<1>2. Keeps(i)
  BY <1>1
<1>3. 1 \in P
  BY <1>0, <1>2
<1>4. ASSUME NEW k \in P, k < Count PROVE k + 1 \in P
  <2>1. k + 1 \in 2 .. Count /\ k \in Places /\ k + 1 \in Places /\ (k + 1) - 1 = k
    BY <1>0, <1>4 DEF Places
  <2>2. CASE k + 1 < i \/ k + 1 = i
    BY <1>2, <2>1, <2>2 DEF Places
  <2>3. CASE k >= i
    <3>1. Keeps(k)
      BY <1>0, <2>1, <2>3
    <3> DEFINE p == Pack(Fields[k + 1], ch, r)
    <3>2. p \in Seq(FieldBytes)
      BY <2>1, FieldsAre, PackFacts
    <3>3. flat[k + 1] = flat[k] \o p
      BY <2>1 DEF Grown
    <3> HIDE DEF p
    <3>4. /\ Len(flat[k]) <= Len(flat[k + 1])
          /\ \A n \in 1 .. Len(flat[k]) : flat[k + 1][n] = flat[k][n]
      BY <1>1, <2>1, <3>2, <3>3
    <3>5. Keeps(k + 1)
      <4>1. Len(flat[i]) \in Nat /\ Len(flat[k]) \in Nat /\ Len(flat[k + 1]) \in Nat
        BY <1>1, <2>1
      <4>2. Len(flat[i]) <= Len(flat[k + 1])
        BY <3>1, <3>4, <4>1
      <4>3. ASSUME NEW n \in 1 .. Len(flat[i]) PROVE flat[k + 1][n] = flat[i][n]
        <5>1. n \in 1 .. Len(flat[k])
          BY <3>1, <4>1
        <5> QED
          BY <3>1, <3>4, <5>1
      <4> QED
        BY <4>2, <4>3
    <3> QED
      BY <2>1, <3>5 DEF Places
  <2> QED
    BY <1>0, <2>1, <2>2, <2>3
<1>5. P \in SUBSET (1 .. Count)
  OBVIOUS
<1>6. Count \in P
  <2> HIDE DEF P
  <2>1. P = 1 .. Count
    BY <1>0, <1>3, <1>4, <1>5, AllUpTo
  <2> QED
    BY <1>0, <2>1
<1> QED
  BY <1>0, <1>6

-----------------------------------------------------------------------------
(* The decoder *)

\* How far the decoder is from where the packer was when it comes to field i:
\* ahead behind the light, the eighth field, if only the humidity is selected,
\* late if only the light is.
Shift(ch, i) ==
    IF i <= 8 THEN 0
    ELSE (IF "HUMIDITY" \in ch THEN 4 ELSE 0) - (IF "LIGHT" \in ch THEN 4 ELSE 0)

LEMMA ShiftType == ASSUME NEW ch, NEW i \in Int PROVE Shift(ch, i) \in {-4, 0, 4}
BY DEF Shift

\* The decoder comes to each field that far from where the packer had come to.
LEMMA CursorFollows ==
    ASSUME NEW ch, NEW r \in Readings, NEW flat, Grown(ch, r, flat)
    PROVE  \A i \in 1 .. Count + 1 : Cursor(ch)[i] = Before(flat, i) + Shift(ch, i)
<1> DEFINE Used(i) == IF Fields[i] \in Decoded(ch) THEN Width(Fields[i]) ELSE 0
           Entry(t, i) == IF i = 1 THEN 0 ELSE t[i - 1] + Used(i - 1)
           Place(i) == Before(flat, i) + Shift(ch, i)
           table == [i \in 1 .. Count + 1 |-> Place(i)]
           at == Cursor(ch)
<1>0. Count \in Nat /\ Count > 0
  BY FieldsAre
<1>1. ASSUME NEW i \in Places PROVE Place(i + 1) = Place(i) + Used(i)
  <2> DEFINE f == Fields[i]
             size == Len(Pack(f, ch, r))
             was == Before(flat, i)
             now == Before(flat, i + 1)
             old == Shift(ch, i)
             new == Shift(ch, i + 1)
             used == Used(i)
  <2>1. f \in Range(Fields) /\ i \in Int /\ Width(f) \in Int
    BY <1>0, FieldsAre, WidthType DEF Places
  <2>2. size = IF f \in ch THEN Width(f) ELSE 0
    BY <2>1, PackFacts
  <2>3. now = was + size /\ was \in Nat
    <3>1. Len(flat[i]) = was + size /\ was \in Nat
      BY FieldLies
    <3>2. i + 1 # 1 /\ (i + 1) - 1 = i
      BY <1>0 DEF Places
    <3>3. now = Len(flat[i])
      BY <3>2 DEF Before
    <3> QED
      BY <3>1, <3>3
  <2>4. f = "LIGHT" <=> i = 8
    BY FieldsAre DEF Fields, Places
  <2>5. new = old + used - size
    <3>1. CASE i = 8
      <4>1. f = "LIGHT" /\ Width(f) = 4
        BY <2>4, <3>1 DEF Width
      <4>2. used = IF "HUMIDITY" \in ch THEN 4 ELSE 0
        BY <2>1, <4>1 DEF Decoded, Gate
      <4>3. size = IF "LIGHT" \in ch THEN 4 ELSE 0
        BY <2>2, <4>1
      <4> HIDE DEF used, size, f
      <4> QED
        BY <3>1, <4>2, <4>3 DEF Shift
    <3>2. CASE i # 8
      <4>1. f # "LIGHT"
        BY <2>4, <3>2
      <4>2. used = size
        BY <2>1, <2>2, <4>1 DEF Decoded, Gate
      <4>3. new = old /\ old \in Int /\ size \in Int
        BY <2>1, <2>2, <3>2 DEF Shift
      <4> HIDE DEF used, size, f, new, old
      <4> QED
        BY <4>2, <4>3
    <3> QED
      BY <3>1, <3>2
  <2>6. old \in Int /\ used \in Int /\ size \in Int
    BY <2>1, <2>2, ShiftType
  <2> HIDE DEF size, was, now, old, new, used
  <2>7. now + new = was + old + used
    BY <2>3, <2>5, <2>6
  <2> QED
    BY <2>7 DEF now, new, was, old, used
<1>11. Place(1) = 0
  BY DEF Before, Shift
<1> HIDE DEF Used, Place
<1>2. \A i \in 1 .. Count + 1 : table[i] = Entry(table, i)
  <2> SUFFICES ASSUME NEW i \in 1 .. Count + 1 PROVE table[i] = Entry(table, i)
    OBVIOUS
  <2>1. CASE i = 1
    BY <1>11, <2>1
  <2>2. CASE i # 1
    <3>1. i - 1 \in Places /\ i - 1 \in 1 .. Count + 1 /\ (i - 1) + 1 = i
      BY <1>0, <2>2 DEF Places
    <3>2. table[i] = Place(i) /\ table[i - 1] = Place(i - 1)
      BY <3>1
    <3>3. Place((i - 1) + 1) = Place(i - 1) + Used(i - 1)
      BY <1>1, <3>1
    <3>4. Place(i) = Place(i - 1) + Used(i - 1)
      BY <3>1, <3>3
    <3> HIDE DEF table
    <3> QED
      BY <2>2, <3>2, <3>4
  <2> QED
    BY <2>1, <2>2
<1>3. table = [i \in 1 .. Count + 1 |-> Entry(table, i)]
  <2>1. table = [i \in 1 .. Count + 1 |-> table[i]]
    OBVIOUS
  <2> HIDE DEF table
  <2> QED
    BY <1>2, <2>1
<1>4. at = CHOOSE t : t = [i \in 1 .. Count + 1 |-> Entry(t, i)]
  BY DEF Cursor, Used, Count
<1> HIDE DEF table
<1>5. at = [i \in 1 .. Count + 1 |-> Entry(at, i)]
  <2> HIDE DEF at
  <2> QED
    BY <1>3, <1>4
<1> HIDE DEF at
<1>6. \A i \in 1 .. Count + 1 : at[i] = Entry(at, i)
  BY <1>5
<1> DEFINE P == {i \in 1 .. Count + 1 : at[i] = Place(i)}
<1>7. 1 \in P
  BY <1>0, <1>6, <1>11
<1>8. ASSUME NEW k \in P, k < Count + 1 PROVE k + 1 \in P
  <2>1. k \in Places /\ k + 1 \in 1 .. Count + 1 /\ k + 1 # 1 /\ (k + 1) - 1 = k
    BY <1>0, <1>8 DEF Places
  <2>2. at[k + 1] = at[k] + Used(k)
    BY <1>6, <2>1
  <2> QED
    BY <1>1, <2>1, <2>2
<1>9. P = 1 .. Count + 1
  <2>1. P \in SUBSET (1 .. Count + 1) /\ Count + 1 \in Nat
    BY <1>0
  <2> HIDE DEF P
  <2>2. (Count + 1 > 0 => 1 \in P) /\ \A k \in P : k < Count + 1 => k + 1 \in P
    BY <1>7, <1>8
  <2> DEFINE n == Count + 1
  <2> HIDE DEF n
  <2>3. n \in Nat /\ P \in SUBSET (1 .. n) /\ (n > 0 => 1 \in P)
        /\ \A k \in P : k < n => k + 1 \in P
    BY <2>1, <2>2 DEF n
  <2>4. P = 1 .. n
    BY <2>3, AllUpTo
  <2> QED
    BY <2>4 DEF n
<1> QED
  BY <1>9 DEF at, Place

\* What the packer wrote for a field is what the decoder reads for it, unless the
\* light is in between and unpaired.
LEMMA ReadsPacked ==
    ASSUME NEW f \in Range(Fields), f \in channel, LightPaired \/ f \in AheadOfLight,
           NEW r \in Readings, record = Packed(channel, r)
    PROVE  FieldRead(f) = Pack(f, channel, r)
<1> DEFINE p == Pack(f, channel, r)
<1>0. Count \in Nat /\ Count > 0
  BY FieldsAre
<1>1. PICK flat : Grown(channel, r, flat)
  BY PackedGrows
<1>2. PICK i \in Places : Fields[i] = f
  BY FieldsAre
<1>3. (CHOOSE j \in DOMAIN Fields : Fields[j] = f) = i
  BY <1>2, FieldsAre
<1>4. Cursor(channel)[i] = Before(flat, i)
  <2>1. Shift(channel, i) = 0
    <3>1. CASE LightPaired
      BY <3>1 DEF LightPaired, Shift
    <3>2. CASE f \in AheadOfLight
      BY <1>2, <3>2, FieldsAre DEF AheadOfLight, EnvSensor, Fields, Places, Shift
    <3> QED
      BY <3>1, <3>2
  <2>2. Cursor(channel)[i] = Before(flat, i) + Shift(channel, i)
    BY <1>0, <1>1, CursorFollows DEF Places
  <2> QED
    BY <1>1, <2>1, <2>2, FieldLies
<1> DEFINE from == Before(flat, i)
<1>5. FieldRead(f) = ReadBytes(from, Width(f))
  BY <1>3, <1>4 DEF FieldRead
<1>6. p \in Seq(FieldBytes) /\ Len(p) = Width(f)
  BY PackFacts
<1>7. /\ from \in Nat
      /\ Len(flat[i]) = from + Len(p)
      /\ \A k \in 1 .. Len(p) : flat[i][from + k] = p[k]
  BY <1>1, <1>2, FieldLies
<1>8. /\ Len(flat[i]) <= Len(flat[Count])
      /\ \A k \in 1 .. Len(flat[i]) : flat[Count][k] = flat[i][k]
  BY <1>1, <1>2, GrowsOnly
<1>9. flat[Count] \in Seq(FieldBytes) /\ record = flat[Count] \o Stamp
  BY <1>0, <1>1 DEF Grown, Places
<1> HIDE DEF p, from
<1>10. Stamp \in Seq(Bytes) /\ Width(f) \in Nat
  BY StampFacts, WidthType
<1>11. ASSUME NEW k \in 1 .. Width(f)
       PROVE  from + k \in DOMAIN record /\ record[from + k] = p[k]
  <2>1. from + k \in 1 .. Len(flat[i]) /\ from + k \in 1 .. Len(flat[Count])
    BY <1>6, <1>7, <1>8, <1>9, <1>10
  <2>2. record[from + k] = flat[Count][from + k] /\ from + k \in DOMAIN record
    BY <1>9, <1>10, <2>1
  <2> QED
    BY <1>6, <1>7, <1>8, <2>1, <2>2
<1>12. p = [k \in 1 .. Width(f) |-> p[k]]
  BY <1>6, <1>10
<1>13. ReadBytes(from, Width(f)) = [k \in 1 .. Width(f) |-> p[k]]
  BY <1>11 DEF ReadBytes
<1> QED
  BY <1>5, <1>12, <1>13 DEF p

\* Behind the last field the decoder comes to the time stamp where the light is
\* paired, and otherwise into the fields before it or into its middle.
LEMMA ReadsStamp ==
    ASSUME NEW r \in Readings, record = Packed(channel, r)
    PROVE  StampRead = Stamp <=> LightPaired
<1>0. Count \in Nat /\ Count > 8
  BY FieldsAre
<1>1. PICK flat : Grown(channel, r, flat)
  BY PackedGrows
<1> DEFINE before == flat[Count]
           n == Len(before)
           shift == Shift(channel, Count + 1)
           w == Width("TIME")
<1>2. Cursor(channel)[Count + 1] = n + shift
  BY <1>0, <1>1, CursorFollows DEF Before
<1>3. StampRead = ReadBytes(n + shift, w)
  BY <1>2 DEF StampRead, Count
<1>31. w \in Nat /\ 1 \in 1 .. w /\ 5 \in 1 .. w
  BY DEF Width
<1>32. Stamp \in Seq(Bytes) /\ Len(Stamp) = w
  BY StampFacts
<1> HIDE DEF w
<1>4. before \in Seq(FieldBytes) /\ record = before \o Stamp /\ n \in Nat
  BY <1>0, <1>1 DEF Grown, Places
<1>5. /\ LightPaired <=> shift = 0
      /\ shift \in {-4, 0, 4}
  BY <1>0 DEF LightPaired, Shift
<1> HIDE DEF before, shift
<1>6. /\ \A k \in 1 .. n : k \in DOMAIN record /\ record[k] \in FieldBytes
      /\ \A k \in 1 .. w : n + k \in DOMAIN record /\ record[n + k] = Stamp[k]
  BY <1>4, <1>32, FieldBytesFacts
<1>7. \A k \in 1 .. w : StampRead[k] =
        IF (n + shift) + k \in DOMAIN record THEN record[(n + shift) + k] ELSE Unset
  BY <1>3 DEF ReadBytes
<1> HIDE DEF n
<1>8. CASE shift = 0
  <2>1. Stamp = [k \in 1 .. w |-> Stamp[k]]
    BY <1>32
  <2>2. ReadBytes(n, w) = [k \in 1 .. w |-> Stamp[k]]
    BY <1>6 DEF ReadBytes
  <2>3. StampRead = ReadBytes(n, w)
    BY <1>3, <1>4, <1>8 DEF n
  <2> QED
    BY <1>5, <1>8, <2>1, <2>2, <2>3
<1>9. CASE shift = 4
  <2>1. (n + shift) + 1 = n + 5
    BY <1>4, <1>9 DEF n
  <2>2. StampRead[1] = Stamp[5]
    BY <1>31, <1>6, <1>7, <2>1
  <2> QED
    BY <1>5, <1>9, <2>2, StampFacts
<1>10. CASE shift = -4
  <2> DEFINE k == (n + shift) + 1
  <2>1. k \in Int /\ k <= n
    BY <1>4, <1>10 DEF n
  <2>2. StampRead[1] = IF k \in DOMAIN record THEN record[k] ELSE Unset
    BY <1>31, <1>7
  <2>3. k \in DOMAIN record => record[k] \in FieldBytes
    <3>1. DOMAIN record = 1 .. Len(record)
      BY <1>4, StampFacts
    <3> HIDE DEF k
    <3>2. k \in DOMAIN record => k \in 1 .. n
      BY <1>4, <2>1, <3>1 DEF n
    <3> QED
      BY <1>6, <3>2
  <2> HIDE DEF k
  <2> QED
    BY <1>5, <1>10, <2>2, <2>3, FieldBytesFacts, StampFacts
<1> QED
  BY <1>5, <1>8, <1>9, <1>10

-----------------------------------------------------------------------------
(* The codec's states *)

\* What is stored is what was packed for the channel, and an uploaded
\* document is one the decoder makes of it.
CodecInv ==
    /\ channel \in Channels
    /\ trans_key \in 0 .. 2
    /\ reading \in Readings
    /\ record \in {<<>>, Packed(channel, reading)}
    /\ \/ doc = NoDocument
       \/ record # <<>> /\ \E order \in Orders : doc = Document(order)

LEMMA CodecStarts == CodecInit => CodecInv
BY DEF CodecInit, CodecInv

\* A document is made of the channel and the record alone.
LEMMA DocumentStays ==
    ASSUME UNCHANGED <<channel, record>>, NEW order
    PROVE  Document(order)' = Document(order)
<1>1. \A f : FieldRead(f)' = FieldRead(f)
  BY DEF FieldRead, ReadBytes
<1>2. \A f : Item(f, order)' = Item(f, order)
  BY <1>1 DEF Item
<1> QED
  BY <1>2 DEF Document

LEMMA CodecSteps == CodecInv /\ [CodecNext]_codec => CodecInv'
<1> SUFFICES ASSUME CodecInv, [CodecNext]_codec PROVE CodecInv'
  OBVIOUS
<1>1. CASE Sample
  BY <1>1 DEF CodecInv, Sample
<1>2. CASE UNCHANGED codec
  <2>1. \A order : Document(order)' = Document(order)
    BY <1>2, DocumentStays DEF codec
  <2>2. record # <<>> /\ (\E order \in Orders : doc = Document(order))
          => record' # <<>> /\ (\E order \in Orders : doc' = Document(order)')
    BY <1>2, <2>1 DEF codec
  <2> QED
    BY <1>2, <2>2 DEF CodecInv, codec
<1>3. CASE SampleFails
  BY <1>2, <1>3 DEF SampleFails
<1>4. CASE Upload
  <2>1. PICK order \in Orders : doc' = Document(order)
    BY <1>4 DEF Upload
  <2>2. Document(order)' = Document(order)
    BY <1>4, DocumentStays DEF Upload
  <2>3. record' # <<>> /\ \E o \in Orders : doc' = Document(o)'
    BY <1>4, <2>1, <2>2 DEF Upload
  <2> QED
    BY <1>4, <2>3 DEF CodecInv, Upload
<1>5. CASE Publish
  <2>1. trans_key' \in 0 .. 2
    BY <1>5 DEF CodecInv, Publish
  <2>2. UNCHANGED <<channel, reading, record, doc>>
    BY <1>5 DEF Publish
  <2>3. \A order : Document(order)' = Document(order)
    BY <2>2, DocumentStays
  <2>4. record # <<>> /\ (\E order \in Orders : doc = Document(order))
          => record' # <<>> /\ (\E order \in Orders : doc' = Document(order)')
    BY <2>2, <2>3
  <2> QED
    BY <2>1, <2>2, <2>4 DEF CodecInv
<1>6. CASE Restart
  BY <1>6 DEF CodecInv, Restart
<1> QED
  BY <1>1, <1>2, <1>3, <1>4, <1>5, <1>6 DEF CodecNext

LEMMA CodecInvAlways == CodecSpec => []CodecInv
BY CodecStarts, CodecSteps, PTL DEF CodecSpec

\* A record holds the time stamp and at most one value of each field.
LEMMA PackedType ==
    ASSUME NEW ch, NEW r \in Readings
    PROVE  Packed(ch, r) \in Seq(Bytes) /\ Len(Packed(ch, r)) \in 8 .. 63
<1>1. PICK flat : Grown(ch, r, flat)
  BY PackedGrows
<1>2. Count = 11 /\ Places = 1 .. 11
  BY FieldsAre DEF Places
<1>3. \A i \in Places : Len(flat[i]) \in Nat /\ flat[i] \in Seq(FieldBytes)
  BY <1>1 DEF Grown
<1>4. \A i \in Places : Len(flat[i]) <= Before(flat, i) + Width(Fields[i])
  <2> SUFFICES ASSUME NEW i \in Places
               PROVE  Len(flat[i]) <= Before(flat, i) + Width(Fields[i])
    OBVIOUS
  <2>1. Fields[i] \in Range(Fields)
    BY FieldsAre
  <2>2. Len(Pack(Fields[i], ch, r)) <= Width(Fields[i])
    BY <2>1, PackFacts, WidthType
  <2>3. Width(Fields[i]) \in Int /\ Len(Pack(Fields[i], ch, r)) \in Int
    BY <2>1, PackFacts, WidthType
  <2> QED
    BY <1>1, <2>2, <2>3, FieldLies
<1>5. /\ Len(flat[1]) <= 1
      /\ Len(flat[2]) <= Len(flat[1]) + 2
      /\ Len(flat[3]) <= Len(flat[2]) + 16
      /\ Len(flat[4]) <= Len(flat[3]) + 4
      /\ Len(flat[5]) <= Len(flat[4]) + 4
      /\ Len(flat[6]) <= Len(flat[5]) + 4
      /\ Len(flat[7]) <= Len(flat[6]) + 4
      /\ Len(flat[8]) <= Len(flat[7]) + 4
      /\ Len(flat[9]) <= Len(flat[8]) + 4
      /\ Len(flat[10]) <= Len(flat[9]) + 6
      /\ Len(flat[11]) <= Len(flat[10]) + 6
  BY <1>2, <1>4 DEF Before, Fields, Width
<1> DEFINE n(i) == Len(flat[i])
<1>6. n(11) \in Nat /\ n(11) <= 55
  <2>1. \A i \in Places : n(i) \in Nat
    BY <1>3
  <2>2. /\ n(1) \in Nat /\ n(2) \in Nat /\ n(3) \in Nat /\ n(4) \in Nat
        /\ n(5) \in Nat /\ n(6) \in Nat /\ n(7) \in Nat /\ n(8) \in Nat
        /\ n(9) \in Nat /\ n(10) \in Nat /\ n(11) \in Nat
    BY <1>2, <2>1
  <2>3. /\ n(1) <= 1 /\ n(2) <= n(1) + 2 /\ n(3) <= n(2) + 16
        /\ n(4) <= n(3) + 4 /\ n(5) <= n(4) + 4 /\ n(6) <= n(5) + 4
        /\ n(7) <= n(6) + 4 /\ n(8) <= n(7) + 4 /\ n(9) <= n(8) + 4
        /\ n(10) <= n(9) + 6 /\ n(11) <= n(10) + 6
    BY <1>5
  <2> HIDE DEF n
  <2> QED
    BY <2>2, <2>3
<1> DEFINE before == flat[11]
           stamp == Stamp
<1>7. Packed(ch, r) = before \o stamp /\ before \in Seq(Bytes)
  <2>1. Packed(ch, r) = before \o stamp /\ before \in Seq(FieldBytes)
    BY <1>1, <1>2, <1>3 DEF Grown
  <2> HIDE DEF before, stamp
  <2>2. before \in Seq(Bytes)
    BY <2>1, FieldBytesFacts
  <2> QED
    BY <2>1, <2>2
<1>8. stamp \in Seq(Bytes) /\ Len(stamp) = 8
  BY StampFacts
<1>9. Len(before) \in Nat /\ Len(before) <= 55
  BY <1>6
<1> HIDE DEF before, stamp
<1>10. before \o stamp \in Seq(Bytes) /\ Len(before \o stamp) = Len(before) + Len(stamp)
  BY <1>7, <1>8, ConcatProperties
<1> DEFINE size == Len(Packed(ch, r))
           less == Len(before)
<1>11. size = Len(before) + 8
  BY <1>7, <1>8, <1>10
<1>12. size \in 8 .. 63
  <2>1. less \in Nat /\ less <= 55 /\ size = less + 8
    BY <1>9, <1>11
  <2> HIDE DEF size, less
  <2> QED
    BY <2>1
<1> QED
  BY <1>7, <1>10, <1>12 DEF size

\* Every state of the codec is of its type: whatever the channel selects, a
\* record is at most 63 bytes and fits the buffer of 128 it is packed in
\* (payload.c:161).
THEOREM CodecTypeCorrect == CodecSpec => []CodecTypeOK
<1>1. CodecInv => CodecTypeOK
  <2> SUFFICES ASSUME CodecInv PROVE CodecTypeOK
    OBVIOUS
  <2>1. channel \in Channels /\ trans_key \in 0 .. 2 /\ reading \in Readings
    BY DEF CodecInv
  <2>2. record = <<>> \/ (record \in Seq(Bytes) /\ Len(record) \in 8 .. 63)
    BY PackedType DEF CodecInv
  <2>3. record = <<>> \/ Len(record) \in 8 .. 63
    BY <2>2
  <2>4. Range(record) \subseteq Bytes
    BY <2>2 DEF Range
  <2>5. DOMAIN doc \subseteq Bits \cup {"TIME"}
    <3>1. \A order : DOMAIN Document(order) = Decoded(channel) \cup {"TIME"}
      BY DEF Document
    <3>2. Decoded(channel) \subseteq Bits
      BY FieldsAre DEF Decoded
    <3>3. DOMAIN NoDocument = {}
      BY DEF NoDocument
    <3> QED
      BY <3>1, <3>2, <3>3 DEF CodecInv
  <2> QED
    BY <2>1, <2>3, <2>4, <2>5 DEF CodecTypeOK
<1> QED
  BY <1>1, CodecInvAlways, PTL

-----------------------------------------------------------------------------
(* The round trip *)

\* For every record, the decoder comes out at its time stamp exactly where light
\* and humidity are selected together (payload.c:607, 656).
THEOREM StampFound == CodecSpec => []StampAligned
<1>1. CodecInv => StampAligned
  BY ReadsStamp DEF CodecInv, StampAligned
<1> QED
  BY <1>1, CodecInvAlways, PTL

\* An item ahead of the light, or of a paired channel, is made of the reading: the
\* position packed without a fix is the one the document has without one, and
\* the two bytes of the voltage make the number that was cut to them.
LEMMA ItemArrives ==
    ASSUME NEW f \in Range(Fields), f \in channel, LightPaired \/ f \in AheadOfLight,
           reading \in Readings, record = Packed(channel, reading)
    PROVE  Item(f, "low first") = IF f = "VBAT" THEN <<reading.vol>> ELSE PeriodicItem(f)
<1>1. FieldRead(f) = Pack(f, channel, reading)
  BY ReadsPacked
<1>2. Pack(f, channel, reading)
        = IF f = "GPS" /\ ~ reading.fix THEN NoFix ELSE Value(f, reading)
  BY DEF Pack
<1>3. "low first" # "high first" /\ f # "TIME" /\ f # "ecc_pubkey"
  BY FieldsAre DEF Bits, EnvSensor, ActionSensor
<1>4. CASE f = "VBAT"
  <2> DEFINE v == reading.vol
             low == Byte(f, v % 256)
             high == Byte(f, v \div 256)
  <2>1. FieldRead(f) = <<low, high>>
    BY <1>1, <1>2, <1>4 DEF Value
  <2>2. Item(f, "low first") = <<Number(low, high)>>
    BY <1>3, <1>4, <2>1 DEF Item
  <2>3. Number(low, high) = (v % 256) + 256 * (v \div 256)
    BY DEF Number, Byte
  <2>4. v \in Nat
    BY ReadingFacts
  <2> HIDE DEF v
  <2>5. (v % 256) + 256 * (v \div 256) = v
    BY <2>4
  <2> QED
    BY <1>4, <2>2, <2>3, <2>5 DEF v
<1>5. CASE f # "GPS" /\ f # "VBAT"
  BY <1>1, <1>2, <1>3, <1>5 DEF Item, PeriodicItem
<1>6. CASE f = "GPS" /\ ~ reading.fix
  <2>1. \A i \in 9 .. 16 : NoFix[i] = Blank
    BY DEF NoFix, Width
  <2> QED
    BY <1>1, <1>2, <1>3, <1>6, <2>1 DEF Item, PeriodicItem
<1>7. CASE f = "GPS" /\ reading.fix
  <2>1. Value(f, reading)[9] = Byte(f, 9)
    BY <1>7 DEF Value, Width
  <2>2. Byte(f, 9) # Blank
    BY <1>7 DEF Byte, Blank
  <2>3. ~ \A i \in 9 .. 16 : Value(f, reading)[i] = Blank
    BY <2>1, <2>2
  <2> QED
    BY <1>1, <1>2, <1>3, <1>7, <2>3 DEF Item, PeriodicItem
<1> QED
  BY <1>4, <1>5, <1>6, <1>7

\* The decoder makes the items that are selected, but for an unpaired light.
LEMMA ItemsSelected ==
    ASSUME NEW order
    PROVE  Compared(DOMAIN Document(order)) = Compared(DOMAIN PeriodicDocument)
<1>1. DOMAIN Document(order) = Decoded(channel) \cup {"TIME"}
  BY DEF Document
<1>2. DOMAIN PeriodicDocument \ {"ecc_pubkey"}
        = ((channel \cap Range(Fields)) \cup {"TIME"}) \ {"ecc_pubkey"}
  BY DEF PeriodicDocument
<1>3. Decoded(channel) \ {"LIGHT"} = (channel \cap Range(Fields)) \ {"LIGHT"}
  BY DEF Decoded, Gate
<1>4. LightPaired => Decoded(channel) = channel \cap Range(Fields)
  BY DEF LightPaired, Decoded, Gate
<1> QED
  BY <1>1, <1>2, <1>3, <1>4 DEF Compared

\* In a build that reads the low byte of the voltage first, an uploaded sample
\* has the measurements that periodic mode would have sent for the same readings,
\* the voltage to a millivolt; for a channel with the light or the humidity alone
\* those ahead of the light (payload.c:187, 302-464).
THEOREM RoundTrip ==
    Orders \subseteq {"low first"} => (CodecSpec => []MeasurementsArrive)
<1> SUFFICES ASSUME Orders \subseteq {"low first"}
             PROVE  CodecSpec => []MeasurementsArrive
  OBVIOUS
<1>1. CodecInv => MeasurementsArrive
  <2> SUFFICES ASSUME CodecInv, doc # NoDocument PROVE MeasurementsArrive
    BY DEF MeasurementsArrive
  <2>1. /\ record = Packed(channel, reading) /\ reading \in Readings
        /\ doc = Document("low first")
    BY DEF CodecInv
  <2>2. Compared(DOMAIN doc) = Compared(DOMAIN PeriodicDocument)
    BY <2>1, ItemsSelected
  <2>3. ASSUME NEW f \in DOMAIN doc \ {"TIME"}, LightPaired \/ f \in AheadOfLight
        PROVE  Arrives(f)
    <3>1. f \in Decoded(channel) /\ f \in Range(Fields) /\ f # "TIME"
      BY <2>1 DEF Document, Decoded
    <3>2. f \in channel
      BY <2>3, <3>1 DEF Decoded, Gate, LightPaired, AheadOfLight, EnvSensor
    <3>3. doc[f] = Item(f, "low first")
      BY <2>1, <3>1 DEF Document
    <3>4. doc[f] = IF f = "VBAT" THEN <<reading.vol>> ELSE PeriodicItem(f)
      BY <2>1, <2>3, <3>1, <3>2, <3>3, ItemArrives
    <3>5. PeriodicDocument[f] = PeriodicItem(f)
      BY <3>1, <3>2 DEF PeriodicDocument
    <3>6. reading.vol \in {reading.vbat - 1, reading.vbat}
      BY <2>1, ReadingFacts
    <3> QED
      BY <3>4, <3>5, <3>6 DEF Arrives
  <2> QED
    BY <2>2, <2>3 DEF MeasurementsArrive
<1> QED
  BY <1>1, CodecInvAlways, PTL
=============================================================================
