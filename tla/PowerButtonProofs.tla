------------------------- MODULE PowerButtonProofs -------------------------
(***************************************************************************)
(* PowerButton for every time to switch off.  IInv adds to OneScanner that *)
(* the work that switches off is at one place only, the timer or the       *)
(* queue, and that its timer and the history of the press tell one time.   *)
(***************************************************************************)
EXTENDS PowerButton, TLAPS

\* OneScanner without the set: the places a scan can be at, one by one.
Timer == scanTimer # Off
Waits == "scan" \in queue
Runs == running = "scan"

Scanner ==
    /\ ~ asserted
    /\ irq <=> state = "waiting"
    /\ state = "scanning" <=> Timer \/ Waits \/ Runs
    /\ ~ (Timer /\ Waits) /\ ~ (Timer /\ Runs) /\ ~ (Waits /\ Runs)

\* The press that the work answers to.
Pressed ==
    /\ offTimer # Off => last /\ reported = Hold - offTimer
    /\ "off" \in queue => last /\ reported = Hold /\ offTimer = Off
    /\ initial => ~ last

IInv == TypeOK /\ Scanner /\ Pressed

LEMMA ScannerMeans == TypeOK => (OneScanner <=> Scanner)
<1> SUFFICES ASSUME TypeOK PROVE OneScanner <=> Scanner
    OBVIOUS
<1>1. /\ "timer" \in Scans <=> Timer
      /\ "queue" \in Scans <=> Waits
      /\ "run" \in Scans <=> Runs
      /\ \A s \in Scans : s \in {"timer", "queue", "run"}
    BY DEF Scans, Timer, Waits, Runs
<1>2. Scans = {} <=> ~ Timer /\ ~ Waits /\ ~ Runs
    BY <1>1
<1>3. (\E s \in Scans : Scans = {s})
        <=> /\ Timer \/ Waits \/ Runs
            /\ ~ (Timer /\ Waits) /\ ~ (Timer /\ Runs) /\ ~ (Waits /\ Runs)
    BY <1>1
<1>4. state \in {"waiting", "scanning"}
    BY DEF TypeOK
<1> QED
    BY <1>2, <1>3, <1>4 DEF OneScanner, Scanner

LEMMA Ranges ==
    /\ Off \in Off .. Hold /\ 0 \in Off .. Hold
    /\ Off \in Off .. Hold \ {0} /\ Hold \in Off .. Hold \ {0}
BY ButtonAssumption DEF Off

LEMMA InitIInv == Init => IInv
<1> SUFFICES ASSUME Init PROVE IInv
    OBVIOUS
<1>1. TypeOK
    BY Ranges DEF Init, TypeOK, Works
<1>2. Scanner /\ Pressed
    BY DEF Init, Scanner, Timer, Waits, Runs, Pressed
<1> QED
    BY <1>1, <1>2 DEF IInv

LEMMA InterruptStep == IInv /\ Interrupt => IInv'
<1> SUFFICES ASSUME IInv, Interrupt PROVE IInv'
    OBVIOUS
<1> USE DEF Interrupt, scan
<1>1. state = "waiting" /\ ~ Timer /\ ~ Waits /\ ~ Runs
    BY DEF IInv, Scanner
<1>2. scanTimer' = 1 /\ asserted' = asserted
    BY <1>1 DEF IInv, TypeOK
<1>3. TypeOK'
    BY <1>2 DEF IInv, TypeOK
<1>4. Scanner'
    BY <1>1, <1>2 DEF IInv, Scanner, Timer, Waits, Runs, Off
<1>5. Pressed'
    BY DEF IInv, Pressed
<1> QED
    BY <1>3, <1>4, <1>5 DEF IInv

LEMMA ScanReadStep == IInv /\ ScanRead => IInv'
BY DEF IInv, ScanRead, Turn, TypeOK, Off, timers, Works, Scanner, Timer, Waits,
       Runs, Pressed

LEMMA ScanEndStep == IInv /\ ScanEnd => IInv'
<1> SUFFICES ASSUME IInv, ScanEnd PROVE IInv'
    OBVIOUS
<1>1. /\ reading \in BOOLEAN /\ last \in BOOLEAN /\ initial \in BOOLEAN
      /\ offTimer \in Off .. Hold \ {0} /\ reported \in Off .. Hold
      /\ queue \subseteq Works
    BY DEF IInv, TypeOK
<1>2. /\ offTimer' \in Off .. Hold \ {0}
      /\ reported' \in Off .. Hold
      /\ queue' \subseteq queue
      /\ "scan" \in queue' <=> "scan" \in queue
  <2>2. CASE ~ Changed
      BY <1>1, <2>2 DEF ScanEnd, Report
  <2>3. CASE Changed /\ reading
      BY <1>1, Ranges, <2>3 DEF ScanEnd, Report
  <2>4. CASE Changed /\ ~ reading
      BY <1>1, Ranges, <2>4 DEF ScanEnd, Report, Cancel
  <2> QED
      BY <2>2, <2>3, <2>4
<1>3. state = "scanning" /\ ~ Timer /\ ~ Waits
    BY DEF IInv, Scanner, ScanEnd, Runs
<1>4. /\ reading => scanTimer' = 1 /\ state' = state /\ irq' = irq
      /\ ~ reading => state' = "waiting" /\ irq' = TRUE /\ scanTimer' = scanTimer
      /\ asserted' = asserted
      /\ running' = "none"
    BY <1>3 DEF ScanEnd, IInv, TypeOK
<1>5. TypeOK'
    BY <1>1, <1>2, <1>4 DEF IInv, TypeOK, ScanEnd
<1>6. Scanner'
    BY <1>1, <1>2, <1>3, <1>4 DEF IInv, Scanner, Timer, Waits, Runs, Off
<1>7. Pressed'
  <2>1. last' = reading /\ initial' = FALSE
      BY DEF ScanEnd
  <2>2. CASE ~ Changed
    <3>1. offTimer' = offTimer /\ queue' = queue /\ reported' = reported
        BY <2>2 DEF ScanEnd, Report
    <3>2. last => last'
        BY <1>1, <2>1, <2>2 DEF Changed, IInv, Pressed
    <3> QED
        BY <2>1, <3>1, <3>2 DEF IInv, Pressed
  <2>3. CASE Changed /\ reading
    <3>1. offTimer' = Hold /\ reported' = 0 /\ "off" \notin queue'
        BY <2>3 DEF ScanEnd, Report
    <3> QED
        BY <2>1, <2>3, <3>1, ButtonAssumption DEF Pressed
  <2>4. CASE Changed /\ ~ reading
      BY <1>1, <2>1, <2>4 DEF ScanEnd, Report, Cancel, Pressed
  <2> QED
      BY <2>2, <2>3, <2>4
<1> QED
    BY <1>5, <1>6, <1>7 DEF IInv

\* The works of others and the loss of power leave all of it alone.
LEMMA OtherStep ==
    IInv /\ (Move \/ Submit \/ OtherStart \/ OtherEnd \/ PowerOff \/ LowBattery)
        => IInv'
<1> SUFFICES ASSUME IInv,
                    Move \/ Submit \/ OtherStart \/ OtherEnd \/ PowerOff \/ LowBattery
             PROVE  IInv'
    OBVIOUS
<1> USE DEF Move, Submit, OtherStart, OtherEnd, PowerOff, LowBattery, Turn, timers,
            scan
<1>1. TypeOK'
  <2>1. CASE Move
      BY <2>1 DEF IInv, TypeOK
  <2>2. CASE PowerOff \/ LowBattery
      BY <2>2 DEF IInv, TypeOK
  <2>3. CASE Submit \/ OtherStart \/ OtherEnd
    <3>1. queue' \subseteq Works
        BY <2>3 DEF IInv, TypeOK, Works
    <3>2. running' \in {"none", "scan", "other"}
        BY <2>3 DEF IInv, TypeOK
    <3> QED
        BY <2>3, <3>1, <3>2 DEF IInv, TypeOK
  <2> QED
      BY <2>1, <2>2, <2>3
<1>2. /\ scanTimer' = scanTimer /\ offTimer' = offTimer /\ reported' = reported
      /\ "scan" \in queue' <=> "scan" \in queue
      /\ "off" \in queue' <=> "off" \in queue
      /\ running' = "scan" <=> running = "scan"
      /\ state' = state /\ irq' = irq /\ asserted' = asserted
      /\ last' = last /\ initial' = initial
    OBVIOUS
<1>3. Scanner' /\ Pressed'
    BY <1>2 DEF IInv, Scanner, Timer, Waits, Runs, Pressed
<1> QED
    BY <1>1, <1>3 DEF IInv

LEMMA TickStep == IInv /\ Tick => IInv'
<1> SUFFICES ASSUME IInv, Tick PROVE IInv'
    OBVIOUS
<1>1. /\ scanTimer \in {Off, 1} /\ offTimer \in Off .. Hold \ {0}
      /\ reported \in Off .. Hold /\ queue \subseteq Works
    BY DEF IInv, TypeOK
<1>2. /\ scanTimer' = Off
      /\ "scan" \in queue' <=> Waits \/ Timer
    BY <1>1 DEF Tick, Left, Expired, Waits, Timer, Off
<1>3. /\ offTimer \in {Off, 1} => offTimer' = Off
      /\ offTimer \notin {Off, 1} => offTimer' = offTimer - 1
      /\ "off" \in queue' <=> "off" \in queue \/ offTimer = 1
    BY <1>1 DEF Tick, Left, Expired
<1>4. queue' \subseteq Works
    BY <1>1 DEF Tick, Expired, Works
<1>5. /\ offTimer' \in Off .. Hold \ {0}
      /\ reported' \in Off .. Hold
    BY <1>1, <1>3, ButtonAssumption DEF Tick, Off
<1>6. TypeOK'
    BY <1>2, <1>4, <1>5 DEF IInv, TypeOK, Tick, scan
<1>7. Scanner'
    BY <1>2 DEF IInv, Scanner, Timer, Waits, Runs, Tick
<1>8. Pressed'
    BY <1>1, <1>3, ButtonAssumption DEF IInv, Pressed, Tick, scan, Off
<1> QED
    BY <1>6, <1>7, <1>8 DEF IInv

LEMMA PowerOnStep == IInv /\ PowerOn => IInv'
<1> SUFFICES ASSUME PowerOn PROVE IInv'
    OBVIOUS
<1>1. TypeOK'
    BY Ranges DEF PowerOn, TypeOK, Works
<1>2. Scanner' /\ Pressed'
    BY DEF PowerOn, Scanner, Timer, Waits, Runs, Pressed
<1> QED
    BY <1>1, <1>2 DEF IInv

LEMMA NextIInv == IInv /\ [Next]_vars => IInv'
<1> SUFFICES ASSUME IInv, [Next]_vars PROVE IInv'
    OBVIOUS
<1>1. CASE UNCHANGED vars
    BY <1>1 DEF IInv, vars, timers, scan, TypeOK, Scanner, Timer, Waits, Runs,
                Pressed
<1>2. CASE Next
    BY <1>2, InterruptStep, ScanReadStep, ScanEndStep, OtherStep, TickStep,
       PowerOnStep DEF Next, Work
<1> QED
    BY <1>1, <1>2

LEMMA Always == Spec => []IInv
BY InitIInv, NextIInv, PTL DEF Spec

\* The variables keep their types.
THEOREM TypeCorrect == Spec => []TypeOK
<1>1. IInv => TypeOK
    BY DEF IInv
<1> QED
    BY <1>1, Always, PTL

\* The library waits or scans, and its assertions never fail
\* (dk_buttons_and_leds.c:139-190, 214-240).
THEOREM AssertionsHold == Spec => []OneScanner
<1>1. IInv => OneScanner
    BY ScannerMeans DEF IInv
<1> QED
    BY <1>1, Always, PTL

\* However long the time to switch off is, a device that switches itself off
\* had the press reported for all of it (main.c:734-750).
THEOREM OffWasHeld == Spec => NoStrayPowerOff
<1>1. IInv /\ [Next]_vars => [PowerOff => last /\ reported = Hold]_vars
    BY DEF IInv, Pressed, PowerOff, Turn
<1> QED
    BY <1>1, Always, PTL DEF Spec, NoStrayPowerOff
=============================================================================
