---------------------------- MODULE PowerButton ----------------------------
(***************************************************************************)
(* The button that switches the device off.  The button library either     *)
(* waits for an interrupt or scans the pin, and reports changes to         *)
(* ui_evt_handler, which starts and cancels the work that switches off.    *)
(* All of it but the interrupt runs on the system work queue, in turn with *)
(* works that may keep it for seconds.                                     *)
(*                                                                         *)
(* The queue serves its works in the order they came; here in any order,   *)
(* and the fairness says that each gets its turn.                          *)
(*                                                                         *)
(* A tick is the time between two scans.  long_press_button_work is left   *)
(* out: it does nothing where the GPS is external.                         *)
(***************************************************************************)
EXTENDS Integers

CONSTANT Hold  \* the 5 seconds to switch off, in ticks

ASSUME ButtonAssumption == Hold \in Nat \ {0}

VARIABLES
    button,     \* it is held down
    powered,    \* IO_POWER_ON
    state,      \* of the library
    irq,        \* the level interrupt of the pin is enabled
    scanTimer,  \* ticks until buttons_scan is queued, or Off
    offTimer,   \* ticks until power_off_button_work is queued, or Off
    queue,      \* works that wait for the system work queue
    running,    \* the work it executes
    reading,    \* button_scan
    last,       \* last_button_scan
    initial,    \* initial_run
    reported,   \* history: ticks since a press was reported, or Off
    asserted    \* history: an assertion of the library has failed

timers == <<scanTimer, offTimer>>
scan == <<reading, last, initial>>
vars == <<button, powered, state, irq, timers, queue, running, scan, reported,
          asserted>>

Off == -1
Works == {"scan", "off", "other"}

TypeOK ==
    /\ button \in BOOLEAN
    /\ powered \in BOOLEAN
    /\ state \in {"waiting", "scanning"}
    /\ irq \in BOOLEAN
    /\ scanTimer \in {Off, 1}
    /\ offTimer \in Off .. Hold \ {0}
    /\ queue \subseteq Works
    /\ running \in {"none", "scan", "other"}
    /\ reading \in BOOLEAN
    /\ last \in BOOLEAN
    /\ initial \in BOOLEAN
    /\ reported \in Off .. Hold
    /\ asserted \in BOOLEAN

\* dk_buttons_init
Init ==
    /\ button \in BOOLEAN
    /\ powered = TRUE
    /\ state = "scanning"
    /\ irq = FALSE
    /\ scanTimer = Off
    /\ offTimer = Off
    /\ queue = {"scan"}
    /\ running = "none"
    /\ reading = FALSE
    /\ last = FALSE
    /\ initial = TRUE
    /\ reported = Off
    /\ asserted = FALSE

Move ==
    /\ button' = ~ button
    /\ UNCHANGED <<powered, state, irq, timers, queue, running, scan, reported,
                   asserted>>

-----------------------------------------------------------------------------
(* The interrupt *)

InterruptKeepsEnabled ==
    /\ powered /\ irq /\ button
    /\ state' = "scanning"
    /\ scanTimer' = IF state = "waiting" THEN 1 ELSE scanTimer
    /\ asserted' = (asserted \/ state # "waiting")
    /\ UNCHANGED <<button, powered, irq, offTimer, queue, running, scan, reported>>
Interrupt ==
    /\ powered /\ irq /\ button
    /\ irq' = FALSE
    /\ state' = "scanning"
    /\ scanTimer' = IF state = "waiting" THEN 1 ELSE scanTimer
    /\ asserted' = (asserted \/ state # "waiting")
    /\ UNCHANGED <<button, powered, offTimer, queue, running, scan, reported>>

-----------------------------------------------------------------------------
(* The work queue *)

Turn(w) == powered /\ running = "none" /\ w \in queue

ScanRead ==
    /\ Turn("scan")
    /\ queue' = queue \ {"scan"}
    /\ running' = "scan"
    /\ reading' = button
    /\ UNCHANGED <<button, powered, state, irq, timers, last, initial, reported,
                   asserted>>

\* k_delayed_work_cancel takes a work that is queued already off the queue.
CancelTimerOnly == offTimer' = Off /\ UNCHANGED queue
Cancel == offTimer' = Off /\ queue' = queue \ {"off"}

ChangedAlways == ~ initial /\ (reading \/ last)
Changed == ~ initial /\ reading # last

\* button_handler and ui_evt_handler
Report ==
    \/ ~ Changed /\ UNCHANGED <<offTimer, queue, reported>>
    \/ /\ Changed /\ reading
       /\ offTimer' = Hold
       /\ queue' = queue \ {"off"}
       /\ reported' = 0
    \/ /\ Changed /\ ~ reading
       /\ Cancel
       /\ reported' = Off

ScanEndNoWait ==
    /\ powered /\ running = "scan"
    /\ running' = "none"
    /\ Report
    /\ last' = reading
    /\ initial' = FALSE
    /\ scanTimer' = 1
    /\ UNCHANGED <<button, powered, reading, state, irq, asserted>>
ScanEnd ==
    /\ powered /\ running = "scan"
    /\ running' = "none"
    /\ Report
    /\ last' = reading
    /\ initial' = FALSE
    /\ \/ reading /\ scanTimer' = 1 /\ UNCHANGED <<state, irq>>
       \/ ~ reading /\ state' = "waiting" /\ irq' = TRUE /\ UNCHANGED scanTimer
    /\ asserted' = (asserted \/ (~ reading /\ state # "scanning"))
    /\ UNCHANGED <<button, powered, reading>>

PowerOff ==
    /\ Turn("off")
    /\ powered' = FALSE
    /\ UNCHANGED <<button, state, irq, timers, queue, running, scan, reported,
                   asserted>>

\* CheckPower, in the main thread
LowBattery ==
    /\ powered
    /\ powered' = FALSE
    /\ UNCHANGED <<button, state, irq, timers, queue, running, scan, reported,
                   asserted>>

\* The environment work, the animation and the rest, submitted at any time.
Submit ==
    /\ powered
    /\ running # "other" /\ "other" \notin queue
    /\ queue' = queue \cup {"other"}
    /\ UNCHANGED <<button, powered, state, irq, timers, running, scan, reported,
                   asserted>>

OtherStart ==
    /\ Turn("other")
    /\ queue' = queue \ {"other"}
    /\ running' = "other"
    /\ UNCHANGED <<button, powered, state, irq, timers, scan, reported, asserted>>

OtherEnd ==
    /\ powered /\ running = "other"
    /\ running' = "none"
    /\ UNCHANGED <<button, powered, state, irq, timers, queue, scan, reported,
                   asserted>>

-----------------------------------------------------------------------------
LeftUnstopped(t) == IF t = Off THEN Off ELSE t - 1
Left(t) == IF t \in {Off, 1} THEN Off ELSE t - 1

Expired == {w \in {"scan", "off"} :
               \/ w = "scan" /\ scanTimer = 1
               \/ w = "off" /\ offTimer = 1}

\* Time passes when nothing is to be done, or while a work keeps the queue.
Tick ==
    /\ powered
    /\ \/ running = "none" /\ queue = {}
       \/ running = "other"
    /\ ~ (irq /\ button)
    /\ scanTimer' = Left(scanTimer)
    /\ offTimer' = Left(offTimer)
    /\ queue' = queue \cup Expired
    /\ reported' = IF reported \in {Off, Hold} THEN reported ELSE reported + 1
    /\ UNCHANGED <<button, powered, state, irq, running, scan, asserted>>

PowerOn ==
    /\ ~ powered
    /\ button' \in BOOLEAN
    /\ powered' = TRUE
    /\ state' = "scanning"
    /\ irq' = FALSE
    /\ scanTimer' = Off
    /\ offTimer' = Off
    /\ queue' = {"scan"}
    /\ running' = "none"
    /\ reading' = FALSE
    /\ last' = FALSE
    /\ initial' = TRUE
    /\ reported' = Off
    /\ asserted' = FALSE

Work == ScanRead \/ ScanEnd \/ PowerOff \/ OtherStart \/ OtherEnd

Next ==
    \/ Move \/ Interrupt \/ Work
    \/ Submit \/ Tick
    \/ LowBattery \/ PowerOn

Spec == Init /\ [][Next]_vars

(* An enabled interrupt is taken, the queue goes on and every work ends, a work
   that waits is served in its turn, and time passes however often others
   submit works. *)
FairSpec ==
    /\ Spec
    /\ WF_vars(Interrupt)
    /\ WF_vars(Work)
    /\ SF_vars(ScanRead)
    /\ SF_vars(PowerOff)
    /\ SF_vars(Tick)

-----------------------------------------------------------------------------
(* Properties *)

\* The library either waits with the interrupt enabled or scans, and then one
\* scan is under way, however presses, scans and other works interleave: its
\* assertions never fail (dk_buttons_and_leds.c:180, 235) and no press is lost
\* for want of both.
Scans == {s \in {"timer", "queue", "run"} :
             \/ s = "timer" /\ scanTimer # Off
             \/ s = "queue" /\ "scan" \in queue
             \/ s = "run" /\ running = "scan"}

OneScanner ==
    /\ ~ asserted
    /\ irq <=> state = "waiting"
    /\ IF state = "waiting" THEN Scans = {} ELSE \E s \in Scans : Scans = {s}

\* The device switches itself off only when a press was reported for the whole
\* time and no release since, even where the release was seen after the work
\* had been queued (main.c:740-748).
NoStrayPowerOff == [][PowerOff => last /\ reported = Hold]_vars

\* A press that begins after the button was seen up and goes on switches the
\* device off, whatever else the work queue has to do.
HeldPowersOff ==
    [](~ initial /\ ~ last /\ running # "scan" /\ []button => <>~ powered)

\* Once the button stays up, the library waits again and nothing is under way
\* that would switch the device off.
ReleaseSettles ==
    <>[](~ button /\ powered) => <>[](state = "waiting" /\ irq /\ offTimer = Off
                                        /\ "off" \notin queue)
=============================================================================
