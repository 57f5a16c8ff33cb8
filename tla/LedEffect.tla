----------------------------- MODULE LedEffect -----------------------------
(***************************************************************************)
(* The status LED of ui/led_pwm.c.  Three contexts share it without a      *)
(* lock: the main thread (updateLedPattern after every poll, and the two   *)
(* changes of modem_configure), the system work queue, which preempts it   *)
(* (the animation work_handler and the GPS bit of getGPS), and the         *)
(* interrupt of the charger pin.  Every read-modify-write of patternIndex  *)
(* is a load and a store, and ui_led_set_effect is one step per statement. *)
(***************************************************************************)
EXTENDS Integers, Sequences

CONSTANTS
    BreathSubsteps,  \* _BREATH_SUBSTEPS, 15
    U16              \* 2^16, the width of effect_substep

ASSUME LedAssumption ==
    /\ BreathSubsteps \in Nat \ {0}
    /\ U16 \in Nat
    /\ BreathSubsteps < U16

Bits == {"LTE", "BAT", "GPS"}       \* the masks of patternIndex
Disconnected == {"disconnected"}    \* UI_LTE_DISCONNECTED, at start-up

\* An effect is named by the pattern that selects it.  ui_pattern[] breathes
\* with LTE and blinks without; substep counts come from led_effect.h.
Breathe == <<BreathSubsteps, 1, BreathSubsteps, 1>>
Blink == <<1, 1>>
Steps(e) == IF "LTE" \in e \/ e = Disconnected THEN Breathe ELSE Blink

VARIABLES
    pin,      \* the charger is plugged in
    pattern,  \* patternIndex
    effect, step, substep,  \* leds.effect, effect_step, effect_substep
    work,     \* leds.work is pending
    main,     \* program counter of the main thread
    job,      \* what the main thread does, see NextJob
    reg,      \* its copy of patternIndex
    wq,       \* program counter of the work queue
    wreg      \* its copy of patternIndex

vars == <<pin, pattern, effect, step, substep, work, main, job, reg, wq, wreg>>
leds == <<effect, step, substep, work>>
queue == <<wq, wreg>>

Effects == (SUBSET Bits) \cup {Disconnected}
Pcs == {"start", "load", "store", "mask", "mask store", "compare", "set",
        "cancel", "step", "substep", "submit"}

Jobs == {"boot", "lteOff", "lteOn", "update"}
Updating == job \in {"boot", "update"}     \* updateLedPattern

\* main.c:941, modem_configure, main.c:1023.
NextJob ==
    CASE job = "boot" -> "lteOff"
      [] job = "lteOff" -> "lteOn"
      [] OTHER -> "update"

TypeOK ==
    /\ pin \in BOOLEAN
    /\ pattern \in SUBSET Bits
    /\ effect \in Effects
    /\ step \in 0 .. 4
    /\ substep \in 0 .. U16 - 1
    /\ work \in BOOLEAN
    /\ main \in Pcs
    /\ job \in Jobs
    /\ main \in {"load", "mask", "mask store", "compare"} => Updating
    /\ reg \in SUBSET Bits
    /\ wq \in {"idle", "gps"}
    /\ wreg \in SUBSET Bits

\* After iotex_hal_gpio_init, which enables the interrupt, and ui_leds_init.
Init ==
    /\ pin \in BOOLEAN
    /\ pattern = {}
    /\ effect = Disconnected
    /\ step = 0
    /\ substep = 0
    /\ work = TRUE
    /\ main = "start"
    /\ job = "boot"
    /\ reg = {}
    /\ wq = "idle"
    /\ wreg = {}

PutAssign(p, bit, on) == IF on THEN {bit} ELSE p \ {bit}
Put(p, bit, on) == IF on THEN p \cup {bit} ELSE p \ {bit}

MainRuns == wq = "idle"     \* the work queue is not in the middle of getGPS

-----------------------------------------------------------------------------
(* Main thread *)

\* checkCHRQ reads the pin and then patternIndex; reg holds the charger bit.
StartUpdateNoPoll ==
    /\ MainRuns
    /\ main = "start"
    /\ Updating
    /\ reg' = pattern
    /\ main' = "load"
    /\ UNCHANGED <<pin, pattern, leds, job, queue>>
StartUpdate ==
    /\ MainRuns
    /\ main = "start"
    /\ Updating
    /\ reg' = Put({}, "BAT", pin)
    /\ main' = "load"
    /\ UNCHANGED <<pin, pattern, leds, job, queue>>

LoadUpdate ==
    /\ MainRuns
    /\ main = "load"
    /\ reg' = Put(pattern, "BAT", "BAT" \in reg)
    /\ main' = "store"
    /\ UNCHANGED <<pin, pattern, leds, job, queue>>

\* ui_led_deactive and ui_led_active of modem_configure.
LoadLte ==
    /\ MainRuns
    /\ main = "start"
    /\ ~ Updating
    /\ reg' = Put(pattern, "LTE", job = "lteOn")
    /\ main' = "store"
    /\ UNCHANGED <<pin, pattern, leds, job, queue>>

Store ==
    /\ MainRuns
    /\ main = "store"
    /\ pattern' = reg
    /\ main' = IF Updating THEN "mask" ELSE "set"
    /\ UNCHANGED <<pin, leds, job, reg, queue>>

\* patternIndex &= ALL_UI_MASK changes nothing, but it writes.
LoadMask ==
    /\ MainRuns
    /\ main = "mask"
    /\ reg' = pattern
    /\ main' = "mask store"
    /\ UNCHANGED <<pin, pattern, leds, job, queue>>

StoreMask ==
    /\ MainRuns
    /\ main = "mask store"
    /\ pattern' = reg
    /\ main' = "compare"
    /\ UNCHANGED <<pin, leds, job, reg, queue>>

CompareNever ==
    /\ MainRuns
    /\ main = "compare"
    /\ IF effect = Disconnected
       THEN main' = "set" /\ job' = job
       ELSE main' = "start" /\ job' = NextJob
    /\ UNCHANGED <<pin, pattern, leds, reg, queue>>
Compare ==
    /\ MainRuns
    /\ main = "compare"
    /\ IF effect # pattern
       THEN main' = "set" /\ job' = job
       ELSE main' = "start" /\ job' = NextJob
    /\ UNCHANGED <<pin, pattern, leds, reg, queue>>

SetEffect ==
    /\ MainRuns
    /\ main = "set"
    /\ effect' = pattern
    /\ main' = "cancel"
    /\ UNCHANGED <<pin, pattern, step, substep, work, job, reg, queue>>

Cancel ==
    /\ MainRuns
    /\ main = "cancel"
    /\ work' = FALSE
    /\ main' = "step"
    /\ UNCHANGED <<pin, pattern, effect, step, substep, job, reg, queue>>

ResetStep ==
    /\ MainRuns
    /\ main = "step"
    /\ step' = 0
    /\ main' = "substep"
    /\ UNCHANGED <<pin, pattern, effect, substep, work, job, reg, queue>>

KeepSubstep ==
    /\ MainRuns
    /\ main = "substep"
    /\ main' = "submit"
    /\ UNCHANGED <<pin, pattern, leds, job, reg, queue>>
ResetSubstep ==
    /\ MainRuns
    /\ main = "substep"
    /\ substep' = 0
    /\ main' = "submit"
    /\ UNCHANGED <<pin, pattern, effect, step, work, job, reg, queue>>

Submit ==
    /\ MainRuns
    /\ main = "submit"
    /\ work' = TRUE
    /\ main' = "start"
    /\ job' = NextJob
    /\ UNCHANGED <<pin, pattern, effect, step, substep, reg, queue>>

-----------------------------------------------------------------------------
(* Work queue *)

StepExists == step < Len(Steps(effect))

\* The step exists and substeps_left is positive.
InRange == StepExists /\ substep < Steps(effect)[step + 1]

\* work_handler: one substep, then the next step, and again from the first.
Animate ==
    /\ wq = "idle"
    /\ work
    /\ InRange
    /\ IF substep + 1 = Steps(effect)[step + 1]
       THEN substep' = 0 /\ step' = (step + 1) % Len(Steps(effect))
       ELSE substep' = substep + 1 /\ step' = step
    /\ UNCHANGED <<pin, pattern, effect, work, main, job, reg, queue>>

\* The step exists, but the position is past its last substep: the division is
\* by zero or by a negative count, and effect_substep, a uint16_t, goes on until
\* it wraps.
Overrun ==
    /\ wq = "idle"
    /\ work
    /\ StepExists
    /\ ~ InRange
    /\ substep' = (substep + 1) % U16
    /\ UNCHANGED <<pin, pattern, effect, step, work, main, job, reg, queue>>

\* The effect has no such step: the count is foreign memory, which may match or
\* not, and the work is not submitted again.
RunOffAgain ==
    /\ wq = "idle"
    /\ work
    /\ ~ StepExists
    /\ \/ substep' = (substep + 1) % U16 /\ step' = step
       \/ substep' = 0 /\ step' = step + 1
    /\ UNCHANGED <<pin, pattern, effect, work, main, job, reg, queue>>
RunOff ==
    /\ wq = "idle"
    /\ work
    /\ ~ StepExists
    /\ \/ substep' = (substep + 1) % U16 /\ step' = step
       \/ substep' = 0 /\ step' = step + 1
    /\ work' = FALSE
    /\ UNCHANGED <<pin, pattern, effect, main, job, reg, queue>>

\* Or the processor traps the division by zero and resets.
Trap ==
    /\ wq = "idle"
    /\ work
    /\ StepExists => substep = Steps(effect)[step + 1]
    /\ pattern' = {}
    /\ effect' = Disconnected
    /\ step' = 0
    /\ substep' = 0
    /\ main' = "start"
    /\ job' = "boot"
    /\ reg' = {}
    /\ UNCHANGED <<pin, work, queue>>

\* getGPS, in send_env_data_work: sensors start after modem_configure.
GpsLoad ==
    /\ wq = "idle"
    /\ job = "update"
    /\ \E fix \in BOOLEAN : wreg' = Put(pattern, "GPS", fix)
    /\ wq' = "gps"
    /\ UNCHANGED <<pin, pattern, leds, main, job, reg>>

GpsStore ==
    /\ wq = "gps"
    /\ pattern' = wreg
    /\ wq' = "idle"
    /\ UNCHANGED <<pin, leds, main, job, reg, wreg>>

-----------------------------------------------------------------------------
\* chrq_input_callback, on both edges of the pin.
ChargerEdge ==
    /\ pin' = ~ pin
    /\ pattern' = Put(pattern, "BAT", ~ pin)
    /\ UNCHANGED <<leds, main, job, reg, queue>>

Main ==
    \/ StartUpdate
    \/ LoadUpdate
    \/ LoadLte
    \/ Store
    \/ LoadMask
    \/ StoreMask
    \/ Compare
    \/ SetEffect
    \/ Cancel
    \/ ResetStep
    \/ ResetSubstep
    \/ Submit

Next ==
    \/ Main
    \/ Animate
    \/ Overrun
    \/ RunOff
    \/ Trap
    \/ GpsLoad
    \/ GpsStore
    \/ ChargerEdge

Spec == Init /\ [][Next]_vars

(* The work queue runs short handlers between delays, so the main thread goes
   on: it is enabled again and again and polls at least every 5 seconds. *)
FairSpec == Spec /\ SF_vars(Main) /\ WF_vars(GpsStore)

-----------------------------------------------------------------------------
(* Properties *)

\* The animation can only leave its effect while ui_led_set_effect is between
\* the assignment of the effect and the reset of the position (led_pwm.c:254).
ConfinedDerailment == main \notin {"cancel", "step", "substep"} => InRange

\* Whatever an interrupt or the work queue does in the middle of a
\* read-modify-write, the LTE bit set once connected is not lost.
LteKept == job = "update" => "LTE" \in pattern

\* The device does not trap for ever.
StaysUp == <>[][~ Trap]_vars

\* A charger that stays plugged in, or out, is shown in the end, although
\* updates of the bit may be lost (hal_gpio.c:16-39, led_pwm.c:280-298).
ChargerShown ==
    StaysUp => \A on \in BOOLEAN :
        <>[](pin = on) => <>[](("BAT" \in pattern) = on)

\* Once the pattern settles the LED shows its effect, whatever ran between the
\* statements of ui_led_set_effect (led_pwm.c:250-278).
EffectFollows ==
    StaysUp => \A p \in SUBSET Bits :
        <>[](pattern = p) => <>[](effect = p)
=============================================================================
