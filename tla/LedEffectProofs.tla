--------------------------- MODULE LedEffectProofs ---------------------------
(***************************************************************************)
(* Proofs about LedEffect, for every number of substeps and every width of *)
(* their counter: the LTE bit is never lost to a race on patternIndex, and *)
(* the animation is outside its effect only while ui_led_set_effect is at  *)
(* work, at most one step beyond its end.                                  *)
(***************************************************************************)
EXTENDS LedEffect, TLAPS

\* An effect has up to four steps, each with at least one substep.
LEMMA StepsFacts ==
    ASSUME NEW e
    PROVE  /\ Len(Steps(e)) \in 1 .. 4
           /\ \A i \in 1 .. Len(Steps(e)) : Steps(e)[i] \in 1 .. BreathSubsteps
<1> USE LedAssumption
<1>1. Len(Breathe) = 4 /\ \A i \in 1 .. 4 : Breathe[i] \in 1 .. BreathSubsteps
  <2>1. ASSUME NEW i \in 1 .. 4 PROVE Breathe[i] \in 1 .. BreathSubsteps
    <3>1. i = 1 \/ i = 2 \/ i = 3 \/ i = 4
      OBVIOUS
    <3> QED
      BY <3>1 DEF Breathe
  <2> QED
    BY <2>1 DEF Breathe
<1>2. Len(Blink) = 2 /\ \A i \in 1 .. 2 : Blink[i] \in 1 .. BreathSubsteps
  <2>1. ASSUME NEW i \in 1 .. 2 PROVE Blink[i] \in 1 .. BreathSubsteps
    <3>1. i = 1 \/ i = 2
      OBVIOUS
    <3> QED
      BY <3>1 DEF Blink
  <2> QED
    BY <2>1 DEF Blink
<1>3. Steps(e) = Breathe \/ Steps(e) = Blink
  BY DEF Steps
<1>4. CASE Steps(e) = Breathe
  <2>1. Len(Steps(e)) = 4
    BY <1>1, <1>4
  <2>2. \A i \in 1 .. 4 : Steps(e)[i] \in 1 .. BreathSubsteps
    BY <1>1, <1>4
  <2> QED
    BY <2>1, <2>2
<1>5. CASE Steps(e) = Blink
  <2>1. Len(Steps(e)) = 2
    BY <1>2, <1>5
  <2>2. \A i \in 1 .. 2 : Steps(e)[i] \in 1 .. BreathSubsteps
    BY <1>2, <1>5
  <2> QED
    BY <2>1, <2>2
<1> QED
  BY <1>3, <1>4, <1>5

LEMMA PutFacts ==
    ASSUME NEW p \in SUBSET Bits, NEW bit \in Bits, NEW on \in BOOLEAN
    PROVE  /\ Put(p, bit, on) \in SUBSET Bits
           /\ "LTE" \in p /\ bit # "LTE" => "LTE" \in Put(p, bit, on)
           /\ on => bit \in Put(p, bit, on)
  BY DEF Put, Bits

-----------------------------------------------------------------------------
(* The inductive invariant *)

\* Every copy of patternIndex that will be written back once the device is
\* connected has the LTE bit, and so has patternIndex from the moment
\* ui_led_active stores it.
Setting == {"set", "cancel", "step", "substep", "submit"}
LteCopies ==
    /\ wq = "gps" => job = "update" /\ "LTE" \in wreg
    /\ main \in {"store", "mask store"} /\ job \in {"lteOn", "update"} => "LTE" \in reg
    /\ job = "lteOn" /\ main \in Setting => "LTE" \in pattern
    /\ job = "update" => "LTE" \in pattern

\* While the position is reset the animation is cancelled, and it is not
\* submitted again once it is past the steps of every effect.
Cancelled ==
    /\ work => step \in 0 .. 3
    /\ main \in {"step", "substep"} => ~ work
    /\ main = "substep" => step = 0

IInv == TypeOK /\ LteCopies /\ Cancelled /\ ConfinedDerailment

\* The first substep of the first step is in every effect.
LEMMA StartInRange ==
    ASSUME step = 0, substep = 0 PROVE InRange
<1>1. Len(Steps(effect)) \in 1 .. 4 /\ Steps(effect)[1] \in 1 .. BreathSubsteps
  BY StepsFacts
<1> QED
  BY <1>1, LedAssumption DEF InRange, StepExists

LEMMA InitInv == Init => IInv
<1> SUFFICES ASSUME Init PROVE IInv
  OBVIOUS
<1>1. TypeOK
  <2>1. pattern \in SUBSET Bits /\ reg \in SUBSET Bits /\ wreg \in SUBSET Bits
    BY DEF Init
  <2>2. effect \in Effects
    BY DEF Init, Effects
  <2>3. step \in 0 .. 4 /\ substep \in 0 .. U16 - 1
    BY LedAssumption DEF Init
  <2> QED
    BY <2>1, <2>2, <2>3 DEF Init, TypeOK, Pcs, Jobs
<1>2. InRange
  BY StartInRange DEF Init
<1>3. step \in 0 .. 3
  BY DEF Init
<1> QED
  BY <1>1, <1>2, <1>3 DEF Init, IInv, LteCopies, Cancelled, ConfinedDerailment, Setting

\* No step of another context moves the main thread, its registers or the
\* effect, and each keeps the LTE bit.
LEMMA OtherStep ==
    ASSUME IInv, GpsLoad \/ GpsStore \/ ChargerEdge
    PROVE  IInv'
<1>1. UNCHANGED <<effect, step, substep, work, main, job, reg>>
  BY DEF GpsLoad, GpsStore, ChargerEdge, leds
<1>2. /\ pin \in BOOLEAN /\ pattern \in SUBSET Bits /\ wreg \in SUBSET Bits
      /\ "BAT" \in Bits /\ "GPS" \in Bits
  BY DEF IInv, TypeOK, Bits
<1>3. /\ pin' \in BOOLEAN /\ pattern' \in SUBSET Bits /\ wreg' \in SUBSET Bits
      /\ wq' \in {"idle", "gps"}
      /\ "LTE" \in pattern /\ (wq = "gps" => "LTE" \in wreg) => "LTE" \in pattern'
      /\ wq' = "gps" => job = "update" /\ "LTE" \in wreg'
  <2>1. CASE GpsLoad
    <3>1. PICK fix \in BOOLEAN : wreg' = Put(pattern, "GPS", fix)
      BY <2>1 DEF GpsLoad
    <3>2. wreg' \in SUBSET Bits /\ ("LTE" \in pattern => "LTE" \in wreg')
      BY <1>2, <3>1, PutFacts
    <3>3. pin' = pin /\ pattern' = pattern /\ wq' = "gps" /\ job = "update"
      BY <2>1 DEF GpsLoad
    <3>4. "LTE" \in pattern
      BY <3>3 DEF IInv, LteCopies
    <3> QED
      BY <1>2, <3>2, <3>3, <3>4
  <2>2. CASE GpsStore
    BY <1>2, <2>2 DEF GpsStore, IInv, LteCopies
  <2>3. CASE ChargerEdge
    <3>1. pattern' = Put(pattern, "BAT", ~ pin)
      BY <2>3 DEF ChargerEdge
    <3>2. (~ pin) \in BOOLEAN
      BY <1>2
    <3>3. pattern' \in SUBSET Bits /\ ("LTE" \in pattern => "LTE" \in pattern')
      BY <1>2, <3>1, <3>2, PutFacts
    <3>4. pin' \in BOOLEAN /\ UNCHANGED <<wq, wreg>>
      BY <2>3 DEF ChargerEdge, queue
    <3> QED
      BY <1>2, <3>3, <3>4 DEF IInv, TypeOK, LteCopies
  <2> QED
    BY <2>1, <2>2, <2>3
<1>4. TypeOK'
  BY <1>1, <1>3 DEF IInv, TypeOK, Updating
<1>5. LteCopies'
  BY <1>1, <1>3 DEF IInv, LteCopies
<1>6. Cancelled' /\ ConfinedDerailment'
  BY <1>1 DEF IInv, Cancelled, ConfinedDerailment, InRange, StepExists
<1> QED
  BY <1>4, <1>5, <1>6 DEF IInv

\* The main thread reads patternIndex and writes it back.
LEMMA PatternStep ==
    ASSUME IInv,
           \/ StartUpdate
           \/ LoadUpdate
           \/ LoadLte
           \/ Store
           \/ LoadMask
           \/ StoreMask
           \/ Compare
    PROVE  IInv'
<1>1. /\ wq = "idle"
      /\ main \in {"start", "load", "store", "mask", "mask store", "compare"}
      /\ UNCHANGED <<pin, effect, step, substep, work, wq, wreg>>
  BY DEF StartUpdate, LoadUpdate, LoadLte, Store, LoadMask, StoreMask, Compare,
         MainRuns, leds, queue
<1>2. /\ pattern \in SUBSET Bits /\ reg \in SUBSET Bits /\ pin \in BOOLEAN
      /\ job \in Jobs
      /\ "BAT" \in Bits /\ "LTE" \in Bits
      /\ {} \in SUBSET Bits
  BY DEF IInv, TypeOK, Bits
<1>3. /\ pattern' \in SUBSET Bits /\ reg' \in SUBSET Bits
      /\ main' \in {"start", "load", "store", "mask", "mask store", "compare", "set"}
      /\ job' \in Jobs
      /\ main' \in {"load", "mask", "mask store", "compare"} => Updating'
      /\ LteCopies'
  <2>1. CASE StartUpdate
    <3>1. reg' = Put({}, "BAT", pin)
      BY <2>1 DEF StartUpdate
    <3>2. reg' \in SUBSET Bits
      BY <1>2, <3>1, PutFacts
    <3>3. main' = "load" /\ pattern' = pattern /\ job' = job /\ Updating
      BY <2>1 DEF StartUpdate
    <3> QED
      BY <1>1, <1>2, <3>2, <3>3 DEF IInv, LteCopies, Updating, Setting
  <2>2. CASE LoadUpdate
    <3>1. /\ reg' = Put(pattern, "BAT", "BAT" \in reg) /\ ("BAT" \in reg) \in BOOLEAN
          /\ main = "load" /\ main' = "store" /\ pattern' = pattern /\ job' = job
      BY <2>2 DEF LoadUpdate
    <3>2. reg' \in SUBSET Bits /\ ("LTE" \in pattern => "LTE" \in reg')
      BY <1>2, <3>1, PutFacts
    <3>3. job \in {"boot", "update"}
      BY <3>1 DEF IInv, TypeOK, Updating
    <3> QED
      BY <1>1, <1>2, <3>1, <3>2, <3>3 DEF IInv, LteCopies, Setting
  <2>3. CASE LoadLte
    <3>1. /\ reg' = Put(pattern, "LTE", job = "lteOn") /\ (job = "lteOn") \in BOOLEAN
          /\ main' = "store" /\ pattern' = pattern /\ job' = job
          /\ ~ Updating
      BY <2>3 DEF LoadLte
    <3>2. reg' \in SUBSET Bits /\ (job = "lteOn" => "LTE" \in reg')
      BY <1>2, <3>1, PutFacts
    <3>3. job \in {"lteOff", "lteOn"}
      BY <1>2, <3>1 DEF Jobs, Updating
    <3> QED
      BY <1>1, <1>2, <3>1, <3>2, <3>3 DEF IInv, LteCopies, Setting
  <2>4. CASE Store
    <3>1. /\ main = "store" /\ pattern' = reg /\ job' = job /\ reg' = reg
          /\ main' = IF Updating THEN "mask" ELSE "set"
      BY <2>4 DEF Store
    <3>2. job \in {"lteOn", "update"} => "LTE" \in pattern'
      BY <3>1 DEF IInv, LteCopies
    <3> QED
      BY <1>1, <1>2, <3>1, <3>2 DEF LteCopies, Updating, Setting
  <2>5. CASE LoadMask
    <3>1. /\ main = "mask" /\ main' = "mask store"
          /\ pattern' = pattern /\ job' = job /\ reg' = pattern
      BY <2>5 DEF LoadMask
    <3>2. Updating /\ job \in {"boot", "update"}
      BY <3>1 DEF IInv, TypeOK, Updating
    <3> QED
      BY <1>1, <1>2, <3>1, <3>2 DEF IInv, LteCopies, Updating, Setting
  <2>6. CASE StoreMask
    <3>1. /\ main = "mask store" /\ main' = "compare"
          /\ pattern' = reg /\ job' = job /\ reg' = reg
      BY <2>6 DEF StoreMask
    <3>2. Updating /\ job \in {"boot", "update"}
      BY <3>1 DEF IInv, TypeOK, Updating
    <3> QED
      BY <1>1, <1>2, <3>1, <3>2 DEF IInv, LteCopies, Updating, Setting
  <2>7. CASE Compare
    <3>1. /\ main = "compare" /\ pattern' = pattern /\ reg' = reg
          /\ \/ main' = "set" /\ job' = job
             \/ main' = "start" /\ job' = NextJob
      BY <2>7 DEF Compare
    <3>2. job \in {"boot", "update"}
      BY <3>1 DEF IInv, TypeOK, Updating
    <3>3. job' \in Jobs /\ job' # "lteOn" /\ (job' = "update" => job = "update")
      BY <3>1, <3>2 DEF NextJob, Jobs
    <3> QED
      BY <1>1, <1>2, <3>1, <3>3 DEF IInv, LteCopies
  <2> QED
    BY <2>1, <2>2, <2>3, <2>4, <2>5, <2>6, <2>7
<1>4. TypeOK'
  BY <1>1, <1>3 DEF IInv, TypeOK, Pcs
<1>5. InRange
  BY <1>1 DEF IInv, ConfinedDerailment
<1>6. Cancelled' /\ ConfinedDerailment'
  <2>1. work => step \in 0 .. 3
    BY DEF IInv, Cancelled
  <2> QED
    BY <1>1, <1>3, <1>5, <2>1 DEF Cancelled, ConfinedDerailment, InRange, StepExists
<1> QED
  BY <1>3, <1>4, <1>6 DEF IInv

\* ui_led_set_effect: the position is outside the effect at worst from the
\* assignment of the effect to the reset of the substep.
LEMMA EffectStep ==
    ASSUME IInv, SetEffect \/ Cancel \/ ResetStep \/ ResetSubstep \/ Submit
    PROVE  IInv'
<1> USE LedAssumption
<1>1. /\ wq = "idle"
      /\ main \in Setting
      /\ UNCHANGED <<pin, pattern, reg, wq, wreg>>
  BY DEF SetEffect, Cancel, ResetStep, ResetSubstep, Submit, MainRuns, queue, Setting
<1>2. job \in Jobs /\ ~ (main \in {"load", "mask", "mask store", "compare"})
  BY <1>1 DEF IInv, TypeOK, Setting
<1>3. /\ main' \in {"cancel", "step", "substep", "submit", "start"}
      /\ job' \in Jobs
      /\ job' = job \/ (main' = "start" /\ job' = NextJob)
  BY <1>2 DEF SetEffect, Cancel, ResetStep, ResetSubstep, Submit, NextJob, Jobs
<1>4. TypeOK'
  <2>1. effect' \in Effects
    BY DEF IInv, TypeOK, Effects, SetEffect, Cancel, ResetStep, ResetSubstep, Submit
  <2>2. step \in 0 .. 4 /\ substep \in 0 .. U16 - 1 /\ work \in BOOLEAN
    BY DEF IInv, TypeOK
  <2>3. step' \in {step, 0} /\ substep' \in {substep, 0} /\ work' \in {work, TRUE, FALSE}
    BY DEF SetEffect, Cancel, ResetStep, ResetSubstep, Submit
  <2>4. 0 \in 0 .. 4 /\ 0 \in 0 .. U16 - 1
    OBVIOUS
  <2> QED
    BY <1>1, <1>3, <2>1, <2>2, <2>3, <2>4 DEF IInv, TypeOK, Pcs
<1>5. LteCopies'
  <2>1. job' = "lteOn" /\ main' \in Setting => job = "lteOn"
    BY <1>3 DEF Setting
  <2>2. job' = "update" => job \in {"lteOn", "update"}
    BY <1>2, <1>3 DEF NextJob, Jobs
  <2> QED
    BY <1>1, <1>3, <2>1, <2>2 DEF IInv, LteCopies
<1>6. Cancelled'
  <2>1. CASE Submit
    <3>1. InRange /\ step \in 0 .. 4 /\ step' = step /\ main' = "start"
      BY <2>1 DEF Submit, IInv, TypeOK, ConfinedDerailment
    <3>2. Len(Steps(effect)) \in 1 .. 4
      BY StepsFacts
    <3>3. step' \in 0 .. 3
      BY <3>1, <3>2 DEF InRange, StepExists
    <3> QED
      BY <3>1, <3>3 DEF Cancelled
  <2>2. CASE SetEffect \/ Cancel \/ ResetStep \/ ResetSubstep
    BY <2>2 DEF IInv, Cancelled, SetEffect, Cancel, ResetStep, ResetSubstep
  <2> QED
    BY <2>1, <2>2
<1>7. ConfinedDerailment'
  <2>1. CASE SetEffect \/ Cancel \/ ResetStep
    BY <2>1 DEF SetEffect, Cancel, ResetStep, ConfinedDerailment
  <2>2. CASE ResetSubstep
    <3>1. /\ step = 0 /\ step' = step /\ substep' = 0 /\ effect' = effect
      BY <2>2 DEF ResetSubstep, IInv, Cancelled
    <3>2. Len(Steps(effect)) \in 1 .. 4 /\ Steps(effect)[1] \in 1 .. BreathSubsteps
      BY StepsFacts
    <3>3. step' = 0 /\ Steps(effect') = Steps(effect)
      BY <3>1
    <3>4. step' < Len(Steps(effect'))
      BY <3>2, <3>3
    <3>5. Steps(effect')[step' + 1] = Steps(effect)[1]
      BY <3>3
    <3>6. substep' < Steps(effect')[step' + 1]
      BY <3>1, <3>2, <3>5
    <3> QED
      BY <3>4, <3>6 DEF ConfinedDerailment, InRange, StepExists
  <2>3. CASE Submit
    BY <2>3 DEF Submit, IInv, ConfinedDerailment, InRange, StepExists
  <2> QED
    BY <2>1, <2>2, <2>3
<1> QED
  BY <1>4, <1>5, <1>6, <1>7 DEF IInv

\* The animation moves within its effect.
LEMMA AnimateStep ==
    ASSUME IInv, Animate
    PROVE  IInv'
<1> USE LedAssumption
<1> DEFINE s == Steps(effect)
<1>1. UNCHANGED <<pin, pattern, effect, work, main, job, reg, wq, wreg>>
  BY DEF Animate, queue
<1>2. /\ Len(s) \in 1 .. 4
      /\ \A i \in 1 .. Len(s) : s[i] \in 1 .. BreathSubsteps
  BY StepsFacts
<1>3. /\ step \in 0 .. 4 /\ substep \in 0 .. U16 - 1
      /\ step < Len(s) /\ substep < s[step + 1]
  BY DEF Animate, InRange, StepExists, IInv, TypeOK
<1>4. \/ substep' = 0 /\ step' = (step + 1) % Len(s)
      \/ substep' = substep + 1 /\ step' = step /\ substep + 1 # s[step + 1]
  BY DEF Animate
<1> HIDE DEF s
<1>5. step + 1 \in 1 .. Len(s) /\ s[step + 1] \in 1 .. BreathSubsteps
  BY <1>2, <1>3
<1>6. /\ step' \in 0 .. 3 /\ step' < Len(s)
      /\ substep' \in 0 .. U16 - 1 /\ substep' < s[step' + 1]
  <2>1. CASE substep' = 0 /\ step' = (step + 1) % Len(s)
    <3> DEFINE x == (step + 1) % Len(s)
    <3>1. x \in 0 .. 3 /\ x < Len(s)
      BY <1>2, <1>3
    <3>2. step' = x
      BY <2>1
    <3> HIDE DEF x
    <3>3. x + 1 \in 1 .. Len(s)
      BY <1>2, <3>1
    <3>4. s[x + 1] \in 1 .. BreathSubsteps
      BY <1>2, <3>3
    <3> QED
      BY <2>1, <3>1, <3>2, <3>4
  <2>2. CASE substep' = substep + 1 /\ step' = step /\ substep + 1 # s[step + 1]
    <3>1. s[step' + 1] = s[step + 1]
      BY <2>2
    <3>2. substep + 1 < s[step + 1] /\ substep + 1 \in 0 .. U16 - 1
      BY <1>3, <1>5, <2>2
    <3>3. step \in 0 .. 3
      BY <1>2, <1>3
    <3> QED
      BY <1>3, <2>2, <3>1, <3>2, <3>3
  <2> QED
    BY <1>4, <2>1, <2>2
<1>7. InRange'
  BY <1>1, <1>6 DEF InRange, StepExists, s
<1>8. TypeOK'
  <2>1. step' \in 0 .. 4 /\ substep' \in 0 .. U16 - 1
    BY <1>6
  <2> QED
    BY <1>1, <2>1 DEF IInv, TypeOK, Updating
<1>9. LteCopies'
  BY <1>1 DEF IInv, LteCopies
<1>10. Cancelled'
  <2>1. work /\ work' = work /\ main' = main /\ step' \in 0 .. 3
    BY <1>1, <1>6 DEF Animate
  <2> QED
    BY <2>1 DEF IInv, Cancelled
<1> QED
  BY <1>7, <1>8, <1>9, <1>10 DEF IInv, ConfinedDerailment

\* A derailed animation, or its trap, is possible only before the cancellation.
LEMMA DerailStep ==
    ASSUME IInv, Overrun \/ RunOff \/ Trap
    PROVE  IInv'
<1> USE LedAssumption
<1>1. CASE Overrun \/ RunOff
  <2>1. /\ UNCHANGED <<pin, pattern, effect, main, job, reg, wq, wreg>>
        /\ work /\ ~ InRange
    BY <1>1 DEF Overrun, RunOff, InRange, queue
  <2>2. main = "cancel"
    BY <2>1 DEF IInv, ConfinedDerailment, Cancelled
  <2>3. step \in 0 .. 3 /\ substep \in 0 .. U16 - 1
    BY <2>1 DEF IInv, TypeOK, Cancelled
  <2>4. (substep + 1) % U16 \in 0 .. U16 - 1
    BY <2>3
  <2>5. /\ step' \in 0 .. 4 /\ substep' \in 0 .. U16 - 1 /\ work' \in BOOLEAN
        /\ work' => step' \in 0 .. 3
    <3>1. CASE Overrun
      BY <2>1, <2>3, <2>4, <3>1 DEF Overrun
    <3>2. CASE RunOff
      <4>1. (substep' = (substep + 1) % U16 /\ step' = step)
              \/ (substep' = 0 /\ step' = step + 1)
        BY <3>2 DEF RunOff
      <4>2. step' \in 0 .. 4 /\ substep' \in 0 .. U16 - 1
        <5> DEFINE next == (substep + 1) % U16
        <5>1. next \in 0 .. U16 - 1
          BY <2>4
        <5>2. (substep' = next /\ step' = step) \/ (substep' = 0 /\ step' = step + 1)
          BY <4>1
        <5> HIDE DEF next
        <5> QED
          BY <2>3, <5>1, <5>2
      <4>3. work' = FALSE
        BY <3>2 DEF RunOff
      <4> QED
        BY <4>2, <4>3
    <3> QED
      BY <1>1, <3>1, <3>2
  <2> QED
    BY <2>1, <2>2, <2>5 DEF IInv, TypeOK, Updating, LteCopies, Cancelled,
       ConfinedDerailment
<1>2. CASE Trap
  <2>1. /\ pattern' = {} /\ effect' = Disconnected /\ step' = 0 /\ substep' = 0
        /\ main' = "start" /\ job' = "boot" /\ reg' = {}
        /\ wq = "idle" /\ UNCHANGED <<pin, work, wq, wreg>>
    BY <1>2 DEF Trap, queue
  <2>2. TypeOK'
    <3>1. effect' \in Effects /\ pattern' \in SUBSET Bits /\ reg' \in SUBSET Bits
      BY <2>1 DEF Effects
    <3>2. step' \in 0 .. 4 /\ substep' \in 0 .. U16 - 1
      BY <2>1
    <3> QED
      BY <2>1, <3>1, <3>2 DEF IInv, TypeOK, Pcs, Jobs
  <2>3. InRange'
    <3>1. /\ Len(Steps(Disconnected)) \in 1 .. 4
          /\ Steps(Disconnected)[1] \in 1 .. BreathSubsteps
      BY StepsFacts
    <3> QED
      BY <2>1, <3>1 DEF InRange, StepExists
  <2>4. LteCopies' /\ ConfinedDerailment'
    BY <2>1, <2>3 DEF LteCopies, ConfinedDerailment, Setting
  <2>5. step' \in 0 .. 3
    BY <2>1
  <2>6. Cancelled'
    BY <2>1, <2>5 DEF Cancelled
  <2> QED
    BY <2>2, <2>4, <2>6 DEF IInv
<1> QED
  BY <1>1, <1>2

LEMMA StepInv == IInv /\ [Next]_vars => IInv'
<1> SUFFICES ASSUME IInv, [Next]_vars PROVE IInv'
  OBVIOUS
<1>1. CASE Next
  BY <1>1, OtherStep, PatternStep, EffectStep, AnimateStep, DerailStep DEF Next, Main
<1>2. CASE UNCHANGED vars
  BY <1>2 DEF vars, leds, queue, IInv, TypeOK, Updating, LteCopies, Cancelled,
     ConfinedDerailment, InRange, StepExists
<1> QED
  BY <1>1, <1>2

\* The type invariant of the LED, for every number of substeps.  What it says
\* of the position: wherever the race of ui_led_set_effect takes it, it is never
\* more than one step past the last of an effect, as the work is not submitted
\* again from there (led_pwm.c:171).
THEOREM TypeCorrect == Spec => []TypeOK
<1>1. IInv => TypeOK
  BY DEF IInv
<1> QED
  BY InitInv, StepInv, <1>1, PTL DEF Spec

\* No interleaving of the three contexts loses the LTE bit (led_pwm.c:280-298).
THEOREM LteNotLost == Spec => []LteKept
<1>1. IInv => LteKept
  BY DEF IInv, LteCopies, LteKept
<1> QED
  BY InitInv, StepInv, <1>1, PTL DEF Spec

\* The race of ui_led_set_effect with the animation is confined to it
\* (led_pwm.c:254-258).
THEOREM DerailmentConfined == Spec => []ConfinedDerailment
<1>1. IInv => ConfinedDerailment
  BY DEF IInv
<1> QED
  BY InitInv, StepInv, <1>1, PTL DEF Spec
=============================================================================
