SPECIFICATION FairSpec
CONSTANTS
    BreathSubsteps = 3
    U16 = 6
INVARIANTS
    TypeOK
    ConfinedDerailment
    LteKept
PROPERTIES
    ChargerShown
    EffectFollows
