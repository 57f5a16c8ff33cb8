SPECIFICATION FairSpec
CONSTANTS
    Timeout = 10
    Period = 5
    MaxWork = 2
    MaxBeep = 2
    Faults <- AllFaults
INVARIANTS
    TypeOK
    NoResetWhenHealthy
PROPERTY HangResets
