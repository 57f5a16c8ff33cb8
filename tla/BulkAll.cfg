SPECIFICATION Spec
CONSTANTS
    U16 = 65536
    BulkSamples = 1
    BulkFrequency = 10
    DefaultChannel = 8183
    DefaultPeriod = 30
    Malformed = Malformed
    NoConfig = NoConfig
    Deleted = Deleted
    Nothing = Nothing
    Samples = {s1, s2, s3, s4, s5}
    Retained = 1
    Messages <- AllMessages
    CrashAt <- Everywhere
    Faults <- AllFaults
SYMMETRY Symmetry
INVARIANTS
    TypeOK
    CursorOrder
