SPECIFICATION Spec
CONSTANTS
    U16 = 65536
    BulkSamples = 3
    BulkFrequency = 10
    DefaultChannel = 8183
    DefaultPeriod = 30
    Malformed = Malformed
    NoConfig = NoConfig
    Deleted = Deleted
    Nothing = Nothing
    Samples = {s1, s2, s3, s4, s5, s6}
    Retained = 3
    Messages <- GrowingBatches
    CrashAt <- BetweenSteps
    Faults <- RetryFaults
SYMMETRY Symmetry
INVARIANTS
    ReadsNextRecord
    UploadedWereSent
PROPERTIES
    WholeBatchSent
    DurableQueue
