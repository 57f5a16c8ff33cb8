SPECIFICATION FairSpec
CONSTANTS
    U16 = 65536
    BulkSamples = 1
    BulkFrequency = 10
    DefaultChannel = 8183
    DefaultPeriod = 30
    Malformed = Malformed
    MaxSent = 3
    ConnectWait = 3
    MaxPongs = 2
    Messages <- AllMessages
    Faults <- AllFaults
INVARIANTS
    TypeOK
    ChainAlive
PROPERTIES
    NoRebootInSession
    ConnectedOrReboot
    SilenceDetected
