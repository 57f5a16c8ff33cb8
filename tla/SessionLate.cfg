SPECIFICATION FairSpec
CONSTANTS
    U16 = 65536
    BulkSamples = 1
    BulkFrequency = 10
    DefaultChannel = 8183
    DefaultPeriod = 30
    Malformed = Malformed
    MaxSent = 3
    ConnectWait = 3
    MaxPongs = 1
    Messages <- NoMessages
    Faults <- NoFaults
PROPERTY DataFlows
