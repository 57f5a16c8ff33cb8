SPECIFICATION FairSpec
CONSTANTS
    Ids = 5
    Burst = 1
    MaxLost = 1
    BufSize = 25
INVARIANTS
    TypeOK
    InBounds
PROPERTIES
    Resynchronizes
    UsedOnce
    PositionAgain
