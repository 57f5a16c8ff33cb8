SPECIFICATION FairSpec
CONSTANT
    Hold = 5
INVARIANTS
    TypeOK
    OneScanner
PROPERTIES
    NoStrayPowerOff
    HeldPowersOff
    ReleaseSettles
