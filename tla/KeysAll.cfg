SPECIFICATION Spec
CONSTANTS
    Pairs = {p1, p2, p3}
    AesKeys = {a1, a2, a3}
    NoKey = NoKey
INVARIANTS
    TypeOK
    KeyPairMatches
PROPERTIES
    IdentityKept
