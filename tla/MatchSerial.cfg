CONSTANTS
    r1 = r1
    Requests = {r1}
SPECIFICATION SerialSpec
INVARIANTS
    MutualLikeIsMatched
PROPERTIES
    ImplementsContract
