CONSTANTS
    r1 = r1
    r2 = r2
    Requests = {r1, r2}
SYMMETRY Symmetry
SPECIFICATION Spec
INVARIANTS
    MatchNeedsBothLikes
    BlockStopsRequest
