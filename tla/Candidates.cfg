SPECIFICATION OfferSpec
CONSTANTS
    Ages = {21, 80}
    AgeLimits = {0, 23, 77}
    Reaches = {0, 300}
    Distances = {400, 1000}
    SkipCool = 1
    DislikeCool = 2
    LikeStale = 3
INVARIANTS
    StrictWithinRelaxed
    CooldownsHold
    LikeReachesOther
PROPERTY NobodyLost
