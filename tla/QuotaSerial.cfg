CONSTANTS
    r1 = r1
    r2 = r2
    r3 = r3
    r4 = r4
    Requests = {r1, r2, r3, r4}
    Counters = {"like", "dislike"}
    Totals = {0, 1, 2}
    MaxDay = 2
SYMMETRY Symmetry
SPECIFICATION SerialSpec
INVARIANTS NeverOvercounts QuotaHolds
PROPERTIES ImplementsQuota
CHECK_DEADLOCK FALSE
