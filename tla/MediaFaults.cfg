CONSTANTS
    i1 = i1
    i2 = i2
    i3 = i3
    d1 = d1
    cleanup = cleanup
    Items = {i1, i2, i3}
    Deletes = {d1}
    Job = cleanup
    Limit = 2
    Daily = 2
    Fragile = {i1}
SPECIFICATION Spec
SYMMETRY Symmetry
INVARIANTS AtMostThree ListedIsStored StoredIsListed DailyLimitHolds
PROPERTY CleanupSparesUploads
CHECK_DEADLOCK FALSE
