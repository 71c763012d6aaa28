SPECIFICATION Spec
CONSTANTS
    u1 = u1
    u2 = u2
    Updates = {u1, u2}
    MaxCards = 3
SYMMETRY Symmetry
INVARIANTS
    LockExcludes
    LockNotLeaked
    ShownIsCurrent
    DecidesOnlySeen
