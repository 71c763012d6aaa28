CONSTANTS
    n1 = n1
    n2 = n2
    m1 = m1
    m2 = m2
    m3 = m3
    Notes = {n1, n2}
    ApiNotes = {n2}
    Msgs = {m1, m2, m3}
    MaxRetries = 1
    Faults = {"send", "lostAnswer", "bot", "duplicate"}
SPECIFICATION FairSpec
INVARIANT NoOrphan
PROPERTY Settles
CHECK_DEADLOCK FALSE
