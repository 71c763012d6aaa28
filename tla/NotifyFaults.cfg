CONSTANTS
    n1 = n1
    m1 = m1
    m2 = m2
    m3 = m3
    Notes = {n1}
    ApiNotes = {}
    Msgs = {m1, m2, m3}
    MaxRetries = 3
    Faults = {"send", "lostAnswer", "db", "bot", "body", "crash", "duplicate"}
SPECIFICATION Spec
SYMMETRY Symmetry
INVARIANTS OneHolder AtMostOneSuccess
PROPERTY ImplementsDelivery
CHECK_DEADLOCK FALSE
