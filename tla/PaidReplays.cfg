CONSTANTS
    p1 = p1
    p2 = p2
    d1 = d1
    d2 = d2
    d3 = d3
    s1 = s1
    s2 = s2
    Payments = {p1, p2}
    Deliveries = {d1, d2, d3}
    Spends = {s1, s2}
    Period = 1
    MaxTime = 3
    Faults = {"crash", "api"}
SPECIFICATION Spec
SYMMETRY Symmetry
INVARIANTS CreditsAreBought TimeIsBought TierIsBought CreditsBalance AnsweredIsGranted
CHECK_DEADLOCK FALSE
