SPECIFICATION Spec
CONSTANTS
    a = a
    b = b
    c = c
    Users = {a, b, c}
    r1 = r1
    r2 = r2
    r3 = r3
    r4 = r4
    Requests = {r1, r2, r3, r4}
    Nobody = Nobody
SYMMETRY Symmetry
CHECK_DEADLOCK FALSE
INVARIANTS
    PromiseKept
    NoSelfReferral
    OneFriendEach
    CodeWorks
