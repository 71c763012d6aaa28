SPECIFICATION Spec
CONSTANTS
    u1 = u1
    u2 = u2
    Updates = {u1, u2}
    Given = {"name", "birthdate", "gender", "bio"}
    Menu = {"media"}
    Numbers = {12, 30}
SYMMETRY Symmetry
INVARIANTS
    CompleteIsFlagged
    AskedToTheEnd
    RangeOrdered
PROPERTIES
    NoLostSetting
