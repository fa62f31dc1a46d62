CONSTANTS
    r1 = r1
    None = None
    Request = {r1, r2, r3}
    Arrival <- OneTwice
    Stranger = {e1}
    Window = 1
    Limit = 2
    MaxEntries = 3
    MaxAhead = 0
    MaxAtOnce = 2
    MaxTime = 2
SPECIFICATION Spec
INVARIANTS
    RequestSingleUse
    LimitKept
CHECK_DEADLOCK FALSE
SYMMETRY Symmetry
