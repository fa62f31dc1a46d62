CONSTANTS
    Writer = {w1, w2, w3, w4}
    Stamps = {1}
    PageSize = 2
    MaxDamage = 1
SPECIFICATION Spec
INVARIANTS
    OneChain
    VerdictSound
    AlarmExplained
CHECK_DEADLOCK FALSE
SYMMETRY Symmetry
