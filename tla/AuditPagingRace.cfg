CONSTANTS
    Writer = {w1, w2, w3, w4}
    Stamps = {1}
    PageSize = 2
    MaxDamage = 0
SPECIFICATION Spec
INVARIANTS
    NoFalseAlarm
CHECK_DEADLOCK FALSE
SYMMETRY Symmetry
