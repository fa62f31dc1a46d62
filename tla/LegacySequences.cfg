CONSTANTS
    None = None
    Key = {k1, k2}
    Call = {c1, c2}
    Session = {s1, s2, s3}
    MaxKills = 1
SPECIFICATION Spec
INVARIANTS
    NeverExhausted
    LossExplained
    AuditAccounted
CHECK_DEADLOCK FALSE
SYMMETRY Symmetry
