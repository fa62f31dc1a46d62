CONSTANTS
    Sizes <- MCSizes
    ChunkSize = 3
    Frame = 1
    SigLen = 2
    Preamble = 5
    MaxEdits = 3
    MaxDamage = 1
SPECIFICATION Spec
INVARIANTS
    DeclaredExact
    SentIsReceivable
    DeliveredIsSent
CHECK_DEADLOCK FALSE
