CONSTANTS
    None = None
    t1 = t1
    t2 = t2
    k1 = k1
    k2 = k2
    Transfer = {t1, t2}
    Prekey = {k1, k2}
    Attempt = {a1, a2, a3}
    Name <- MCNames
    PrekeyOf <- MCPrekeyOf
    OutNames <- MCOutNames
    PartOf <- MCPartOf
    Ttl = 2
    Tolerance = 1
    Skews <- BehindSkews
    Chunks = 1
    MaxAtOnce = 2
    MaxTime = 3
SPECIFICATION Spec
INVARIANTS
    AcceptedOnce
    LossAccounted
    DeliveredKept
    PartsAccounted
    PrekeyTakenOnce
    LastKeyKept
CHECK_DEADLOCK FALSE
SYMMETRY Symmetry
