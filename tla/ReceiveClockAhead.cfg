CONSTANTS
    None = None
    t1 = t1
    t2 = t2
    k1 = k1
    k2 = k2
    Transfer = {t1}
    Prekey = {k1}
    Attempt = {a1, a2}
    Name <- MCNames
    PrekeyOf <- MCPrekeyOf
    OutNames <- MCOutNames
    PartOf <- MCPartOf
    Ttl = 2
    Tolerance = 1
    Skews <- AheadSkews
    Chunks = 1
    MaxAtOnce = 1
    MaxTime = 6
SPECIFICATION Spec
INVARIANTS
    AcceptedOnce
CHECK_DEADLOCK FALSE
SYMMETRY Symmetry
