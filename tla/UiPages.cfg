CONSTANTS
    Req = {d1, n1, n2}
    NextReq = {n1, n2}
    Identity = {i1, i2}
    File = {f1}
    Poll = {p1, p2}
    None = None
    Torn = Torn
    MaxPins = 2
    MaxKills = 1
SPECIFICATION PSpec
INVARIANTS
    TempAccounted
    OneOpenClient
    
    ReadyExplained
CHECK_DEADLOCK FALSE
SYMMETRY Symmetry
