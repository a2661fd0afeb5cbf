SPECIFICATION Spec
CONSTANTS
    u1 = u1
    w1 = w1
    w2 = w2
    pot = pot
    g = g
    r1 = r1
    r2 = r2
    r3 = r3
    s1 = s1
    s2 = s2
    s3 = s3
    NoPot = NoPot
    None = None
    Pots = {pot}
    Grants = {g}
    GrantPot <- MCGrantPot
    GrantSize <- MCGrantSize
    Users = {u1}
    Workers = {w1, w2}
    Runs = {r1, r2, r3}
    Sources = {s1, s2, s3}
    Environments <- MCEnvironments
SYMMETRY Symmetry
CHECK_DEADLOCK FALSE
INVARIANTS TypeOK NoFreeScan RefundMarkTrue AuditedOnce LineageIsChain ChargesAccounted AckedIsRefunded
PROPERTIES CancelIsFinal
