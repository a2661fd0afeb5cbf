SPECIFICATION Spec
CONSTANTS
    u1 = u1
    u2 = u2
    w1 = w1
    pot = pot
    g = g
    m1 = m1
    m2 = m2
    NoPot = NoPot
    None = None
    Poller = poller
    Pots = {pot}
    Grants = {g}
    GrantPot <- MCGrantPot
    GrantSize <- MCGrantSize
    Sources = {m1}
    Member = m1
    Requesters = {u1}
    Managers = {u2}
    Workers = {w1}
    MaxRows = 2
    MaxFaults = 1
    Results = {"completed"}
    Overlaps = {FALSE}
CHECK_DEADLOCK FALSE
INVARIANTS RequestIsPaid
