SPECIFICATION Spec
CONSTANTS
    c1 = c1
    c2 = c2
    c3 = c3
    k1 = k1
    None = None
    Callers = {c1, c2}
    Connectors = {k1}
    MaxTokens = 4
    MaxFaults = 1
    Rotations = {TRUE, FALSE}
    Overruns = {TRUE, FALSE}
SYMMETRY Symmetry
CHECK_DEADLOCK FALSE
INVARIANTS TypeOK GrantKept NoNeedlessError
PROPERTIES LeaseKept
