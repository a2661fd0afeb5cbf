SPECIFICATION Spec
CONSTANTS
    gather = gather
    train = train
    report = report
    extra = extra
    a1 = a1
    a2 = a2
    h1 = h1
    h2 = h2
    PhaseIds = {gather, train, report, extra}
    Originals <- MCOriginals
    Kind <- MCKind
    Locks = {gather}
    Admins = {a1}
    Hooks = {h1, h2}
    Environments <- Calm
SYMMETRY Symmetry
CHECK_DEADLOCK FALSE
PROPERTIES LockStopsAutomation
