SPECIFICATION Spec
CONSTANTS
    gather = gather
    train = train
    report = report
    extra = extra
    a1 = a1
    a2 = a2
    h1 = h1
    h2 = h2
    PhaseIds = {gather, train, report, extra}
    Originals <- MCOriginals
    Kind <- MCKind
    Locks = {gather}
    Admins = {a1, a2}
    Hooks = {h1, h2}
    Environments <- MCEnvironments
SYMMETRY Symmetry
INVARIANTS TypeOK NeverStuck StatusAgrees
PROPERTIES ReconcileSettles
