SPECIFICATION Spec
CONSTANTS
    small = small
    large = large
    s1 = s1
    s2 = s2
    c1 = c1
    c2 = c2
    w1 = w1
    w2 = w2
    None = None
    Skus = {small, large}
    Included <- MCIncluded
    Sources = {s1, s2}
    Consumers = {c1, c2}
    Syncers = {w1, w2}
    Environments <- MCEnvironments
SYMMETRY Symmetry
CHECK_DEADLOCK FALSE
INVARIANTS TypeOK NeverOverdrawn UsedMatchesCharges GrantedOncePerPeriod
PROPERTIES PeriodNeverRegresses
