SPECIFICATION Spec
CONSTANTS
    A = A
    B = B
    access = access
    review = review
    policy = policy
    draft = draft
    final = final
    w1 = w1
    w2 = w2
    None = None
    Unpinned = Unpinned
    Edited = Edited
    Instances = {A, B}
    Latest = 2
    Templates = {access, review, policy}
    Controls = {access}
    Policies = {policy}
    Contents = {draft, final}
    Manifest <- MCManifest
    Workers = {w1}
    Environments <- Calm
    MaxRows = 2
    MaxSyncs = 3
    MaxEdits = 1
SYMMETRY Symmetry
CHECK_DEADLOCK FALSE
PROPERTIES EditsKept
