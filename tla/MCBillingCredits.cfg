SPECIFICATION Spec
CONSTANTS
    c1 = c1
    c2 = c2
    product = product
    sku = sku
    s1 = s1
    s2 = s2
    k1 = k1
    k2 = k2
    k3 = k3
    g1 = g1
    g2 = g2
    g3 = g3
    None = None
    Callers = {c1, c2}
    Scopes = {product, sku}
    Sources = {s1, s2}
    GrantKeys = {k1, k2, k3}
    Requests = {g1, g2, g3}
    KeyScope <- MCKeyScope
    KeyAmount <- MCKeyAmount
    RequestKey <- MCRequestKey
INVARIANTS TypeOK LedgerAgrees RepliesAreTrue
PROPERTIES ImplementsLedger
