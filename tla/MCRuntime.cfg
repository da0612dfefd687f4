CONSTANTS
    g1 = g1
    g2 = g2
    e1 = e1
    e2 = e2
    i1 = i1
    n1 = n1
    n2 = n2
    n3 = n3
    Nodes = {n1, n2, n3}
    Conns = {n1, n2}
    MaxBytes = 2
    None = None
    Ids = {i1}
    Getters = {g1, g2}
    Editors = {e1, e2}
    MaxProxies = 2
    MaxVersion = 2
    MaxEdits = 2
SPECIFICATION MCSpec
SYMMETRY MCSymmetry
CHECK_DEADLOCK FALSE
INVARIANTS
    NoDialerLost
    CacheFresh
    SetLosesNothing
    BytesConserved
