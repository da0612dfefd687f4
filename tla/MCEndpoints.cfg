CONSTANTS
    c1 = c1
    c2 = c2
    d1 = d1
    d2 = d2
    d3 = d3
    None = None
    Callers <- MCCallers
    Domains <- MCDomains
    PrefixSize = 3
    MaxNum = 2
    TouchInterval = 1
    MaxTime = 1
SPECIFICATION MCSpec
SYMMETRY MCSymmetry
CHECK_DEADLOCK FALSE
INVARIANTS
    OneDomainPerAddress
    AppliedAsStored
PROPERTY
    KeptWhileRoom
