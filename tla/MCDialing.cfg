CONSTANTS
    c1 = c1
    c2 = c2
    c3 = c3
    k1 = k1
    None = None
    HTTPS = HTTPS
    A = A
    n1 = n1
    n2 = n2
    n3 = n3
SPECIFICATION Spec
CHECK_DEADLOCK FALSE
INVARIANTS
    NothingStuck
    DialLosesNothing
    RequestsKept
PROPERTIES
    QueryFailsWithCause
    CallsEnd
