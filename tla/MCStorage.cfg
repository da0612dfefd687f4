CONSTANTS
    q1 = q1
    q2 = q2
    Bad = Bad
    None = None
    DomainRules <- MCDomainRules
    CidrRules <- MCCidrRules
    DomainQueries <- MCDomainQueries
    CidrQueries <- MCCidrQueries
    Flavors = {"domain", "cidr"}
    Limit = 3
    Threshold = 2
    MaxId = 3
SPECIFICATION MCSpec
CHECK_DEADLOCK FALSE
INVARIANTS
    SearchesAgree
    FlushedStays
    UpdateIsSafe
    StartKeeps
