CONSTANTS
    p1 = p1
    p2 = p2
    Pkts <- MCPkts
    Outside = {"owner"}
    Capacity = 2
    MaxErrors = 0
    MaxConns = 1
    MaxReplies = 1
SPECIFICATION FairSpec
CHECK_DEADLOCK FALSE
INVARIANTS
    NoLostWakeup
PROPERTIES
    AcceptedIsHandled
    ClosedSourceStops
