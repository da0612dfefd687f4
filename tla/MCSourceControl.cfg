CONSTANTS
    p1 = p1
    p2 = p2
    Pkts <- MCPkts
    Outside = {"reaper"}
    Capacity = 1
    MaxErrors = 1
    MaxConns = 2
    MaxReplies = 1
SPECIFICATION Spec
SYMMETRY MCSymmetry
CHECK_DEADLOCK FALSE
INVARIANTS
    NothingHeldTwice
    RepliesHaveWriteBack
