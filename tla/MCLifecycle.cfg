CONSTANTS
    None = None
    Handlers = {w1, w2, w3}
    MaxControls = 2
    Callers = {c1, c2, c3}
    Readers = {r1, r2}
    Writers = {w1, w2}
    WriteLength = 2
    Sizes = {1}
    MaxSets = 2
    Values = {x, y, z}
    Nil = Nil
    InitCap = 1
    Limits = {1, 4}
SPECIFICATION MCSpec
CHECK_DEADLOCK FALSE
INVARIANTS
    ControlsKnown
    MadeOnce
    WrittenTogether
    DeadlineReaches
PROPERTIES
    IsFifo
    IdleIsReaped
    CallsEnd
