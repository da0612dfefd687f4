CONSTANTS
    l1 = l1
    e1 = e1
    e2 = e2
    e3 = e3
    s1 = s1
    Lists = {l1}
    RuleEditors = {e1, e2}
    ListEditors = {e3}
    MaxVersion = 2
    Savers = {s1}
    Settings <- MCSettings
    MaxInterval = 2
    MaxTickers = 2
SPECIFICATION MCSpec
SYMMETRY MCSymmetry
CHECK_DEADLOCK FALSE
INVARIANTS
    ActivationTruthful
    AnnouncedComes
    RuntimeAsStored
