CONSTANTS
    a1 = a1
    a2 = a2
    Adders <- MCAdders
    Chunks <- MCChunks
    SyncThreshold = 1
    MaxBytes = 3
    MaxRestarts = 1
SPECIFICATION FairSpec
CHECK_DEADLOCK FALSE
INVARIANTS
    TotalsConserved
    NeverOverCounted
    CloseSavesAll
PROPERTIES
    TotalNeverGoesBack
    CloseReturns
