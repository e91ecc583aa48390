SPECIFICATION FairSpec
CONSTANTS
    low = low
    mid = mid
    high = high
    top = top
    Task = {low, mid, high, top}
    NULL = NULL
    BaseWeight <- Weights
    InitialCount = 1
    MaxCount = 2
INVARIANTS
    
    InheritanceExact
    WaitersExact
    TokensCovered
PROPERTIES
    LockGranted
    TokenUsed
