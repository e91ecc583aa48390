SPECIFICATION FairSpec
CONSTANTS
    Task = {t1, t2}
    NULL = NULL
    Bit = {1, 2}
    Waits <- ClearingWaits
    WindowOpen = FALSE
INVARIANTS
    EventReported
