\* Sharing of the CPU among three tasks that sleep, wake, yield and inherit
\* weights.
SPECIFICATION FairSpec
CONSTANTS
    VruntimeMod = 64
    HeapCapacity = 3
    FairTasks = {1, 2, 3}
    BaseWeight <- MCBaseWeight
    BASE_SLICE_TICKS = 2
    VRUNTIME_SCALER = 2
    ChargeMod = 32
    Floor = 5
    RestoreAnyTime = FALSE

    
PROPERTIES
    ReadyRuns
