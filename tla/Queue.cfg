SPECIFICATION FairSpec
CONSTANTS
    a = a
    b = b
    Task = {t1, t2, t3}
    NULL = NULL
    Item = {a, b}
    Capacity = 2
    Arrays <- MCArrays
INVARIANTS
    WaitersExact
    NoneStranded
    TransmitterArmed
PROPERTIES
    ImplementsFifo
    FullQueueDrains
