SPECIFICATION Spec
CONSTANTS
    MAX_TASKS = 3
    TICK_MOD = 16
    MaxUptime = 2
    MaxSleep = 2
    Calls = {"create", "notify_wait", "sleep", "isr_notify"}
    WindowOpen = TRUE
INVARIANTS
    OnlyReadyInHeap
CHECK_DEADLOCK FALSE
