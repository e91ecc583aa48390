SPECIFICATION Spec
CONSTANTS
    MAX_TASKS = 3
    TICK_MOD = 8
    MaxUptime = 8
    MaxSleep = 3
    Calls = {"create", "sleep"}
    WindowOpen = FALSE
INVARIANTS
    NoOverdueSleeper
CHECK_DEADLOCK FALSE
