SPECIFICATION Spec
CONSTANTS
    MAX_TASKS = 3
    TICK_MOD = 16
    MaxUptime = 2
    MaxSleep = 2
    Calls = {"create", "sleep", "block_any"}
    WindowOpen = FALSE
PROPERTIES
    TimeWakesNoBlockedTask
CHECK_DEADLOCK FALSE
