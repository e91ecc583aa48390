SPECIFICATION Spec
CONSTANTS
    MAX_TASKS = 3
    TICK_MOD = 16
    MaxUptime = 2
    MaxSleep = 2
    Calls = {"create", "create_static", "gc", "delete", "exit", "sleep", "block", "block_current", "set_state", "yield", "unblock", "notify", "notify_wait", "notify_wait_timed", "isr_unblock", "isr_notify"}
    WindowOpen = FALSE
INVARIANTS
    QueuesMatchStates
    PoolPartition
    CountExact
    IdsExact
    IdAvailable
    RunningTaskKeepsStack
    NeverStuck
    NoOverdueSleeper
PROPERTIES
    DeadStaysDead
    NotificationWakes
CHECK_DEADLOCK FALSE
