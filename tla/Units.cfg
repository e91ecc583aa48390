\* Every independent part on a small instance.
SPECIFICATION Spec
CONSTANTS
  \* ready heap: seven tasks, room for six, vruntimes around the wrap
  HeapTasks = 7
  HeapCapacity = 6
  VruntimeMod = 8
  Vruntimes = {7, 0, 1}
  \* timers
  MaxTimers = 2
  TimerTickMod = 9
  Periods = {1, 2}
  MaxLag = 1
  \* allocator
  PoolSize = 100
  ALIGN_SIZE = 8
  BLOCK_OVERHEAD = 8
  BLOCK_MIN_SIZE = 16
  SL_INDEX_COUNT_LOG2 = 1
  FL_INDEX_MAX = 7
  Ptr = {p1, p2, p3}
  Requests = {4, 20, 28}
  \* drivers
  RxSize = 3
  TxSize = 3
  Bytes = {1, 2}
  MaxWrite = 2
  MaxCount = 1
  SpiLens = {1, 3, 7}
  TxDepth = 4
  RxDepth = 4
  I2cLens = {1, 2, 3}
  MaxNbytes = 2
  Clocks = {4, 16, 24, 32, 48, 64, 80}
  Targets = {4, 8, 16, 24, 32, 48, 64, 80, 100}
  \* console
  LOG_QUEUE_SIZE = 2
  LOG_HISTORY_SIZE = 4
  HistoryRaces = FALSE
  CLI_MAX_LINE_LEN = 4
  CLI_MAX_ARGS = 2
  CLI_MAX_CMDS = 2
  Chars = {"[", "C", "D", " "}
  Names <- MCNames
  PrintBuffer = 7
  IntMod = 256
  PtrDigits = 2
  Widths = {0, 3, 5}
  IntArgs <- MCIntArgs
  UintArgs = {0, 10, 255}
  StringLens <- MCStringLens
INVARIANTS
  HeapExact
  TimersExact
  TimerOnTime
  HeapIntact
  AllocationsFit
  RingsExact
  TransferExact
  CompleteMeansWhole
  TimingMeetsSpec
  ClockSafe
  
  TypedIsExecuted
  PrintedReadsBack
CHECK_DEADLOCK FALSE
