# A TLA+ model of soRTOS

soRTOS is a preemptive real-time kernel for Cortex-M4 in C. This directory
models the kernel and its interrupt-driven drivers, checks the models with TLC
and proves with TLAPS most of their safety properties: those of the scheduler, the
mutex, the semaphore, the queue, the event group, the software timers, the log
history, the UART, SPI and I2C drivers and the system clock.

## The system

| Part | Source | Module |
|---|---|---|
| scheduler: task life cycle | `kernel/src/scheduler.c`, `drivers/src/systick.c` | `Scheduler` |
| scheduler: weighted fair picking | `kernel/src/scheduler.c` | `ReadyHeap`, `FairScheduling` |
| mutex, semaphore | `kernel/src/mutex.c`, `semaphore.c` | `Tasks`, `Mutex`, `Semaphore`, composed in `Sync` |
| queue, with the UART's queue mode | `kernel/src/queue.c`, `drivers/src/uart.c` | `Tasks`, `Queue`, abstract specification `Fifo` |
| event group | `kernel/src/event_group.c` | `EventGroup` |
| software timers, memory pool | `kernel/src/timer.c`, `mempool.c` | `Timer` |
| allocator | `kernel/src/allocator.c` | `Allocator` |
| logger | `kernel/src/logger.c` | `Logger` |
| command line, formatted output | `kernel/src/cli.c` | `Cli`, `Printf` |
| UART, SPI, I2C drivers | `drivers/src/`, `platform/stm32l476rg/drivers/` | `Uart`, `Spi`, `I2c` |
| system clock | `platform/stm32l476rg/system_clock.c` | `SystemClock` |

The mutex, semaphore, queue and event group block tasks with
`task_set_state(current, BLOCKED)` and wake them with `task_unblock`. The timer
daemon waits with `task_notify_wait` and is woken with `task_notify`. All of them
rest on the scheduler. Their linked lists are sequences; `Lists` has what is done to
them.

### Atomicity

One action is one `spin_lock ... spin_unlock` section. On the single-CPU build a
section runs with interrupts off, so it is atomic. Between two sections of one
call the caller may be interrupted or preempted; `pc[t]` is the point task `t` has
reached. Statements outside any lock (the logger's, the timer daemon's read of
the clock) are actions of their own.

## The modules

### Scheduler

One variable per field of the scheduler's structures. Thread steps need
`curr = t` and no pending PendSV; interrupt steps may come at any time.

| Code | Model |
|---|---|
| `task_create`, `task_create_static` | `TaskCreate`, `TaskCreateFail`, `TaskCreateStatic` |
| `_task_create_idle`, `scheduler_start` | `TaskCreateIdle`, `TaskCreateIdleFail`, `SchedulerStart` |
| `task_garbage_collection`, idle loop | `TaskGarbageCollection`, `IdleGarbageCollection` |
| `task_delete`, `task_exit` | `TaskDelete`, `TaskExit` |
| `task_block`, `task_block_current`, `task_unblock`, `task_set_state` | actions of the same names |
| `task_sleep_ticks` | `TaskSleepTicks` |
| `task_notify_wait`: first section, state test, second section | `TaskNotifyWait`, `TaskNotifyWaitCheck`, `TaskNotifyWaitWoke` |
| `task_notify`: search, section; from an interrupt | `TaskNotifyFind`, `TaskNotify`, `IsrNotify` |
| `scheduler_tick`, `schedule_next_task` | `SysTick`, `ScheduleNextTask` |

- The heap is a set. Which ready task is picked, and when a slice ends, is left
  open, so what holds here holds for every order by vruntime.
- `notify_val`, stacks, CPU accounting and weights are left out. A failing
  allocation is a nondeterministic choice.
- `Calls` names the calls made in an instance. Three restrictions describe
  callers rather than code. `"block"` blocks only READY or BLOCKED tasks, whereas
  `task_block` itself accepts any (`"block_any"`). `task_set_state` is called
  on another task, to READY or BLOCKED, and never READY to READY. `WindowOpen = FALSE`
  excludes an interrupt that wakes a task between the unlock and the state test of
  `task_notify_wait`.

### FairScheduling and ReadyHeap

`ReadyHeap` has the heap of the scheduler as an array with the back index of each
task, and its five operations. `FairScheduling` uses it to pick tasks by
vruntime: ticks, slices, the charge at a context switch, the lift at a wake-up,
yields, and the weights a mutex lends and takes back. Charges count modulo
`ChargeMod`, so the unsigned subtraction wraps as in the code. Only differences of
vruntimes matter, so the smallest one is kept at 0.

Two restrictions. Some user task is always ready, so idle does not run: while
idle runs, `_get_min_vruntime` answers with idle's vruntime and tasks that wake are
not brought together. And with `RestoreAnyTime = FALSE` a weight is restored only while
the slice left is one the base weight could have; `fair_boost` drops this.

### Mutex, Semaphore, Sync, Queue

`Tasks` is what these primitives see of the scheduler: a task is READY or BLOCKED,
and any READY task may take the next step. `Sync` composes one mutex and one
semaphore over the same tasks, because they share the task's one `wait_node`.
A task holds one mutex at a time and does not wait for the semaphore while it holds
it; waiters are not deleted, and nothing else wakes them.

`Queue` has every operation of `queue.c`, for tasks and for interrupts. Its push
callback is `uart_tx_queue_callback`, which enables the transmit interrupt; the
interrupt takes one item at a time and disables itself when it finds none. The
callback is registered while the queue is empty, as `main` does, and the queue is
deleted when no task is inside a call. `Fifo` is what a queue promises: items
leave in order, none is lost, and arrays enter in chunks. `ImplementsFifo` is the
refinement, with `items` mapped to the ring's contents.

### EventGroup

`event_group_wait_bits` works in three sections, and what it does in between
depends on the scheduler, so this module keeps the running task, the heap and
the sleep list. A timeout may expire at any time after the sleep began.
`WindowOpen = FALSE` excludes an interrupt between the section that blocks the
caller and `task_sleep_ticks`. Waits with timeout 0 are in the model but in no run:
the code links the node and returns, after which the list is broken.

### The parts of Units

These share no state, so `Units` puts them side by side and a behaviour exercises
one of them.

- `ReadyHeap`: one operation on every heap of up to six tasks.
- `Timer`: the sorted list, the daemon with its stale clock, callbacks outside the
  lock, `timer_delete` in two steps, and the pool's free list. `MaxLag` bounds how
  many ticks pass from the moment the daemon, or a task about to notify it, is
  runnable until the daemon sleeps again with no notification on its way. Periods
  are at least 1.
- `Allocator`: sizes and addresses in bytes; mapping, splitting, joining, lists, bitmaps and
  statistics, `allocator_realloc` in place and by moving, and
  `allocator_check_integrity` as an operator. Contents of blocks are left out.
- `Uart`: both ring buffers and the interrupt handler; the line is external.
- `Spi`: polled transfers and transfers by interrupt over the FIFOs. One user at a
  time. The bounded waits of the polled transfer are taken to be long enough.
- `I2c`: transfers by interrupt and by polling with the flags the code leaves
  behind, and `i2c_hal_compute_timing` for clocks of up to 80 MHz, the most the
  system can have.
- `SystemClock`: each register write and wait of `system_clock_config_hz`; any wait may
  time out while the hardware still finishes later.
- `Logger`: queue, history ring, and the `log` command statement by statement.
  `HistoryRaces = FALSE` excludes that the command begins in the middle of a save
  or that an entry is saved in the middle of a clear.
- `Cli`: line editing key by key, escape sequences, tokenizer, command table; the
  terminal is external.
- `Printf`: `cli_printf` with its conversions, flags, widths and fixed buffer.

## Runs

| Run | Expectation | What it shows |
|---|---|---|
| `scheduler` | pass | all calls on three slots: queues, pool, IDs and notifications stay consistent |
| `scheduler_window` | violation | with the window of `task_notify_wait` open, a task can be SLEEPING and in the heap |
| `scheduler_wrap` | violation | across a wrap of the tick counter a due task stays asleep |
| `scheduler_block` | violation | `task_block` on a sleeping task does not keep the tick from making it ready |
| `sync` | pass | exclusion, exact inheritance and wait lists, no lost token; every waiter is served |
| `queue` | pass | the ring is a FIFO queue, nobody sleeps on work that is there; a full queue drains |
| `eventgroup` | pass | no waiter is overlooked or linked twice, every timed wait ends |
| `eventgroup_window` | violation | a task preempted between the unlock and `task_sleep_ticks` waits for ever |
| `eventgroup_result` | violation | a woken CLEAR_ON_EXIT waiter is told 0, the answer to a timeout |
| `fair` | pass | virtual times stay within one slice; no ready task starves |
| `fair_boost` | violation | a weight restored during a long slice makes the charge wrap |
| `units` | pass | the ten parts above |

The passing runs hold *because of* the restrictions named in the sections above
and because the scheduler's clock does not wrap; the violations show what the code
does without them. Each violation contradicts a line of the documentation,
quoted in `PROJECT.json`.

### Properties

- `QueuesMatchStates`: heap and sleep list hold exactly the READY and SLEEPING tasks.
- `PoolPartition`, `CountExact`, `IdsExact`, `IdAvailable`: slots and IDs are
  neither lost, doubled nor exhausted early.
- `RunningTaskKeepsStack`: an exiting task is not reclaimed under its own feet.
- `NeverStuck`: the panic of `schedule_next_task` is unreachable.
- `NoOverdueSleeper`, `NotificationWakes`, `DeadStaysDead`: no missed deadline, no
  lost notification, no resurrected task.
- `MutualExclusion`, `InheritanceExact`, `LockGranted`: one owner, with exactly the weight
  it should have; every locker gets the mutex.
- `WaitersExact` (of `Sync` and of `Queue`): the lists hold exactly the blocked tasks.
- `TokensCovered`, `TokenUsed`: a token that is left has a woken task on its way.
- `ImplementsFifo`, `NoneStranded`, `TransmitterArmed`, `FullQueueDrains`: the queue.
- `LinkedExact`, `NoneOverlooked`, `SatisfiedAwake`, `TimedWaitEnds`: the event group.
- `FairShare`, `ReadyRuns`: fairness and freedom from starvation.
- `HeapExact`: every operation keeps the order, the members and the back indices.
- `TimersExact`, `TimerOnTime`: pool, list and flags agree, also when a timer is
  stopped, restarted or deleted around its callback; no timer is overdue by more
  than twice the daemon's lag.
- `HeapIntact`, `AllocationsFit`: the code's own integrity check holds after every
  call, and held blocks are large enough and disjoint.
- `RingsExact`, `TransferExact`, `CompleteMeansWhole`: no byte is lost, doubled or
  misplaced between the tasks and the line. For I2C this holds until a transfer is
  refused or fails: the driver then leaves a flag behind that may end the next one
  early.
- `TimingMeetsSpec`: SCL is never faster than the bus specification allows.
- `ClockSafe`: the core runs from a working source, no faster than voltage and flash
  latency allow, and a successful call has set what it was asked for.
- `DumpPrintsEntries`, `TypedIsExecuted`, `PrintedReadsBack`: the dump prints saved
  entries, what is executed is what was typed and is shown, and printed numbers read
  back as the arguments.

The definitions marked "Variant" are faulty versions of an operation; each makes
one property fail, which shows the property can.

### Bounds

- `scheduler`: three slots (idle and two tasks) give a running, a waiting and a
  dying task at once and let the pool run empty; two ticks and sleeps of at most
  two ticks give equal, earlier and later deadlines (997,418 states).
  `scheduler_wrap` lets the counter of eight ticks wrap.
- `sync`: an owner and three waiters, two of equal weight, so that a hand-over
  leaves waiters behind; two tokens (1,847 states).
- `queue`: two slots, arrays of one and three items, so that chunks wrap and a push
  takes several sections; three tasks, so that readers or writers queue up behind
  one that is awake (243,768 states).
- `eventgroup`: two tasks, two bits; any, all, clearing and plain waits (11,004
  states).
- `fair`: three tasks of weights 1, 2, 1; a slice of two ticks per weight is the least
  that can be used in part (101,460 states).
- `units`: seven tasks in a heap of three levels and vruntimes around the wrap; two
  timers on a clock that wraps; a pool of 100 bytes that three blocks
  exhaust and fragment; rings of three bytes; transfers longer than the FIFOs (SPI)
  and than NBYTES (I2C); all clock targets, supported or not; a history of four
  entries; lines of four characters; two conversions into seven characters
  (457,813 states).

Deadlock is not checked in `scheduler`, where the bound on the clock, and a panic,
stop the model, and in `units`, where the heap and a call of `cli_printf` are
single steps. In the other runs it is.

### Fairness

- `fair`: ticks keep coming and a pending PendSV is served, since interrupts are
  enabled again after every section. No fairness of any task is assumed.
- `sync`, `queue`, `eventgroup`: a READY task inside a call takes its next step,
  which is `ReadyRuns`; in `eventgroup`, where a task may be switched out again and
  again before its step, this is strong fairness. In `sync` an owner unlocks at some point, which is up to
  the application. In `queue` an enabled transmit interrupt is served, and in
  `eventgroup` the sleep of a task on the sleep list ends, which is
  `NoOverdueSleeper`.

## Proofs

For every number of slots, tasks, bits, timers, items and bytes, every capacity,
weight, length and bound:

| Module | Content |
|---|---|
| `ListLemmas` | pushing, popping, removing from, inserting into and cutting a list; wait lists whose first n are woken |
| `SchedulerInvariant`, `SchedulerProofs` | all ten properties of `scheduler`, and type correctness |
| `SyncProofs` | `MutualExclusion`, `InheritanceExact`, `WaitersExact`, `TokensCovered` |
| `QueueProofs` | `WaitersExact`, `NoneStranded`, `TransmitterArmed`, and the refinement `ImplementsFifo` |
| `EventGroupProofs` | `LinkedExact`, `NoneOverlooked`, `SatisfiedAwake` |
| `TimerProofs` | `TimersExact`, `TimerOnTime` |
| `UnitProofs` | `RingsExact` of the UART, `TransferExact` of the SPI, `CompleteMeansWhole` and `TimingMeetsSpec` of the I2C driver, `ClockSafe` of the system clock, `DumpPrintsEntries` of the logger |

**Scheduler.** The hypothesis `Disciplined` states the restrictions above: no
wake-up in the window, no `"block_any"`, a clock that does not wrap within
`MaxUptime + MaxSleep`, and sleeps of at most half its range. The restriction on
`task_set_state` is part of the action. The properties are not inductive alone.
`IInv` adds `SleepOrder` (deadlines lie ahead and the list is sorted, without which the
tick could stop before a due task) and `ThreadState` (what state the executing task
has at each `pc`, and that idle is READY or RUNNING, without which a blocked task
could create or collect, and the switch could find nothing to run). `NextInv`
combines one lemma per action. `IdAvailable` follows by counting: there are as many
IDs as slots. The two action properties follow from `IInv` action by action:
`DeadStaysDead`, and `NotificationWakes`, where `ThreadState` excludes that a task
that runs into `task_notify_wait` is BLOCKED already.

**Sync.** `IInv` joins the four properties, because they need one another, with
`OwnerReady`: an owner that was handed the mutex is READY. `TokensCovered` rests on
counting: a signal adds one token and one woken task, a retry takes one of each.

**Queue.** `IInv` adds `RingExact` (`tail` is `head + count`, wrapped), `TodoExact`
(a task inside a push has something left to push) and `Dormant` (a queue that is
not alive is empty, and no task is inside a call). The refinement shows that a chunk written in two parts appends
it to the contents, and that every action is a step of `Fifo` or changes nothing it
sees. `NoneStranded` counts the tasks woken against the items entered.

**Event group.** The hypotheses are those of the run: `WindowOpen = FALSE`, and no wait
with timeout 0. `EventInv` joins the three properties with `WindowClosed`, which says
that a task between its two sections still runs. `WalkFacts` is what
`_check_and_wake_tasks` does to a list of any length: it splits the tasks of the list
into those woken and those left, each once, and nobody left is satisfied by the bits
left. Bits are only cleared on the way, so a waiter passed over stays
unsatisfied. `Walk` is a recursive function; that it is the function its equation
describes, and the facts above, are shown for the least length at which they could
fail.

**Timers.** The only assumption is `TimerAssumption`: half the range of the tick counter
exceeds any period and twice `MaxLag`. `TimerInv` adds to `TimersExact` what the daemon
knows at each point. At the lock its clock is no older than the lag. When it has
computed the wait, that wait ends no later than the head expires, give or take the
lag. Blocked, it is woken no later than `MaxLag` after any expiry. In each case there is one
exception: a timer started meanwhile, whose notification is on its way. All
comparisons are by the signed difference of ticks; `DiffMinus` and `PlusDiff` say when
it behaves as a plain difference, which is why a period and two lags must fit.

**Logger.** Under `HistoryRaces = FALSE`. `LoggerInv` places the saved entries in the
slots behind the head, the one whose count is still to come included, and a dump that
runs at its i-th oldest entry, unless the history is full and every slot is an entry.

**UART.** `UartInv` is `RingsExact` with the types. The lemmas `RingRead` and `RingWrite`
cover a copy of n bytes in one section, `RingPush` and `RingPop` one byte by interrupt.

**SPI.** `SpiInv` counts: bytes sent and not received are in the FIFOs, never more than
the receive FIFO takes, and the interrupts that are enabled are those still needed.

**I2C.** Until a transfer is refused, `Unrefused` relates the index of the driver to the
bytes the bus has left, phase by phase, and says that nothing is left behind between
transfers. For the timing, prescaler 0 or 1 always fits at up to 80 MHz, and every
count of cycles is rounded up.

**Clock.** `ClockInv` adds which oscillators are on and ready in each wait, and that
voltage and latency always suit both the source in use and the one asked for.

Only model-checked, and why:

- All liveness properties (`LockGranted`, `TokenUsed`, `FullQueueDrains`, `TimedWaitEnds`,
  `ReadyRuns`): the prover does not handle fairness.
- `FairShare`, `HeapExact` and `PrintedReadsBack`: the ready heap and the formatting use
  recursive operators, with which the SMT backend is lost.
- `HeapIntact`, `AllocationsFit` and `TypedIsExecuted`: allocator and command line are
  written with the folds, sums and sequence operators of the community modules, about
  which no facts are at hand.

## Not modelled

- `task_set_state` to other states and `task_set_current` (no caller outside the
  tests), `task_check_stack_overflow` (never called), getters, CPU load, SMP.
- Nested mutexes: `so_mutex_unlock` restores the base weight although another mutex
  may still lend some. Waiters that are deleted or notified: their `wait_node` stays
  linked.
- `queue_delete` with waiters, `uart_set_tx_queue` with bytes pending (it does not
  enable the transmit interrupt), `event_group_delete` while a woken waiter still
  evaluates the group.
- `allocator_realloc` with sizes near `SIZE_MAX`; a timer period of 0.
- The listing of the `help` command, and a `cli_printf` format that ends in `%`. A
  pointer printed at the very end of the buffer may lose its `0x`.
- Register set-up in the HAL; ADC, DAC, DMA, EXTI, flash, GPIO, LED, PWM, RTC, watchdog and button
  drivers, which wrap single register accesses or keep one counter; start-up code,
  the native platform, the application's commands, and `utils.c`, which have no
  state that several actors share.
