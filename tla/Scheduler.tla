------------------------------ MODULE Scheduler ------------------------------
(***************************************************************************)
(* The task life cycle of the soRTOS scheduler, kernel/src/scheduler.c, on *)
(* the single-CPU build: the task pool, the ready heap, the sleep list,    *)
(* the zombie and free lists, task IDs, notifications, the tick interrupt  *)
(* and the context switch.                                                 *)
(*                                                                         *)
(* A spin_lock ... spin_unlock section runs with interrupts off, so each   *)
(* section is one action.  Between two sections of a call the caller may   *)
(* be interrupted, or preempted when an interrupt pends PendSV: pc[t] is   *)
(* the point a task has reached inside a call that has several sections.   *)
(*                                                                         *)
(* The heap is a set here: which ready task is picked is left open, so     *)
(* what holds in this module holds for every order by vruntime.            *)
(***************************************************************************)
EXTENDS FiniteSets, Lists

CONSTANTS
    MAX_TASKS,      \* slots of the task pool
    TICK_MOD,       \* the tick counter counts modulo this (2^32 in the code)
    MaxUptime,      \* bound: the last tick explored (TICK_MOD: no bound)
    MaxSleep,       \* bound: the longest sleep or timed wait requested
    Calls,          \* the calls tasks and interrupt handlers make
    WindowOpen      \* may an interrupt wake a task between the unlock and
                    \* the state test of task_notify_wait (l.1005-1007)?

ASSUME SchedulerAssumption ==
    /\ MAX_TASKS \in Nat \ {0}
    /\ TICK_MOD \in Nat \ {0}
    /\ MaxUptime \in Nat
    /\ MaxSleep \in Nat
    /\ WindowOpen \in BOOLEAN

VARIABLES
    state,              \* task_t.state of every slot
    task_id,            \* task_t.task_id, 0 for none
    sleep_until_tick,   \* task_t.sleep_until_tick
    notify_state,       \* task_t.notify_state
    ready,              \* the slots in cpu_sched.heap
    sleep_list,         \* cpu_sched.sleep_list, head first
    curr,               \* cpu_sched.curr, 0 before scheduler_start
    idle_task,          \* cpu_sched.idle_task, 0 until it is created
    free_list,          \* g_sched.free_list, head first
    zombie_list,        \* g_sched.zombie_list, head first
    id_bitmap,          \* g_sched.id_bitmap as the set of used IDs
    count,              \* g_sched.count
    ticks,              \* the SysTick counter
    pendsv,             \* a context switch is pending
    panic,              \* platform_panic() was called
    pc                  \* where each task is inside a scheduler call

queues == <<ready, sleep_list, curr, idle_task>>
pool == <<free_list, zombie_list, id_bitmap, count, task_id>>
cpu == <<ticks, pendsv, panic>>
vars == <<state, sleep_until_tick, notify_state, queues, pool, cpu, pc>>

Slot == 1..MAX_TASKS
Id == 1..MAX_TASKS
NULL == 0
Tick == 0..(TICK_MOD - 1)
State == {"UNUSED", "READY", "RUNNING", "BLOCKED", "SLEEPING", "ZOMBIE"}

(* Points inside a call: "run" is outside any call, "yield" before the     *)
(* platform_yield() of a blocking call, "exited" the final loop of         *)
(* task_exit(), "nw_check" and "nw_woke" the two points of                 *)
(* task_notify_wait() after its first section, "notify" task_notify()      *)
(* after its unlocked search.                                              *)
Plain == [at : {"run", "yield", "exited"}]
Waiting == [at : {"nw_check", "nw_woke"}, clear : BOOLEAN, timed : BOOLEAN]
Notifying == [at : {"notify"}, target : Slot, id : Id]
Run == [at |-> "run"]

-----------------------------------------------------------------------------
(* Lists and modular time *)

Push(e, s) == <<e>> \o s

Without(s, e) ==
    IF e \in Range(s) THEN Unlinked(s, CHOOSE i \in DOMAIN s : s[i] = e) ELSE s

TickPlus(a, b) == IF a + b < TICK_MOD THEN a + b ELSE a + b - TICK_MOD

TickMinus(a, b) == IF a >= b THEN a - b ELSE a - b + TICK_MOD

(* (int32_t)(now - until) >= 0 *)
Due(now, until) == 2 * TickMinus(now, until) < TICK_MOD

(* Variant: every task is inserted at the head of the sleep list. *)
InsertPointHead(lst, u, k) == k = 0

(* _insert_into_sleep_list puts a task that wakes at u behind the first k  *)
(* tasks of the list; the deadlines are compared as plain unsigned numbers.*)
InsertPoint(lst, u, k) ==
    IF lst = <<>> \/ u < sleep_until_tick[lst[1]]
    THEN k = 0
    ELSE /\ k \in 1..Len(lst)
         /\ \A i \in 2..k : sleep_until_tick[lst[i]] < u
         /\ k < Len(lst) => sleep_until_tick[lst[k + 1]] >= u

InsertIntoSleepList(lst, t, u) ==
    /\ sleep_until_tick' = [sleep_until_tick EXCEPT ![t] = u]
    /\ \E k \in 0..Len(lst) :
          /\ InsertPoint(lst, u, k)
          /\ sleep_list' = LinkedIn(lst, k + 1, t)

-----------------------------------------------------------------------------
Init ==
    /\ state = [s \in Slot |-> "UNUSED"]
    /\ task_id = [s \in Slot |-> 0]
    /\ sleep_until_tick = [s \in Slot |-> 0]
    /\ notify_state = [s \in Slot |-> 0]
    /\ ready = {}
    /\ sleep_list = <<>>
    /\ curr = NULL
    /\ idle_task = NULL
    /\ free_list = [i \in Slot |-> i]
    /\ zombie_list = <<>>
    /\ id_bitmap = {}
    /\ count = 0
    /\ ticks = 0
    /\ pendsv = FALSE
    /\ panic = FALSE
    /\ pc = [s \in Slot |-> Run]

(* The running task executes thread code at point p of a call. *)
Thread(p) ==
    /\ ~panic /\ ~pendsv
    /\ curr \notin {NULL, idle_task}
    /\ pc[curr].at = p

Calling(c) == c \in Calls /\ Thread("run")

(* An interrupt handler runs at any point with interrupts on. *)
Interrupt == ~panic

(* An interrupt may wake the tasks in W. *)
MayWake(W) ==
    ~WindowOpen /\ ~pendsv /\ curr \in W => pc[curr].at # "nw_check"

-----------------------------------------------------------------------------
(* Creation, deletion and garbage collection *)

FreeList(gc) == IF gc THEN Drained(zombie_list) \o free_list ELSE free_list

(* The state of every slot, the count and the zombie list after            *)
(* _task_garbage_collection_locked, when gc says that it runs.             *)
Reclaimed(gc) ==
    [s \in Slot |-> IF gc /\ s \in Range(zombie_list) THEN "UNUSED" ELSE state[s]]

Remaining(gc) ==
    LET n == IF gc THEN Len(zombie_list) ELSE 0
    IN  IF count >= n THEN count - n ELSE 0

(* Variant: the collection forgets to clear zombie_list. *)
ZombiesKept(gc) == zombie_list

Zombies(gc) == IF gc THEN <<>> ELSE zombie_list

CollectGarbage ==
    /\ free_list' = FreeList(TRUE)
    /\ zombie_list' = Zombies(TRUE)
    /\ state' = Reclaimed(TRUE)
    /\ count' = Remaining(TRUE)
    /\ UNCHANGED <<id_bitmap, task_id>>

(* A new task takes the head of the free list, after a garbage collection  *)
(* if gc, and the smallest unused ID; Ready says whether it enters the     *)
(* heap (the idle task does not stay in it).                               *)
Install(gc, Ready) ==
    LET fl == FreeList(gc)
        n == Head(fl)
    IN  /\ fl # <<>>
        /\ \E id \in Id \ id_bitmap :
              /\ \A j \in Id \ id_bitmap : id <= j
              /\ id_bitmap' = id_bitmap \cup {id}
              /\ task_id' = [task_id EXCEPT ![n] = id]
        /\ free_list' = Tail(fl)
        /\ zombie_list' = Zombies(gc)
        /\ state' = [Reclaimed(gc) EXCEPT ![n] = "READY"]
        /\ count' = Remaining(gc) + 1
        /\ sleep_until_tick' = [sleep_until_tick EXCEPT ![n] = 0]
        /\ notify_state' = [notify_state EXCEPT ![n] = 0]
        /\ pc' = [pc EXCEPT ![n] = Run]
        /\ ready' = IF Ready THEN ready \cup {n} ELSE ready \ {n}

(* No ID is free: the slot goes back to the free list, already READY. *)
InstallRollback(gc) ==
    LET fl == FreeList(gc)
    IN  /\ fl # <<>>
        /\ Id \subseteq id_bitmap
        /\ free_list' = fl
        /\ zombie_list' = Zombies(gc)
        /\ state' = [Reclaimed(gc) EXCEPT ![Head(fl)] = "READY"]
        /\ count' = Remaining(gc)
        /\ task_id' = [task_id EXCEPT ![Head(fl)] = 0]
        /\ UNCHANGED <<id_bitmap, sleep_until_tick, notify_state, pc, ready>>

(* main() creates tasks before scheduler_start(), tasks do after it. *)
Creator == (~panic /\ curr = NULL /\ idle_task = NULL) \/ Thread("run")

(* task_create: the collection runs when the pool is empty or the first    *)
(* allocation of the stack fails.                                          *)
TaskCreate ==
    /\ "create" \in Calls /\ Creator
    /\ \E gc \in BOOLEAN :
          /\ free_list = <<>> => gc
          /\ Install(gc, TRUE) \/ InstallRollback(gc)
    /\ UNCHANGED <<sleep_list, curr, idle_task, cpu>>

(* task_create fails after the collection: still no slot, or the second    *)
(* allocation fails too and the slot goes back to the head of the list.    *)
TaskCreateFail ==
    /\ "create" \in Calls /\ Creator
    /\ CollectGarbage
    /\ UNCHANGED <<sleep_until_tick, notify_state, queues, cpu, pc>>

(* task_create_static: no allocation; the collection only when the pool is *)
(* empty.                                                                  *)
TaskCreateStatic ==
    /\ "create_static" \in Calls /\ Creator
    /\ LET gc == free_list = <<>>
       IN  Install(gc, TRUE) \/ InstallRollback(gc)
    /\ UNCHANGED <<sleep_list, curr, idle_task, cpu>>

(* _task_create_idle, called by scheduler_start() in main's thread *)
TaskCreateIdle ==
    /\ ~panic /\ curr = NULL /\ idle_task = NULL
    /\ \E gc \in BOOLEAN :
          /\ free_list = <<>> => gc
          /\ Install(gc, FALSE)
          /\ idle_task' = Head(FreeList(gc))
    /\ UNCHANGED <<sleep_list, curr, cpu>>

(* No slot or no memory for the idle task: panic. *)
TaskCreateIdleFail ==
    /\ ~panic /\ curr = NULL /\ idle_task = NULL
    /\ CollectGarbage
    /\ panic' = TRUE
    /\ UNCHANGED <<sleep_until_tick, notify_state, queues, ticks, pendsv, pc>>

(* The rest of scheduler_start(): the first task, or idle if there is none *)
SchedulerStart ==
    /\ ~panic /\ curr = NULL /\ idle_task # NULL
    /\ \E b \in IF ready = {} THEN {idle_task} ELSE ready :
          /\ curr' = b
          /\ ready' = ready \ {b}
          /\ state' = [state EXCEPT ![b] = "RUNNING"]
    /\ UNCHANGED <<sleep_until_tick, notify_state, sleep_list, idle_task, pool,
                   cpu, pc>>

TaskGarbageCollection ==
    /\ Calling("gc")
    /\ CollectGarbage
    /\ UNCHANGED <<sleep_until_tick, notify_state, queues, cpu, pc>>

(* The idle task's loop collects garbage, every GARBAGE_COLLECTION_TICKS   *)
(* in the code, at any time here.                                          *)
IdleGarbageCollection ==
    /\ ~panic /\ ~pendsv /\ curr # NULL /\ curr = idle_task
    /\ CollectGarbage
    /\ UNCHANGED <<sleep_until_tick, notify_state, queues, cpu, pc>>

(* Variant: the dead task's ID stays marked as used. *)
BuryKeepsId(s) ==
    /\ task_id' = [task_id EXCEPT ![s] = 0]
    /\ zombie_list' = Push(s, zombie_list)
    /\ UNCHANGED <<free_list, count, id_bitmap>>

(* Variant: the task is counted out when it dies and again when it is      *)
(* reclaimed.                                                              *)
BuryCountsDown(s) ==
    /\ id_bitmap' = id_bitmap \ {task_id[s]}
    /\ task_id' = [task_id EXCEPT ![s] = 0]
    /\ zombie_list' = Push(s, zombie_list)
    /\ count' = IF count > 0 THEN count - 1 ELSE 0
    /\ UNCHANGED free_list

(* The slot s gives its ID back and joins the zombie list. *)
Bury(s) ==
    /\ id_bitmap' = id_bitmap \ {task_id[s]}
    /\ task_id' = [task_id EXCEPT ![s] = 0]
    /\ zombie_list' = Push(s, zombie_list)
    /\ UNCHANGED <<free_list, count>>

(* Variant: a deleted task stays on the sleep list. *)
TaskDeleteAsleep(s) ==
    /\ Calling("delete")
    /\ task_id[s] # 0 /\ s \notin {curr, idle_task}
    /\ ready' = ready \ {s}
    /\ state' = [state EXCEPT ![s] = "ZOMBIE"]
    /\ Bury(s)
    /\ UNCHANGED <<sleep_until_tick, notify_state, sleep_list, curr, idle_task, cpu, pc>>

(* task_delete of another task: the first slot of the pool with that ID    *)
TaskDelete(s) ==
    /\ Calling("delete")
    /\ task_id[s] # 0 /\ s \notin {curr, idle_task}
    /\ \A r \in 1..(s - 1) : task_id[r] # task_id[s]
    /\ ready' = ready \ {s}
    /\ sleep_list' = IF sleep_until_tick[s] > 0 THEN Without(sleep_list, s)
                                                ELSE sleep_list
    /\ state' = [state EXCEPT ![s] = "ZOMBIE"]
    /\ Bury(s)
    /\ UNCHANGED <<sleep_until_tick, notify_state, curr, idle_task, cpu, pc>>

(* Variant: task_exit returns to its caller. *)
TaskExitReturns ==
    /\ Calling("exit")
    /\ state' = [state EXCEPT ![curr] = "ZOMBIE"]
    /\ Bury(curr)
    /\ UNCHANGED <<sleep_until_tick, notify_state, queues, cpu, pc>>

(* task_exit, also reached through task_delete of oneself *)
TaskExit ==
    /\ Calling("exit")
    /\ state' = [state EXCEPT ![curr] = "ZOMBIE"]
    /\ Bury(curr)
    /\ pc' = [pc EXCEPT ![curr] = [at |-> "exited"]]
    /\ UNCHANGED <<sleep_until_tick, notify_state, queues, cpu>>

-----------------------------------------------------------------------------
(* Blocking and waking *)

(* Variant: a woken sleeper stays on the sleep list. *)
UnblockLockedAsleep(s) ==
    /\ IF state[s] \in {"BLOCKED", "SLEEPING"}
       THEN state' = [state EXCEPT ![s] = "READY"] /\ ready' = ready \cup {s}
       ELSE UNCHANGED <<state, ready>>
    /\ UNCHANGED <<sleep_list, sleep_until_tick>>

(* _unblock_task_locked *)
UnblockLocked(s) ==
    IF state[s] \in {"BLOCKED", "SLEEPING"}
    THEN /\ state' = [state EXCEPT ![s] = "READY"]
         /\ ready' = ready \cup {s}
         /\ IF state[s] = "SLEEPING"
            THEN /\ sleep_list' = Without(sleep_list, s)
                 /\ sleep_until_tick' = [sleep_until_tick EXCEPT ![s] = 0]
            ELSE UNCHANGED <<sleep_list, sleep_until_tick>>
    ELSE UNCHANGED <<state, ready, sleep_list, sleep_until_tick>>

(* Variant: task_block accepts the idle task. *)
TaskBlockIdle(s) ==
    /\ Thread("run") /\ "block" \in Calls
    /\ s # curr /\ state[s] \in {"READY", "BLOCKED"}
    /\ ready' = ready \ {s}
    /\ state' = [state EXCEPT ![s] = "BLOCKED"]
    /\ UNCHANGED <<sleep_until_tick, notify_state, sleep_list, curr, idle_task,
                   pool, cpu, pc>>

(* task_block.  With "block" the caller blocks another task that is ready  *)
(* or blocked; with "block_any" any task but idle.                         *)
TaskBlock(s) ==
    /\ Thread("run") /\ s # idle_task
    /\ \/ "block_any" \in Calls /\ state[s] # "UNUSED"
       \/ "block" \in Calls /\ s # curr /\ state[s] \in {"READY", "BLOCKED"}
    /\ ready' = IF state[s] = "READY" THEN ready \ {s} ELSE ready
    /\ state' = [state EXCEPT ![s] = "BLOCKED"]
    /\ UNCHANGED <<sleep_until_tick, notify_state, sleep_list, curr, idle_task,
                   pool, cpu, pc>>

(* task_unblock from a task, or from an interrupt handler *)
TaskUnblock(s) ==
    /\ \/ Calling("unblock")
       \/ "isr_unblock" \in Calls /\ Interrupt /\ MayWake({s})
    /\ state[s] \in {"BLOCKED", "SLEEPING"}
    /\ UnblockLocked(s)
    /\ UNCHANGED <<notify_state, curr, idle_task, pool, cpu, pc>>

(* task_block_current, and task_set_state(current, BLOCKED) of the mutex,  *)
(* semaphore, queue and event group before they unlock and yield           *)
TaskBlockCurrent ==
    /\ Calling("block_current")
    /\ state' = [state EXCEPT ![curr] = "BLOCKED"]
    /\ pc' = [pc EXCEPT ![curr] = [at |-> "yield"]]
    /\ UNCHANGED <<sleep_until_tick, notify_state, queues, pool, cpu>>

TaskSleepTicks(n) ==
    /\ Calling("sleep") /\ n > 0
    /\ InsertIntoSleepList(Without(sleep_list, curr), curr, TickPlus(ticks, n))
    /\ state' = [state EXCEPT ![curr] = "SLEEPING"]
    /\ pc' = [pc EXCEPT ![curr] = [at |-> "yield"]]
    /\ UNCHANGED <<notify_state, ready, curr, idle_task, pool, cpu>>

(* platform_yield(), as a call of its own or at the end of a blocking one *)
PlatformYield ==
    /\ Calling("yield") \/ Thread("yield") \/ Thread("exited")
    /\ pendsv' = TRUE
    /\ pc' = [pc EXCEPT ![curr] = IF @.at = "yield" THEN Run ELSE @]
    /\ UNCHANGED <<state, sleep_until_tick, notify_state, queues, pool, ticks,
                   panic>>

(* task_set_state called by a task on another one: a READY, BLOCKED or     *)
(* SLEEPING task is blocked, a BLOCKED or SLEEPING one made ready.         *)
TaskSetState(s, st) ==
    /\ Calling("set_state") /\ s \notin {curr, idle_task}
    /\ state[s] \in {"READY", "BLOCKED", "SLEEPING"} /\ {st, state[s]} # {"READY"}
    /\ state' = [state EXCEPT ![s] = st]
    /\ IF state[s] = "SLEEPING"
       THEN /\ sleep_list' = Without(sleep_list, s)
            /\ sleep_until_tick' = [sleep_until_tick EXCEPT ![s] = 0]
       ELSE UNCHANGED <<sleep_list, sleep_until_tick>>
    /\ ready' = IF st = "READY" THEN ready \cup {s} ELSE ready \ {s}
    /\ UNCHANGED <<notify_state, curr, idle_task, pool, cpu, pc>>

-----------------------------------------------------------------------------
(* Task notifications *)

(* Variant: task_notify_wait blocks without looking at notify_state. *)
TaskNotifyWaitBlind(clear, n) ==
    /\ Calling("notify_wait") /\ n = 0
    /\ state' = [state EXCEPT ![curr] = "BLOCKED"]
    /\ pc' = [pc EXCEPT ![curr] =
                 [at |-> "nw_check", clear |-> clear, timed |-> FALSE]]
    /\ UNCHANGED <<sleep_until_tick, notify_state, queues, pool, cpu>>

(* First section of task_notify_wait, for n ticks or, with n = 0, for ever *)
(* (UINT32_MAX).  A poll (wait_ticks = 0) changes nothing if there is no    *)
(* notification, and is the same as an untimed wait if there is one.       *)
TaskNotifyWait(clear, n) ==
    /\ Calling(IF n > 0 THEN "notify_wait_timed" ELSE "notify_wait")
    /\ IF notify_state[curr] = 0
       THEN IF n > 0
            THEN /\ InsertIntoSleepList(sleep_list, curr, TickPlus(ticks, n))
                 /\ state' = [state EXCEPT ![curr] = "SLEEPING"]
            ELSE /\ state' = [state EXCEPT ![curr] = "BLOCKED"]
                 /\ UNCHANGED <<sleep_until_tick, sleep_list>>
       ELSE UNCHANGED <<state, sleep_until_tick, sleep_list>>
    /\ pc' = [pc EXCEPT ![curr] =
                 [at |-> "nw_check", clear |-> clear, timed |-> n > 0]]
    /\ UNCHANGED <<notify_state, ready, curr, idle_task, pool, cpu>>

(* The test of curr->state outside the lock, and platform_yield() *)
TaskNotifyWaitCheck ==
    /\ Thread("nw_check")
    /\ pendsv' = (state[curr] \in {"BLOCKED", "SLEEPING"})
    /\ pc' = [pc EXCEPT ![curr].at = "nw_woke"]
    /\ UNCHANGED <<state, sleep_until_tick, notify_state, queues, pool, ticks,
                   panic>>

(* Second section of task_notify_wait *)
TaskNotifyWaitWoke ==
    /\ Thread("nw_woke")
    /\ notify_state' = IF pc[curr].clear THEN [notify_state EXCEPT ![curr] = 0]
                                         ELSE notify_state
    /\ sleep_until_tick' = IF pc[curr].timed
                           THEN [sleep_until_tick EXCEPT ![curr] = 0]
                           ELSE sleep_until_tick
    /\ pc' = [pc EXCEPT ![curr] = Run]
    /\ UNCHANGED <<state, queues, pool, cpu>>

(* The search of task_notify, outside the lock *)
TaskNotifyFind(s) ==
    /\ Calling("notify")
    /\ task_id[s] # 0
    /\ \A r \in 1..(s - 1) : task_id[r] # task_id[s]
    /\ pc' = [pc EXCEPT ![curr] =
                 [at |-> "notify", target |-> s, id |-> task_id[s]]]
    /\ UNCHANGED <<state, sleep_until_tick, notify_state, queues, pool, cpu>>

(* The section of task_notify for the slot s found under the ID id *)
NotifyLocked(s, id) ==
    /\ IF task_id[s] = id /\ state[s] # "UNUSED"
       THEN /\ notify_state' = [notify_state EXCEPT ![s] = 1]
            /\ UnblockLocked(s)
       ELSE UNCHANGED <<notify_state, state, ready, sleep_list, sleep_until_tick>>
    /\ UNCHANGED <<curr, idle_task, pool, cpu>>

TaskNotify ==
    /\ Thread("notify")
    /\ NotifyLocked(pc[curr].target, pc[curr].id)
    /\ pc' = [pc EXCEPT ![curr] = Run]

(* task_notify from an interrupt handler: no task runs between the search  *)
(* and the section.                                                        *)
IsrNotify(s) ==
    /\ "isr_notify" \in Calls /\ Interrupt /\ MayWake({s})
    /\ task_id[s] # 0
    /\ \A r \in 1..(s - 1) : task_id[r] # task_id[s]
    /\ NotifyLocked(s, task_id[s])
    /\ UNCHANGED pc

-----------------------------------------------------------------------------
(* The tick interrupt and the context switch *)

(* systick_core_tick and scheduler_tick.  The time slice and the vruntime  *)
(* are not in this module: a tick may ask for a context switch whenever a  *)
(* task other than idle is running, and must when idle runs and a task is  *)
(* ready.                                                                  *)
SysTick ==
    /\ Interrupt /\ ticks < MaxUptime
    /\ ticks' = TickPlus(ticks, 1)
    /\ \E k \in 0..Len(sleep_list) :
          LET woken == {sleep_list[i] : i \in 1..k}
          IN  /\ \A i \in 1..k : Due(ticks', sleep_until_tick[sleep_list[i]])
              /\ k < Len(sleep_list) =>
                    ~Due(ticks', sleep_until_tick[sleep_list[k + 1]])
              /\ MayWake(woken)
              /\ sleep_list' = SubSeq(sleep_list, k + 1, Len(sleep_list))
              /\ state' = [s \in Slot |-> IF s \in woken THEN "READY" ELSE state[s]]
              /\ ready' = ready \cup woken
    /\ \E resched \in BOOLEAN :
          /\ curr = NULL => ~resched
          /\ curr # NULL /\ curr = idle_task => resched = (ready' # {})
          /\ pendsv' = (pendsv \/ resched)
    /\ UNCHANGED <<sleep_until_tick, notify_state, curr, idle_task, pool, panic,
                   pc>>

(* schedule_next_task, called by the PendSV handler *)
ScheduleNextTask ==
    LET preempted == state[curr] = "RUNNING"
        st == IF preempted THEN [state EXCEPT ![curr] = "READY"] ELSE state
        rdy == IF preempted /\ curr # idle_task THEN ready \cup {curr} ELSE ready
    IN  /\ pendsv /\ ~panic
        /\ pendsv' = FALSE
        /\ \/ \E best \in rdy :
                 /\ curr' = best
                 /\ ready' = rdy \ {best}
                 /\ state' = [st EXCEPT ![best] = "RUNNING"]
                 /\ UNCHANGED panic
           \/ /\ rdy = {}
              /\ ready' = rdy
              /\ IF st[idle_task] = "READY"
                 THEN /\ curr' = idle_task
                      /\ state' = [st EXCEPT ![idle_task] = "RUNNING"]
                      /\ UNCHANGED panic
                 ELSE /\ curr' = curr
                      /\ IF st[curr] \in {"READY", "RUNNING"}
                         THEN /\ state' = [st EXCEPT ![curr] = "RUNNING"]
                              /\ UNCHANGED panic
                         ELSE state' = st /\ panic' = TRUE
        /\ UNCHANGED <<sleep_until_tick, notify_state, sleep_list, idle_task,
                       pool, ticks, pc>>

-----------------------------------------------------------------------------
TaskStep ==
    \/ TaskCreate \/ TaskCreateFail \/ TaskCreateStatic
    \/ TaskGarbageCollection \/ IdleGarbageCollection
    \/ TaskExit \/ TaskBlockCurrent \/ PlatformYield
    \/ TaskNotifyWaitCheck \/ TaskNotifyWaitWoke \/ TaskNotify
    \/ \E n \in 1..MaxSleep : TaskSleepTicks(n)
    \/ \E clear \in BOOLEAN, n \in 0..MaxSleep : TaskNotifyWait(clear, n)
    \/ \E s \in Slot :
          \/ TaskDelete(s) \/ TaskBlock(s) \/ TaskNotifyFind(s)
          \/ \E st \in {"READY", "BLOCKED"} : TaskSetState(s, st)

Boot == TaskCreateIdle \/ TaskCreateIdleFail \/ SchedulerStart

Wake == \E s \in Slot : TaskUnblock(s) \/ IsrNotify(s)

Next == Boot \/ TaskStep \/ Wake \/ SysTick \/ ScheduleNextTask

Spec == Init /\ [][Next]_vars

-----------------------------------------------------------------------------
(* Properties *)

TypeOK ==
    /\ state \in [Slot -> State]
    /\ task_id \in [Slot -> Id \cup {0}]
    /\ sleep_until_tick \in [Slot -> Tick]
    /\ notify_state \in [Slot -> {0, 1}]
    /\ ready \subseteq Slot
    /\ sleep_list \in Seq(Slot)
    /\ curr \in Slot \cup {NULL}
    /\ idle_task \in Slot \cup {NULL}
    /\ free_list \in Seq(Slot)
    /\ zombie_list \in Seq(Slot)
    /\ id_bitmap \subseteq Id
    /\ count \in Nat
    /\ ticks \in Tick
    /\ pendsv \in BOOLEAN
    /\ panic \in BOOLEAN
    /\ pc \in [Slot -> Plain \cup Waiting \cup Notifying]

InState(st) == {s \in Slot : state[s] = st}

(* The heap holds exactly the READY tasks other than idle, and the sleep   *)
(* list exactly the SLEEPING ones, each once: a task that blocks, sleeps,  *)
(* is deleted or exits can never be picked, and a woken one always can.    *)
QueuesMatchStates ==
    /\ ready = InState("READY") \ {idle_task}
    /\ Range(sleep_list) = InState("SLEEPING")
    /\ IsInjective(sleep_list)

(* The free list and the zombie list, which thread the same next field,    *)
(* hold exactly the UNUSED and the ZOMBIE slots, each once: no slot is     *)
(* lost, reclaimed twice or handed out while it is in use.                 *)
PoolPartition ==
    /\ Range(free_list) = InState("UNUSED") /\ IsInjective(free_list)
    /\ Range(zombie_list) = InState("ZOMBIE") /\ IsInjective(zombie_list)

(* g_sched.count is the number of slots that are not free. *)
CountExact == count = Cardinality(Slot \ InState("UNUSED"))

(* The ID bitmap is exact: two live tasks never share an ID, the used bits *)
(* are the IDs of the live tasks, and dead slots have given theirs back.   *)
IdsExact ==
    /\ id_bitmap = {task_id[s] : s \in Slot} \ {0}
    /\ \A s, r \in Slot : task_id[s] = task_id[r] /\ s # r => task_id[s] = 0
    /\ \A s \in Slot : task_id[s] = 0 <=> state[s] \in {"UNUSED", "ZOMBIE"}

(* Whenever task_create finds a slot it also finds an ID: its rollback     *)
(* (l.537), which would put a READY slot on the free list, is dead code.   *)
IdAvailable ==
    free_list # <<>> \/ zombie_list # <<>> => ~(Id \subseteq id_bitmap)

(* The slot and the stack of the task that is executing are never          *)
(* reclaimed, even though an exiting task keeps running on its stack until *)
(* the context switch; and only the executing task is RUNNING.             *)
RunningTaskKeepsStack ==
    /\ curr # NULL => state[curr] # "UNUSED"
    /\ InState("RUNNING") \subseteq {curr}

(* Once started, the scheduler always has a task to run: the panic of      *)
(* schedule_next_task is unreachable.                                      *)
NeverStuck == curr # NULL => ~panic

(* No task sleeps past its deadline: the tick that reaches the deadline    *)
(* takes the task off the sleep list, because the list is sorted and the   *)
(* tick handler stops at the first task that is not due.                   *)
NoOverdueSleeper ==
    \A s \in Range(sleep_list) : ~Due(ticks, sleep_until_tick[s])

(* A task inside task_notify_wait that does not run although a             *)
(* notification is pending for it.                                         *)
MissedNotification(s) ==
    /\ pc[s].at \in {"nw_check", "nw_woke"}
    /\ state[s] \in {"BLOCKED", "SLEEPING"}
    /\ notify_state[s] = 1

(* No notification is lost: one sent before, while or after the waiter     *)
(* blocks leaves it awake; only a task that is READY again can be stopped  *)
(* with a notification pending, by task_block or task_set_state.           *)
NotificationWakes ==
    [][\A s \in Slot :
          MissedNotification(s)' => MissedNotification(s) \/ state[s] = "READY"]_vars

(* Only READY tasks are in the heap. *)
OnlyReadyInHeap == ready \subseteq InState("READY")

(* A blocked task is not scheduled until it is unblocked: the passing of   *)
(* time makes no BLOCKED task ready.                                       *)
TimeWakesNoBlockedTask ==
    [][ticks' # ticks => \A s \in InState("BLOCKED") : state'[s] = "BLOCKED"]_vars

(* A dead task is never resurrected: a ZOMBIE slot stays one until it is   *)
(* reclaimed, and comes back only as a new task with a new ID.             *)
DeadStaysDead ==
    [][\A s \in InState("ZOMBIE") :
          \/ state'[s] \in {"ZOMBIE", "UNUSED"}
          \/ state'[s] = "READY" /\ task_id[s] = 0 /\ task_id'[s] # 0]_vars
==============================================================================
