---------------------------- MODULE FairScheduling ----------------------------
(***************************************************************************)
(* How kernel/src/scheduler.c shares the CPU: the task with the smallest   *)
(* vruntime runs for a slice of weight * BASE_SLICE_TICKS ticks and is     *)
(* charged for the ticks it ran, divided by its weight.  A mutex may raise *)
(* a task's weight for a while (priority inheritance).                     *)
(*                                                                         *)
(* vruntime enters the code only through differences, so it is kept        *)
(* relative to the smallest one of a running or ready task, and that of a  *)
(* blocked task not below -Floor: it is raised when the task wakes.        *)
(* Some task is ready whenever another one blocks, so idle does not run:   *)
(* after an idle period the minimum is idle's, and tasks that wake are not *)
(* brought together.                                                       *)
(***************************************************************************)
EXTENDS ReadyHeap

CONSTANTS
    FairTasks,          \* the user tasks, 1..n
    BaseWeight,         \* base_weight of each task
    BASE_SLICE_TICKS,
    VRUNTIME_SCALER,
    ChargeMod,          \* ticks_ran and its product count modulo this (2^32)
    Floor,              \* bound: how far a blocked task's vruntime is followed
    RestoreAnyTime      \* FALSE: a weight is restored only while the slice left
                        \* is one the base weight could have

ASSUME FairAssumption ==
  /\ FairTasks \subseteq Nat \ {0}
  /\ BaseWeight \in [FairTasks -> Nat \ {0}]
  /\ {BASE_SLICE_TICKS, VRUNTIME_SCALER, ChargeMod, Floor} \subseteq Nat \ {0}
  /\ RestoreAnyTime \in BOOLEAN

VARIABLES
    ready,              \* the ready heap
    vruntime,           \* of each task
    slice,              \* time_slice
    weight,
    status,             \* state: READY, RUNNING or BLOCKED (also asleep)
    current,            \* curr
    pendsv              \* a context switch is pending

fairVars == <<ready, vruntime, slice, weight, status, current, pendsv>>

MaxSlice(w) == w * BASE_SLICE_TICKS

\* All tasks have been created with the same vruntime, and the first runs.
FairInit ==
  /\ vruntime = [t \in FairTasks |-> 0]
  /\ ready = HeapPop(FoldLeft(LAMBDA h, t : HeapInsert(h, vruntime, t),
                              [arr |-> << >>, idx |-> [t \in FairTasks |-> 0]],
                              SetToSeq(FairTasks)), vruntime)
  /\ slice = [t \in FairTasks |-> MaxSlice(BaseWeight[t])]
  /\ weight = BaseWeight
  /\ current = CHOOSE t \in FairTasks : ready.idx[t] = 0
  /\ status = [t \in FairTasks |-> IF t = current THEN "RUNNING" ELSE "READY"]
  /\ pendsv = FALSE

\* The tasks whose vruntime counts.
Live(st) == {t \in FairTasks : st[t] # "BLOCKED"}

\* vruntime relative to the smallest one among the live tasks.
Rebased(v, st) ==
  LET low == Min({v[t] : t \in Live(st)})
  IN  [t \in FairTasks |-> Max({v[t] - low, -Floor})]

\* _get_min_vruntime
GetMinVruntime(h, v) == IF h.arr # << >> THEN v[HeapMin(h)] ELSE v[current]

\* Variant: a task that wakes keeps its vruntime.
RaisedNot(h, v, t) == v

\* _wake_sleeping_task and _unblock_task_locked: the vruntime of a task that
\* wakes is raised to the minimum.
Raised(h, v, t) ==
  LET low == GetMinVruntime(h, v)
  IN  IF VruntimeLt(v[t], low) THEN [v EXCEPT ![t] = low] ELSE v

Awake(s, t) ==
  LET v == Raised(s.heap, s.v, t)
  IN  [heap |-> HeapInsert(s.heap, v, t), v |-> v]

\* The tasks of the sequence w wake in this order.
Wake(w) ==
  LET s == FoldLeft(Awake, [heap |-> ready, v |-> vruntime], w)
      st == [t \in FairTasks |-> IF t \in Range(w) THEN "READY" ELSE status[t]]
  IN  [heap |-> s.heap, st |-> st, v |-> s.v]

------------------------------------------------------------------------------
\* scheduler_tick: the sleepers whose time has come wake, the slice shrinks,
\* and a switch is requested when it is used up or a ready task is behind.
SchedulerTick(w) ==
  LET s == Wake(w)
      running == status[current] = "RUNNING"
      left == IF running /\ slice[current] > 0 THEN slice[current] - 1 ELSE slice[current]
  IN  /\ ready' = s.heap
      /\ status' = s.st
      /\ vruntime' = Rebased(s.v, s.st)
      /\ slice' = [slice EXCEPT ![current] = left]
      /\ pendsv' = \/ pendsv
                   \/ running /\ left = 0
                   \/ VruntimeLt(GetMinVruntime(s.heap, s.v), s.v[current])
      /\ UNCHANGED <<weight, current>>

\* task_unblock and task_notify, from a task or an interrupt.
FairUnblock(t) ==
  LET s == Wake(<<t>>)
  IN  /\ status[t] = "BLOCKED"
      /\ ready' = s.heap
      /\ status' = s.st
      /\ vruntime' = Rebased(s.v, s.st)
      /\ UNCHANGED <<slice, weight, current, pendsv>>

\* The running task blocks or sleeps, and yields.
FairBlock ==
  /\ ~pendsv
  /\ ready.arr # << >>
  /\ status' = [status EXCEPT ![current] = "BLOCKED"]
  /\ vruntime' = Rebased(vruntime, status')
  /\ pendsv' = TRUE
  /\ UNCHANGED <<ready, slice, weight, current>>

\* platform_yield
FairYield ==
  /\ ~pendsv
  /\ pendsv' = TRUE
  /\ UNCHANGED <<ready, vruntime, slice, weight, status, current>>

\* Variant: the division comes before the multiplication.
ChargeDivFirst(t) ==
  LET ran == (MaxSlice(weight[t]) - slice[t]) % ChargeMod
  IN  (((IF ran = 0 THEN 1 ELSE ran) \div weight[t]) * VRUNTIME_SCALER) % ChargeMod

\* The charge of schedule_next_task, in uint32_t; a running task pays for one
\* tick at least.
Charge(t) ==
  LET ran == (MaxSlice(weight[t]) - slice[t]) % ChargeMod
  IN  (((IF ran = 0 THEN 1 ELSE ran) * VRUNTIME_SCALER) % ChargeMod) \div weight[t]

\* schedule_next_task: a task that was still running is charged, gets a new
\* slice and goes back into the heap; then the minimum runs.
FairSwitch ==
  LET running == status[current] = "RUNNING"
      v == IF running THEN [vruntime EXCEPT ![current] = @ + Charge(current)] ELSE vruntime
      h == IF running THEN HeapInsert(ready, v, current) ELSE ready
      st == IF running THEN [status EXCEPT ![current] = "READY"] ELSE status
      best == HeapMin(h)
  IN  /\ pendsv
      /\ h.arr # << >>
      /\ slice' = IF running THEN [slice EXCEPT ![current] = MaxSlice(weight[current])]
                  ELSE slice
      /\ current' = best
      /\ status' = [st EXCEPT ![best] = "RUNNING"]
      /\ ready' = HeapPop(h, v)
      /\ vruntime' = Rebased(v, st)
      /\ pendsv' = FALSE
      /\ UNCHANGED weight

\* task_boost_weight: the running task waits for a mutex that t owns, or hands
\* one over to t while a heavier task waits for it.
FairBoost(t, w) ==
  /\ ~pendsv
  /\ t # current
  /\ w > weight[t]
  /\ weight' = [weight EXCEPT ![t] = w]
  /\ UNCHANGED <<ready, vruntime, slice, status, current, pendsv>>

\* task_restore_base_weight: the running task unlocks a mutex.
FairRestore ==
  /\ ~pendsv
  /\ RestoreAnyTime \/ slice[current] <= MaxSlice(BaseWeight[current])
  /\ weight' = [weight EXCEPT ![current] = BaseWeight[current]]
  /\ UNCHANGED <<ready, vruntime, slice, status, current, pendsv>>

Sleepers == {t \in FairTasks : status[t] = "BLOCKED"}

FairTick == \E S \in SUBSET Sleepers : \E w \in SetToSeqs(S) : SchedulerTick(w)

FairNext ==
  \/ FairTick
  \/ \E t \in FairTasks : FairUnblock(t)
  \/ FairBlock
  \/ FairYield
  \/ FairSwitch
  \/ \E t, u \in FairTasks : FairBoost(t, BaseWeight[u])
  \/ FairRestore

\* A tick found a task running and took a tick off its slice.
Ticked ==
  /\ slice'[current] < slice[current]
  /\ pendsv => pendsv'

(* PendSV is always taken in the end, and the periodic tick keeps finding  *)
(* tasks running: it does not for ever hit the moment between a task's     *)
(* blocking and the switch.                                                *)
FairSpec ==
  /\ FairInit
  /\ [][FairNext]_fairVars
  /\ []<>(~pendsv)
  /\ []<><<Ticked>>_slice

------------------------------------------------------------------------------
(* The CPU is shared fairly: whatever the weights, and however tasks       *)
(* sleep, wake and inherit weights, the virtual times of any two ready or  *)
(* running tasks are never further apart than one full slice.              *)
FairShare ==
  \A t, u \in Live(status) : vruntime[t] - vruntime[u] <= BASE_SLICE_TICKS * VRUNTIME_SCALER

(* No task starves: a READY task is picked by schedule_next_task in the    *)
(* end, even when all others keep sleeping, waking and yielding.           *)
ReadyRuns == \A t \in FairTasks : status[t] = "READY" ~> status[t] = "RUNNING"
==============================================================================
