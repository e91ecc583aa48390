--------------------------- MODULE SchedulerProofs ---------------------------
(***************************************************************************)
(* Every step keeps the inductive invariant: one lemma per operation of    *)
(* the running task, with those they share, then the steps of the kernel   *)
(* itself; then the theorems about Scheduler, all under the hypothesis     *)
(* Disciplined.                                                            *)
(***************************************************************************)
EXTENDS SchedulerInvariant

-----------------------------------------------------------------------------
(* The steps of the running task, one lemma per operation *)

(* A task that executes a call is a live slot other than idle. *)
LEMMA ThreadFacts ==
    ASSUME IInv, NEW p, Thread(p)
    PROVE  /\ curr \in Slot /\ idle_task \in Slot /\ curr # idle_task /\ curr # NULL
           /\ ~pendsv /\ ~panic /\ pc[curr].at = p
           /\ p \in {"run", "notify", "nw_woke"} => state[curr] = "RUNNING"
BY NullNoSlot DEF IInv, TypeOK, ThreadState, Thread

(* Waking a task keeps the invariant, unless the task is the executing one *)
(* between the two sections of task_notify_wait.                           *)
LEMMA UnblockInv ==
    ASSUME IInv, NEW s \in Slot, UnblockLocked(s),
           UNCHANGED <<curr, idle_task, pool, cpu>>,
           notify_state' \in [Slot -> {0, 1}],
           pc' \in [Slot -> Plain \cup Waiting \cup Notifying],
           curr = s /\ ~pendsv => pc[curr].at # "nw_check",
           curr # NULL /\ ~pendsv =>
               pc'[curr] = pc[curr] \/ (pc'[curr] = Run /\ state[curr] = "RUNNING")
    PROVE  IInv'
<1> USE DEF IInv
<1>1. CASE state[s] \notin {"BLOCKED", "SLEEPING"}
  <2>1. UNCHANGED <<state, ready, sleep_list, sleep_until_tick>>
    BY <1>1 DEF UnblockLocked
  <2>2. TypeOK'
    BY <2>1 DEF TypeOK, pool, cpu
  <2>3. \A st : InState(st)' = InState(st)
    BY <2>1 DEF InState
  <2>4. QueuesMatchStates' /\ SleepOrder'
    BY Zenon, <2>1, <2>3 DEF QueuesMatchStates, SleepOrder, Sorted, cpu
  <2>5. PoolPartition' /\ IdsExact' /\ CountExact'
    BY Zenon, <2>1, PoolKept DEF TypeOK
  <2>6. ThreadState'
    BY <2>1, <2>3 DEF ThreadState, cpu, Run
  <2> QED BY Zenon, <2>2, <2>4, <2>5, <2>6
<1>2. CASE state[s] \in {"BLOCKED", "SLEEPING"}
  <2>1. /\ state' = [state EXCEPT ![s] = "READY"] /\ ready' = ready \cup {s}
        /\ IF state[s] = "SLEEPING"
           THEN /\ sleep_list' = Without(sleep_list, s)
                /\ sleep_until_tick' = [sleep_until_tick EXCEPT ![s] = 0]
           ELSE UNCHANGED <<sleep_list, sleep_until_tick>>
    BY <1>2 DEF UnblockLocked
  <2>2. /\ state' \in [Slot -> State] /\ state'[s] = "READY"
        /\ \A r \in Slot \ {s} : state'[r] = state[r]
    BY <2>1 DEF TypeOK, State
  <2>3. /\ InState("READY")' = InState("READY") \cup {s}
        /\ InState("SLEEPING")' = InState("SLEEPING") \ {s}
        /\ InState("RUNNING")' = InState("RUNNING")
    BY Zenon, <1>2, <2>2 DEF InState
  <2>4. s # idle_task
    BY Zenon, <1>2, NullNoSlot DEF ThreadState
  <2>5. /\ SleepOrder' /\ sleep_list' \in Seq(Slot)
        /\ Range(sleep_list)' = InState("SLEEPING")' /\ IsInjective(sleep_list)'
        /\ sleep_until_tick' \in [Slot -> Tick]
    <3>1. CASE state[s] = "SLEEPING"
      <4>1. /\ sleep_list' = Without(sleep_list, s)
            /\ sleep_until_tick' = [sleep_until_tick EXCEPT ![s] = 0]
        BY Zenon, <3>1, <2>1
      <4>2. 0 \in Tick
        BY SchedulerAssumption DEF Tick
      <4>3. /\ sleep_until_tick' \in [Slot -> Tick]
            /\ \A r \in Slot \ {s} : sleep_until_tick'[r] = sleep_until_tick[r]
        BY <4>1, <4>2 DEF TypeOK
      <4>4. ticks' = ticks
        BY DEF cpu
      <4> QED BY <4>1, <4>3, <4>4, <2>3, SleepLeft, Zenon
    <3>2. CASE state[s] # "SLEEPING"
      <4>1. UNCHANGED <<sleep_list, sleep_until_tick>> /\ ticks' = ticks
        BY Zenon, <3>2, <2>1 DEF cpu
      <4>2. InState("SLEEPING")' = InState("SLEEPING")
        BY <3>2, <2>3 DEF InState
      <4> QED BY Zenon, <4>1, <4>2, SleepKept DEF TypeOK
    <3> QED BY <3>1, <3>2
  <2>6. TypeOK'
    BY <2>1, <2>2, <2>5, Zenon DEF TypeOK, pool, cpu
  <2>7. QueuesMatchStates'
    BY Zenon, <2>1, <2>3, <2>4, <2>5 DEF QueuesMatchStates
  <2>8. PoolPartition' /\ IdsExact' /\ CountExact'
    <3>1. \A r \in Slot : /\ state'[r] = "UNUSED" <=> state[r] = "UNUSED"
                          /\ state'[r] = "ZOMBIE" <=> state[r] = "ZOMBIE"
      BY <1>2, <2>2
    <3> QED BY Zenon, <3>1, <2>2, PoolKept
  <2>9. ThreadState'
    <3>1. idle_task # NULL => state'[idle_task] = state[idle_task]
      BY Zenon, <2>2, <2>4 DEF TypeOK
    <3>2. curr # NULL => state'[curr] # "UNUSED"
      BY Zenon, <2>2 DEF TypeOK, ThreadState
    <3>3. curr # NULL /\ curr # s => state'[curr] = state[curr]
      BY <2>2 DEF TypeOK
    <3>4. CASE curr = s
      <4>1. ~pendsv => pc'[curr] = pc[curr]
                       /\ pc[curr].at \notin {"run", "notify", "nw_woke", "nw_check"}
        BY Zenon, <1>2, <3>4, NullNoSlot DEF ThreadState
      <4> QED BY <4>1, <3>1, <3>2, <2>3, Zenon DEF ThreadState, cpu
    <3>5. CASE curr # s
      BY <3>1, <3>2, <3>3, <3>5, <2>3, Zenon DEF ThreadState, cpu, Run
    <3> QED BY Zenon, <3>4, <3>5
  <2> QED BY <2>5, <2>6, <2>7, <2>8, <2>9, Zenon
<1> QED BY <1>1, <1>2

LEMMA TaskUnblockInv ==
    ASSUME IInv, Disciplined, NEW s \in Slot, TaskUnblock(s)
    PROVE  IInv'
<1>1. curr = s /\ ~pendsv => pc[curr].at # "nw_check"
  BY DEF TaskUnblock, Calling, Thread, MayWake, Disciplined
<1>2. /\ UnblockLocked(s) /\ UNCHANGED <<curr, idle_task, pool, cpu>>
      /\ notify_state' = notify_state /\ pc' = pc
  BY DEF TaskUnblock
<1> QED BY Zenon, <1>1, <1>2, UnblockInv DEF IInv, TypeOK

(* The section of task_notify, for a slot that was found earlier *)
LEMMA NotifyLockedInv ==
    ASSUME IInv, NEW s \in Slot, NEW id, NotifyLocked(s, id),
           pc' \in [Slot -> Plain \cup Waiting \cup Notifying],
           curr = s /\ ~pendsv => pc[curr].at # "nw_check",
           curr # NULL /\ ~pendsv =>
               pc'[curr] = pc[curr] \/ (pc'[curr] = Run /\ state[curr] = "RUNNING")
    PROVE  IInv'
<1>1. UNCHANGED <<curr, idle_task, pool, cpu>>
  BY DEF NotifyLocked
<1>2. CASE task_id[s] = id /\ state[s] # "UNUSED"
  <2>1. UnblockLocked(s) /\ notify_state' = [notify_state EXCEPT ![s] = 1]
    BY Zenon, <1>2 DEF NotifyLocked
  <2>2. notify_state' \in [Slot -> {0, 1}]
    BY Zenon, <2>1 DEF IInv, TypeOK
  <2> QED BY Zenon, <1>1, <2>1, <2>2, UnblockInv
<1>3. CASE ~(task_id[s] = id /\ state[s] # "UNUSED")
  <2>1. UNCHANGED <<notify_state, state, ready, sleep_list, sleep_until_tick>>
    BY <1>3, Zenon DEF NotifyLocked
  <2>2. TypeOK'
    BY <1>1, <2>1 DEF IInv, TypeOK, pool, cpu
  <2>3. \A st : InState(st)' = InState(st)
    BY <2>1, Zenon DEF InState
  <2>4. QueuesMatchStates' /\ SleepOrder'
    BY Zenon, <1>1, <2>1, <2>3 DEF IInv, QueuesMatchStates, SleepOrder, Sorted, cpu
  <2>5. PoolPartition' /\ IdsExact' /\ CountExact'
    BY Zenon, <1>1, <2>1, PoolKept DEF IInv, TypeOK
  <2>6. ThreadState'
    BY Zenon, <1>1, <2>1, <2>3 DEF IInv, ThreadState, cpu, Run
  <2> QED BY Zenon, <2>2, <2>4, <2>5, <2>6 DEF IInv
<1> QED BY <1>2, <1>3

LEMMA TaskNotifyInv ==
    ASSUME IInv, TaskNotify
    PROVE  IInv'
<1>1. /\ curr \in Slot /\ pc[curr].at = "notify" /\ state[curr] = "RUNNING"
  BY ThreadFacts DEF TaskNotify
<1>2. pc[curr] \in Plain \cup Waiting \cup Notifying
  BY Zenon, <1>1 DEF IInv, TypeOK
<1>3. pc[curr] \in Notifying
  BY <1>1, <1>2 DEF Plain, Waiting
<1>4. pc[curr].target \in Slot
  BY <1>3, Zenon DEF Notifying
<1>5. Run \in Plain
  BY DEF Run, Plain
<1>6. /\ pc' \in [Slot -> Plain \cup Waiting \cup Notifying] /\ pc'[curr] = Run
      /\ NotifyLocked(pc[curr].target, pc[curr].id)
  BY Zenon, <1>1, <1>5 DEF TaskNotify, IInv, TypeOK
<1> QED BY Zenon, <1>1, <1>4, <1>6, NotifyLockedInv

LEMMA IsrNotifyInv ==
    ASSUME IInv, Disciplined, NEW s \in Slot, IsrNotify(s)
    PROVE  IInv'
<1>1. curr = s /\ ~pendsv => pc[curr].at # "nw_check"
  BY Zenon DEF IsrNotify, MayWake, Disciplined
<1>2. NotifyLocked(s, task_id[s]) /\ pc' = pc
  BY Zenon DEF IsrNotify
<1> QED BY Zenon, <1>1, <1>2, NotifyLockedInv DEF IInv, TypeOK

(* A live task dies: it leaves the queues, gives its ID back and joins the *)
(* zombie list.                                                            *)
LEMMA BuryInv ==
    ASSUME IInv, NEW s \in Slot, state[s] \notin {"UNUSED", "ZOMBIE"}, s # idle_task,
           state' = [state EXCEPT ![s] = "ZOMBIE"], Bury(s),
           ready' = ready \ {s}, sleep_list' = Without(sleep_list, s),
           UNCHANGED <<sleep_until_tick, notify_state, curr, idle_task, cpu>>,
           pc' \in [Slot -> Plain \cup Waiting \cup Notifying],
           curr # NULL /\ ~pendsv =>
               IF curr = s THEN pc'[curr] = [at |-> "exited"] ELSE pc'[curr] = pc[curr]
    PROVE  IInv'
<1> USE DEF IInv
<1>1. /\ state' \in [Slot -> State] /\ state'[s] = "ZOMBIE"
      /\ \A r \in Slot \ {s} : state'[r] = state[r]
  BY Zenon DEF TypeOK, State
<1>2. /\ InState("READY")' = InState("READY") \ {s}
      /\ InState("SLEEPING")' = InState("SLEEPING") \ {s}
      /\ InState("RUNNING")' \subseteq InState("RUNNING")
      /\ InState("UNUSED")' = InState("UNUSED")
      /\ InState("ZOMBIE")' = InState("ZOMBIE") \cup {s}
  BY <1>1 DEF InState
<1>3. /\ SleepOrder' /\ sleep_list' \in Seq(Slot)
      /\ Range(sleep_list)' = InState("SLEEPING")' /\ IsInjective(sleep_list)'
  BY <1>2, SleepLeft, Zenon DEF cpu
<1>4. /\ zombie_list' \in Seq(Slot) /\ IsInjective(zombie_list')
      /\ Range(zombie_list') = Range(zombie_list) \cup {s}
  <2>1. zombie_list \in Seq(Slot) /\ IsInjective(zombie_list) /\ s \notin Range(zombie_list)
    BY DEF TypeOK, PoolPartition, InState
  <2>2. zombie_list' = <<s>> \o zombie_list
    BY Zenon DEF Bury, Push
  <2> QED BY <2>1, <2>2, PushFacts
<1>5. /\ task_id' \in [Slot -> Id \cup {0}] /\ task_id'[s] = 0
      /\ \A r \in Slot \ {s} : task_id'[r] = task_id[r]
  BY DEF Bury, TypeOK
<1>6. TypeOK'
  BY <1>1, <1>3, <1>4, <1>5, Zenon DEF TypeOK, Bury, cpu
<1>7. QueuesMatchStates'
  BY <1>2, <1>3, Zenon DEF QueuesMatchStates
<1>8. PoolPartition'
  BY <1>2, <1>4, Zenon DEF PoolPartition, Bury
<1>9. IdsExact'
  <2>1. task_id[s] # 0 /\ \A r \in Slot \ {s} : task_id[r] # task_id[s]
    BY DEF IdsExact
  <2>2. id_bitmap' = {task_id'[r] : r \in Slot} \ {0}
    BY <2>1, <1>5 DEF IdsExact, Bury
  <2>3. \A r \in Slot : task_id'[r] = 0 <=> state'[r] \in {"UNUSED", "ZOMBIE"}
    BY <1>1, <1>5, Zenon DEF IdsExact
  <2>4. \A q, r \in Slot : task_id'[q] = task_id'[r] /\ q # r => task_id'[q] = 0
    BY <1>5, Zenon DEF IdsExact
  <2> QED BY <2>2, <2>3, <2>4, Zenon DEF IdsExact
<1>10. CountExact'
  BY <1>2, Zenon DEF CountExact, Bury
<1>11. ThreadState'
  <2>1. idle_task # NULL => state'[idle_task] = state[idle_task]
    BY <1>1 DEF TypeOK
  <2>2. curr # NULL => state'[curr] # "UNUSED" /\ (curr # s => state'[curr] = state[curr])
    BY <1>1, Zenon DEF TypeOK, ThreadState
  <2> QED BY <2>1, <2>2, <1>2 DEF ThreadState, cpu
<1> QED BY <1>3, <1>6, <1>7, <1>8, <1>9, <1>10, <1>11

(* A task that is not on the sleep list: taking it off changes nothing. *)
LEMMA WithoutAbsent ==
    ASSUME NEW s \in Slot, IInv, state[s] # "SLEEPING"
    PROVE  Without(sleep_list, s) = sleep_list /\ s \notin Range(sleep_list)
<1>1. s \notin Range(sleep_list)
  BY DEF IInv, QueuesMatchStates, InState
<1> QED BY <1>1 DEF Without

LEMMA TaskDeleteInv ==
    ASSUME IInv, NEW s \in Slot, TaskDelete(s)
    PROVE  IInv'
<1>1. state[s] \notin {"UNUSED", "ZOMBIE"} /\ s # idle_task /\ s # curr
  BY Zenon DEF TaskDelete, IInv, IdsExact
<1>2. sleep_list' = Without(sleep_list, s)
  <2>1. CASE state[s] = "SLEEPING"
    <3>1. ticks < sleep_until_tick[s] /\ ticks \in Nat /\ sleep_until_tick[s] \in Nat
      BY <2>1, SchedulerAssumption DEF IInv, TypeOK, SleepOrder, InState, Tick
    <3>2. sleep_until_tick[s] > 0
      BY <3>1
    <3> QED BY <3>2 DEF TaskDelete
  <2>2. CASE state[s] # "SLEEPING"
    BY Zenon, <2>2, WithoutAbsent DEF TaskDelete
  <2> QED BY <2>1, <2>2
<1>3. /\ state' = [state EXCEPT ![s] = "ZOMBIE"] /\ Bury(s) /\ ready' = ready \ {s}
      /\ UNCHANGED <<sleep_until_tick, notify_state, curr, idle_task, cpu>> /\ pc' = pc
  BY DEF TaskDelete
<1> QED BY <1>1, <1>2, <1>3, BuryInv, Zenon DEF IInv, TypeOK

LEMMA TaskExitInv ==
    ASSUME IInv, TaskExit
    PROVE  IInv'
<1>1. curr \in Slot /\ curr # idle_task /\ state[curr] = "RUNNING"
  BY ThreadFacts DEF TaskExit, Calling
<1>2. /\ state' = [state EXCEPT ![curr] = "ZOMBIE"] /\ Bury(curr)
      /\ pc' = [pc EXCEPT ![curr] = [at |-> "exited"]]
      /\ UNCHANGED <<sleep_until_tick, notify_state, curr, idle_task, cpu, ready, sleep_list>>
  BY DEF TaskExit, queues
<1>3. ready' = ready \ {curr} /\ sleep_list' = Without(sleep_list, curr)
  BY <1>1, <1>2, WithoutAbsent DEF IInv, QueuesMatchStates, InState
<1>4. [at |-> "exited"] \in Plain
  BY DEF Plain
<1>5. /\ pc' \in [Slot -> Plain \cup Waiting \cup Notifying]
      /\ pc'[curr] = [at |-> "exited"]
  BY Zenon, <1>1, <1>2, <1>4 DEF IInv, TypeOK
<1> QED BY <1>1, <1>2, <1>3, <1>5, BuryInv, Zenon

(* A live task other than idle is blocked or made ready. *)
LEMMA MoveInv ==
    ASSUME IInv, NEW s \in Slot, NEW st \in {"READY", "BLOCKED"}, s # idle_task,
           state[s] \in {"READY", "RUNNING", "BLOCKED", "SLEEPING"},
           state' = [state EXCEPT ![s] = st],
           ready' = IF st = "READY" THEN ready \cup {s} ELSE ready \ {s},
           sleep_list' = Without(sleep_list, s), sleep_until_tick' \in [Slot -> Tick],
           \A r \in Slot \ {s} : sleep_until_tick'[r] = sleep_until_tick[r],
           UNCHANGED <<notify_state, curr, idle_task, pool, cpu>>,
           pc' \in [Slot -> Plain \cup Waiting \cup Notifying], ThreadState'
    PROVE  IInv'
<1> USE DEF IInv
<1>1. /\ state' \in [Slot -> State] /\ state'[s] = st
      /\ \A r \in Slot \ {s} : state'[r] = state[r]
  BY DEF TypeOK, State
<1>2. /\ InState("READY")' = IF st = "READY" THEN InState("READY") \cup {s}
                                             ELSE InState("READY") \ {s}
      /\ InState("SLEEPING")' = InState("SLEEPING") \ {s}
  BY Zenon, <1>1 DEF InState
<1>3. /\ SleepOrder' /\ sleep_list' \in Seq(Slot)
      /\ Range(sleep_list)' = InState("SLEEPING")' /\ IsInjective(sleep_list)'
  BY Zenon, <1>2, SleepLeft DEF cpu
<1>4. TypeOK'
  BY <1>1, <1>2, <1>3, Zenon DEF TypeOK, pool, cpu
<1>5. QueuesMatchStates'
  BY Zenon, <1>2, <1>3 DEF QueuesMatchStates
<1>6. PoolPartition' /\ IdsExact' /\ CountExact'
  <2>1. \A r \in Slot : /\ state'[r] = "UNUSED" <=> state[r] = "UNUSED"
                        /\ state'[r] = "ZOMBIE" <=> state[r] = "ZOMBIE"
    BY Zenon, <1>1
  <2> QED BY Zenon, <2>1, <1>1, PoolKept
<1> QED BY <1>3, <1>4, <1>5, <1>6

(* The executing task goes to sleep for n ticks. *)
LEMMA SleepInv ==
    ASSUME IInv, Disciplined, NEW n \in 1..MaxSleep, curr \in Slot, curr # idle_task,
           state[curr] = "RUNNING",
           InsertIntoSleepList(sleep_list, curr, TickPlus(ticks, n)),
           state' = [state EXCEPT ![curr] = "SLEEPING"],
           UNCHANGED <<notify_state, ready, curr, idle_task, pool, cpu>>,
           pc' \in [Slot -> Plain \cup Waiting \cup Notifying], ThreadState'
    PROVE  IInv'
<1> USE DEF IInv
<1>1. /\ state' \in [Slot -> State] /\ state'[curr] = "SLEEPING"
      /\ \A r \in Slot \ {curr} : state'[r] = state[r]
  BY Zenon DEF TypeOK, State
<1>2. /\ InState("READY")' = InState("READY")
      /\ InState("SLEEPING")' = InState("SLEEPING") \cup {curr}
  BY Zenon, <1>1 DEF InState
<1>3. curr \notin Range(sleep_list) /\ ticks' = ticks
  BY Zenon, WithoutAbsent DEF cpu
<1>4. /\ SleepOrder' /\ sleep_list' \in Seq(Slot) /\ sleep_until_tick' \in [Slot -> Tick]
      /\ Range(sleep_list)' = InState("SLEEPING")' /\ IsInjective(sleep_list)'
  BY Zenon, <1>2, <1>3, SleepEntered
<1>5. TypeOK'
  BY <1>1, <1>4, Zenon DEF TypeOK, pool, cpu
<1>6. QueuesMatchStates'
  BY Zenon, <1>2, <1>4 DEF QueuesMatchStates
<1>7. PoolPartition' /\ IdsExact' /\ CountExact'
  <2>1. \A r \in Slot : /\ state'[r] = "UNUSED" <=> state[r] = "UNUSED"
                        /\ state'[r] = "ZOMBIE" <=> state[r] = "ZOMBIE"
    BY <1>1
  <2> QED BY Zenon, <2>1, <1>1, PoolKept
<1> QED BY Zenon, <1>4, <1>5, <1>6, <1>7

(* A step that moves no task between states. *)
LEMMA QuietInv ==
    ASSUME IInv, UNCHANGED <<state, queues, pool, ticks>>,
           sleep_until_tick' \in [Slot -> Tick],
           \A s \in InState("SLEEPING") : sleep_until_tick'[s] = sleep_until_tick[s],
           notify_state' \in [Slot -> {0, 1}], pendsv' \in BOOLEAN, panic' = panic,
           pc' \in [Slot -> Plain \cup Waiting \cup Notifying], ThreadState'
    PROVE  IInv'
<1> USE DEF IInv
<1>1. TypeOK'
  BY Zenon DEF TypeOK, queues, pool
<1>2. \A st : InState(st)' = InState(st)
  BY DEF InState
<1>3. SleepOrder' /\ Range(sleep_list)' = InState("SLEEPING")' /\ IsInjective(sleep_list)'
  BY Zenon, <1>2, SleepKept DEF queues
<1>4. QueuesMatchStates'
  BY Zenon, <1>2, <1>3 DEF QueuesMatchStates, queues
<1>5. PoolPartition' /\ IdsExact' /\ CountExact'
  BY PoolKept DEF TypeOK
<1> QED BY Zenon, <1>1, <1>3, <1>4, <1>5

(* The executing task and idle are not concerned by a change of another    *)
(* task's state.                                                           *)
LEMMA OtherThreadState ==
    ASSUME IInv, NEW s \in Slot, NEW st \in {"READY", "BLOCKED"}, s # curr, s # idle_task,
           state' = [state EXCEPT ![s] = st], UNCHANGED <<curr, idle_task, cpu, pc>>
    PROVE  ThreadState'
<1>1. /\ \A r \in Slot \ {s} : state'[r] = state[r]
      /\ InState("RUNNING")' \subseteq InState("RUNNING")
  BY DEF IInv, TypeOK, InState
<1>2. /\ curr # NULL => state'[curr] = state[curr]
      /\ idle_task # NULL => state'[idle_task] = state[idle_task]
  BY Zenon, <1>1 DEF IInv, TypeOK
<1> QED BY <1>1, <1>2, Zenon DEF IInv, ThreadState, cpu

(* The executing task blocks or goes to sleep and has yet to yield. *)
LEMMA SelfThreadState ==
    ASSUME IInv, curr \in Slot, curr # idle_task, NEW r,
           NEW st \in {"BLOCKED", "SLEEPING"}, r.at \in {"yield", "nw_check"},
           state' = [state EXCEPT ![curr] = st], pc' = [pc EXCEPT ![curr] = r],
           UNCHANGED <<curr, idle_task, cpu>>
    PROVE  ThreadState'
<1>1. /\ state'[curr] = st /\ pc'[curr] = r
      /\ \A s \in Slot \ {curr} : state'[s] = state[s]
      /\ InState("RUNNING")' \subseteq InState("RUNNING")
  BY Zenon DEF IInv, TypeOK, InState
<1>2. idle_task # NULL => state'[idle_task] = state[idle_task]
  BY <1>1 DEF IInv, TypeOK
<1> QED BY Zenon, <1>1, <1>2 DEF IInv, ThreadState, cpu

LEMMA TaskBlockInv ==
    ASSUME IInv, Disciplined, NEW s \in Slot, TaskBlock(s)
    PROVE  IInv'
<1>1. s # curr /\ s # idle_task /\ state[s] \in {"READY", "BLOCKED"}
  BY Zenon DEF TaskBlock, Disciplined
<1>2. /\ state' = [state EXCEPT ![s] = "BLOCKED"]
      /\ UNCHANGED <<sleep_until_tick, notify_state, sleep_list, curr, idle_task, pool, cpu, pc>>
  BY Zenon DEF TaskBlock
<1>3. ready' = ready \ {s}
  BY Zenon, <1>1 DEF TaskBlock, IInv, QueuesMatchStates, InState
<1>4. sleep_list' = Without(sleep_list, s)
  BY Zenon, <1>1, <1>2, WithoutAbsent
<1>5. ThreadState'
  BY <1>1, <1>2, OtherThreadState, Zenon
<1>6. /\ sleep_until_tick' \in [Slot -> Tick]
      /\ pc' \in [Slot -> Plain \cup Waiting \cup Notifying]
  BY <1>2 DEF IInv, TypeOK
<1> QED BY <1>1, <1>2, <1>3, <1>4, <1>5, <1>6, MoveInv, Zenon

LEMMA TaskSetStateInv ==
    ASSUME IInv, NEW s \in Slot, NEW st \in {"READY", "BLOCKED"}, TaskSetState(s, st)
    PROVE  IInv'
<1>1. s # curr /\ s # idle_task /\ state[s] \in {"READY", "BLOCKED", "SLEEPING"}
  BY Zenon DEF TaskSetState
<1>2. /\ state' = [state EXCEPT ![s] = st]
      /\ ready' = IF st = "READY" THEN ready \cup {s} ELSE ready \ {s}
      /\ UNCHANGED <<notify_state, curr, idle_task, pool, cpu, pc>>
  BY Zenon DEF TaskSetState
<1>3. /\ sleep_list' = Without(sleep_list, s) /\ sleep_until_tick' \in [Slot -> Tick]
      /\ \A r \in Slot \ {s} : sleep_until_tick'[r] = sleep_until_tick[r]
  <2>1. CASE state[s] = "SLEEPING"
    <3>1. 0 \in Tick
      BY SchedulerAssumption DEF Tick
    <3> QED BY <2>1, <3>1, Zenon DEF TaskSetState, IInv, TypeOK
  <2>2. CASE state[s] # "SLEEPING"
    BY <2>2, WithoutAbsent, Zenon DEF TaskSetState, IInv, TypeOK
  <2> QED BY Zenon, <2>1, <2>2
<1>4. ThreadState'
  BY <1>1, <1>2, OtherThreadState, Zenon
<1>5. pc' \in [Slot -> Plain \cup Waiting \cup Notifying]
  BY Zenon, <1>2 DEF IInv, TypeOK
<1> QED BY <1>1, <1>2, <1>3, <1>4, <1>5, MoveInv, Zenon

LEMMA TaskBlockCurrentInv ==
    ASSUME IInv, TaskBlockCurrent
    PROVE  IInv'
<1>1. curr \in Slot /\ curr # idle_task /\ state[curr] = "RUNNING"
  BY Zenon, ThreadFacts DEF TaskBlockCurrent, Calling
<1>2. /\ state' = [state EXCEPT ![curr] = "BLOCKED"]
      /\ pc' = [pc EXCEPT ![curr] = [at |-> "yield"]]
      /\ UNCHANGED <<sleep_until_tick, notify_state, ready, sleep_list, curr, idle_task, pool, cpu>>
  BY Zenon DEF TaskBlockCurrent, queues
<1>3. ready' = ready \ {curr} /\ sleep_list' = Without(sleep_list, curr)
  BY Zenon, <1>1, <1>2, WithoutAbsent DEF IInv, QueuesMatchStates, InState
<1>4. [at |-> "yield"] \in Plain /\ [at |-> "yield"].at = "yield"
  BY Zenon DEF Plain
<1>5. /\ pc' \in [Slot -> Plain \cup Waiting \cup Notifying]
      /\ sleep_until_tick' \in [Slot -> Tick]
  BY Zenon, <1>1, <1>2, <1>4 DEF IInv, TypeOK
<1>6. ThreadState'
  BY <1>1, <1>2, <1>4, SelfThreadState, Zenon
<1> QED BY <1>1, <1>2, <1>3, <1>5, <1>6, MoveInv, Zenon

LEMMA TaskSleepTicksInv ==
    ASSUME IInv, Disciplined, NEW n \in 1..MaxSleep, TaskSleepTicks(n)
    PROVE  IInv'
<1>1. curr \in Slot /\ curr # idle_task /\ state[curr] = "RUNNING"
  BY Zenon, ThreadFacts DEF TaskSleepTicks, Calling
<1>2. Without(sleep_list, curr) = sleep_list
  BY Zenon, <1>1, WithoutAbsent
<1>3. /\ InsertIntoSleepList(sleep_list, curr, TickPlus(ticks, n))
      /\ state' = [state EXCEPT ![curr] = "SLEEPING"]
      /\ pc' = [pc EXCEPT ![curr] = [at |-> "yield"]]
      /\ UNCHANGED <<notify_state, ready, curr, idle_task, pool, cpu>>
  BY Zenon, <1>2 DEF TaskSleepTicks
<1>4. [at |-> "yield"] \in Plain /\ [at |-> "yield"].at = "yield"
  BY Zenon DEF Plain
<1>5. pc' \in [Slot -> Plain \cup Waiting \cup Notifying]
  BY Zenon, <1>1, <1>3, <1>4 DEF IInv, TypeOK
<1>6. ThreadState'
  BY <1>1, <1>3, <1>4, SelfThreadState, Zenon
<1> QED BY <1>1, <1>3, <1>5, <1>6, SleepInv

LEMMA TaskNotifyWaitInv ==
    ASSUME IInv, Disciplined, NEW clear \in BOOLEAN, NEW n \in 0..MaxSleep,
           TaskNotifyWait(clear, n)
    PROVE  IInv'
<1> DEFINE r == [at |-> "nw_check", clear |-> clear, timed |-> n > 0]
<1>1. curr \in Slot /\ curr # idle_task /\ state[curr] = "RUNNING"
  BY Zenon, ThreadFacts DEF TaskNotifyWait, Calling
<1>2. r \in Waiting /\ r.at = "nw_check"
  BY SchedulerAssumption DEF Waiting
<1>3. /\ pc' = [pc EXCEPT ![curr] = r]
      /\ UNCHANGED <<notify_state, ready, curr, idle_task, pool, cpu>>
  BY Zenon DEF TaskNotifyWait
<1> HIDE DEF r
<1>4. pc' \in [Slot -> Plain \cup Waiting \cup Notifying] /\ pc'[curr] = r
  BY Zenon, <1>1, <1>2, <1>3 DEF IInv, TypeOK
<1>5. CASE notify_state[curr] # 0
  <2>1. UNCHANGED <<state, sleep_until_tick, sleep_list>>
    BY Zenon, <1>5 DEF TaskNotifyWait
  <2>2. ThreadState'
    BY <1>1, <1>2, <1>3, <1>4, <2>1 DEF IInv, ThreadState, InState, cpu
  <2> QED BY <1>3, <1>4, <2>1, <2>2, QuietInv, Zenon DEF IInv, TypeOK, queues, cpu
<1>6. CASE notify_state[curr] = 0 /\ n > 0
  <2>1. /\ InsertIntoSleepList(sleep_list, curr, TickPlus(ticks, n))
        /\ state' = [state EXCEPT ![curr] = "SLEEPING"]
    BY <1>6 DEF TaskNotifyWait
  <2>2. ThreadState'
    BY <1>1, <1>2, <1>3, <2>1, SelfThreadState, Zenon
  <2>3. n \in 1..MaxSleep
    BY <1>6, SchedulerAssumption
  <2> QED BY <1>1, <1>3, <1>4, <2>1, <2>2, <2>3, SleepInv
<1>7. CASE notify_state[curr] = 0 /\ ~(n > 0)
  <2>1. /\ state' = [state EXCEPT ![curr] = "BLOCKED"]
        /\ UNCHANGED <<sleep_until_tick, sleep_list>>
    BY <1>7 DEF TaskNotifyWait
  <2>2. ThreadState'
    BY <1>1, <1>2, <1>3, <2>1, SelfThreadState, Zenon
  <2>3. ready' = ready \ {curr} /\ sleep_list' = Without(sleep_list, curr)
    BY Zenon, <1>1, <1>3, <2>1, WithoutAbsent DEF IInv, QueuesMatchStates, InState
  <2>4. sleep_until_tick' \in [Slot -> Tick]
    BY Zenon, <2>1 DEF IInv, TypeOK
  <2> QED BY <1>1, <1>3, <1>4, <2>1, <2>2, <2>3, <2>4, MoveInv, Zenon
<1> QED BY Zenon, <1>5, <1>6, <1>7

LEMMA TaskNotifyWaitCheckInv ==
    ASSUME IInv, TaskNotifyWaitCheck
    PROVE  IInv'
<1>1. /\ curr \in Slot /\ curr # NULL /\ ~pendsv /\ pc[curr].at = "nw_check"
  BY Zenon, ThreadFacts DEF TaskNotifyWaitCheck
<1>2. state[curr] \in {"RUNNING", "BLOCKED", "SLEEPING"}
  BY Zenon, <1>1 DEF IInv, ThreadState
<1>3. pc[curr] \in Plain \cup Waiting \cup Notifying
  BY Zenon, <1>1 DEF IInv, TypeOK
<1>4. pc[curr] \in Waiting
  BY <1>1, <1>3 DEF Plain, Notifying
<1> DEFINE r == [pc[curr] EXCEPT !.at = "nw_woke"]
<1>5. r \in Waiting /\ r.at = "nw_woke"
  BY <1>4 DEF Waiting
<1>6. pc' = [pc EXCEPT ![curr] = r]
  BY Zenon DEF TaskNotifyWaitCheck
<1> HIDE DEF r
<1>7. pc' \in [Slot -> Plain \cup Waiting \cup Notifying] /\ pc'[curr] = r
  BY Zenon, <1>1, <1>5, <1>6 DEF IInv, TypeOK
<1>8. /\ pendsv' = (state[curr] \in {"BLOCKED", "SLEEPING"})
      /\ UNCHANGED <<state, sleep_until_tick, notify_state, queues, pool, ticks, panic>>
  BY DEF TaskNotifyWaitCheck
<1>9. pendsv' \in BOOLEAN /\ (~pendsv' => state[curr] = "RUNNING")
  <2>1. pendsv' = (state[curr] \in {"BLOCKED", "SLEEPING"})
    BY <1>8
  <2>2. pendsv' \in BOOLEAN
    <3>1. (state[curr] \in {"BLOCKED", "SLEEPING"}) \in BOOLEAN
      OBVIOUS
    <3> QED BY <2>1, <3>1, Zenon
  <2>3. ~pendsv' => state[curr] \notin {"BLOCKED", "SLEEPING"}
    BY <2>1, Zenon
  <2> QED BY <2>2, <2>3, <1>2, Zenon
<1>10. ThreadState'
  BY <1>1, <1>5, <1>7, <1>8, <1>9, Zenon DEF IInv, ThreadState, InState, queues
<1> QED BY <1>7, <1>8, <1>9, <1>10, QuietInv, Zenon DEF IInv, TypeOK

LEMMA TaskNotifyWaitWokeInv ==
    ASSUME IInv, TaskNotifyWaitWoke
    PROVE  IInv'
<1>1. curr \in Slot /\ state[curr] = "RUNNING"
  BY Zenon, ThreadFacts DEF TaskNotifyWaitWoke
<1>2. Run \in Plain /\ Run.at = "run"
  BY Zenon DEF Run, Plain
<1>3. /\ pc' = [pc EXCEPT ![curr] = Run] /\ UNCHANGED <<state, queues, pool, cpu>>
  BY Zenon DEF TaskNotifyWaitWoke
<1>4. pc' \in [Slot -> Plain \cup Waiting \cup Notifying] /\ pc'[curr] = Run
  BY Zenon, <1>1, <1>2, <1>3 DEF IInv, TypeOK
<1>5. notify_state' \in [Slot -> {0, 1}]
  BY Zenon DEF TaskNotifyWaitWoke, IInv, TypeOK
<1>6. 0 \in Tick
  BY SchedulerAssumption DEF Tick
<1>7. /\ sleep_until_tick' \in [Slot -> Tick]
      /\ \A s \in InState("SLEEPING") : sleep_until_tick'[s] = sleep_until_tick[s]
  BY Zenon, <1>1, <1>6 DEF TaskNotifyWaitWoke, IInv, TypeOK, InState
<1>8. ThreadState'
  BY Zenon, <1>1, <1>2, <1>3, <1>4 DEF IInv, ThreadState, InState, queues, cpu
<1> QED BY <1>3, <1>4, <1>5, <1>7, <1>8, QuietInv DEF IInv, TypeOK, cpu

LEMMA TaskNotifyFindInv ==
    ASSUME IInv, NEW s \in Slot, TaskNotifyFind(s)
    PROVE  IInv'
<1> DEFINE r == [at |-> "notify", target |-> s, id |-> task_id[s]]
<1>1. curr \in Slot /\ state[curr] = "RUNNING"
  BY Zenon, ThreadFacts DEF TaskNotifyFind, Calling
<1>2. task_id[s] \in Id
  BY Zenon DEF TaskNotifyFind, IInv, TypeOK
<1>3. r \in Notifying /\ r.at = "notify"
  BY Zenon, <1>2 DEF Notifying
<1>4. /\ pc' = [pc EXCEPT ![curr] = r]
      /\ UNCHANGED <<state, sleep_until_tick, notify_state, queues, pool, cpu>>
  BY Zenon DEF TaskNotifyFind
<1> HIDE DEF r
<1>5. pc' \in [Slot -> Plain \cup Waiting \cup Notifying] /\ pc'[curr] = r
  BY Zenon, <1>1, <1>3, <1>4 DEF IInv, TypeOK
<1>6. ThreadState'
  BY Zenon, <1>1, <1>3, <1>4, <1>5 DEF IInv, ThreadState, InState, queues, cpu
<1> QED BY <1>4, <1>5, <1>6, QuietInv, Zenon DEF IInv, TypeOK, cpu

LEMMA PlatformYieldInv ==
    ASSUME IInv, PlatformYield
    PROVE  IInv'
<1>1. curr \in Slot /\ curr # NULL
  BY Zenon, ThreadFacts DEF PlatformYield, Calling
<1>2. Run \in Plain
  BY DEF Run, Plain
<1>3. /\ pendsv' = TRUE
      /\ UNCHANGED <<state, sleep_until_tick, notify_state, queues, pool, ticks, panic>>
  BY Zenon DEF PlatformYield
<1>4. pc' \in [Slot -> Plain \cup Waiting \cup Notifying]
  BY Zenon, <1>1, <1>2 DEF PlatformYield, IInv, TypeOK
<1>5. ThreadState'
  BY <1>1, <1>3, Zenon DEF IInv, ThreadState, InState, queues
<1> QED BY <1>3, <1>4, <1>5, QuietInv, Zenon DEF IInv, TypeOK

-----------------------------------------------------------------------------
(* Creation, start and garbage collection *)

(* Nobody creates a task or collects garbage while the executing task is   *)
(* a zombie: an exited task never leaves its final loop.                   *)
LEMMA CreatorAlive ==
    ASSUME IInv, Creator
    PROVE  curr # NULL => state[curr] # "ZOMBIE"
BY Zenon, ThreadFacts DEF Creator

(* The rollback of task_create for want of an ID never happens. *)
LEMMA NoRollback ==
    ASSUME IInv, NEW gc \in BOOLEAN
    PROVE  ~InstallRollback(gc)
<1> SUFFICES ASSUME InstallRollback(gc) PROVE FALSE
  OBVIOUS
<1> DEFINE fl == FreeList(gc)
           st == Reclaimed(gc)
<1>1. /\ fl \in Seq(Slot) /\ IsInjective(fl) /\ Range(fl) = {s \in Slot : st[s] = "UNUSED"}
  BY Collected, Zenon DEF IInv
<1>2. \A s \in Slot : IF gc /\ state[s] = "ZOMBIE" THEN st[s] = "UNUSED" ELSE st[s] = state[s]
  BY Collected, Zenon DEF IInv
<1>3. fl # <<>> /\ Id \subseteq id_bitmap
  BY DEF InstallRollback
<1> HIDE DEF fl, st
<1>4. Head(fl) \in Slot /\ Head(fl) \in Range(fl)
  BY Zenon, <1>1, <1>3, PopFacts
<1>5. state[Head(fl)] \in {"UNUSED", "ZOMBIE"}
  BY Zenon, <1>1, <1>2, <1>4
<1>6. task_id[Head(fl)] = 0
  BY Zenon, <1>4, <1>5 DEF IInv, IdsExact
<1> QED BY Zenon, <1>3, <1>4, <1>6, FreeId DEF IInv

LEMMA TaskCreateInv ==
    ASSUME IInv, TaskCreate \/ TaskCreateStatic
    PROVE  IInv'
<1>1. PICK gc \in BOOLEAN : Install(gc, TRUE) \/ InstallRollback(gc)
  BY Zenon DEF TaskCreate, TaskCreateStatic
<1>2. Install(gc, TRUE)
  BY <1>1, NoRollback, Zenon
<1>3. Creator /\ UNCHANGED <<sleep_list, curr, idle_task, cpu>>
  BY Zenon DEF TaskCreate, TaskCreateStatic
<1>4. curr # NULL => state[curr] # "ZOMBIE"
  BY Zenon, <1>3, CreatorAlive
<1> QED BY <1>2, <1>3, <1>4, InstallInv, Zenon

LEMMA TaskCreateIdleInv ==
    ASSUME IInv, TaskCreateIdle
    PROVE  IInv'
<1>1. PICK gc \in BOOLEAN : Install(gc, FALSE) /\ idle_task' = Head(FreeList(gc))
  BY Zenon DEF TaskCreateIdle
<1>2. curr = NULL /\ idle_task = NULL /\ UNCHANGED <<sleep_list, curr, cpu>>
  BY Zenon DEF TaskCreateIdle
<1> QED BY <1>1, <1>2, InstallInv, Zenon

LEMMA CollectionsInv ==
    ASSUME IInv, TaskCreateFail \/ TaskCreateIdleFail
                 \/ TaskGarbageCollection \/ IdleGarbageCollection
    PROVE  IInv'
<1>1. CollectGarbage
      /\ UNCHANGED <<sleep_until_tick, notify_state, queues, ticks, pendsv, pc>>
  BY DEF TaskCreateFail, TaskCreateIdleFail, TaskGarbageCollection, IdleGarbageCollection, cpu
<1>2. panic' \in BOOLEAN /\ (curr # NULL => panic' = panic)
  BY Zenon DEF TaskCreateFail, TaskCreateIdleFail, TaskGarbageCollection, IdleGarbageCollection,
         cpu, IInv, TypeOK
<1>3. curr # NULL => state[curr] # "ZOMBIE"
  <2>1. CASE TaskCreateFail
    BY Zenon, <2>1, CreatorAlive DEF TaskCreateFail
  <2>2. CASE TaskCreateIdleFail
    BY Zenon, <2>2 DEF TaskCreateIdleFail
  <2>3. CASE TaskGarbageCollection
    BY Zenon, <2>3, ThreadFacts DEF TaskGarbageCollection, Calling
  <2>4. CASE IdleGarbageCollection
    BY Zenon, <2>4 DEF IdleGarbageCollection, IInv, ThreadState
  <2> QED BY Zenon, <2>1, <2>2, <2>3, <2>4
<1> QED BY <1>1, <1>2, <1>3, CollectInv

(* Picking the task to run: best, with st the states and rdy the heap      *)
(* after the preempted task has been put back.                             *)
LEMMA PickInv ==
    ASSUME IInv, NEW st \in [Slot -> State], NEW best \in Slot, idle_task # NULL, ~panic,
           st[best] = "READY",
           \A s \in Slot : IF state[s] = "RUNNING" THEN st[s] = "READY" ELSE st[s] = state[s],
           curr' = best, state' = [st EXCEPT ![best] = "RUNNING"],
           ready' = {s \in Slot : st[s] = "READY"} \ {idle_task, best},
           pendsv' = FALSE,
           UNCHANGED <<sleep_until_tick, notify_state, sleep_list, idle_task, pool,
                       ticks, panic, pc>>
    PROVE  IInv'
<1> USE DEF IInv
<1>1. /\ state' \in [Slot -> State] /\ state'[best] = "RUNNING"
      /\ \A s \in Slot \ {best} : state'[s] = st[s]
  BY Zenon DEF State
<1>2. /\ InState("READY")' = {s \in Slot : st[s] = "READY"} \ {best}
      /\ InState("SLEEPING")' = InState("SLEEPING")
      /\ InState("RUNNING")' = {best}
  BY Zenon, <1>1 DEF InState
<1>3. TypeOK'
  BY <1>1, Zenon DEF TypeOK, pool
<1>4. SleepOrder' /\ Range(sleep_list)' = InState("SLEEPING")' /\ IsInjective(sleep_list)'
  BY Zenon, <1>2, SleepKept
<1>5. QueuesMatchStates'
  BY Zenon, <1>2, <1>4 DEF QueuesMatchStates
<1>6. PoolPartition' /\ IdsExact' /\ CountExact'
  <2>1. \A r \in Slot : /\ state'[r] = "UNUSED" <=> state[r] = "UNUSED"
                        /\ state'[r] = "ZOMBIE" <=> state[r] = "ZOMBIE"
    BY <1>1, Zenon
  <2> QED BY <2>1, <1>1, PoolKept, Zenon
<1>7. ThreadState'
  <2>1. state'[idle_task] \in {"READY", "RUNNING"}
    BY <1>1 DEF TypeOK, ThreadState
  <2> QED BY <2>1, <1>1, <1>2, Zenon DEF ThreadState
<1> QED BY <1>3, <1>4, <1>5, <1>6, <1>7

LEMMA SchedulerStartInv ==
    ASSUME IInv, SchedulerStart
    PROVE  IInv'
<1>1. /\ ~panic /\ curr = NULL /\ idle_task # NULL /\ idle_task \in Slot /\ ~pendsv
      /\ UNCHANGED <<sleep_until_tick, notify_state, sleep_list, idle_task, pool, cpu, pc>>
  BY DEF SchedulerStart, IInv, TypeOK, ThreadState
<1>2. PICK b \in (IF ready = {} THEN {idle_task} ELSE ready) :
         curr' = b /\ ready' = ready \ {b} /\ state' = [state EXCEPT ![b] = "RUNNING"]
  BY Zenon DEF SchedulerStart
<1>3. \A s \in Slot : state[s] # "RUNNING"
  BY <1>1, NullNoSlot, Zenon DEF IInv, ThreadState, InState
<1>4. b \in Slot /\ state[b] = "READY"
  <2>1. CASE ready = {}
    BY Zenon, <1>1, <1>2, <1>3, <2>1 DEF IInv, ThreadState
  <2>2. CASE ready # {}
    BY Zenon, <1>2, <2>2 DEF IInv, QueuesMatchStates, InState
  <2> QED BY Zenon, <2>1, <2>2
<1>5. ready' = {s \in Slot : state[s] = "READY"} \ {idle_task, b}
  BY Zenon, <1>2 DEF IInv, QueuesMatchStates, InState
<1>6. state \in [Slot -> State] /\ pendsv' = FALSE /\ UNCHANGED <<ticks, panic>>
  <2>1. pendsv \in BOOLEAN /\ pendsv' = pendsv
    BY <1>1 DEF IInv, TypeOK, cpu
  <2>2. pendsv' = FALSE
    BY <1>1, <2>1, Zenon
  <2> QED BY <2>2, <1>1 DEF IInv, TypeOK, cpu
<1> QED BY <1>1, <1>2, <1>3, <1>4, <1>5, <1>6, PickInv, Zenon

-----------------------------------------------------------------------------
(* The context switch and the tick *)

LEMMA ScheduleNextTaskInv ==
    ASSUME IInv, ScheduleNextTask
    PROVE  IInv'
<1> DEFINE preempted == state[curr] = "RUNNING"
           st == IF preempted THEN [state EXCEPT ![curr] = "READY"] ELSE state
           rdy == IF preempted /\ curr # idle_task THEN ready \cup {curr} ELSE ready
<1>1. /\ pendsv /\ ~panic /\ pendsv' = FALSE
      /\ UNCHANGED <<sleep_until_tick, notify_state, sleep_list, idle_task, pool, ticks, pc>>
  BY Zenon DEF ScheduleNextTask
<1>2. curr \in Slot /\ idle_task \in Slot /\ idle_task # NULL
  BY Zenon, <1>1 DEF IInv, TypeOK, ThreadState
<1>3. /\ st \in [Slot -> State]
      /\ \A s \in Slot : IF state[s] = "RUNNING" THEN st[s] = "READY" ELSE st[s] = state[s]
  BY <1>2 DEF IInv, TypeOK, ThreadState, InState, State
<1>4. rdy = {s \in Slot : st[s] = "READY"} \ {idle_task}
  BY Zenon, <1>2 DEF IInv, TypeOK, QueuesMatchStates, InState
<1>5. st[idle_task] = "READY"
  BY <1>2, <1>3, Zenon DEF IInv, ThreadState
<1>6. PICK best \in Slot :
         /\ st[best] = "READY" /\ curr' = best
         /\ state' = [st EXCEPT ![best] = "RUNNING"]
         /\ ready' = rdy \ {best} /\ panic' = panic
  <2>1. CASE \E best \in rdy : /\ curr' = best /\ ready' = rdy \ {best}
                               /\ state' = [st EXCEPT ![best] = "RUNNING"]
                               /\ UNCHANGED panic
    <3> HIDE DEF st, rdy
    <3> QED BY <2>1, <1>4, Zenon
  <2>2. CASE /\ rdy = {} /\ ready' = rdy /\ curr' = idle_task
             /\ state' = [st EXCEPT ![idle_task] = "RUNNING"] /\ UNCHANGED panic
    <3> HIDE DEF st, rdy
    <3> QED BY <2>2, <1>2, <1>5, Zenon
  <2> QED BY <2>1, <2>2, <1>5, Zenon DEF ScheduleNextTask
<1> HIDE DEF st, rdy
<1>7. ready' = {s \in Slot : st[s] = "READY"} \ {idle_task, best}
  BY Zenon, <1>4, <1>6
<1> QED BY <1>1, <1>2, <1>3, <1>6, <1>7, PickInv, Zenon

(* Before the counter wraps, the next tick is the deadline of a sleeping   *)
(* task or comes before it, and the test of scheduler_tick tells which.    *)
LEMMA DueAtDeadline ==
    ASSUME IInv, Disciplined, ticks < MaxUptime, NEW s \in InState("SLEEPING")
    PROVE  /\ TickPlus(ticks, 1) = ticks + 1
           /\ Due(ticks + 1, sleep_until_tick[s]) <=> sleep_until_tick[s] = ticks + 1
<1>1. /\ ticks \in Nat /\ sleep_until_tick[s] \in Nat /\ ticks < sleep_until_tick[s]
      /\ sleep_until_tick[s] <= ticks + MaxSleep
  BY SchedulerAssumption DEF IInv, TypeOK, SleepOrder, InState, Tick
<1>2. ticks + 1 < TICK_MOD
  BY <1>1, SchedulerAssumption DEF Disciplined
<1> QED BY <1>1, <1>2, SchedulerAssumption DEF Due, TickMinus, TickPlus, Disciplined

LEMMA SysTickInv ==
    ASSUME IInv, Disciplined, SysTick
    PROVE  IInv'
<1> USE DEF IInv
<1>1. /\ ~panic /\ ticks < MaxUptime
      /\ UNCHANGED <<sleep_until_tick, notify_state, curr, idle_task, pool, panic, pc>>
  BY Zenon DEF SysTick, Interrupt
<1>2. ticks \in Nat /\ ticks' = ticks + 1 /\ ticks' \in Tick /\ ticks' <= MaxUptime
  BY <1>1, SchedulerAssumption DEF SysTick, TypeOK, Tick, TickPlus, Disciplined
<1> DEFINE u(i) == sleep_until_tick[sleep_list[i]]
           woken(k) == {sleep_list[i] : i \in 1..k}
<1>3. PICK k \in 0..Len(sleep_list) :
         /\ \A i \in 1..k : Due(ticks', u(i))
         /\ k < Len(sleep_list) => ~Due(ticks', u(k + 1))
         /\ MayWake(woken(k))
         /\ sleep_list' = SubSeq(sleep_list, k + 1, Len(sleep_list))
         /\ state' = [s \in Slot |-> IF s \in woken(k) THEN "READY" ELSE state[s]]
         /\ ready' = ready \cup woken(k)
  BY Zenon DEF SysTick
<1> DEFINE W == woken(k)
<1>4. Len(sleep_list) \in Nat /\ \A i \in 1..Len(sleep_list) : sleep_list[i] \in InState("SLEEPING")
  BY DEF TypeOK, QueuesMatchStates, Range
<1>5. W \subseteq InState("SLEEPING")
  BY <1>3, <1>4
<1>6. /\ sleep_list' \in Seq(Slot) /\ Len(sleep_list') = Len(sleep_list) - k
      /\ \A j \in 1..Len(sleep_list') : sleep_list'[j] = sleep_list[j + k]
      /\ Range(sleep_list') = Range(sleep_list) \ W /\ IsInjective(sleep_list')
  <2>1. sleep_list \in Seq(Slot) /\ IsInjective(sleep_list)
    BY DEF TypeOK, QueuesMatchStates
  <2>2. k \in 0..Len(sleep_list) /\ sleep_list' = SubSeq(sleep_list, k + 1, Len(sleep_list))
    BY <1>3, Zenon
  <2>3. /\ sleep_list' \in Seq(Slot) /\ Len(sleep_list') = Len(sleep_list) - k
        /\ \A j \in 1..(Len(sleep_list) - k) : sleep_list'[j] = sleep_list[j + k]
    BY <2>1, <2>2, SubSeqFacts, Zenon
  <2>4. \A j \in 1..Len(sleep_list') : sleep_list'[j] = sleep_list[j + k]
    BY <2>3, Zenon
  <2>5. /\ \A x : x \in Range(sleep_list') <=>
                  x \in Range(sleep_list) /\ \A i \in 1..k : x # sleep_list[i]
        /\ IsInjective(sleep_list')
    <3>1. IsRest(sleep_list', sleep_list, k)
      BY <2>3, <2>4, Zenon DEF IsRest
    <3>2. sleep_list' \in Seq(Slot) /\ k \in 0..Len(sleep_list)
      BY Zenon, <2>2, <2>3
    <3> QED BY <2>1, <3>1, <3>2, SuffixFacts, Zenon
  <2>6. Range(sleep_list') = Range(sleep_list) \ W
    BY Zenon, <2>5
  <2> QED BY <2>3, <2>4, <2>5, <2>6, Zenon
<1>7. /\ state' \in [Slot -> State]
      /\ \A s \in Slot : state'[s] = IF s \in W THEN "READY" ELSE state[s]
  BY <1>3, Zenon DEF TypeOK, State
<1>8. MayWake(W) /\ ready' = ready \cup W
  BY <1>3, Zenon
<1>9. \A i \in (k + 1)..Len(sleep_list) : u(i) > ticks + 1
  <2> SUFFICES ASSUME NEW i \in (k + 1)..Len(sleep_list) PROVE u(i) > ticks + 1
    BY Zenon
  <2>1. /\ k + 1 \in 1..Len(sleep_list) /\ i \in 1..Len(sleep_list) /\ k < Len(sleep_list)
    BY <1>3, <1>4
  <2>2. \A j \in 1..Len(sleep_list) : u(j) \in Nat /\ u(j) > ticks
    BY <1>4, SchedulerAssumption DEF TypeOK, SleepOrder, InState, Tick
  <2>3. ~Due(ticks + 1, u(k + 1))
    BY <1>2, <1>3, <2>1, Zenon
  <2>4. u(k + 1) # ticks + 1
    BY Zenon, <1>1, <1>4, <2>1, <2>3, DueAtDeadline
  <2>5. i = k + 1 \/ k + 1 < i
    <3> HIDE DEF u, W, woken, IInv
    <3> QED BY <1>4
  <2>6. \A m, n \in 1..Len(sleep_list) : m < n => u(m) <= u(n)
    BY DEF SleepOrder, Sorted
  <2> HIDE DEF u
  <2>7. i = k + 1 \/ u(k + 1) <= u(i)
    BY <2>1, <2>5, <2>6, Zenon
  <2> QED BY <1>2, <2>1, <2>2, <2>4, <2>7
<1>10. /\ InState("SLEEPING")' = InState("SLEEPING") \ W
       /\ InState("READY")' = InState("READY") \cup W
       /\ InState("RUNNING")' = InState("RUNNING")
  <2> HIDE DEF W
  <2> QED BY Zenon, <1>5, <1>7 DEF InState
<1> HIDE DEF W
<1>11. SleepOrder'
  <2>1. \A j \in 1..Len(sleep_list') :
           j + k \in (k + 1)..Len(sleep_list) /\ j + k \in 1..Len(sleep_list)
    BY <1>3, <1>4, <1>6
  <2>2. Sorted(sleep_list)'
    <3> SUFFICES ASSUME NEW i \in 1..Len(sleep_list'), NEW j \in 1..Len(sleep_list'), i < j
                 PROVE  sleep_until_tick[sleep_list'[i]] <= sleep_until_tick[sleep_list'[j]]
      BY Zenon, <1>1 DEF Sorted
    <3>1. i + k \in 1..Len(sleep_list) /\ j + k \in 1..Len(sleep_list) /\ i + k < j + k
      BY <2>1, <1>3
    <3> QED BY Zenon, <3>1, <1>6 DEF SleepOrder, Sorted
  <2>3. ASSUME NEW s \in InState("SLEEPING")'
        PROVE  ticks' < sleep_until_tick'[s] /\ sleep_until_tick'[s] <= ticks' + MaxSleep
    <3>1. s \in InState("SLEEPING") /\ s \in Range(sleep_list')
      BY Zenon, <1>6, <1>10 DEF QueuesMatchStates
    <3>2. PICK j \in 1..Len(sleep_list') : s = sleep_list'[j]
      BY <3>1, <1>6 DEF Range
    <3>3. sleep_until_tick[s] > ticks + 1
      BY Zenon, <3>2, <2>1, <1>6, <1>9
    <3>4. sleep_until_tick[s] <= ticks + MaxSleep /\ sleep_until_tick[s] \in Nat
      BY <3>1, SchedulerAssumption DEF SleepOrder, TypeOK, InState, Tick
    <3> QED BY <3>3, <3>4, <1>1, <1>2, SchedulerAssumption
  <2> QED BY Zenon, <2>2, <2>3, <1>2 DEF SleepOrder
<1>12. QueuesMatchStates'
  <2>1. W \cap {idle_task} = {}
    BY Zenon, <1>5, NullNoSlot DEF ThreadState, InState
  <2> QED BY Zenon, <2>1, <1>1, <1>6, <1>8, <1>10 DEF QueuesMatchStates
<1>13. PICK resched \in BOOLEAN : (curr = NULL => ~resched) /\ pendsv' = (pendsv \/ resched)
  BY Zenon DEF SysTick
<1>14. /\ pendsv' \in BOOLEAN /\ (pendsv => pendsv') /\ (curr = NULL => ~pendsv')
  BY <1>13, Zenon DEF TypeOK, ThreadState
<1>15. TypeOK'
  BY <1>1, <1>2, <1>5, <1>6, <1>7, <1>8, <1>14, Zenon DEF TypeOK, pool, InState
<1>16. PoolPartition' /\ IdsExact' /\ CountExact'
  <2>1. \A r \in Slot : /\ state'[r] = "UNUSED" <=> state[r] = "UNUSED"
                        /\ state'[r] = "ZOMBIE" <=> state[r] = "ZOMBIE"
    BY Zenon, <1>5, <1>7 DEF InState
  <2> QED BY <2>1, <1>1, <1>7, PoolKept
<1>17. ThreadState'
  <2>1. idle_task # NULL => state'[idle_task] = state[idle_task]
    BY <1>5, <1>7 DEF TypeOK, ThreadState, InState
  <2>2. curr # NULL => state'[curr] # "UNUSED"
    BY Zenon, <1>7 DEF TypeOK, ThreadState
  <2>3. curr # NULL /\ ~pendsv /\ curr \in W =>
           pc[curr].at \notin {"run", "notify", "nw_woke", "nw_check"}
    BY <1>5, <1>8, Zenon DEF ThreadState, InState, MayWake, Disciplined
  <2>4. curr # NULL /\ curr \notin W => state'[curr] = state[curr]
    BY Zenon, <1>7 DEF TypeOK
  <2>5. ~pendsv' => ~pendsv
    BY Zenon, <1>14
  <2> QED BY <2>1, <2>2, <2>3, <2>4, <2>5, <1>1, <1>10, <1>14, Zenon DEF ThreadState
<1> QED BY Zenon, <1>11, <1>12, <1>15, <1>16, <1>17

-----------------------------------------------------------------------------
(* Every step keeps the invariant. *)
LEMMA NextInv ==
    ASSUME IInv, Disciplined, [Next]_vars
    PROVE  IInv'
<1>1. CASE Boot
  BY Zenon, <1>1, TaskCreateIdleInv, CollectionsInv, SchedulerStartInv DEF Boot
<1>2. CASE TaskStep
  <2>1. CASE TaskCreate \/ TaskCreateStatic
    BY Zenon, <2>1, TaskCreateInv
  <2>2. CASE TaskCreateFail \/ TaskGarbageCollection \/ IdleGarbageCollection
    BY Zenon, <2>2, CollectionsInv
  <2>3. CASE TaskExit \/ TaskBlockCurrent \/ PlatformYield
    BY Zenon, <2>3, TaskExitInv, TaskBlockCurrentInv, PlatformYieldInv
  <2>4. CASE TaskNotifyWaitCheck \/ TaskNotifyWaitWoke \/ TaskNotify
    BY Zenon, <2>4, TaskNotifyWaitCheckInv, TaskNotifyWaitWokeInv, TaskNotifyInv
  <2>5. CASE \E n \in 1..MaxSleep : TaskSleepTicks(n)
    BY Zenon, <2>5, TaskSleepTicksInv
  <2>6. CASE \E clear \in BOOLEAN, n \in 0..MaxSleep : TaskNotifyWait(clear, n)
    BY Zenon, <2>6, TaskNotifyWaitInv
  <2>7. CASE \E s \in Slot : TaskDelete(s) \/ TaskBlock(s) \/ TaskNotifyFind(s)
    BY Zenon, <2>7, TaskDeleteInv, TaskBlockInv, TaskNotifyFindInv
  <2>8. CASE \E s \in Slot, st \in {"READY", "BLOCKED"} : TaskSetState(s, st)
    BY Zenon, <2>8, TaskSetStateInv
  <2> QED BY <1>2, <2>1, <2>2, <2>3, <2>4, <2>5, <2>6, <2>7, <2>8 DEF TaskStep
<1>3. CASE Wake
  BY Zenon, <1>3, TaskUnblockInv, IsrNotifyInv DEF Wake
<1>4. CASE SysTick
  BY Zenon, <1>4, SysTickInv
<1>5. CASE ScheduleNextTask
  BY Zenon, <1>5, ScheduleNextTaskInv
<1>6. CASE UNCHANGED vars
  <2>1. /\ UNCHANGED <<state, queues, pool, ticks, sleep_until_tick, notify_state>>
        /\ UNCHANGED <<pendsv, panic, pc>>
    BY Zenon, <1>6 DEF vars, cpu
  <2>2. ThreadState'
    BY <2>1, Zenon DEF IInv, ThreadState, InState, queues
  <2> QED BY <2>1, <2>2, QuietInv, Zenon DEF IInv, TypeOK
<1> QED BY <1>1, <1>2, <1>3, <1>4, <1>5, <1>6 DEF Next

(* The inductive invariant holds in every reachable state. *)
THEOREM Invariance == ASSUME Disciplined PROVE Spec => []IInv
<1>1. Init => IInv
  BY Zenon, InitInv
<1>2. IInv /\ [Next]_vars => IInv'
  BY Zenon, NextInv
<1> QED BY <1>1, <1>2, PTL DEF Spec

(* Every variable keeps its type, for every pool size and tick range. *)
THEOREM TypeCorrect == ASSUME Disciplined PROVE Spec => []TypeOK
<1>1. IInv => TypeOK
  BY Zenon DEF IInv
<1> QED BY <1>1, Invariance, PTL

(* The heap holds exactly the READY tasks but idle, and the sleep list     *)
(* exactly the SLEEPING ones, each once, after every scheduler call.       *)
THEOREM QueuesCorrect == ASSUME Disciplined PROVE Spec => []QueuesMatchStates
<1>1. IInv => QueuesMatchStates
  BY Zenon DEF IInv
<1> QED BY <1>1, Invariance, PTL

(* The free list and the zombie list partition the dead slots: creation,   *)
(* deletion and garbage collection neither lose nor double a slot.         *)
THEOREM PoolCorrect == ASSUME Disciplined PROVE Spec => []PoolPartition
<1>1. IInv => PoolPartition
  BY Zenon DEF IInv
<1> QED BY <1>1, Invariance, PTL

(* The task count is the number of slots in use: creation, deletion and    *)
(* garbage collection keep g_sched.count exact.                            *)
THEOREM CountCorrect == ASSUME Disciplined PROVE Spec => []CountExact
<1>1. IInv => CountExact
  BY Zenon DEF IInv
<1> QED BY <1>1, Invariance, PTL

(* The IDs of live tasks are distinct and the bitmap is exact. *)
THEOREM IdsCorrect == ASSUME Disciplined PROVE Spec => []IdsExact
<1>1. IInv => IdsExact
  BY DEF IInv
<1> QED BY <1>1, Invariance, PTL

(* task_create never runs out of IDs before it runs out of slots: there    *)
(* are as many IDs as slots, and a slot without a task has no ID.          *)
THEOREM IdAlwaysAvailable == ASSUME Disciplined PROVE Spec => []IdAvailable
<1>1. ASSUME IInv PROVE IdAvailable
  <2> SUFFICES ASSUME free_list # <<>> \/ zombie_list # <<>>
               PROVE  ~(Id \subseteq id_bitmap)
    BY Zenon DEF IdAvailable
  <2>1. PICK z \in Slot : state[z] \in {"UNUSED", "ZOMBIE"}
    <3>1. CASE free_list # <<>>
      <4>1. Head(free_list) \in Slot /\ Head(free_list) \in Range(free_list)
        BY <1>1, <3>1, PopFacts DEF IInv, TypeOK, PoolPartition
      <4> QED BY Zenon, <1>1, <4>1 DEF IInv, PoolPartition, InState
    <3>2. CASE zombie_list # <<>>
      <4>1. Head(zombie_list) \in Slot /\ Head(zombie_list) \in Range(zombie_list)
        BY Zenon, <1>1, <3>2, PopFacts DEF IInv, TypeOK, PoolPartition
      <4> QED BY Zenon, <1>1, <4>1 DEF IInv, PoolPartition, InState
    <3> QED BY Zenon, <3>1, <3>2
  <2>2. task_id[z] = 0
    BY <1>1, <2>1 DEF IInv, IdsExact
  <2> QED BY Zenon, <1>1, <2>2, FreeId DEF IInv
<1> QED BY <1>1, Invariance, PTL

(* The executing task's slot is never reclaimed, and no other is RUNNING. *)
THEOREM StackKept == ASSUME Disciplined PROVE Spec => []RunningTaskKeepsStack
<1>1. IInv => RunningTaskKeepsStack
  BY Zenon DEF IInv, ThreadState, RunningTaskKeepsStack
<1> QED BY <1>1, Invariance, PTL

(* The panic of schedule_next_task is unreachable: idle can always run. *)
THEOREM SchedulerNeverStuck == ASSUME Disciplined PROVE Spec => []NeverStuck
<1>1. IInv => NeverStuck
  BY Zenon DEF IInv, ThreadState, NeverStuck
<1> QED BY <1>1, Invariance, PTL

(* As long as the tick counter does not wrap, no task sleeps past its      *)
(* deadline.                                                               *)
THEOREM SleepersWokenInTime == ASSUME Disciplined PROVE Spec => []NoOverdueSleeper
<1>1. ASSUME IInv PROVE NoOverdueSleeper
  <2> SUFFICES ASSUME NEW s \in Range(sleep_list) PROVE ~Due(ticks, sleep_until_tick[s])
    BY Zenon DEF NoOverdueSleeper
  <2>1. s \in InState("SLEEPING")
    BY Zenon, <1>1 DEF IInv, QueuesMatchStates
  <2>2. /\ ticks \in Nat /\ sleep_until_tick[s] \in Nat /\ ticks < sleep_until_tick[s]
        /\ sleep_until_tick[s] <= ticks + MaxSleep
    BY <1>1, <2>1, SchedulerAssumption DEF IInv, TypeOK, SleepOrder, InState, Tick
  <2> QED BY <2>2, SchedulerAssumption DEF Due, TickMinus, Disciplined
<1> QED BY <1>1, Invariance, PTL

-----------------------------------------------------------------------------
(* What a step may do to a dead slot. *)
LEMMA ZombieStep ==
    ASSUME IInv, Disciplined, [Next]_vars, NEW s \in InState("ZOMBIE")
    PROVE  \/ state'[s] \in {"ZOMBIE", "UNUSED"}
           \/ state'[s] = "READY" /\ task_id[s] = 0 /\ task_id'[s] # 0
<1> DEFINE D == \/ state'[s] \in {"ZOMBIE", "UNUSED"}
                \/ state'[s] = "READY" /\ task_id[s] = 0 /\ task_id'[s] # 0
<1> SUFFICES D
  BY Zenon
<1>1. s \in Slot /\ state[s] = "ZOMBIE" /\ task_id[s] = 0 /\ state \in [Slot -> State]
  BY Zenon DEF InState, IInv, IdsExact, TypeOK
<1>2. ASSUME NEW x, NEW v, state[x] # "ZOMBIE", state' = [state EXCEPT ![x] = v] PROVE D
  BY Zenon, <1>1, <1>2
<1>3. ASSUME state' = state PROVE D
  BY Zenon, <1>1, <1>3
<1>4. ASSUME CollectGarbage PROVE D
  BY Zenon, <1>1, <1>4 DEF CollectGarbage, Reclaimed
<1>5. ASSUME NEW gc \in BOOLEAN, NEW Ready, Install(gc, Ready) PROVE D
  <2> DEFINE n == Head(FreeList(gc))
  <2>1. PICK id \in Id : task_id' = [task_id EXCEPT ![n] = id]
    BY <1>5, Zenon DEF Install
  <2>2. state' = [Reclaimed(gc) EXCEPT ![n] = "READY"]
    BY Zenon, <1>5 DEF Install
  <2>3. Reclaimed(gc) \in [Slot -> State] /\ Reclaimed(gc)[s] \in {"ZOMBIE", "UNUSED"}
    BY Zenon, <1>1 DEF Reclaimed, State
  <2>4. id # 0
    BY SchedulerAssumption DEF Id
  <2> HIDE DEF n
  <2>5. CASE s = n
    <3>1. state'[s] = "READY"
      BY Zenon, <1>1, <2>2, <2>3, <2>5
    <3>2. task_id'[s] = id
      BY <1>1, <2>1, <2>5, Zenon DEF IInv, TypeOK
    <3> QED BY Zenon, <1>1, <2>4, <3>1, <3>2
  <2>6. CASE s # n
    BY <1>1, <2>2, <2>3, <2>6, Zenon
  <2> QED BY Zenon, <2>5, <2>6
<1>6. ASSUME NEW x, UnblockLocked(x) PROVE D
  BY Zenon, <1>2, <1>3, <1>6 DEF UnblockLocked
<1>7. ASSUME NEW x, NEW id, NotifyLocked(x, id) PROVE D
  BY Zenon, <1>3, <1>6, <1>7 DEF NotifyLocked
<1>8. ASSUME NEW p \in {"run", "notify", "nw_woke"}, Thread(p) PROVE state[curr] # "ZOMBIE"
  BY Zenon, <1>8, ThreadFacts
<1> HIDE DEF D
<1>9. CASE Boot
  <2>1. CASE TaskCreateIdle
    BY <2>1, <1>5, Zenon DEF TaskCreateIdle
  <2>2. CASE TaskCreateIdleFail
    BY Zenon, <2>2, <1>4 DEF TaskCreateIdleFail
  <2>3. CASE SchedulerStart
    <3>1. PICK b \in (IF ready = {} THEN {idle_task} ELSE ready) :
             state' = [state EXCEPT ![b] = "RUNNING"]
      BY <2>3, Zenon DEF SchedulerStart
    <3>2. state[b] # "ZOMBIE"
      BY <2>3, <3>1, Zenon DEF SchedulerStart, IInv, QueuesMatchStates, InState, ThreadState
    <3> QED BY <3>1, <3>2, <1>2, Zenon
  <2> QED BY Zenon, <1>9, <2>1, <2>2, <2>3 DEF Boot
<1>10. CASE TaskStep
  <2>1. CASE TaskCreate \/ TaskCreateStatic
    <3>1. PICK gc \in BOOLEAN : Install(gc, TRUE) \/ InstallRollback(gc)
      BY <2>1, Zenon DEF TaskCreate, TaskCreateStatic
    <3> QED BY <3>1, NoRollback, <1>5, Zenon
  <2>2. CASE TaskCreateFail \/ TaskGarbageCollection \/ IdleGarbageCollection
    BY Zenon, <2>2, <1>4 DEF TaskCreateFail, TaskGarbageCollection, IdleGarbageCollection
  <2>3. CASE TaskExit
    BY <2>3, <1>2, <1>8, Zenon DEF TaskExit, Calling
  <2>4. CASE TaskBlockCurrent
    BY <2>4, <1>2, <1>8, Zenon DEF TaskBlockCurrent, Calling
  <2>5. CASE PlatformYield \/ TaskNotifyWaitCheck \/ TaskNotifyWaitWoke
    BY Zenon, <2>5, <1>3 DEF PlatformYield, TaskNotifyWaitCheck, TaskNotifyWaitWoke
  <2>6. CASE TaskNotify
    BY Zenon, <2>6, <1>7 DEF TaskNotify
  <2>7. CASE \E n \in 1..MaxSleep : TaskSleepTicks(n)
    BY <2>7, <1>2, <1>8, Zenon DEF TaskSleepTicks, Calling
  <2>8. CASE \E clear \in BOOLEAN, n \in 0..MaxSleep : TaskNotifyWait(clear, n)
    BY <2>8, <1>2, <1>3, <1>8 DEF TaskNotifyWait, Calling
  <2>9. ASSUME NEW x \in Slot, TaskDelete(x) PROVE D
    BY <2>9, <1>2, Zenon DEF TaskDelete, IInv, IdsExact
  <2>10. ASSUME NEW x \in Slot, TaskBlock(x) PROVE D
    BY <2>10, <1>2, Zenon DEF TaskBlock, Disciplined
  <2>11. ASSUME NEW x \in Slot, TaskNotifyFind(x) PROVE D
    BY Zenon, <2>11, <1>3 DEF TaskNotifyFind
  <2>12. ASSUME NEW x \in Slot, NEW st \in {"READY", "BLOCKED"}, TaskSetState(x, st) PROVE D
    BY <2>12, <1>2, Zenon DEF TaskSetState
  <2> QED BY <1>10, <2>1, <2>2, <2>3, <2>4, <2>5, <2>6, <2>7, <2>8, <2>9, <2>10, <2>11, <2>12
          DEF TaskStep
<1>11. CASE Wake
  BY Zenon, <1>11, <1>6, <1>7 DEF Wake, TaskUnblock, IsrNotify
<1>12. CASE SysTick
  <2>1. PICK k \in 0..Len(sleep_list) :
           state' = [r \in Slot |-> IF r \in {sleep_list[i] : i \in 1..k}
                                    THEN "READY" ELSE state[r]]
    BY <1>12, Zenon DEF SysTick
  <2>2. \A i \in 1..k : sleep_list[i] # s
    <3>1. Range(sleep_list) = InState("SLEEPING") /\ sleep_list \in Seq(Slot)
      BY Zenon DEF IInv, TypeOK, QueuesMatchStates
    <3>2. \A i \in 1..k : sleep_list[i] \in Range(sleep_list)
      BY <3>1 DEF Range
    <3> QED BY Zenon, <1>1, <3>1, <3>2 DEF InState
  <2>3. state'[s] = "ZOMBIE"
    BY <1>1, <2>1, <2>2, Zenon
  <2> QED BY Zenon, <2>3 DEF D
<1>13. CASE ScheduleNextTask
  <2>1. state'[s] = "ZOMBIE"
    <3> DEFINE st == IF state[curr] = "RUNNING" THEN [state EXCEPT ![curr] = "READY"] ELSE state
               rdy == IF state[curr] = "RUNNING" /\ curr # idle_task
                      THEN ready \cup {curr} ELSE ready
    <3>1. st[s] = "ZOMBIE" /\ st \in [Slot -> State]
      BY <1>1, Zenon DEF State
    <3>2. s \notin rdy
      BY Zenon, <1>1 DEF IInv, QueuesMatchStates, InState
    <3>3. \/ \E b \in rdy : state' = [st EXCEPT ![b] = "RUNNING"]
          \/ st[idle_task] = "READY" /\ state' = [st EXCEPT ![idle_task] = "RUNNING"]
          \/ st[curr] \in {"READY", "RUNNING"} /\ state' = [st EXCEPT ![curr] = "RUNNING"]
          \/ state' = st
      BY <1>13, Zenon DEF ScheduleNextTask
    <3> HIDE DEF st, rdy
    <3> QED BY Zenon, <1>1, <3>1, <3>2, <3>3
  <2> QED BY <2>1, Zenon DEF D
<1>14. CASE UNCHANGED vars
  BY Zenon, <1>14, <1>3 DEF vars
<1> QED BY Zenon, <1>9, <1>10, <1>11, <1>12, <1>13, <1>14 DEF Next

(* A dead task is never resurrected: only garbage collection and creation  *)
(* touch a ZOMBIE slot, and creation gives it a new ID.                    *)
THEOREM NoResurrection == ASSUME Disciplined PROVE Spec => DeadStaysDead
<1>1. ASSUME IInv, [Next]_vars
      PROVE  [\A s \in InState("ZOMBIE") :
                 \/ state'[s] \in {"ZOMBIE", "UNUSED"}
                 \/ state'[s] = "READY" /\ task_id[s] = 0 /\ task_id'[s] # 0]_vars
  BY Zenon, <1>1, ZombieStep
<1> QED BY <1>1, Invariance, PTL DEF Spec, DeadStaysDead

(* A step puts a task into the state of a missed notification only if it   *)
(* was in it, or if it was ready: task_notify wakes the waiter it marks,   *)
(* and task_notify_wait does not block a task that is already notified.    *)
LEMMA MissedStep ==
    ASSUME IInv, Disciplined, [Next]_vars, NEW s \in Slot, MissedNotification(s)'
    PROVE  MissedNotification(s) \/ state[s] = "READY"
<1> DEFINE Held == {"BLOCKED", "SLEEPING"}
           Inside == {"nw_check", "nw_woke"}
           A == state'[s] \in Held => state[s] \in Held \cup {"READY"}
           N == notify_state'[s] = 1 => notify_state[s] = 1
           P == pc'[s].at \in Inside => pc[s].at \in Inside
           D == MissedNotification(s) \/ state[s] = "READY"
<1> SUFFICES D
  BY Zenon
<1>1. state'[s] \in Held /\ notify_state'[s] = 1 /\ pc'[s].at \in Inside
  BY Zenon DEF MissedNotification
<1>2. /\ state \in [Slot -> State] /\ notify_state \in [Slot -> {0, 1}]
      /\ pc \in [Slot -> Plain \cup Waiting \cup Notifying]
  BY Zenon DEF IInv, TypeOK
<1>3. ASSUME A, N, P PROVE D
  BY Zenon, <1>1, <1>3 DEF MissedNotification
<1>4. ASSUME NEW x, NEW v, v \notin Held \/ state[x] \in Held \cup {"READY"},
             state' = [state EXCEPT ![x] = v]
      PROVE  A
  BY Zenon, <1>2, <1>4
<1>5. ASSUME state' = state PROVE A
  BY Zenon, <1>5
<1>6. ASSUME notify_state' = notify_state PROVE N
  BY Zenon, <1>6
<1>7. ASSUME pc' = pc PROVE P
  BY Zenon, <1>7
<1>8. ASSUME NEW x, NEW r, r.at \notin Inside, pc' = [pc EXCEPT ![x] = r] PROVE P
  BY <1>2, <1>8, Zenon
<1>9. ASSUME CollectGarbage PROVE A
  <2>1. state' = Reclaimed(TRUE)
    BY Zenon, <1>9 DEF CollectGarbage
  <2>2. state'[s] \in {"UNUSED", state[s]}
    BY Zenon, <2>1 DEF Reclaimed
  <2> QED BY Zenon, <2>2
<1>10. ASSUME NEW gc \in BOOLEAN, NEW Ready, Install(gc, Ready) PROVE D
  <2> DEFINE n == Head(FreeList(gc))
             st == Reclaimed(gc)
  <2>1. /\ state' = [st EXCEPT ![n] = "READY"]
        /\ notify_state' = [notify_state EXCEPT ![n] = 0]
        /\ pc' = [pc EXCEPT ![n] = Run]
    BY <1>10, Zenon DEF Install
  <2>2. st \in [Slot -> State] /\ st[s] \in {state[s], "UNUSED"}
    BY Zenon, <1>2 DEF Reclaimed, State
  <2> HIDE DEF n, st
  <2>3. s # n
    BY Zenon, <1>1, <2>1, <2>2
  <2>4. state'[s] = st[s] /\ notify_state'[s] = notify_state[s] /\ pc'[s] = pc[s]
    BY <1>2, <2>1, <2>2, <2>3, Zenon
  <2> QED BY Zenon, <1>1, <1>3, <2>2, <2>4
<1>11. ASSUME NEW x, UnblockLocked(x) PROVE A
  BY Zenon, <1>4, <1>5, <1>11 DEF UnblockLocked
<1>12. ASSUME NEW x, NEW id, NotifyLocked(x, id), P PROVE D
  <2>1. CASE UNCHANGED <<notify_state, state>>
    BY <1>3, <1>5, <1>6, <1>12, <2>1
  <2>2. CASE notify_state' = [notify_state EXCEPT ![x] = 1] /\ UnblockLocked(x)
    <3>1. x # s
      BY Zenon, <1>1, <1>2, <2>2 DEF UnblockLocked
    <3>2. N
      BY Zenon, <1>2, <2>2, <3>1
    <3> QED BY Zenon, <1>3, <1>11, <1>12, <2>2, <3>2
  <2> QED BY Zenon, <1>12, <2>1, <2>2 DEF NotifyLocked
<1> HIDE DEF A, N, P, D
<1>13. CASE Boot
  <2>1. CASE TaskCreateIdle
    BY <2>1, <1>10, Zenon DEF TaskCreateIdle
  <2>2. CASE TaskCreateIdleFail
    BY <2>2, <1>3, <1>6, <1>7, <1>9 DEF TaskCreateIdleFail
  <2>3. CASE SchedulerStart
    <3>1. PICK b : state' = [state EXCEPT ![b] = "RUNNING"]
      BY <2>3, Zenon DEF SchedulerStart
    <3>2. A
      BY Zenon, <3>1, <1>4
    <3> QED BY <2>3, <3>2, <1>3, <1>6, <1>7 DEF SchedulerStart
  <2> QED BY Zenon, <1>13, <2>1, <2>2, <2>3 DEF Boot
<1>14. CASE TaskStep
  <2>1. CASE TaskCreate \/ TaskCreateStatic
    <3>1. PICK gc \in BOOLEAN : Install(gc, TRUE) \/ InstallRollback(gc)
      BY <2>1, Zenon DEF TaskCreate, TaskCreateStatic
    <3> QED BY <3>1, NoRollback, <1>10, Zenon
  <2>2. CASE TaskCreateFail \/ TaskGarbageCollection \/ IdleGarbageCollection
    BY Zenon, <2>2, <1>3, <1>6, <1>7, <1>9
       DEF TaskCreateFail, TaskGarbageCollection, IdleGarbageCollection
  <2>3. CASE TaskExit
    <3>1. P
      BY Zenon, <2>3, <1>8 DEF TaskExit
    <3> QED BY Zenon, <2>3, <3>1, <1>3, <1>4, <1>6 DEF TaskExit
  <2>4. CASE TaskBlockCurrent \/ \E n \in 1..MaxSleep : TaskSleepTicks(n)
    <3>1. /\ Thread("run") /\ notify_state' = notify_state
          /\ pc' = [pc EXCEPT ![curr] = [at |-> "yield"]]
          /\ \E v : state' = [state EXCEPT ![curr] = v]
      BY <2>4, Zenon DEF TaskBlockCurrent, TaskSleepTicks, Calling
    <3>2. curr \in Slot
      BY Zenon, <3>1, ThreadFacts
    <3>3. curr # s
      BY <1>1, <1>2, <3>1, <3>2
    <3>4. state'[s] = state[s]
      BY Zenon, <1>2, <3>1, <3>3
    <3>5. A
      BY Zenon, <1>1, <3>4 DEF A
    <3> QED BY Zenon, <3>1, <3>5, <1>3, <1>6, <1>8
  <2>5. CASE PlatformYield
    <3>1. P
      <4>1. pc'[s] \in {pc[s], Run}
        BY Zenon, <1>2, <2>5 DEF PlatformYield
      <4> QED BY <4>1 DEF P, Run
    <3> QED BY <2>5, <3>1, <1>3, <1>5, <1>6 DEF PlatformYield
  <2>6. CASE TaskNotifyWaitCheck
    <3>1. P
      <4>1. pc[curr].at = "nw_check" /\ pc' = [pc EXCEPT ![curr].at = "nw_woke"]
        BY Zenon, <2>6 DEF TaskNotifyWaitCheck, Thread
      <4>2. s # curr => pc'[s] = pc[s]
        BY Zenon, <1>2, <4>1
      <4> QED BY Zenon, <4>1, <4>2 DEF P
    <3> QED BY <2>6, <3>1, <1>3, <1>5, <1>6 DEF TaskNotifyWaitCheck
  <2>7. CASE TaskNotifyWaitWoke
    <3>1. P
      BY Zenon, <2>7, <1>8 DEF TaskNotifyWaitWoke, Run
    <3>2. N
      BY <1>2, <2>7 DEF TaskNotifyWaitWoke, N
    <3> QED BY <2>7, <3>1, <3>2, <1>3, <1>5 DEF TaskNotifyWaitWoke
  <2>8. CASE TaskNotify
    <3>1. P
      BY Zenon, <2>8, <1>8 DEF TaskNotify, Run
    <3> QED BY <2>8, <3>1, <1>12 DEF TaskNotify
  <2>9. ASSUME NEW clear \in BOOLEAN, NEW n \in 0..MaxSleep, TaskNotifyWait(clear, n) PROVE D
    <3> DEFINE r == [at |-> "nw_check", clear |-> clear, timed |-> n > 0]
    <3>1. /\ Thread("run") /\ notify_state' = notify_state
          /\ pc' = [pc EXCEPT ![curr] = r]
          /\ IF notify_state[curr] = 0 THEN \E v : state' = [state EXCEPT ![curr] = v]
                                       ELSE state' = state
      BY <2>9, Zenon DEF TaskNotifyWait, Calling
    <3> HIDE DEF r
    <3>2. curr \in Slot /\ state[curr] = "RUNNING"
      BY Zenon, <3>1, ThreadFacts
    <3>3. curr # s
      BY <1>1, <1>2, <3>1, <3>2
    <3>4. state'[s] = state[s] /\ pc'[s] = pc[s]
      BY Zenon, <1>2, <3>1, <3>3
    <3>5. A /\ P
      BY Zenon, <1>1, <3>4 DEF A, P
    <3> QED BY <3>1, <3>5, <1>3, <1>6
  <2>10. ASSUME NEW x \in Slot, TaskDelete(x) PROVE D
    <3>1. A
      BY Zenon, <2>10, <1>4 DEF TaskDelete
    <3> QED BY Zenon, <2>10, <3>1, <1>3, <1>6, <1>7 DEF TaskDelete
  <2>11. ASSUME NEW x \in Slot, TaskBlock(x) PROVE D
    <3>1. A
      BY Zenon, <2>11, <1>4 DEF TaskBlock, Disciplined
    <3> QED BY <2>11, <3>1, <1>3, <1>6, <1>7 DEF TaskBlock
  <2>12. ASSUME NEW x \in Slot, TaskNotifyFind(x) PROVE D
    <3>1. P
      BY Zenon, <2>12, <1>8 DEF TaskNotifyFind
    <3> QED BY <2>12, <3>1, <1>3, <1>5, <1>6 DEF TaskNotifyFind
  <2>13. ASSUME NEW x \in Slot, NEW st \in {"READY", "BLOCKED"}, TaskSetState(x, st) PROVE D
    <3>1. A
      BY Zenon, <2>13, <1>4 DEF TaskSetState
    <3> QED BY <2>13, <3>1, <1>3, <1>6, <1>7 DEF TaskSetState
  <2> QED BY <1>14, <2>1, <2>2, <2>3, <2>4, <2>5, <2>6, <2>7, <2>8, <2>9, <2>10, <2>11, <2>12,
             <2>13 DEF TaskStep
<1>15. CASE Wake
  <2>1. P
    BY Zenon, <1>15, <1>7 DEF Wake, TaskUnblock, IsrNotify
  <2> QED BY <1>15, <2>1, <1>3, <1>6, <1>11, <1>12 DEF Wake, TaskUnblock, IsrNotify
<1>16. CASE SysTick
  <2>1. PICK k \in 0..Len(sleep_list) :
           state' = [r \in Slot |-> IF r \in {sleep_list[i] : i \in 1..k}
                                    THEN "READY" ELSE state[r]]
    BY <1>16, Zenon DEF SysTick
  <2>2. state'[s] \in {"READY", state[s]}
    BY <2>1, Zenon
  <2>3. A
    BY Zenon, <1>1, <2>2 DEF A
  <2> QED BY Zenon, <1>16, <2>3, <1>3, <1>6, <1>7 DEF SysTick
<1>17. CASE ScheduleNextTask
  <2> DEFINE st == IF state[curr] = "RUNNING" THEN [state EXCEPT ![curr] = "READY"] ELSE state
  <2>1. st[s] \in {"READY", state[s]} /\ st \in [Slot -> State]
    BY <1>2, Zenon DEF State
  <2>2. (\E b : state' = [st EXCEPT ![b] = "RUNNING"]) \/ state' = st
    BY <1>17, Zenon DEF ScheduleNextTask
  <2>3. st[s] = "READY" => state[s] \in {"READY", "RUNNING"}
    BY Zenon, <1>2
  <2>4. A
    <3> HIDE DEF st
    <3>1. state'[s] \in {"RUNNING", st[s]}
      BY Zenon, <2>1, <2>2
    <3> QED BY Zenon, <1>1, <2>1, <3>1 DEF A
  <2> QED BY <1>17, <2>4, <1>3, <1>6, <1>7 DEF ScheduleNextTask
<1>18. CASE UNCHANGED vars
  BY <1>18, <1>3, <1>5, <1>6, <1>7 DEF vars
<1> QED BY <1>13, <1>14, <1>15, <1>16, <1>17, <1>18 DEF Next

(* A notification is never slept over: no task stays blocked or asleep in  *)
(* task_notify_wait with notify_state set, unless another task took it off *)
(* the ready list again after it had been woken.                           *)
THEOREM NotificationNeverLost == ASSUME Disciplined PROVE Spec => NotificationWakes
<1>1. ASSUME IInv, [Next]_vars
      PROVE  [\A s \in Slot : MissedNotification(s)' =>
                 MissedNotification(s) \/ state[s] = "READY"]_vars
  BY Zenon, <1>1, MissedStep
<1> QED BY <1>1, Invariance, PTL DEF Spec, NotificationWakes
==============================================================================
