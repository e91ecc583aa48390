------------------------- MODULE SchedulerInvariant --------------------------
(***************************************************************************)
(* The inductive invariant of Scheduler, for every pool size, tick range   *)
(* and set of calls, and the lemmas about it.  The hypothesis Disciplined  *)
(* rules out the circumstances in which the code itself breaks the         *)
(* invariants: an interrupt that wakes a task inside task_notify_wait      *)
(* between the unlock and the state test, task_block on a task that is not *)
(* READY or BLOCKED, and a tick counter that wraps.                        *)
(***************************************************************************)
EXTENDS Scheduler, ListLemmas

Disciplined ==
    /\ ~WindowOpen
    /\ "block_any" \notin Calls
    /\ MaxUptime + MaxSleep < TICK_MOD
    /\ 2 * MaxSleep <= TICK_MOD

-----------------------------------------------------------------------------
(* The inductive invariant: the properties to prove and what keeps them.   *)

Sorted(lst) ==
    \A i, j \in 1..Len(lst) :
        i < j => sleep_until_tick[lst[i]] <= sleep_until_tick[lst[j]]

(* The deadlines on the sleep list are ahead and in order. *)
SleepOrder ==
    /\ ticks <= MaxUptime
    /\ \A s \in InState("SLEEPING") :
          /\ ticks < sleep_until_tick[s]
          /\ sleep_until_tick[s] <= ticks + MaxSleep
    /\ Sorted(sleep_list)

(* What the executing task's state is, and that idle never blocks. *)
ThreadState ==
    /\ InState("RUNNING") \subseteq {curr}
    /\ curr = NULL => ~pendsv
    /\ curr # NULL => idle_task # NULL /\ ~panic /\ state[curr] # "UNUSED"
    /\ idle_task # NULL => state[idle_task] \in {"READY", "RUNNING"}
    /\ curr # NULL /\ ~pendsv =>
          /\ pc[curr].at \in {"run", "notify", "nw_woke"} => state[curr] = "RUNNING"
          /\ pc[curr].at = "nw_check" => state[curr] \in {"RUNNING", "BLOCKED", "SLEEPING"}

IInv ==
    /\ TypeOK
    /\ QueuesMatchStates
    /\ PoolPartition
    /\ IdsExact
    /\ CountExact
    /\ SleepOrder
    /\ ThreadState

-----------------------------------------------------------------------------
(* Taking a task off a list leaves the others in their order. *)
LEMMA WithoutFacts ==
    ASSUME NEW s \in Seq(Slot), IsInjective(s), NEW e
    PROVE  LET w == Without(s, e)
           IN  /\ w \in Seq(Slot)
               /\ Range(w) = Range(s) \ {e}
               /\ IsInjective(w)
               /\ \A i, j \in 1..Len(w) : i < j =>
                     \E m, n \in 1..Len(s) : m < n /\ w[i] = s[m] /\ w[j] = s[n]
<1> DEFINE w == Without(s, e)
<1>1. CASE e \notin Range(s)
  <2>1. w = s
    BY <1>1 DEF Without
  <2> QED BY <2>1, <1>1
<1>2. CASE e \in Range(s)
  <2> DEFINE p == CHOOSE i \in DOMAIN s : s[i] = e
  <2>1. p \in 1..Len(s) /\ s[p] = e
    BY <1>2 DEF Range
  <2>2. w = Unlinked(s, p)
    BY <1>2 DEF Without
  <2> HIDE DEF p, w
  <2>3. /\ w \in Seq(Slot) /\ Len(w) = Len(s) - 1
        /\ \A k \in 1..Len(w) : w[k] = IF k < p THEN s[k] ELSE s[k + 1]
        /\ Range(w) = Range(s) \ {s[p]} /\ IsInjective(w)
    BY <2>1, <2>2, RemoveFacts, Zenon
  <2>4. ASSUME NEW i \in 1..Len(w), NEW j \in 1..Len(w), i < j
        PROVE  \E m, n \in 1..Len(s) : m < n /\ w[i] = s[m] /\ w[j] = s[n]
    <3> DEFINE m == IF i < p THEN i ELSE i + 1
               n == IF j < p THEN j ELSE j + 1
    <3>1. m \in 1..Len(s) /\ n \in 1..Len(s) /\ m < n /\ w[i] = s[m] /\ w[j] = s[n]
      BY <2>1, <2>3, <2>4
    <3> QED BY <3>1
  <2> QED BY <2>1, <2>3, <2>4 DEF w
<1> QED BY <1>1, <1>2

(* A list that stays sorted when a task leaves it. *)
LEMMA WithoutSorted ==
    ASSUME TypeOK, IsInjective(sleep_list), Sorted(sleep_list), NEW e
    PROVE  Sorted(Without(sleep_list, e))
<1> DEFINE w == Without(sleep_list, e)
<1>1. \A i, j \in 1..Len(w) : i < j =>
         \E m, n \in 1..Len(sleep_list) :
             m < n /\ w[i] = sleep_list[m] /\ w[j] = sleep_list[n]
  BY WithoutFacts DEF TypeOK
<1> HIDE DEF w
<1>2. Sorted(w)
  BY <1>1, Zenon DEF Sorted
<1> QED BY <1>2 DEF w

(* The number of tasks on a list without duplicates is its length. *)
LEMMA ListCardinality ==
    ASSUME NEW s \in Seq(Slot), IsInjective(s)
    PROVE  Cardinality(Range(s)) = Len(s) /\ IsFiniteSet(Range(s))
<1>1. s \in [1..Len(s) -> Range(s)] /\ \A x \in Range(s) : \E i \in 1..Len(s) : s[i] = x
  BY DEF Range
<1>2. s \in Bijection(1..Len(s), Range(s))
  BY <1>1 DEF Bijection, Injection, Surjection, IsInjective
<1>3. ExistsBijection(1..Len(s), Range(s))
  BY <1>2 DEF ExistsBijection
<1>4. IsFiniteSet(1..Len(s)) /\ Cardinality(1..Len(s)) = Len(s)
  <2> DEFINE n == Len(s)
  <2>1. n \in Nat
    OBVIOUS
  <2> HIDE DEF n
  <2>2. n \in Int /\ 1 \in Int
    BY <2>1
  <2>3. IsFiniteSet(1..n) /\ Cardinality(1..n) = IF 1 > n THEN 0 ELSE n - 1 + 1
    BY <2>2, FS_Interval, Zenon
  <2>4. (IF 1 > n THEN 0 ELSE n - 1 + 1) = n
    BY <2>1
  <2> QED BY <2>3, <2>4 DEF n
<1> QED BY <1>3, <1>4, FS_Bijection

-----------------------------------------------------------------------------
(* A set of slots is finite. *)
LEMMA SlotsFinite ==
    /\ IsFiniteSet(Slot) /\ Cardinality(Slot) = MAX_TASKS
    /\ \A T \in SUBSET Slot : IsFiniteSet(T)
<1>1. IsFiniteSet(Slot) /\ Cardinality(Slot) = MAX_TASKS
  BY FS_Interval, SchedulerAssumption DEF Slot
<1> QED BY <1>1, FS_Subset

(* As long as one slot has no ID, one ID is unused: the IDs in use are     *)
(* those of the other slots, and there are as many IDs as slots.           *)
LEMMA FreeId ==
    ASSUME TypeOK, IdsExact, NEW z \in Slot, task_id[z] = 0
    PROVE  ~(Id \subseteq id_bitmap)
<1> SUFFICES ASSUME Id \subseteq id_bitmap PROVE FALSE
  OBVIOUS
<1> DEFINE L == {s \in Slot : task_id[s] # 0}
           f == [s \in L |-> task_id[s]]
<1>1. f \in Surjection(L, Id)
  <2>1. f \in [L -> Id]
    BY DEF TypeOK
  <2>2. \A id \in Id : \E s \in L : f[s] = id
    BY DEF IdsExact, Id
  <2> QED BY <2>1, <2>2 DEF Surjection
<1>2. IsFiniteSet(L) /\ L \subseteq Slot \ {z}
  BY SlotsFinite
<1>3. Cardinality(Id) <= Cardinality(L)
  <2> HIDE DEF f, L
  <2> QED BY <1>1, <1>2, FS_Surjection
<1>4. IsFiniteSet(Slot \ {z}) /\ Cardinality(Slot \ {z}) = MAX_TASKS - 1
  BY SlotsFinite, FS_RemoveElement
<1>5. Cardinality(L) <= MAX_TASKS - 1
  BY <1>2, <1>4, FS_Subset
<1>6. Cardinality(Id) = MAX_TASKS
  BY FS_Interval, SchedulerAssumption DEF Id
<1>7. Cardinality(L) \in Nat
  BY <1>2, FS_CardinalityType
<1> QED BY <1>3, <1>5, <1>6, <1>7, SchedulerAssumption

(* The free list, the zombie list, the states and the count after an       *)
(* optional garbage collection fit together again.                         *)
LEMMA Collected ==
    ASSUME TypeOK, PoolPartition, CountExact, NEW gc \in BOOLEAN
    PROVE  LET st == Reclaimed(gc)
           IN  /\ st \in [Slot -> State]
               /\ \A s \in Slot : IF gc /\ state[s] = "ZOMBIE" THEN st[s] = "UNUSED"
                                                               ELSE st[s] = state[s]
               /\ FreeList(gc) \in Seq(Slot) /\ IsInjective(FreeList(gc))
               /\ Range(FreeList(gc)) = {s \in Slot : st[s] = "UNUSED"}
               /\ Zombies(gc) \in Seq(Slot) /\ IsInjective(Zombies(gc))
               /\ Range(Zombies(gc)) = {s \in Slot : st[s] = "ZOMBIE"}
               /\ Remaining(gc) \in Nat
               /\ Remaining(gc) = Cardinality(Slot \ {s \in Slot : st[s] = "UNUSED"})
<1> DEFINE st == Reclaimed(gc)
<1>1. /\ st \in [Slot -> State]
      /\ \A s \in Slot : IF gc /\ state[s] = "ZOMBIE" THEN st[s] = "UNUSED"
                                                      ELSE st[s] = state[s]
  BY DEF Reclaimed, TypeOK, PoolPartition, InState, State
<1> HIDE DEF st
<1>2. CASE ~gc
  <2>1. /\ FreeList(gc) = free_list /\ Zombies(gc) = zombie_list
        /\ Remaining(gc) = count
    BY <1>2 DEF FreeList, Zombies, Remaining, TypeOK
  <2>2. \A s \in Slot : st[s] = state[s]
    BY <1>1, <1>2
  <2> QED BY <1>1, <2>1, <2>2, Zenon DEF TypeOK, PoolPartition, CountExact, InState, st
<1>3. CASE gc
  <2>1. /\ FreeList(gc) \in Seq(Slot) /\ IsInjective(FreeList(gc))
        /\ Range(FreeList(gc)) = {s \in Slot : st[s] = "UNUSED"}
    <3>1. FreeList(gc) = Drained(zombie_list) \o free_list
      BY <1>3 DEF FreeList
    <3>2. Range(zombie_list) \cap Range(free_list) = {}
      BY DEF PoolPartition, InState
    <3>3. /\ FreeList(gc) \in Seq(Slot) /\ IsInjective(FreeList(gc))
          /\ Range(FreeList(gc)) = Range(zombie_list) \cup Range(free_list)
      BY <3>1, <3>2, DrainFacts DEF TypeOK, PoolPartition
    <3> QED BY <3>3, <1>1, <1>3, Zenon DEF PoolPartition, InState
  <2>2. /\ Zombies(gc) \in Seq(Slot) /\ IsInjective(Zombies(gc))
        /\ Range(Zombies(gc)) = {s \in Slot : st[s] = "ZOMBIE"}
    <3>1. Zombies(gc) = <<>>
      BY <1>3 DEF Zombies
    <3>2. {s \in Slot : st[s] = "ZOMBIE"} = {}
      BY <1>1, <1>3
    <3>3. <<>> \in Seq(Slot) /\ IsInjective(<<>>) /\ Range(<<>>) = {}
      BY DEF IsInjective, Range
    <3> QED BY <3>1, <3>2, <3>3
  <2>3. Remaining(gc) \in Nat
        /\ Remaining(gc) = Cardinality(Slot \ {s \in Slot : st[s] = "UNUSED"})
    <3> DEFINE U == Slot \ InState("UNUSED")
               Z == Range(zombie_list)
               V == Slot \ {s \in Slot : st[s] = "UNUSED"}
    <3>1. V \cup Z = U /\ V \cap Z = {} /\ V \subseteq Slot /\ Z \subseteq Slot
      BY <1>1, <1>3 DEF PoolPartition, InState
    <3>2. IsFiniteSet(V) /\ IsFiniteSet(Z)
      BY <3>1, SlotsFinite
    <3>3. Cardinality(Z) = Len(zombie_list)
      BY ListCardinality DEF TypeOK, PoolPartition
    <3>4. count = Cardinality(U)
      BY DEF CountExact
    <3> HIDE DEF U, V, Z
    <3>5. Cardinality(U) = Cardinality(V) + Cardinality(Z) - 0
      BY <3>1, <3>2, FS_Union, FS_EmptySet
    <3>6. Cardinality(V) \in Nat /\ Cardinality(Z) \in Nat
      BY <3>2, FS_CardinalityType
    <3>7. Remaining(gc) = Cardinality(V)
      BY <3>3, <3>4, <3>5, <3>6, <1>3 DEF Remaining
    <3> QED BY <3>6, <3>7 DEF V
  <2> QED BY <1>1, <2>1, <2>2, <2>3 DEF st
<1> QED BY <1>2, <1>3

-----------------------------------------------------------------------------
(* scheduler_init() establishes the invariant. *)
LEMMA InitInv == ASSUME Init PROVE IInv
<1>1. TypeOK
  <2>1. [i \in Slot |-> i] \in Seq(Slot)
    BY SchedulerAssumption DEF Slot
  <2>2. 0 \in Tick
    BY SchedulerAssumption DEF Tick
  <2>3. Run \in Plain
    BY DEF Run, Plain
  <2>4. pc \in [Slot -> Plain \cup Waiting \cup Notifying]
    BY <2>3 DEF Init
  <2>5. <<>> \in Seq(Slot)
    OBVIOUS
  <2> QED BY <2>1, <2>2, <2>4, <2>5, Zenon DEF Init, TypeOK, State, NULL
<1>2. \A st : InState(st) = IF st = "UNUSED" THEN Slot ELSE {}
  BY DEF Init, InState
<1>3. <<>> \in Seq(Slot) /\ IsInjective(<<>>) /\ Range(<<>>) = {} /\ Len(<<>>) = 0
  BY DEF IsInjective, Range
<1>4. QueuesMatchStates
  BY <1>2, <1>3, Zenon DEF Init, QueuesMatchStates
<1>5. PoolPartition
  BY <1>2, <1>3 DEF Init, PoolPartition, Range, IsInjective
<1>6. IdsExact
  BY DEF Init, IdsExact
<1>7. CountExact
  BY <1>2, FS_EmptySet DEF Init, CountExact
<1>8. SleepOrder
  BY <1>2, <1>3, SchedulerAssumption DEF Init, SleepOrder, Sorted
<1>9. ThreadState
  BY <1>2 DEF Init, ThreadState, NULL
<1> QED BY <1>1, <1>4, <1>5, <1>6, <1>7, <1>8, <1>9 DEF IInv

(* A garbage collection keeps the invariant when the executing task is not *)
(* itself a zombie.                                                        *)
LEMMA CollectInv ==
    ASSUME IInv, CollectGarbage, panic' \in BOOLEAN,
           UNCHANGED <<sleep_until_tick, notify_state, queues, ticks, pendsv, pc>>,
           curr # NULL => state[curr] # "ZOMBIE" /\ panic' = panic
    PROVE  IInv'
<1> USE DEF IInv
<1>1. /\ state' \in [Slot -> State]
      /\ \A s \in Slot : state'[s] = IF state[s] = "ZOMBIE" THEN "UNUSED" ELSE state[s]
  BY Collected, Zenon DEF CollectGarbage
<1>2. /\ free_list' \in Seq(Slot) /\ IsInjective(free_list')
      /\ Range(free_list') = {s \in Slot : state'[s] = "UNUSED"}
      /\ zombie_list' \in Seq(Slot) /\ IsInjective(zombie_list')
      /\ Range(zombie_list') = {s \in Slot : state'[s] = "ZOMBIE"}
      /\ count' \in Nat
      /\ count' = Cardinality(Slot \ {s \in Slot : state'[s] = "UNUSED"})
  BY Collected, Zenon DEF CollectGarbage
<1>3. \A st \in {"READY", "RUNNING", "BLOCKED", "SLEEPING"} : InState(st)' = InState(st)
  BY <1>1 DEF InState
<1>4. TypeOK'
  BY <1>1, <1>2, Zenon DEF TypeOK, CollectGarbage, queues
<1>5. QueuesMatchStates'
  BY <1>3 DEF QueuesMatchStates, queues
<1>6. PoolPartition'
  BY <1>2 DEF PoolPartition, InState
<1>7. IdsExact'
  BY <1>1, Zenon DEF IdsExact, CollectGarbage
<1>8. CountExact'
  BY <1>2 DEF CountExact, InState
<1>9. SleepOrder'
  BY <1>3 DEF SleepOrder, Sorted, queues
<1>10. ThreadState'
  <2>1. curr # NULL => curr \in Slot /\ state'[curr] = state[curr]
    BY <1>1 DEF TypeOK
  <2>2. idle_task # NULL => idle_task \in Slot /\ state'[idle_task] = state[idle_task]
    BY <1>1 DEF TypeOK, ThreadState
  <2> QED BY <1>3, <2>1, <2>2 DEF ThreadState, queues
<1> QED BY <1>4, <1>5, <1>6, <1>7, <1>8, <1>9, <1>10

(* A new task keeps the invariant. *)
LEMMA InstallInv ==
    ASSUME IInv, NEW gc \in BOOLEAN, NEW Ready \in BOOLEAN, Install(gc, Ready),
           UNCHANGED <<sleep_list, curr, cpu>>,
           curr # NULL => state[curr] # "ZOMBIE",
           IF Ready THEN idle_task' = idle_task
           ELSE idle_task = NULL /\ idle_task' = Head(FreeList(gc))
    PROVE  IInv'
<1> USE DEF IInv
<1> DEFINE fl == FreeList(gc)
           st == Reclaimed(gc)
           n == Head(fl)
<1>0. /\ st \in [Slot -> State]
      /\ \A s \in Slot : IF gc /\ state[s] = "ZOMBIE" THEN st[s] = "UNUSED"
                                                      ELSE st[s] = state[s]
  BY Collected, Zenon
<1>1. /\ fl \in Seq(Slot) /\ IsInjective(fl)
      /\ Range(fl) = {s \in Slot : st[s] = "UNUSED"}
      /\ Zombies(gc) \in Seq(Slot) /\ IsInjective(Zombies(gc))
      /\ Range(Zombies(gc)) = {s \in Slot : st[s] = "ZOMBIE"}
      /\ Remaining(gc) \in Nat
      /\ Remaining(gc) = Cardinality(Slot \ {s \in Slot : st[s] = "UNUSED"})
  BY Collected, Zenon
<1>2. PICK id \in Id \ id_bitmap :
         id_bitmap' = id_bitmap \cup {id} /\ task_id' = [task_id EXCEPT ![n] = id]
  BY Zenon DEF Install
<1>3. /\ fl # <<>> /\ free_list' = Tail(fl) /\ zombie_list' = Zombies(gc)
      /\ state' = [st EXCEPT ![n] = "READY"] /\ count' = Remaining(gc) + 1
      /\ sleep_until_tick' = [sleep_until_tick EXCEPT ![n] = 0]
      /\ notify_state' = [notify_state EXCEPT ![n] = 0]
      /\ pc' = [pc EXCEPT ![n] = Run]
      /\ ready' = IF Ready THEN ready \cup {n} ELSE ready \ {n}
  BY DEF Install
<1> HIDE DEF fl, st
<1>4. /\ n \in Slot /\ n \in Range(fl) /\ Tail(fl) \in Seq(Slot)
      /\ Range(Tail(fl)) = Range(fl) \ {n} /\ IsInjective(Tail(fl))
  BY <1>1, <1>3, PopFacts
<1> HIDE DEF n
<1>5. /\ st[n] = "UNUSED" /\ state[n] \in {"UNUSED", "ZOMBIE"} /\ task_id[n] = 0
      /\ n \notin ready /\ n \notin Range(sleep_list) /\ n # curr /\ n # idle_task
  <2>1. st[n] = "UNUSED" /\ state[n] \in {"UNUSED", "ZOMBIE"}
    BY <1>0, <1>1, <1>4
  <2>2. task_id[n] = 0
    BY <2>1, <1>4 DEF IdsExact
  <2>3. n \notin ready /\ n \notin Range(sleep_list)
    BY <2>1, <1>4 DEF QueuesMatchStates, InState
  <2>4. n # NULL
    BY <1>4, SchedulerAssumption DEF NULL, Slot
  <2> QED BY <2>1, <2>2, <2>3, <2>4 DEF ThreadState
<1>6. state' \in [Slot -> State] /\ state'[n] = "READY"
      /\ \A s \in Slot \ {n} : state'[s] = st[s]
  BY <1>0, <1>3, <1>4 DEF State
<1>7. TypeOK'
  <2>1. 0 \in Tick
    BY SchedulerAssumption DEF Tick
  <2>2. idle_task' \in Slot \cup {NULL}
    BY <1>4 DEF TypeOK, n, fl
  <2> QED BY <2>1, <2>2, <1>1, <1>2, <1>3, <1>4, <1>6 DEF TypeOK, cpu, Run, Plain, Id
<1>8. QueuesMatchStates'
  <2>1. InState("SLEEPING")' = InState("SLEEPING")
    BY <1>0, <1>5, <1>6, <1>4 DEF InState
  <2>2. InState("READY")' = InState("READY") \cup {n}
    BY <1>0, <1>5, <1>6, <1>4 DEF InState
  <2>3. ~Ready => idle_task' = n
    BY DEF n, fl
  <2>4. NULL \notin Slot
    BY SchedulerAssumption DEF NULL, Slot
  <2>5. ready' = InState("READY")' \ {idle_task'}
    BY <2>2, <2>3, <2>4, <1>3, <1>4, <1>5 DEF QueuesMatchStates, InState, TypeOK
  <2> QED BY <2>1, <2>5 DEF QueuesMatchStates
<1>9. PoolPartition'
  BY <1>1, <1>3, <1>4, <1>5, <1>6 DEF PoolPartition, InState
<1>10. IdsExact'
  <2>1. task_id' \in [Slot -> Id \cup {0}] /\ task_id'[n] = id
        /\ \A s \in Slot \ {n} : task_id'[s] = task_id[s]
    BY <1>2, <1>4 DEF TypeOK
  <2>2. id # 0 /\ \A s \in Slot : task_id[s] # id
    BY SchedulerAssumption, <1>2 DEF IdsExact, Id
  <2>3. id_bitmap' = {task_id'[s] : s \in Slot} \ {0}
    BY <2>1, <2>2, <1>2, <1>4, <1>5 DEF IdsExact
  <2>4. \A s \in Slot : task_id'[s] = 0 <=> state'[s] \in {"UNUSED", "ZOMBIE"}
    BY <2>1, <2>2, <1>0, <1>6, <1>4 DEF IdsExact
  <2> QED BY <2>1, <2>2, <2>3, <2>4, <1>4 DEF IdsExact
<1>11. CountExact'
  <2> DEFINE A == Slot \ {s \in Slot : st[s] = "UNUSED"}
  <2>1. Slot \ InState("UNUSED")' = A \cup {n} /\ n \notin A /\ A \subseteq Slot
    BY <1>4, <1>5, <1>6 DEF InState
  <2>2. Cardinality(A \cup {n}) = Cardinality(A) + 1
    <3> HIDE DEF A
    <3> QED BY <2>1, SlotsFinite, FS_AddElement, Zenon
  <2> QED BY <2>1, <2>2, <1>1, <1>3, Zenon DEF CountExact
<1>12. SleepOrder'
  <2>1. InState("SLEEPING")' = InState("SLEEPING")
    BY <1>0, <1>5, <1>6, <1>4 DEF InState
  <2>2. \A s \in Range(sleep_list) : sleep_until_tick'[s] = sleep_until_tick[s]
    BY <1>3, <1>5 DEF TypeOK, QueuesMatchStates, InState
  <2>3. \A i \in 1..Len(sleep_list) : sleep_list[i] \in Range(sleep_list)
    BY DEF TypeOK, Range
  <2>4. Sorted(sleep_list)'
    BY <2>2, <2>3 DEF Sorted, SleepOrder
  <2> QED BY <2>1, <2>2, <2>4 DEF SleepOrder, QueuesMatchStates, cpu
<1>13. ThreadState'
  <2>1. InState("RUNNING")' = InState("RUNNING")
    BY <1>0, <1>5, <1>6, <1>4 DEF InState
  <2>2. curr # NULL => curr \in Slot /\ state'[curr] = state[curr] /\ pc'[curr] = pc[curr]
    BY <1>0, <1>3, <1>5, <1>6 DEF TypeOK
  <2>3. ~Ready => idle_task' = n /\ curr = NULL
    BY DEF n, fl, ThreadState
  <2>4. idle_task # NULL => idle_task \in Slot /\ state'[idle_task] = state[idle_task]
    BY <1>0, <1>5, <1>6 DEF TypeOK, ThreadState
  <2> QED BY <2>1, <2>2, <2>3, <2>4, <1>6 DEF ThreadState, cpu
<1> QED BY <1>7, <1>8, <1>9, <1>10, <1>11, <1>12, <1>13

-----------------------------------------------------------------------------
(* Facts used by several steps *)

LEMMA NullNoSlot == NULL \notin Slot
BY SchedulerAssumption DEF NULL, Slot

(* A step that leaves the pool alone and kills or reclaims no task keeps   *)
(* the invariants of the pool, the IDs and the count.                      *)
LEMMA PoolKept ==
    ASSUME IInv, UNCHANGED pool, state' \in [Slot -> State],
           \A s \in Slot : /\ state'[s] = "UNUSED" <=> state[s] = "UNUSED"
                           /\ state'[s] = "ZOMBIE" <=> state[s] = "ZOMBIE"
    PROVE  PoolPartition' /\ IdsExact' /\ CountExact'
<1>1. InState("UNUSED")' = InState("UNUSED") /\ InState("ZOMBIE")' = InState("ZOMBIE")
  BY DEF InState
<1>2. PoolPartition'
  BY <1>1 DEF IInv, PoolPartition, pool
<1>3. IdsExact'
  BY DEF IInv, IdsExact, pool
<1>4. CountExact'
  BY <1>1 DEF IInv, CountExact, pool
<1> QED BY <1>2, <1>3, <1>4

(* A step that neither puts a task to sleep nor wakes one, nor changes a   *)
(* deadline of a sleeping task, keeps the sleep list in order.             *)
LEMMA SleepKept ==
    ASSUME IInv, UNCHANGED <<sleep_list, ticks>>,
           InState("SLEEPING")' = InState("SLEEPING"),
           \A s \in InState("SLEEPING") : sleep_until_tick'[s] = sleep_until_tick[s]
    PROVE  SleepOrder' /\ Range(sleep_list)' = InState("SLEEPING")' /\ IsInjective(sleep_list)'
<1>1. \A i \in 1..Len(sleep_list) : sleep_list[i] \in InState("SLEEPING")
  BY DEF IInv, TypeOK, QueuesMatchStates, Range
<1>2. Sorted(sleep_list)'
  BY <1>1 DEF IInv, SleepOrder, Sorted
<1>3. SleepOrder'
  BY <1>2 DEF IInv, SleepOrder
<1> QED BY <1>3 DEF IInv, QueuesMatchStates

(* A task that leaves the sleep list leaves the rest in order. *)
LEMMA SleepLeft ==
    ASSUME IInv, NEW t \in Slot, sleep_list' = Without(sleep_list, t), ticks' = ticks,
           InState("SLEEPING")' = InState("SLEEPING") \ {t},
           \A s \in Slot \ {t} : sleep_until_tick'[s] = sleep_until_tick[s]
    PROVE  /\ SleepOrder' /\ sleep_list' \in Seq(Slot)
           /\ Range(sleep_list)' = InState("SLEEPING")' /\ IsInjective(sleep_list)'
<1> USE DEF IInv
<1>1. /\ sleep_list' \in Seq(Slot) /\ Range(sleep_list') = Range(sleep_list) \ {t}
      /\ IsInjective(sleep_list')
  BY WithoutFacts DEF TypeOK, QueuesMatchStates
<1>2. Sorted(Without(sleep_list, t))
  BY WithoutSorted DEF QueuesMatchStates, SleepOrder
<1>3. \A i \in 1..Len(sleep_list') : sleep_list'[i] \in Slot \ {t}
  BY <1>1 DEF Range
<1>4. Sorted(sleep_list)'
  BY <1>2, <1>3 DEF Sorted
<1>5. SleepOrder'
  BY <1>4 DEF SleepOrder, InState
<1> QED BY <1>1, <1>5 DEF QueuesMatchStates

(* A task that goes to sleep for n ticks is inserted where it belongs. *)
LEMMA SleepEntered ==
    ASSUME IInv, Disciplined, NEW t \in Slot, NEW n \in 1..MaxSleep, t \notin Range(sleep_list),
           InsertIntoSleepList(sleep_list, t, TickPlus(ticks, n)),
           ticks' = ticks, InState("SLEEPING")' = InState("SLEEPING") \cup {t}
    PROVE  /\ SleepOrder' /\ sleep_list' \in Seq(Slot)
           /\ sleep_until_tick' \in [Slot -> Tick]
           /\ Range(sleep_list)' = InState("SLEEPING")' /\ IsInjective(sleep_list)'
<1> USE DEF IInv
<1> DEFINE u == ticks + n
<1>1. ticks \in Nat /\ n \in Nat /\ ticks <= MaxUptime /\ n <= MaxSleep /\ n >= 1
  BY SchedulerAssumption DEF TypeOK, SleepOrder, Tick
<1>2. TickPlus(ticks, n) = u /\ u \in Tick
  BY <1>1, SchedulerAssumption DEF TickPlus, Disciplined, Tick
<1>3. PICK k \in 0..Len(sleep_list) :
         InsertPoint(sleep_list, u, k) /\ sleep_list' = LinkedIn(sleep_list, k + 1, t)
  BY <1>2 DEF InsertIntoSleepList
<1>4. sleep_until_tick' = [sleep_until_tick EXCEPT ![t] = u]
  BY <1>2 DEF InsertIntoSleepList
<1> HIDE DEF u
<1>5. /\ sleep_list' \in Seq(Slot) /\ Len(sleep_list') = Len(sleep_list) + 1
      /\ \A j \in 1..Len(sleep_list') :
            sleep_list'[j] = IF j <= k THEN sleep_list[j]
                             ELSE IF j = k + 1 THEN t ELSE sleep_list[j - 1]
      /\ Range(sleep_list') = Range(sleep_list) \cup {t} /\ IsInjective(sleep_list')
  <2>1. sleep_list \in Seq(Slot) /\ IsInjective(sleep_list)
    BY DEF TypeOK, QueuesMatchStates
  <2>2. k \in 0..Len(sleep_list) /\ sleep_list' = LinkedIn(sleep_list, k + 1, t)
    BY <1>3
  <2> QED BY <2>1, <2>2, InsertFacts
<1>6. sleep_until_tick' \in [Slot -> Tick] /\ sleep_until_tick'[t] = u
      /\ \A s \in Slot \ {t} : sleep_until_tick'[s] = sleep_until_tick[s]
  BY <1>2, <1>4 DEF TypeOK
<1>7. \A i \in 1..Len(sleep_list) : sleep_list[i] \in Slot \ {t}
  BY DEF TypeOK, Range
<1>8. /\ \A i \in 1..k : sleep_until_tick[sleep_list[i]] <= u
      /\ \A i \in (k + 1)..Len(sleep_list) : u <= sleep_until_tick[sleep_list[i]]
  <2> DEFINE d == [i \in 1..Len(sleep_list) |-> sleep_until_tick[sleep_list[i]]]
  <2>1. Len(sleep_list) \in Nat /\ u \in Nat
        /\ \A i \in 1..Len(sleep_list) : d[i] \in Nat /\ d[i] = sleep_until_tick[sleep_list[i]]
    BY <1>2, <1>7 DEF TypeOK, Tick
  <2>2. \A i, j \in 1..Len(sleep_list) : i < j => d[i] <= d[j]
    BY DEF SleepOrder, Sorted
  <2>3. CASE sleep_list = <<>> \/ u < sleep_until_tick[sleep_list[1]]
    <3>1. k = 0
      BY <2>3, <1>3 DEF InsertPoint
    <3>2. \A i \in 1..Len(sleep_list) : u <= d[i]
      <4> SUFFICES ASSUME NEW i \in 1..Len(sleep_list) PROVE u <= d[i]
        OBVIOUS
      <4>1. u < d[1] /\ 1 \in 1..Len(sleep_list)
        BY <2>1, <2>3 DEF TypeOK
      <4> HIDE DEF d
      <4>2. i = 1 \/ d[1] <= d[i]
        <5>1. i = 1 \/ 1 < i
          BY <2>1
        <5> QED BY <5>1, <4>1, <2>2, Zenon
      <4> QED BY <4>1, <4>2, <2>1
    <3> QED BY <3>1, <3>2, <2>1
  <2>4. CASE ~(sleep_list = <<>> \/ u < sleep_until_tick[sleep_list[1]])
    <3>1. /\ k \in 1..Len(sleep_list)
          /\ \A i \in 2..k : sleep_until_tick[sleep_list[i]] < u
          /\ k < Len(sleep_list) => sleep_until_tick[sleep_list[k + 1]] >= u
      BY <2>4, <1>3 DEF InsertPoint
    <3>2. d[1] <= u /\ (\A i \in 2..k : d[i] < u) /\ (k < Len(sleep_list) => d[k + 1] >= u)
      BY <3>1, <2>1, <2>4
    <3> HIDE DEF d
    <3>3. \A i \in 1..k : d[i] <= u
      BY <3>1, <3>2, <2>1
    <3>4. \A i \in (k + 1)..Len(sleep_list) : u <= d[i]
      <4> SUFFICES ASSUME NEW i \in (k + 1)..Len(sleep_list) PROVE u <= d[i]
        OBVIOUS
      <4>1. i = k + 1 \/ d[k + 1] <= d[i]
        BY <3>1, <2>1, <2>2
      <4> QED BY <4>1, <3>1, <3>2, <2>1
    <3> QED BY <3>1, <3>3, <3>4, <2>1
  <2> QED BY <2>3, <2>4
<1>9. Sorted(sleep_list)'
  <2> DEFINE q == sleep_list'
             v == sleep_until_tick'
  <2> SUFFICES ASSUME NEW i \in 1..Len(q), NEW j \in 1..Len(q), i < j
               PROVE  v[q[i]] <= v[q[j]]
    BY DEF Sorted
  <2>1. Len(sleep_list) \in Nat
    BY DEF TypeOK
  <2>2. CASE i = k + 1
    <3>1. q[i] = t /\ j - 1 \in (k + 1)..Len(sleep_list) /\ q[j] = sleep_list[j - 1]
      BY <2>1, <2>2, <1>5
    <3> QED BY <3>1, <1>6, <1>7, <1>8
  <2>3. CASE j = k + 1
    <3>1. q[j] = t /\ i \in 1..k /\ i \in 1..Len(sleep_list) /\ q[i] = sleep_list[i]
      BY <2>1, <2>3, <1>5
    <3> QED BY <3>1, <1>6, <1>7, <1>8
  <2>4. CASE i # k + 1 /\ j # k + 1
    <3> DEFINE a == IF i <= k THEN i ELSE i - 1
               b == IF j <= k THEN j ELSE j - 1
    <3>1. /\ a \in 1..Len(sleep_list) /\ b \in 1..Len(sleep_list) /\ a < b
          /\ q[i] = sleep_list[a] /\ q[j] = sleep_list[b]
      BY <2>1, <2>4, <1>5
    <3> HIDE DEF a, b
    <3>2. sleep_until_tick[sleep_list[a]] <= sleep_until_tick[sleep_list[b]]
      BY <3>1 DEF SleepOrder, Sorted
    <3> QED BY <3>1, <3>2, <1>6, <1>7
  <2> QED BY <2>2, <2>3, <2>4
<1>10. SleepOrder'
  <2>1. ASSUME NEW s \in InState("SLEEPING")'
        PROVE  ticks' < sleep_until_tick'[s] /\ sleep_until_tick'[s] <= ticks' + MaxSleep
    <3>1. CASE s = t
      BY <3>1, <1>1, <1>6, SchedulerAssumption DEF u
    <3>2. CASE s # t
      BY <3>2, <1>6 DEF SleepOrder, InState
    <3> QED BY <3>1, <3>2
  <2> QED BY <2>1, <1>9 DEF SleepOrder
<1> QED BY <1>5, <1>6, <1>10 DEF QueuesMatchStates
==============================================================================
