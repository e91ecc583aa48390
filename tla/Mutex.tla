-------------------------------- MODULE Mutex --------------------------------
(***************************************************************************)
(* kernel/src/mutex.c: a mutex with a FIFO wait list, direct hand-over to  *)
(* the first waiter, and weight inheritance.  One locked section of        *)
(* so_mutex_lock or so_mutex_unlock is one action; a task that blocks in   *)
(* so_mutex_lock repeats the section when it is woken (pc = "lock").       *)
(*                                                                         *)
(* The caller holds one mutex at a time, and only so_mutex_unlock wakes a  *)
(* waiter.  holds[t] is a history variable: t has returned from            *)
(* so_mutex_lock and not called so_mutex_unlock since.                     *)
(***************************************************************************)
EXTENDS Tasks

CONSTANT BaseWeight          \* the weight each task was created with

MAX_WEIGHT == 255            \* weights are of type uint8_t

ASSUME WeightAssumption == BaseWeight \in [Task -> 1..MAX_WEIGHT]

VARIABLES owner, lockWaiters, weight, holds

mutexVars == <<owner, lockWaiters, weight, holds>>

MutexTypeOK ==
  /\ owner \in Task \cup {NULL}
  /\ lockWaiters \in Seq(Task)
  /\ weight \in [Task -> 1..MAX_WEIGHT]
  /\ holds \in [Task -> BOOLEAN]

MutexInit ==
  /\ owner = NULL
  /\ lockWaiters = << >>
  /\ weight = BaseWeight
  /\ holds = [t \in Task |-> FALSE]

\* task_boost_weight: never lowers a weight.
Boost(w, t, by) == IF by > w[t] THEN [w EXCEPT ![t] = by] ELSE w

RestoreBaseWeight(w, t) == [w EXCEPT ![t] = BaseWeight[t]]

\* Variant: a waiter is put at the head of the list.
AddToWaitListHead(l, t) == <<t>> \o l

AddToWaitList(l, t) == Append(l, t)

\* _get_max_waiter_weight; 0 for an empty list.
MaxWaiterWeight(w, l) ==
  LET ws == {w[t] : t \in Members(l)}
  IN  IF l = << >> THEN 0 ELSE CHOOSE x \in ws : \A y \in ws : y <= x

\* so_mutex_lock returns holding the mutex.
MutexGranted(t) ==
  /\ owner \in {NULL, t}
  /\ owner' = t
  /\ holds' = [holds EXCEPT ![t] = TRUE]
  /\ pc' = [pc EXCEPT ![t] = "run"]
  /\ UNCHANGED <<state, lockWaiters, weight>>

\* so_mutex_lock boosts the owner, queues the caller and blocks it.
MutexBlocked(t) ==
  /\ owner \notin {NULL, t}
  /\ weight' = Boost(weight, owner, weight[t])
  /\ lockWaiters' = AddToWaitList(lockWaiters, t)
  /\ state' = SetBlocked(t)
  /\ pc' = [pc EXCEPT ![t] = "lock"]
  /\ UNCHANGED <<owner, holds>>

\* Variant: ownership is not handed over but left to be taken.
MutexHandOverFree(t) ==
  /\ lockWaiters # << >>
  /\ owner' = NULL
  /\ weight' = RestoreBaseWeight(weight, t)
  /\ lockWaiters' = Tail(lockWaiters)
  /\ state' = Unblock({Head(lockWaiters)})

\* Variant: the next owner is not boosted by the waiters left.
MutexHandOverPlain(t) ==
  /\ lockWaiters # << >>
  /\ owner' = Head(lockWaiters)
  /\ weight' = RestoreBaseWeight(weight, t)
  /\ lockWaiters' = Tail(lockWaiters)
  /\ state' = Unblock({Head(lockWaiters)})

\* so_mutex_unlock with waiters: the first one owns the mutex from here on,
\* boosted by those that still wait.
MutexHandOver(t) ==
  /\ lockWaiters # << >>
  /\ LET next == Head(lockWaiters)
         rest == Tail(lockWaiters)
         restored == RestoreBaseWeight(weight, t)
     IN  /\ owner' = next
         /\ lockWaiters' = rest
         /\ weight' = Boost(restored, next, MaxWaiterWeight(restored, rest))
         /\ state' = Unblock({next})

\* so_mutex_unlock without waiters.
MutexFree(t) ==
  /\ lockWaiters = << >>
  /\ owner' = NULL
  /\ weight' = RestoreBaseWeight(weight, t)
  /\ UNCHANGED <<lockWaiters, state>>

\* One locked section of so_mutex_lock, on the call or after a wake-up.
MutexLock(t) ==
  /\ Ready(t)
  /\ pc[t] \in {"run", "lock"}
  /\ MutexGranted(t) \/ MutexBlocked(t)

\* Variant: a task that does not own the mutex can unlock it.
MutexUnlockAny(t) ==
  /\ Ready(t)
  /\ pc[t] = "run"
  /\ MutexHandOver(t) \/ MutexFree(t)
  /\ holds' = [holds EXCEPT ![t] = FALSE]
  /\ UNCHANGED pc

\* so_mutex_unlock by the owner.
MutexUnlock(t) ==
  /\ Ready(t)
  /\ pc[t] = "run"
  /\ owner = t
  /\ MutexHandOver(t) \/ MutexFree(t)
  /\ holds' = [holds EXCEPT ![t] = FALSE]
  /\ UNCHANGED pc

\* so_mutex_unlock by a task that does not own the mutex returns at once.
MutexUnlockRefused(t) ==
  /\ Ready(t)
  /\ pc[t] = "run"
  /\ owner # t
  /\ UNCHANGED <<state, pc, mutexVars>>

------------------------------------------------------------------------------
(* Mutual exclusion as the callers see it: a task that has returned from   *)
(* so_mutex_lock owns the mutex, through every hand-over between others.   *)
MutualExclusion == \A t \in Task : holds[t] => owner = t

(* Weight inheritance is exact: the owner runs with the largest of its own *)
(* weight and the weights of those it keeps waiting, and a task that does  *)
(* not own the mutex has its own weight back.                              *)
InheritanceExact ==
  \A t \in Task :
    IF owner = t
    THEN /\ weight[t] \in {BaseWeight[t]} \cup {weight[u] : u \in Members(lockWaiters)}
         /\ weight[t] >= BaseWeight[t]
         /\ \A u \in Members(lockWaiters) : weight[t] >= weight[u]
    ELSE weight[t] = BaseWeight[t]

(* A task that wants the mutex gets it: the wait list is FIFO and ownership *)
(* is handed over, so no later caller overtakes.                           *)
LockGranted == \A t \in Task : pc[t] = "lock" ~> holds[t]
==============================================================================
