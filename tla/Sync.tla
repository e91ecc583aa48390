-------------------------------- MODULE Sync ---------------------------------
(***************************************************************************)
(* Tasks that share one mutex and one semaphore.  Both link the same       *)
(* embedded wait_node of the task into their lists ("we can't be blocked   *)
(* on a queue and mutex simultaneously").  A task does not wait for the    *)
(* semaphore while it holds the mutex.                                     *)
(***************************************************************************)
EXTENDS Mutex, Semaphore

vars == <<state, pc, mutexVars, semVars>>

TypeOK ==
  /\ state \in [Task -> {"READY", "BLOCKED"}]
  /\ pc \in [Task -> {"run", "lock", "wait"}]
  /\ MutexTypeOK
  /\ SemTypeOK

Init ==
  /\ state = [t \in Task |-> "READY"]
  /\ pc = [t \in Task |-> "run"]
  /\ MutexInit
  /\ SemInit

Next ==
  \/ \E t \in Task : MutexLock(t) /\ UNCHANGED semVars
  \/ \E t \in Task : MutexUnlock(t) /\ UNCHANGED semVars
  \/ \E t \in Task : MutexUnlockRefused(t) /\ UNCHANGED semVars
  \/ \E t \in Task : owner # t /\ SemWait(t) /\ UNCHANGED mutexVars
  \/ SemSignal /\ UNCHANGED mutexVars
  \/ SemBroadcast /\ UNCHANGED mutexVars

Spec == Init /\ [][Next]_vars

(* A woken task runs again, because the scheduler starves no READY task,   *)
(* and an owner unlocks at some point.                                     *)
Fairness ==
  \A t \in Task :
    /\ WF_vars(pc[t] = "lock" /\ MutexLock(t) /\ UNCHANGED semVars)
    /\ WF_vars(pc[t] = "wait" /\ SemWait(t) /\ UNCHANGED mutexVars)
    /\ WF_vars(MutexUnlock(t) /\ UNCHANGED semVars)

FairSpec == Spec /\ Fairness

------------------------------------------------------------------------------
(* No task is blocked for ever: a BLOCKED task is linked exactly once, into *)
(* the list of the call it is in, and a task in a list is BLOCKED, so the   *)
(* one wait_node serves both primitives and no wake-up is spent on a task   *)
(* that runs.  A free mutex has no waiters.                                 *)
WaitersExact ==
  /\ Once(lockWaiters)
  /\ Once(semWaiters)
  /\ \A t \in Task :
       /\ t \in Members(lockWaiters) <=> pc[t] = "lock" /\ state[t] = "BLOCKED"
       /\ t \in Members(semWaiters) <=> pc[t] = "wait" /\ state[t] = "BLOCKED"
       /\ state[t] = "BLOCKED" => pc[t] # "run"
  /\ owner = NULL => lockWaiters = << >>
==============================================================================
