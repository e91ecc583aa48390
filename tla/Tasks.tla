-------------------------------- MODULE Tasks --------------------------------
(***************************************************************************)
(* What the blocking primitives use of the scheduler: the state of each    *)
(* task, and the calls that block and wake it.  Which READY task runs is   *)
(* left open: on the single CPU one of them is RUNNING, it may be          *)
(* preempted between any two locked sections, and a section runs with      *)
(* interrupts off.  A step of task t therefore needs state[t] = "READY"    *)
(* and is one locked section.  pc[t] is the call task t is in.             *)
(***************************************************************************)
EXTENDS FiniteSets, Lists

CONSTANTS Task, NULL

ASSUME TaskAssumption == NULL \notin Task /\ IsFiniteSet(Task)

VARIABLES state, pc

\* t may take its next step.
Ready(t) == state[t] = "READY"

\* task_set_state(current_task, TASK_BLOCKED) on the running task.
SetBlocked(t) == [state EXCEPT ![t] = "BLOCKED"]

\* task_unblock on every task of S: only BLOCKED tasks change.
Unblock(S) ==
  [u \in Task |-> IF u \in S /\ state[u] = "BLOCKED" THEN "READY" ELSE state[u]]
==============================================================================
