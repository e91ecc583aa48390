----------------------------- MODULE EventGroup ------------------------------
(***************************************************************************)
(* kernel/src/event_group.c: tasks wait for event bits, with or without a  *)
(* timeout; tasks and interrupt handlers set and clear them.               *)
(*                                                                         *)
(* event_group_wait_bits blocks in several sections: it links and blocks   *)
(* the caller in one, puts it to sleep in a second (task_sleep_ticks) and  *)
(* evaluates the outcome in a third.  In between the caller still runs, or *)
(* has been switched out, so this module keeps the running task, the heap  *)
(* and the sleep list of the scheduler.  A timeout may expire at any time  *)
(* after the sleep began.                                                  *)
(***************************************************************************)
EXTENDS Lists

CONSTANTS
    Task, NULL,
    Bit,            \* the event bits
    Waits,          \* the waits tasks ask for: [bits, all, clear, timeout]
    WindowOpen      \* may an interrupt come between the section that blocks
                    \* the caller and task_sleep_ticks (l.230-234)?

ASSUME EventGroupAssumption ==
  /\ NULL \notin Task
  /\ WindowOpen \in BOOLEAN
  /\ Waits \subseteq [bits : SUBSET Bit, all : BOOLEAN, clear : BOOLEAN,
                      timeout : {"zero", "ticks", "max"}]

VARIABLES
    alive,          \* between create and delete
    bits,           \* eg->bits
    waitList,       \* eg->wait_head ... eg->wait_tail
    wait,           \* the wait each task asked for last
    satisfied,      \* EVENT_SATISFIED_FLAG of each task
    event,          \* task_get_event_bits: the bits awaited, then the outcome
    pc,             \* where each task is in event_group_wait_bits
    state,          \* task_t.state
    curr,           \* the running task, NULL for idle
    heap,           \* the tasks in the ready heap
    asleep          \* the tasks on the sleep list

group == <<alive, bits, waitList>>
request == <<wait, satisfied, event>>
sched == <<state, curr, heap, asleep>>
vars == <<group, request, pc, sched>>

TypeOK ==
  /\ alive \in BOOLEAN
  /\ bits \subseteq Bit
  /\ waitList \in Seq(Task)
  /\ wait \in [Task -> Waits]
  /\ satisfied \in [Task -> BOOLEAN]
  /\ event \in [Task -> SUBSET Bit]
  /\ pc \in [Task -> {"run", "sleep", "yield", "woke"}]
  /\ state \in [Task -> {"READY", "RUNNING", "BLOCKED", "SLEEPING"}]
  /\ curr \in Task \cup {NULL}
  /\ heap \subseteq Task
  /\ asleep \subseteq Task

Init ==
  /\ alive = FALSE
  /\ bits = {}
  /\ waitList = << >>
  /\ \E w \in Waits : wait = [t \in Task |-> w]
  /\ satisfied = [t \in Task |-> FALSE]
  /\ event = [t \in Task |-> {}]
  /\ pc = [t \in Task |-> "run"]
  /\ state = [t \in Task |-> "READY"]
  /\ curr = NULL
  /\ heap = Task
  /\ asleep = {}

------------------------------------------------------------------------------
(* The scheduler *)

\* The section that blocks the caller and task_sleep_ticks are not separated.
Undisturbed == ~WindowOpen /\ curr # NULL => pc[curr] # "sleep"

\* Variant: task_unblock leaves a SLEEPING task alone.
UnblockBlockedOnly(S) ==
  LET woken == {t \in S : state[t] = "BLOCKED"}
  IN  /\ state' = [t \in Task |-> IF t \in woken THEN "READY" ELSE state[t]]
      /\ heap' = heap \cup woken
      /\ UNCHANGED <<asleep, curr>>

\* task_unblock on every task of S.
Unblock(S) ==
  LET woken == {t \in S : state[t] \in {"BLOCKED", "SLEEPING"}}
  IN  /\ state' = [t \in Task |-> IF t \in woken THEN "READY" ELSE state[t]]
      /\ heap' = heap \cup woken
      /\ asleep' = asleep \ {t \in woken : state[t] = "SLEEPING"}
      /\ UNCHANGED curr

\* schedule_next_task: a RUNNING task goes back to the heap; idle runs when
\* the heap is empty.
SwitchTo(next) ==
  LET yields == curr # NULL /\ state[curr] = "RUNNING"
      ready == IF yields THEN heap \cup {curr} ELSE heap
      parked == IF yields THEN [state EXCEPT ![curr] = "READY"] ELSE state
  IN  /\ IF ready = {} THEN next = NULL ELSE next \in ready
      /\ curr' = next
      /\ heap' = ready \ {next}
      /\ state' = [t \in Task |-> IF t = next THEN "RUNNING" ELSE parked[t]]
      /\ UNCHANGED asleep

\* The tick preempts whatever runs.
Preempt(next) ==
  /\ Undisturbed
  /\ SwitchTo(next)
  /\ UNCHANGED <<group, request, pc>>

\* The tick ends the sleep of t (_wake_sleeping_task).
Timeout(t) ==
  /\ t \in asleep
  /\ asleep' = asleep \ {t}
  /\ state' = [state EXCEPT ![t] = "READY"]
  /\ heap' = heap \cup {t}
  /\ UNCHANGED <<group, request, pc, curr>>

------------------------------------------------------------------------------
(* Event bits *)

Satisfied(b, w) == IF w.all THEN w.bits \subseteq b ELSE w.bits \cap b # {}

After(b, w) == IF w.clear THEN b \ w.bits ELSE b

\* Variant: a satisfied waiter ends the walk.
WalkFirstOnly(acc, t) ==
  IF acc.woken = {} /\ Satisfied(acc.bits, wait[t])
  THEN [bits |-> After(acc.bits, wait[t]),
        left |-> acc.left,
        woken |-> acc.woken \cup {t},
        event |-> [acc.event EXCEPT ![t] = After(acc.bits, wait[t])]]
  ELSE [acc EXCEPT !.left = Append(@, t)]

\* One round of _check_and_wake_tasks: the bits are cleared before they are
\* stored, and the next waiter sees what is left.
WalkStep(acc, t) ==
  IF Satisfied(acc.bits, wait[t])
  THEN [bits |-> After(acc.bits, wait[t]),
        left |-> acc.left,
        woken |-> acc.woken \cup {t},
        event |-> [acc.event EXCEPT ![t] = After(acc.bits, wait[t])]]
  ELSE [acc EXCEPT !.left = Append(@, t)]

\* The walk over the wait list.
Walk(b) ==
  LET walk[i \in 0..Len(waitList)] ==
        IF i = 0 THEN [bits |-> b, left |-> << >>, woken |-> {}, event |-> event]
                 ELSE WalkStep(walk[i - 1], waitList[i])
  IN  walk[Len(waitList)]

CheckAndWakeTasks(b) ==
  LET done == Walk(b)
  IN  /\ bits' = done.bits
      /\ waitList' = done.left
      /\ event' = done.event
      /\ satisfied' = [t \in Task |-> satisfied[t] \/ t \in done.woken]
      /\ Unblock(done.woken)

\* event_group_set_bits from a task, and event_group_set_bits_from_isr.
SetBits(S) ==
  /\ alive /\ Undisturbed
  /\ CheckAndWakeTasks(bits \cup S)
  /\ UNCHANGED <<alive, wait, pc>>

ClearBits(S) ==
  /\ alive /\ Undisturbed
  /\ bits' = bits \ S
  /\ UNCHANGED <<alive, waitList, request, pc, sched>>

------------------------------------------------------------------------------
(* event_group_wait_bits *)

Running(t, p) == curr = t /\ pc[t] = p

\* _add_waiter.  A node that is still linked is cut off from what follows it;
\* linking the last node to itself is not modelled.
AddWaiter(l, t) ==
  IF t \in Range(l) THEN SubSeq(l, 1, CHOOSE i \in 1..Len(l) : l[i] = t)
                    ELSE Append(l, t)

\* _remove_waiter.
RemoveWaiter(l, t) ==
  IF t \in Range(l) THEN Unlinked(l, CHOOSE i \in 1..Len(l) : l[i] = t) ELSE l

\* The bits are there; the call returns the value they had.
WaitSatisfied(t, w) ==
  /\ Satisfied(bits, w)
  /\ bits' = After(bits, w)
  /\ UNCHANGED <<waitList, pc, state>>

\* The bits are not there.  A poll, timeout 0, is linked too but goes on.
WaitMissed(t, w) ==
  /\ ~Satisfied(bits, w)
  /\ waitList # << >> => waitList[Len(waitList)] # t
  /\ waitList' = AddWaiter(waitList, t)
  /\ IF w.timeout = "zero"
     THEN UNCHANGED <<pc, state>>
     ELSE /\ state' = [state EXCEPT ![t] = "BLOCKED"]
          /\ pc' = [pc EXCEPT ![t] = IF w.timeout = "ticks" THEN "sleep" ELSE "yield"]
  /\ UNCHANGED bits

\* First section, with task_set_event_wait before it.
WaitBits(t, w) ==
  /\ alive /\ Running(t, "run")
  /\ wait' = [wait EXCEPT ![t] = w]
  /\ satisfied' = [satisfied EXCEPT ![t] = FALSE]
  /\ event' = [event EXCEPT ![t] = w.bits]
  /\ WaitSatisfied(t, w) \/ WaitMissed(t, w)
  /\ UNCHANGED <<alive, curr, heap, asleep>>

\* Variant: the caller blocks but is not put on the sleep list.
SleepTicksUnlisted(t) ==
  /\ Running(t, "sleep")
  /\ pc' = [pc EXCEPT ![t] = "yield"]
  /\ UNCHANGED <<group, request, sched>>

\* task_sleep_ticks, up to its yield.
SleepTicks(t) ==
  /\ Running(t, "sleep")
  /\ state' = [state EXCEPT ![t] = "SLEEPING"]
  /\ asleep' = asleep \cup {t}
  /\ pc' = [pc EXCEPT ![t] = "yield"]
  /\ UNCHANGED <<group, request, curr, heap>>

\* platform_yield.
Yield(t, next) ==
  /\ Running(t, "yield")
  /\ pc' = [pc EXCEPT ![t] = "woke"]
  /\ SwitchTo(next)
  /\ UNCHANGED <<group, request>>

\* Variant: after a timeout the node stays in the wait list.
WokeLinked(t) ==
  /\ Running(t, "woke")
  /\ pc' = [pc EXCEPT ![t] = "run"]
  /\ UNCHANGED <<alive, bits, waitList, wait, satisfied, event, sched>>

\* What the last section returns: the stored bits, or 0 after a timeout.
Result(t) == IF satisfied[t] THEN event[t] ELSE {}

\* Last section: a task that timed out leaves the list.
Woke(t) ==
  /\ Running(t, "woke")
  /\ waitList' = IF satisfied[t] THEN waitList ELSE RemoveWaiter(waitList, t)
  /\ pc' = [pc EXCEPT ![t] = "run"]
  /\ UNCHANGED <<alive, bits, wait, satisfied, event, sched>>

------------------------------------------------------------------------------
EventGroupCreate ==
  /\ ~alive
  /\ alive' = TRUE /\ bits' = {} /\ waitList' = << >>
  /\ UNCHANGED <<request, pc, sched>>

\* event_group_delete by a caller that knows that no task waits.
EventGroupDelete ==
  /\ alive /\ waitList = << >>
  /\ \A t \in Task : pc[t] = "run"
  /\ alive' = FALSE
  /\ UNCHANGED <<bits, waitList, request, pc, sched>>

Next ==
  \/ \E next \in Task \cup {NULL} : Preempt(next)
  \/ \E t \in Task : Timeout(t)
  \/ \E S \in SUBSET Bit : SetBits(S)
  \/ \E S \in SUBSET Bit : ClearBits(S)
  \/ \E t \in Task, w \in Waits : WaitBits(t, w)
  \/ \E t \in Task : SleepTicks(t)
  \/ \E t \in Task, next \in Task \cup {NULL} : Yield(t, next)
  \/ \E t \in Task : Woke(t)
  \/ EventGroupCreate
  \/ EventGroupDelete

Spec == Init /\ [][Next]_vars

(* The running task goes on; the tick ends every sleep; a READY task runs  *)
(* again, because the scheduler starves none.                              *)
Fairness ==
  \A t \in Task :
    /\ SF_vars(SleepTicks(t))
    /\ SF_vars(\E next \in Task \cup {NULL} : Yield(t, next))
    /\ SF_vars(Woke(t))
    /\ WF_vars(Timeout(t))
    /\ SF_vars(Preempt(t))

FairSpec == Spec /\ Fairness

------------------------------------------------------------------------------
InWait(t) == pc[t] # "run"

(* The wait list holds exactly the tasks that wait and were not satisfied, *)
(* once each: a timeout, a late event after it and the next wait leave no  *)
(* stale node behind.                                                      *)
LinkedExact ==
  /\ IsInjective(waitList)
  /\ \A t \in Task : t \in Range(waitList) <=> InWait(t) /\ ~satisfied[t]

(* No waiter is overlooked: no task stays linked while the bits satisfy    *)
(* its wait, although waiters earlier in the walk clear bits.              *)
NoneOverlooked ==
  \A t \in Task : t \in Range(waitList) => ~Satisfied(bits, wait[t])

(* A task that was satisfied is awake: the event is not slept over.        *)
SatisfiedAwake ==
  \A t \in Task : InWait(t) /\ satisfied[t] => state[t] \in {"READY", "RUNNING"}

(* A timed wait ends: "Blocks the current task until the specified bits    *)
(* are set or a timeout occurs."                                           *)
TimedWaitEnds ==
  \A t \in Task : (InWait(t) /\ wait[t].timeout = "ticks") ~> ~InWait(t)

(* A wait that its event ended returns bits it waited for: 0 is the answer *)
(* to a timeout.                                                           *)
EventReported ==
  \A t \in Task : InWait(t) /\ satisfied[t] => Satisfied(Result(t), wait[t])
==============================================================================
