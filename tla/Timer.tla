-------------------------------- MODULE Timer --------------------------------
(***************************************************************************)
(* kernel/src/timer.c over kernel/src/mempool.c: software timers in slots  *)
(* of a memory pool, a list of active timers sorted by expiry, and the     *)
(* daemon task that runs the callbacks.                                    *)
(*                                                                         *)
(* The daemon reads the clock before it takes the lock, runs the callback  *)
(* after it released it, and computes how long to wait before it waits.    *)
(* Ticks, and calls of other tasks, interrupts or the callback itself, may *)
(* come between any two of these steps.                                    *)
(***************************************************************************)
EXTENDS Lists

CONSTANTS
    MaxTimers,      \* slots of timer_pool
    TimerTickMod,   \* the tick counter counts modulo this (2^32 in the code)
    Periods,        \* the periods asked for, none 0
    MaxLag          \* bound: ticks that pass while the daemon, or a task about
                    \* to notify it, is runnable, until the daemon sleeps again
                    \* with no notification on its way

ASSUME TimerAssumption ==
  /\ MaxTimers \in Nat \ {0}
  /\ TimerTickMod \in Nat
  /\ Periods \subseteq Nat \ {0} /\ Periods # {}
  /\ MaxLag \in Nat
  /\ \A p \in Periods : 2 * (p + 2 * MaxLag) < TimerTickMod

VARIABLES
    freeSlots,      \* the free list of the pool
    timer,          \* the fields of each slot
    timerList,      \* timer_list_head and what follows it
    doomed,         \* timers between the two steps of timer_delete
    clock,          \* platform_get_ticks
    daemon,         \* the daemon's point and its local variables
    notified,       \* notify_state of the daemon
    notifying,      \* calls of timer_start before their task_notify
    lag             \* ticks since the daemon or its notifier became runnable

timerVars == <<freeSlots, timer, timerList, doomed, clock, daemon, notified, notifying, lag>>

Timers == 1..MaxTimers

NoWait == -1        \* UINT32_MAX

\* The fields of a free slot; expiry is 0 while a timer is not active, because
\* timer_start sets it before anything reads it.
Unset == [active |-> FALSE, reload |-> FALSE, period |-> 0, expiry |-> 0]

\* mempool_create threads the slots in order.
MempoolCreate == [i \in 1..MaxTimers |-> i]

\* mempool_alloc: the head of the free list.
MempoolAlloc(list) == [item |-> Head(list), rest |-> Tail(list)]

TimerInit ==
  /\ freeSlots = MempoolCreate
  /\ timer = [s \in Timers |-> Unset]
  /\ timerList = << >>
  /\ doomed = {}
  /\ clock = 0
  /\ daemon = [at |-> "read", now |-> 0, tmr |-> 0, until |-> 0]
  /\ notified = FALSE
  /\ notifying = 0
  /\ lag = 0

------------------------------------------------------------------------------
(* Modular time and the sorted list *)

Plus(a, b) == (a + b) % TimerTickMod

\* (int32_t)(a - b)
Diff(a, b) ==
  LET d == (a - b) % TimerTickMod
  IN  IF 2 * d < TimerTickMod THEN d ELSE d - TimerTickMod

\* timer_insert walks past every timer that does not expire later.
TimerInsert(tm, l, s) ==
  LET Later(i) == Diff(tm[s].expiry, tm[l[i]].expiry) < 0
      k == CHOOSE i \in 1..Len(l) + 1 :
             (i = Len(l) + 1 \/ Later(i)) /\ \A j \in 1..i - 1 : ~Later(j)
  IN  LinkedIn(l, k, s)

\* timer_remove
TimerRemove(l, s) == IF s \in Range(l) THEN Unlinked(l, CHOOSE i \in DOMAIN l : l[i] = s) ELSE l

------------------------------------------------------------------------------
(* Calls of tasks, interrupts and callbacks *)

Owned(s) == s \notin Range(freeSlots) \cup doomed

\* timer_create, which fails when the pool is empty.
TimerCreate ==
  /\ freeSlots # << >>
  /\ \E p \in Periods, reload \in BOOLEAN :
       timer' = [timer EXCEPT ![MempoolAlloc(freeSlots).item] =
                   [active |-> FALSE, reload |-> reload, period |-> p, expiry |-> 0]]
  /\ freeSlots' = MempoolAlloc(freeSlots).rest
  /\ UNCHANGED <<timerList, doomed, clock, daemon, notified, notifying, lag>>

\* Variant: the daemon is told of the first timer only.
BecomesHeadEmpty(l, tm, s) == l = << >>

\* timer_start compares with the head of the list it inserts into.
BecomesHead(l, tm, s) == l = << >> \/ Diff(tm[s].expiry, tm[Head(l)].expiry) < 0

\* timer_start, its locked section.
TimerStart(s) ==
  LET l == IF timer[s].active THEN TimerRemove(timerList, s) ELSE timerList
      tm == [timer EXCEPT ![s].expiry = Plus(clock, timer[s].period), ![s].active = TRUE]
  IN  /\ Owned(s)
      /\ notifying = 0
      /\ timer' = tm
      /\ timerList' = TimerInsert(tm, l, s)
      /\ notifying' = IF BecomesHead(l, tm, s) THEN 1 ELSE 0
      /\ UNCHANGED <<freeSlots, doomed, clock, daemon, notified, lag>>

\* task_notify of the daemon: it is remembered, and ends a wait.
TimerNotify ==
  /\ notifying = 1
  /\ notifying' = 0
  /\ notified' = TRUE
  /\ IF daemon.at = "blocked"
     THEN daemon' = [daemon EXCEPT !.at = "woke", !.until = 0] /\ lag' = 0
     ELSE UNCHANGED <<daemon, lag>>
  /\ UNCHANGED <<freeSlots, timer, timerList, doomed, clock>>

Stopped(s) ==
  /\ timerList' = IF timer[s].active THEN TimerRemove(timerList, s) ELSE timerList
  /\ timer' = [timer EXCEPT ![s].active = FALSE, ![s].expiry = 0]
  /\ UNCHANGED <<freeSlots, clock, daemon, notified, notifying, lag>>

TimerStop(s) ==
  /\ Owned(s)
  /\ Stopped(s)
  /\ UNCHANGED doomed

\* Variant: timer_delete does not stop the timer.
TimerDeleteRunning(s) ==
  /\ Owned(s)
  /\ doomed' = doomed \cup {s}
  /\ UNCHANGED <<freeSlots, timer, timerList, clock, daemon, notified, notifying, lag>>

\* timer_delete stops the timer ...
TimerDelete(s) ==
  /\ Owned(s)
  /\ Stopped(s)
  /\ doomed' = doomed \cup {s}

\* ... and then frees its slot (mempool_free).
MempoolFree(s) ==
  /\ s \in doomed
  /\ doomed' = doomed \ {s}
  /\ freeSlots' = <<s>> \o freeSlots
  /\ timer' = [timer EXCEPT ![s] = Unset]
  /\ UNCHANGED <<timerList, clock, daemon, notified, notifying, lag>>

------------------------------------------------------------------------------
(* The daemon: timer_check_expiries and task_notify_wait *)

DaemonReadsClock ==
  /\ daemon.at = "read"
  /\ daemon' = [daemon EXCEPT !.at = "lock", !.now = clock]
  /\ UNCHANGED <<freeSlots, timer, timerList, doomed, clock, notified, notifying, lag>>

HeadExpired == timerList # << >> /\ Diff(daemon.now, timer[Head(timerList)].expiry) >= 0

\* The locked section takes an expired timer off the list, or puts an
\* auto-reload timer back with its next expiry.
TimerExpires ==
  LET s == Head(timerList)
      again == timer[s].reload
      tm == [timer EXCEPT ![s].active = again,
                          ![s].expiry = IF again THEN Plus(daemon.now, timer[s].period) ELSE 0]
  IN  /\ daemon.at = "lock"
      /\ HeadExpired
      /\ timer' = tm
      /\ timerList' = IF again THEN TimerInsert(tm, Tail(timerList), s) ELSE Tail(timerList)
      /\ daemon' = [daemon EXCEPT !.at = "callback", !.now = 0, !.tmr = s]
      /\ UNCHANGED <<freeSlots, doomed, clock, notified, notifying, lag>>

\* The callback runs outside the lock.
TimerCallback ==
  /\ daemon.at = "callback"
  /\ daemon' = [daemon EXCEPT !.at = "read", !.tmr = 0]
  /\ UNCHANGED <<freeSlots, timer, timerList, doomed, clock, notified, notifying, lag>>

\* No timer has expired: the ticks to wait.
NextWake ==
  /\ daemon.at = "lock"
  /\ ~HeadExpired
  /\ daemon' = [daemon EXCEPT !.at = "wait", !.now = 0,
                  !.until = IF timerList = << >> THEN NoWait
                            ELSE (timer[Head(timerList)].expiry - daemon.now) % TimerTickMod]
  /\ UNCHANGED <<freeSlots, timer, timerList, doomed, clock, notified, notifying, lag>>

\* task_notify_wait, first section: a pending notification, or the sleep.
DaemonWaits ==
  /\ daemon.at = "wait"
  /\ daemon' = IF notified THEN [daemon EXCEPT !.at = "woke", !.until = 0]
               ELSE [daemon EXCEPT !.at = "blocked",
                       !.until = IF @ = NoWait THEN NoWait ELSE Plus(clock, @)]
  /\ lag' = IF notified \/ notifying = 1 THEN lag ELSE 0
  /\ UNCHANGED <<freeSlots, timer, timerList, doomed, clock, notified, notifying>>

\* task_notify_wait, second section: the notification is cleared.
DaemonWoke ==
  /\ daemon.at = "woke"
  /\ notified' = FALSE
  /\ daemon' = [daemon EXCEPT !.at = "read", !.until = 0]
  /\ UNCHANGED <<freeSlots, timer, timerList, doomed, clock, notifying, lag>>

\* The tick ends the daemon's wait when its time has come.
TimerTick ==
  LET idle == daemon.at = "blocked" /\ notifying = 0
  IN  /\ ~idle => lag < MaxLag
      /\ clock' = Plus(clock, 1)
      /\ lag' = IF idle THEN 0 ELSE lag + 1
      /\ daemon' = IF daemon.at = "blocked" /\ daemon.until # NoWait
                      /\ Diff(Plus(clock, 1), daemon.until) >= 0
                   THEN [daemon EXCEPT !.at = "woke", !.until = 0] ELSE daemon
      /\ UNCHANGED <<freeSlots, timer, timerList, doomed, notified, notifying>>

TimerDaemon ==
  DaemonReadsClock \/ TimerExpires \/ TimerCallback \/ NextWake \/ DaemonWaits \/ DaemonWoke

TimerNext ==
  \/ TimerCreate
  \/ \E s \in Timers : TimerStart(s)
  \/ TimerNotify
  \/ \E s \in Timers : TimerStop(s)
  \/ \E s \in Timers : TimerDelete(s)
  \/ \E s \in Timers : MempoolFree(s)
  \/ TimerDaemon
  \/ TimerTick

TimerSpec == TimerInit /\ [][TimerNext]_timerVars

------------------------------------------------------------------------------
(* The list holds exactly the active timers, sorted by expiry across the   *)
(* wrap of the tick counter, and no freed or half-deleted one; no slot is  *)
(* twice in the pool.                                                      *)
TimersExact ==
  /\ IsInjective(timerList)
  /\ IsInjective(freeSlots)
  /\ Range(timerList) = {s \in Timers : timer[s].active}
  /\ \A s \in Range(timerList) : Owned(s)
  /\ \A i, j \in 1..Len(timerList) :
       i < j => Diff(timer[timerList[i]].expiry, timer[timerList[j]].expiry) <= 0

(* A timer is served in time: it is never overdue by more than twice the   *)
(* daemon's lag, once between reading the clock and going to sleep, once   *)
(* between waking up and taking the timer off the list.                    *)
TimerOnTime ==
  \A s \in Range(timerList) : Diff(clock, timer[s].expiry) <= 2 * MaxLag
==============================================================================
