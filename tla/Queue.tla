-------------------------------- MODULE Queue --------------------------------
(***************************************************************************)
(* kernel/src/queue.c: a bounded queue in a ring buffer, with a FIFO list  *)
(* of blocked readers and one of blocked writers, and a push callback.     *)
(* Tasks use the blocking calls, interrupt handlers the _from_isr ones.    *)
(*                                                                         *)
(* The queue is the transmit queue of a UART (drivers/src/uart.c in queue  *)
(* mode): its push callback enables the transmit interrupt, and the        *)
(* interrupt takes one item a time and disables itself when there is none. *)
(***************************************************************************)
EXTENDS Tasks

CONSTANTS
    Item,
    Capacity,       \* q->capacity
    Arrays          \* bound: the arrays tasks push, longer than Capacity too

ASSUME QueueAssumption ==
  /\ Capacity \in Nat \ {0}
  /\ Item # {}
  /\ Arrays \subseteq Seq(Item) \ {<< >>}

VARIABLES
    alive,          \* between queue_create and queue_delete
    buffer,         \* the ring, Capacity items
    count, head, tail,
    rxWaiters,      \* rx_wait_head ... rx_wait_tail
    txWaiters,      \* tx_wait_head ... tx_wait_tail
    callback,       \* a push callback is registered
    txie,           \* USART_CR1_TXEIE, set by the callback
    todo,           \* what each task still has to push
    last            \* the item that was handed out last

ring == <<buffer, count, head, tail>>
waiters == <<rxWaiters, txWaiters>>
vars == <<state, pc, alive, ring, waiters, callback, txie, todo, last>>

Index == 0..(Capacity - 1)

TypeOK ==
  /\ state \in [Task -> {"READY", "BLOCKED"}]
  /\ pc \in [Task -> {"run", "push", "push_arr", "pop"}]
  /\ alive \in BOOLEAN
  /\ buffer \in [Index -> Item]
  /\ count \in 0..Capacity
  /\ head \in Index
  /\ tail \in Index
  /\ rxWaiters \in Seq(Task)
  /\ txWaiters \in Seq(Task)
  /\ callback \in BOOLEAN
  /\ txie \in BOOLEAN
  /\ todo \in [Task -> Seq(Item)]
  /\ last \in Item

Init ==
  /\ state = [t \in Task |-> "READY"]
  /\ pc = [t \in Task |-> "run"]
  /\ alive = FALSE
  /\ \E x \in Item : buffer = [i \in Index |-> x] /\ last = x
  /\ count = 0
  /\ head = 0
  /\ tail = 0
  /\ rxWaiters = << >>
  /\ txWaiters = << >>
  /\ callback = FALSE
  /\ txie = FALSE
  /\ todo = [t \in Task |-> << >>]

------------------------------------------------------------------------------
(* The ring *)

\* (i) % capacity, for the sums below 2 * capacity that occur.
Wrap(i) == IF i < Capacity THEN i ELSE i - Capacity

\* utils_memcpy of the items s to the slots from at on.
CopyTo(b, at, s) ==
  [i \in Index |-> IF at <= i /\ i < at + Len(s) THEN s[i - at + 1] ELSE b[i]]

\* Variant: a chunk that does not fit behind tail is not continued at the start.
WriteChunkCut(s) ==
  /\ buffer' = CopyTo(buffer, tail, s)
  /\ tail' = Wrap(tail + Len(s))
  /\ count' = count + Len(s)

\* The chunk s is written in one or two parts; one item is a chunk.
WriteChunk(s) ==
  LET first == Capacity - tail
  IN  /\ IF Len(s) <= first
         THEN /\ buffer' = CopyTo(buffer, tail, s)
              /\ tail' = Wrap(tail + Len(s))
         ELSE /\ buffer' = CopyTo(CopyTo(buffer, tail, SubSeq(s, 1, first)), 0,
                                  SubSeq(s, first + 1, Len(s)))
              /\ tail' = Len(s) - first
      /\ count' = count + Len(s)

------------------------------------------------------------------------------
(* Wait lists *)

Min2(m, n) == IF m < n THEN m ELSE n

\* _remove_task_from_list: the list is searched, and left alone if t is not in it.
RemoveTask(l, t) == IF t \in Members(l) THEN SelectSeq(l, LAMBDA u : u # t) ELSE l

\* _remove_task_from_list, then _add_to_wait_list.
Requeue(l, t) == Append(RemoveTask(l, t), t)

\* Pop the first n tasks of a list and task_unblock them.
WakeReaders(n) ==
  LET k == Min2(n, Len(rxWaiters))
  IN  /\ rxWaiters' = SubSeq(rxWaiters, k + 1, Len(rxWaiters))
      /\ state' = Unblock(Members(SubSeq(rxWaiters, 1, k)))

\* Variant: the writers woken stay in the list.
WakeWritersKeep(n) ==
  LET k == Min2(n, Len(txWaiters))
  IN  /\ txWaiters' = txWaiters
      /\ state' = Unblock(Members(SubSeq(txWaiters, 1, k)))

WakeWriters(n) ==
  LET k == Min2(n, Len(txWaiters))
  IN  /\ txWaiters' = SubSeq(txWaiters, k + 1, Len(txWaiters))
      /\ state' = Unblock(Members(SubSeq(txWaiters, 1, k)))

\* Variant: the callback runs only when no reader was woken.
NotifyUnlessWoken == txie' = (txie \/ (callback /\ rxWaiters = << >>))

\* The push callback, uart_tx_queue_callback.
Notify == txie' = (txie \/ callback)

------------------------------------------------------------------------------
(* Blocking calls *)

\* Task t enters queue_push with one item or queue_push_arr with several.
PushCall(t) ==
  /\ alive /\ Ready(t) /\ pc[t] = "run"
  /\ \E s \in Arrays, c \in {"push", "push_arr"} :
       /\ c = "push" => Len(s) = 1
       /\ todo' = [todo EXCEPT ![t] = s]
       /\ pc' = [pc EXCEPT ![t] = c]
  /\ UNCHANGED <<state, alive, ring, waiters, callback, txie, last>>

\* A full queue: t waits for space.
PushBlocked(t) ==
  /\ count = Capacity
  /\ txWaiters' = Requeue(txWaiters, t)
  /\ state' = SetBlocked(t)
  /\ UNCHANGED <<pc, alive, ring, rxWaiters, callback, txie, todo, last>>

\* Variant: a chunk wakes one reader however many items it has.
PushChunkWakesOne(t) ==
  LET n == Min2(Capacity - count, Len(todo[t]))
  IN  /\ count < Capacity
      /\ WriteChunk(SubSeq(todo[t], 1, n))
      /\ todo' = [todo EXCEPT ![t] = SubSeq(@, n + 1, Len(@))]
      /\ pc' = [pc EXCEPT ![t] = IF n = Len(todo[t]) THEN "run" ELSE @]
      /\ WakeReaders(1)
      /\ Notify
      /\ UNCHANGED <<alive, head, txWaiters, callback, last>>

\* Variant: the callback is not called after a chunk.
PushChunkSilent(t) ==
  LET n == Min2(Capacity - count, Len(todo[t]))
  IN  /\ count < Capacity
      /\ WriteChunk(SubSeq(todo[t], 1, n))
      /\ todo' = [todo EXCEPT ![t] = SubSeq(@, n + 1, Len(@))]
      /\ pc' = [pc EXCEPT ![t] = IF n = Len(todo[t]) THEN "run" ELSE @]
      /\ WakeReaders(n)
      /\ UNCHANGED <<alive, head, txWaiters, callback, txie, last>>

\* As much of the rest as fits is written; one reader is woken for each item.
PushChunk(t) ==
  LET n == Min2(Capacity - count, Len(todo[t]))
  IN  /\ count < Capacity
      /\ WriteChunk(SubSeq(todo[t], 1, n))
      /\ todo' = [todo EXCEPT ![t] = SubSeq(@, n + 1, Len(@))]
      /\ pc' = [pc EXCEPT ![t] = IF n = Len(todo[t]) THEN "run" ELSE @]
      /\ WakeReaders(n)
      /\ Notify
      /\ UNCHANGED <<alive, head, txWaiters, callback, last>>

\* One locked section of queue_push, where the rest is one item.
QueuePush(t) ==
  /\ Ready(t) /\ pc[t] = "push"
  /\ PushBlocked(t) \/ PushChunk(t)

\* One locked section of queue_push_arr.
QueuePushArr(t) ==
  /\ Ready(t) /\ pc[t] = "push_arr"
  /\ PushBlocked(t) \/ PushChunk(t)

\* The oldest item is handed out and one writer woken.
TakeItem ==
  /\ count > 0
  /\ last' = buffer[head]
  /\ head' = Wrap(head + 1)
  /\ count' = count - 1
  /\ WakeWriters(1)

\* One locked section of queue_pop, on the call or after a wake-up.
QueuePop(t) ==
  /\ alive /\ Ready(t) /\ pc[t] \in {"run", "pop"}
  /\ \/ /\ TakeItem
        /\ pc' = [pc EXCEPT ![t] = "run"]
        /\ UNCHANGED rxWaiters
     \/ /\ count = 0
        /\ rxWaiters' = Requeue(rxWaiters, t)
        /\ state' = SetBlocked(t)
        /\ pc' = [pc EXCEPT ![t] = "pop"]
        /\ UNCHANGED <<count, head, txWaiters, last>>
  /\ UNCHANGED <<alive, buffer, tail, callback, txie, todo>>

------------------------------------------------------------------------------
(* Calls that do not block *)

\* queue_push_from_isr; a full queue refuses the item.
QueuePushFromIsr ==
  /\ alive /\ count < Capacity
  /\ \E x \in Item : WriteChunk(<<x>>)
  /\ WakeReaders(1)
  /\ Notify
  /\ UNCHANGED <<pc, alive, head, txWaiters, callback, todo, last>>

\* queue_pop_from_isr; an empty queue has nothing to hand out.
QueuePopFromIsr ==
  /\ TakeItem
  /\ UNCHANGED <<pc, alive, buffer, tail, rxWaiters, callback, txie, todo>>

\* queue_peek, by a task or an interrupt handler.
QueuePeek ==
  /\ alive /\ count > 0
  /\ last' = buffer[head]
  /\ UNCHANGED <<state, pc, alive, ring, waiters, callback, txie, todo>>

\* queue_reset: the data are discarded and every writer woken.
QueueReset ==
  /\ alive
  /\ head' = 0 /\ tail' = 0 /\ count' = 0
  /\ WakeWriters(Len(txWaiters))
  /\ UNCHANGED <<pc, alive, buffer, rxWaiters, callback, txie, todo, last>>

\* queue_create; both allocations succeed.
QueueCreate ==
  /\ ~alive
  /\ alive' = TRUE
  /\ head' = 0 /\ tail' = 0 /\ count' = 0
  /\ rxWaiters' = << >> /\ txWaiters' = << >>
  /\ callback' = FALSE
  /\ UNCHANGED <<state, pc, buffer, txie, todo, last>>

\* queue_delete by a caller that knows that no task is inside a call.
QueueDelete ==
  /\ alive
  /\ \A t \in Task : pc[t] = "run"
  /\ alive' = FALSE
  /\ count' = 0
  /\ rxWaiters' = << >> /\ txWaiters' = << >>
  /\ callback' = FALSE
  /\ UNCHANGED <<state, pc, buffer, head, tail, txie, todo, last>>

\* queue_set_push_callback, from uart_set_tx_queue.  main attaches the queue
\* before anything is pushed.
QueueSetPushCallback ==
  /\ alive /\ count = 0
  /\ callback' = TRUE
  /\ UNCHANGED <<state, pc, alive, ring, waiters, txie, todo, last>>

\* The transmit part of uart_hal_irq_handler with uart_core_tx_callback: one
\* item goes out, or the interrupt is disabled.
UartTransmitIrq ==
  /\ alive /\ txie
  /\ \/ QueuePopFromIsr
     \/ /\ count = 0
        /\ txie' = FALSE
        /\ UNCHANGED <<state, pc, alive, ring, waiters, callback, todo, last>>

------------------------------------------------------------------------------
Next ==
  \/ \E t \in Task : PushCall(t)
  \/ \E t \in Task : QueuePush(t)
  \/ \E t \in Task : QueuePushArr(t)
  \/ \E t \in Task : QueuePop(t)
  \/ QueuePushFromIsr
  \/ QueuePopFromIsr
  \/ QueuePeek
  \/ QueueReset
  \/ QueueCreate
  \/ QueueDelete
  \/ QueueSetPushCallback
  \/ UartTransmitIrq

Spec == Init /\ [][Next]_vars

(* A task inside a call goes on when it is READY, because the scheduler    *)
(* starves no READY task, and an enabled interrupt is served.              *)
Fairness ==
  /\ \A t \in Task :
       /\ WF_vars(QueuePush(t))
       /\ WF_vars(QueuePushArr(t))
       /\ WF_vars(pc[t] = "pop" /\ QueuePop(t))
  /\ WF_vars(UartTransmitIrq)

FairSpec == Spec /\ Fairness

------------------------------------------------------------------------------
\* The contents, oldest first.
Contents == [i \in 1..count |-> buffer[Wrap(head + i - 1)]]

F == INSTANCE Fifo WITH items <- Contents

(* The ring buffer is a FIFO queue: whatever the interleaving of pushes,   *)
(* arrays in chunks, pops, resets and interrupts, and wherever the indices *)
(* wrap, no item is lost, doubled, overwritten or reordered.               *)
ImplementsFifo == F!Spec

Writing(t) == pc[t] \in {"push", "push_arr"}

\* Tasks woken from a wait list that have not run since.
WokenReaders == {t \in Task : pc[t] = "pop" /\ state[t] = "READY"}
AwakeWriters == {t \in Task : Writing(t) /\ state[t] = "READY"}

(* Each list holds exactly the tasks BLOCKED in that kind of call, once:   *)
(* no blocked task is forgotten, and no wake-up is spent on a running one. *)
WaitersExact ==
  /\ Once(rxWaiters)
  /\ Once(txWaiters)
  /\ \A t \in Task :
       /\ t \in Members(rxWaiters) <=> pc[t] = "pop" /\ state[t] = "BLOCKED"
       /\ t \in Members(txWaiters) <=> Writing(t) /\ state[t] = "BLOCKED"
       /\ state[t] = "BLOCKED" => pc[t] # "run"

(* Nobody sleeps while there is work for them: with readers queued, each   *)
(* item has a woken reader on its way; with writers queued, each free slot *)
(* has an awake writer on its way.                                         *)
NoneStranded ==
  /\ rxWaiters # << >> => count <= Cardinality(WokenReaders)
  /\ txWaiters # << >> => Capacity - count <= Cardinality(AwakeWriters)

(* An item is never left lying in an attached queue: the transmit          *)
(* interrupt, which switches itself off on an empty queue, is on.          *)
TransmitterArmed == callback /\ count > 0 => txie

(* A full queue that is attached to the transmitter makes space, so the    *)
(* writers blocked on it go on.                                            *)
FullQueueDrains == (callback /\ count = Capacity) ~> (count < Capacity)
==============================================================================
