------------------------------ MODULE ReadyHeap ------------------------------
(***************************************************************************)
(* The ready heap of kernel/src/scheduler.c: a binary min-heap of tasks,   *)
(* ordered by vruntime, flattened into an array, with the position of each *)
(* task kept in the task (heap_index).                                     *)
(*                                                                         *)
(* A heap is a record: arr is the array (heap_size is its length) and idx  *)
(* the heap_index of each task.  Positions count from 1, and 0 stands for  *)
(* the -1 of a task that is not in the heap.  v is the vruntime of each    *)
(* task.                                                                   *)
(***************************************************************************)
EXTENDS Integers, SequencesExt

CONSTANTS
    VruntimeMod,    \* vruntime counts modulo this (2^64 in the code)
    HeapCapacity    \* length of ready_heap (MAX_TASKS)

ASSUME HeapAssumption == VruntimeMod \in Nat \ {0} /\ HeapCapacity \in Nat \ {0}

\* VRUNTIME_LT: (int64_t)(a - b) < 0.
VruntimeLt(a, b) == 2 * ((a - b) % VruntimeMod) >= VruntimeMod

HeapPut(h, i, t) == [arr |-> [h.arr EXCEPT ![i] = t], idx |-> [h.idx EXCEPT ![t] = i]]

\* _swap_tasks
HeapSwap(h, i, j) == HeapPut(HeapPut(h, i, h.arr[j]), j, h.arr[i])

\* _heap_up
RECURSIVE HeapUp(_, _, _)
HeapUp(h, v, i) ==
  IF i > 1 /\ VruntimeLt(v[h.arr[i]], v[h.arr[i \div 2]])
  THEN HeapUp(HeapSwap(h, i, i \div 2), v, i \div 2)
  ELSE h

\* _heap_down
RECURSIVE HeapDown(_, _, _)
HeapDown(h, v, i) ==
  LET Smaller(a, b) == IF b <= Len(h.arr) /\ VruntimeLt(v[h.arr[b]], v[h.arr[a]])
                       THEN b ELSE a
      smallest == Smaller(Smaller(i, 2 * i), 2 * i + 1)
  IN  IF smallest = i THEN h
      ELSE HeapDown(HeapSwap(h, i, smallest), v, smallest)

\* _heap_insert: a full heap is left as it is.
HeapInsert(h, v, t) ==
  IF Len(h.arr) >= HeapCapacity THEN h
  ELSE HeapUp([arr |-> Append(h.arr, t), idx |-> [h.idx EXCEPT ![t] = Len(h.arr) + 1]],
              v, Len(h.arr) + 1)

\* The last element moves to position i, and the array is one shorter.
HeapFill(h, i) ==
  LET n == Len(h.arr)
      gone == [h EXCEPT !.idx[h.arr[i]] = 0]
      cut(g) == [g EXCEPT !.arr = SubSeq(g.arr, 1, n - 1)]
  IN  IF i = n THEN cut(gone) ELSE cut(HeapPut(gone, i, h.arr[n]))

\* _heap_pop_min: the minimum, and the heap without it.
HeapMin(h) == Head(h.arr)
HeapPop(h, v) == IF Len(h.arr) = 1 THEN HeapFill(h, 1) ELSE HeapDown(HeapFill(h, 1), v, 1)

\* Variant: the element that fills the hole only sinks.
HeapRemoveSink(h, v, t) ==
  LET i == h.idx[t]
  IN  IF i = 0 \/ i > Len(h.arr) THEN h
      ELSE IF i = Len(h.arr) THEN HeapFill(h, i)
      ELSE HeapDown(HeapFill(h, i), v, i)

\* _heap_remove: the element that fills the hole rises or sinks.
HeapRemove(h, v, t) ==
  LET i == h.idx[t]
  IN  IF i = 0 \/ i > Len(h.arr) THEN h
      ELSE IF i = Len(h.arr) THEN HeapFill(h, i)
      ELSE HeapDown(HeapUp(HeapFill(h, i), v, i), v, i)

\* What a heap is: no parent is after its child, and heap_index tells where
\* each task is.
IsHeap(h, v) ==
  /\ \A i \in 2..Len(h.arr) : ~VruntimeLt(v[h.arr[i]], v[h.arr[i \div 2]])
  /\ \A i \in 1..Len(h.arr) : h.idx[h.arr[i]] = i
  /\ \A t \in DOMAIN h.idx : h.idx[t] # 0 => h.idx[t] <= Len(h.arr) /\ h.arr[h.idx[t]] = t
==============================================================================
