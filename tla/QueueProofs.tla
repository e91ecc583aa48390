------------------------------ MODULE QueueProofs ------------------------------
(***************************************************************************)
(* Queue implements Fifo, and its wait lists are correct, for every set of *)
(* tasks, items and arrays and every capacity.                             *)
(***************************************************************************)
EXTENDS Queue, ListLemmas

\* The ring: tail is count slots ahead of head.
RingExact == alive => tail = Wrap(head + count)

\* A task has items left to push exactly while it is in a push.
TodoExact == \A t \in Task : Writing(t) <=> todo[t] # << >>

\* Before queue_create and after queue_delete no task is in a call.
Dormant == ~alive => count = 0 /\ \A t \in Task : pc[t] = "run"

IInv ==
  /\ TypeOK
  /\ RingExact
  /\ TodoExact
  /\ Dormant
  /\ WaitersExact
  /\ NoneStranded
  /\ TransmitterArmed

------------------------------------------------------------------------------
(* The ring *)

(* The contents as a sequence. *)
LEMMA ContentsFacts ==
    ASSUME TypeOK
    PROVE  /\ Contents \in Seq(Item)
           /\ Len(Contents) = count
           /\ \A i \in 1..count : Contents[i] = buffer[Wrap(head + i - 1)]
<1>1. \A i \in 1..count : Wrap(head + i - 1) \in Index
  BY QueueAssumption DEF TypeOK, Wrap, Index
<1>2. count \in Nat /\ \A i \in 1..count : buffer[Wrap(head + i - 1)] \in Item
  BY <1>1 DEF TypeOK
<1> QED BY <1>2 DEF Contents

(* What WriteChunk leaves in each slot: in one part or in two, the chunk   *)
(* lies behind the old tail, and the other slots are as they were.         *)
LEMMA WriteChunkSlots ==
    ASSUME TypeOK, NEW s \in Seq(Item), Len(s) <= Capacity - count, WriteChunk(s)
    PROVE  /\ buffer' \in [Index -> Item]
           /\ tail' = Wrap(tail + Len(s))
           /\ tail' \in Index
           /\ count' = count + Len(s)
           /\ \A i \in Index :
                buffer'[i] = IF tail <= i /\ i < tail + Len(s) THEN s[i - tail + 1]
                             ELSE IF i + Capacity < tail + Len(s) THEN s[i + Capacity - tail + 1]
                             ELSE buffer[i]
<1>1. /\ Capacity \in Nat \ {0} /\ tail \in Nat /\ tail < Capacity /\ count \in Nat /\ Len(s) \in Nat
      /\ count <= Capacity
  BY QueueAssumption DEF TypeOK, Index
<1> DEFINE first == Capacity - tail
<1>2. CASE Len(s) <= first
  <2>1. buffer' = CopyTo(buffer, tail, s) /\ tail' = Wrap(tail + Len(s)) /\ count' = count + Len(s)
    BY <1>2 DEF WriteChunk
  <2>2. \A i \in Index : /\ buffer'[i] = IF tail <= i /\ i < tail + Len(s) THEN s[i - tail + 1] ELSE buffer[i]
                        /\ ~(i + Capacity < tail + Len(s))
    BY <2>1, <1>1, <1>2 DEF CopyTo, Index
  <2>3. \A i \in Index : buffer'[i] \in Item
    <3> SUFFICES ASSUME NEW i \in Index PROVE buffer'[i] \in Item
      OBVIOUS
    <3>1. CASE tail <= i /\ i < tail + Len(s)
      <4>1. i - tail + 1 \in 1..Len(s)
        BY <3>1, <1>1 DEF Index
      <4> QED BY <3>1, <4>1, <2>2
    <3>2. CASE ~(tail <= i /\ i < tail + Len(s))
      BY <3>2, <2>2 DEF TypeOK
    <3> QED BY <3>1, <3>2
  <2>4. buffer' \in [Index -> Item]
    BY <2>1, <2>3 DEF CopyTo
  <2>5. tail' \in Index
    BY <2>1, <1>1, <1>2 DEF Wrap, Index
  <2> QED BY <2>1, <2>2, <2>4, <2>5
<1>3. CASE ~(Len(s) <= first)
  <2> DEFINE x == SubSeq(s, 1, first)
             y == SubSeq(s, first + 1, Len(s))
             b == CopyTo(buffer, tail, x)
  <2>1. buffer' = CopyTo(b, 0, y) /\ tail' = Len(s) - first /\ count' = count + Len(s)
    BY <1>3 DEF WriteChunk
  <2>2. /\ x \in Seq(Item) /\ Len(x) = first /\ y \in Seq(Item) /\ Len(y) = Len(s) - first
        /\ \A i \in 1..first : x[i] = s[i]
        /\ \A i \in 1..(Len(s) - first) : y[i] = s[i + first]
    <3>1. first \in 0..Len(s)
      BY <1>1, <1>3
    <3>2. IsCut(s, first, x, y)
      BY DEF IsCut
    <3> HIDE DEF first, x, y
    <3> QED BY <1>1, <3>1, <3>2 DEF IsCut
  <2> HIDE DEF x, y
  <2>3. \A i \in Index : b[i] = IF tail <= i THEN s[i - tail + 1] ELSE buffer[i]
    <3> SUFFICES ASSUME NEW i \in Index PROVE b[i] = IF tail <= i THEN s[i - tail + 1] ELSE buffer[i]
      OBVIOUS
    <3>1. b[i] = IF tail <= i /\ i < tail + first THEN x[i - tail + 1] ELSE buffer[i]
      BY <2>2 DEF CopyTo
    <3>2. i < tail + first
      BY <1>1 DEF Index
    <3>3. tail <= i => i - tail + 1 \in 1..first
      BY <1>1 DEF Index
    <3> QED BY <3>1, <3>2, <3>3, <2>2
  <2> HIDE DEF b
  <2>4. \A i \in Index : buffer'[i] = IF i < Len(s) - first THEN s[i + first + 1] ELSE b[i]
    <3> SUFFICES ASSUME NEW i \in Index
                 PROVE buffer'[i] = IF i < Len(s) - first THEN s[i + first + 1] ELSE b[i]
      OBVIOUS
    <3>1. buffer'[i] = IF 0 <= i /\ i < 0 + (Len(s) - first) THEN y[i - 0 + 1] ELSE b[i]
      BY <2>1, <2>2 DEF CopyTo
    <3>2. i \in Nat
      BY DEF Index
    <3>3. i < Len(s) - first => i + 1 \in 1..(Len(s) - first)
      BY <3>2, <1>1
    <3> QED BY <3>1, <3>2, <3>3, <2>2, <1>1
  <2>5. Len(s) - first <= tail
    BY <1>1
  <2>6. \A i \in Index :
          buffer'[i] = IF tail <= i /\ i < tail + Len(s) THEN s[i - tail + 1]
                       ELSE IF i + Capacity < tail + Len(s) THEN s[i + Capacity - tail + 1]
                       ELSE buffer[i]
    <3> SUFFICES ASSUME NEW i \in Index
                 PROVE  buffer'[i] = IF tail <= i /\ i < tail + Len(s) THEN s[i - tail + 1]
                                     ELSE IF i + Capacity < tail + Len(s) THEN s[i + Capacity - tail + 1]
                                     ELSE buffer[i]
      OBVIOUS
    <3>1. i \in Nat /\ i < Capacity
      BY <1>1 DEF Index
    <3>2. CASE tail <= i
      <4>1. i < tail + Len(s) /\ ~(i < Len(s) - first)
        BY <3>1, <3>2, <1>1, <1>3, <2>5
      <4> QED BY Zenon, <3>2, <4>1, <2>3, <2>4
    <3>3. CASE ~(tail <= i)
      <4>1. i < Len(s) - first <=> i + Capacity < tail + Len(s)
        BY <3>1, <1>1
      <4>2. i + first + 1 = i + Capacity - tail + 1
        BY <3>1, <1>1
      <4> HIDE DEF first
      <4> QED BY Zenon, <3>3, <4>1, <4>2, <2>3, <2>4
    <3> QED BY <3>2, <3>3
  <2>7. \A i \in Index : buffer'[i] \in Item
    <3> SUFFICES ASSUME NEW i \in Index PROVE buffer'[i] \in Item
      OBVIOUS
    <3>1. i \in Nat /\ i < Capacity
      BY <1>1 DEF Index
    <3>2. tail <= i /\ i < tail + Len(s) => i - tail + 1 \in 1..Len(s)
      BY <3>1, <1>1
    <3>3. ~(tail <= i /\ i < tail + Len(s)) /\ i + Capacity < tail + Len(s) => i + Capacity - tail + 1 \in 1..Len(s)
      BY <3>1, <1>1
    <3>4. buffer[i] \in Item /\ \A j \in 1..Len(s) : s[j] \in Item
      BY DEF TypeOK
    <3> HIDE DEF first
    <3> QED BY Zenon, <3>2, <3>3, <3>4, <2>6
  <2>8. buffer' \in [Index -> Item]
    BY <2>1, <2>7 DEF CopyTo
  <2>9. tail' = Wrap(tail + Len(s)) /\ tail' \in Index
    BY <2>1, <2>5, <1>1, <1>3 DEF Wrap, Index
  <2> QED BY <2>1, <2>6, <2>8, <2>9
<1> QED BY <1>2, <1>3

(* A chunk is appended to the contents, and the ring stays exact.          *)
LEMMA WriteChunkFacts ==
    ASSUME TypeOK, RingExact, alive, NEW s \in Seq(Item), Len(s) <= Capacity - count,
           WriteChunk(s), head' = head
    PROVE  /\ buffer' \in [Index -> Item] /\ tail' \in Index /\ count' = count + Len(s)
           /\ RingExact'
           /\ Contents' = Contents \o s
<1>1. /\ buffer' \in [Index -> Item] /\ tail' \in Index
      /\ count' = count + Len(s) /\ tail' = Wrap(tail + Len(s))
  BY WriteChunkSlots
<1>2. /\ Capacity \in Nat /\ count \in Nat /\ head \in Nat /\ head < Capacity /\ Len(s) \in Nat
      /\ count + Len(s) <= Capacity
      /\ tail = IF head + count < Capacity THEN head + count ELSE head + count - Capacity
  BY QueueAssumption DEF TypeOK, Index, RingExact, Wrap
<1>3. RingExact'
  BY <1>1, <1>2 DEF RingExact, Wrap
<1>4. \A i \in 1..(count + Len(s)) : Wrap(head + i - 1) \in Index
  BY <1>2 DEF Wrap, Index
<1>5. ASSUME NEW i \in 1..count
      PROVE  buffer'[Wrap(head + i - 1)] = buffer[Wrap(head + i - 1)]
  <2> DEFINE j == Wrap(head + i - 1)
  <2>0. i \in 1..(count + Len(s))
    BY <1>2
  <2>1. j \in Index
    BY <2>0, <1>4, Zenon
  <2>2. ~(tail <= j /\ j < tail + Len(s)) /\ ~(j + Capacity < tail + Len(s))
    BY <1>2 DEF Wrap
  <2> HIDE DEF j
  <2>3. buffer'[j] = buffer[j]
    BY <2>1, <2>2, WriteChunkSlots
  <2> QED BY <2>3 DEF j
<1>6. ASSUME NEW i \in 1..Len(s)
      PROVE  buffer'[Wrap(head + (count + i) - 1)] = s[i]
  <2> DEFINE j == Wrap(head + (count + i) - 1)
  <2>0. count + i \in 1..(count + Len(s))
    BY <1>2
  <2>1. j \in Index
    BY <2>0, <1>4, Zenon
  <2>2. \/ tail <= j /\ j < tail + Len(s) /\ j - tail + 1 = i
        \/ ~(tail <= j) /\ j + Capacity < tail + Len(s) /\ j + Capacity - tail + 1 = i
    BY <1>2 DEF Wrap
  <2> HIDE DEF j
  <2>3. buffer'[j] = s[i]
    BY Zenon, <2>1, <2>2, WriteChunkSlots
  <2> QED BY <2>3 DEF j
<1> DEFINE c == Contents \o s
<1>7. /\ c \in Seq(Item) /\ Len(c) = count + Len(s)
      /\ \A i \in 1..count : c[i] = buffer[Wrap(head + i - 1)]
      /\ \A i \in 1..Len(s) : c[count + i] = s[i]
  <2>1. Contents \in Seq(Item) /\ Len(Contents) = count
    BY ContentsFacts
  <2>2. /\ c \in Seq(Item) /\ Len(c) = count + Len(s)
        /\ \A i \in 1..count : c[i] = Contents[i]
        /\ \A i \in 1..Len(s) : c[count + i] = s[i]
    BY <2>1, <1>2
  <2> QED BY Zenon, <2>2, ContentsFacts
<1>8. /\ Contents' \in Seq(Item) /\ Len(Contents') = count + Len(s)
      /\ \A i \in 1..(count + Len(s)) : Contents'[i] = buffer'[Wrap(head + i - 1)]
  <2>1. Contents' = [i \in 1..(count + Len(s)) |-> buffer'[Wrap(head + i - 1)]]
    BY <1>1 DEF Contents, Wrap
  <2>2. \A i \in 1..(count + Len(s)) : buffer'[Wrap(head + i - 1)] \in Item
    BY <1>1, <1>4
  <2> QED BY <2>1, <2>2, <1>2
<1> HIDE DEF c
<1>9. ASSUME NEW i \in 1..(count + Len(s)) PROVE Contents'[i] = c[i]
  <2>1. CASE i <= count
    <3>1. i \in 1..count
      BY <2>1
    <3> QED BY Zenon, <3>1, <1>5, <1>7, <1>8
  <2>2. CASE ~(i <= count)
    <3>1. i - count \in 1..Len(s) /\ count + (i - count) = i
      BY <2>2, <1>2
    <3>2. c[i] = s[i - count]
      BY <3>1, <1>7
    <3>3. buffer'[Wrap(head + i - 1)] = s[i - count]
      BY <3>1, <1>6
    <3> QED BY Zenon, <3>2, <3>3, <1>8
  <2> QED BY <2>1, <2>2
<1>10. Contents' = c
  BY Zenon, <1>7, <1>8, <1>9, SameSequence
<1> QED BY Zenon, <1>1, <1>3, <1>10 DEF c

(* Taking the oldest item takes the head of the contents.                  *)
LEMMA TakeFacts ==
    ASSUME TypeOK, RingExact, alive, count > 0, head' = Wrap(head + 1), count' = count - 1,
           buffer' = buffer, tail' = tail
    PROVE  /\ head' \in Index /\ count' \in 0..Capacity
           /\ RingExact'
           /\ Contents # << >>
           /\ buffer[head] = Head(Contents)
           /\ Contents' = Tail(Contents)
<1>1. /\ Capacity \in Nat \ {0} /\ count \in Nat /\ count > 0 /\ count <= Capacity /\ head \in Nat
      /\ head < Capacity
      /\ tail = IF head + count < Capacity THEN head + count ELSE head + count - Capacity
  BY QueueAssumption DEF TypeOK, Index, RingExact, Wrap
<1>2. head' \in Index /\ count' \in 0..Capacity
  BY <1>1 DEF Wrap, Index
<1>3. RingExact'
  BY <1>1 DEF RingExact, Wrap
<1>4. /\ Contents \in Seq(Item) /\ Len(Contents) = count
      /\ \A i \in 1..count : Contents[i] = buffer[Wrap(head + i - 1)]
  BY ContentsFacts
<1>5. Contents # << >> /\ Head(Contents) = Contents[1]
  BY <1>1, <1>4
<1>6. buffer[head] = Head(Contents)
  <2>1. 1 \in 1..count /\ Wrap(head + 1 - 1) = head
    BY <1>1 DEF Wrap
  <2> QED BY <2>1, <1>4, <1>5
<1>7. /\ Contents' = [i \in 1..(count - 1) |-> buffer[Wrap(Wrap(head + 1) + i - 1)]]
  BY DEF Contents, Wrap
<1>8. ASSUME NEW i \in 1..(count - 1)
      PROVE  buffer[Wrap(Wrap(head + 1) + i - 1)] = Contents[i + 1]
  <2>1. Wrap(Wrap(head + 1) + i - 1) = Wrap(head + (i + 1) - 1) /\ i + 1 \in 1..count
    BY <1>1 DEF Wrap
  <2> QED BY Zenon, <2>1, <1>4
<1>9. Contents' = [i \in 1..(count - 1) |-> Contents[i + 1]]
  BY <1>7, <1>8
<1>10. Contents' = Tail(Contents)
  <2> DEFINE c == Contents
             d == Contents'
  <2> HIDE DEF c, d
  <2>1. c \in Seq(Item) /\ Len(c) = count /\ c # << >> /\ d = [i \in 1..(count - 1) |-> c[i + 1]]
    BY Zenon, <1>4, <1>5, <1>9 DEF c, d
  <2>2. /\ Tail(c) \in Seq(Item) /\ Len(Tail(c)) = count - 1
        /\ \A i \in 1..(count - 1) : Tail(c)[i] = c[i + 1]
    BY <2>1, <1>1
  <2>3. /\ d \in Seq(Item) /\ Len(d) = count - 1
        /\ \A i \in 1..(count - 1) : d[i] = c[i + 1]
    BY <2>1, <1>1
  <2>4. d = Tail(c)
    BY Zenon, <2>2, <2>3, SameSequence
  <2> QED BY <2>4 DEF c, d
<1> QED BY Zenon, <1>2, <1>3, <1>5, <1>6, <1>10

------------------------------------------------------------------------------
(* Wake-ups *)

\* A step popped the tasks W from the list l, leaving rest, and woke them:
\* as many as it meant to, n, unless the list ran empty.
Woke(l, rest, n, W) ==
  /\ W \subseteq Members(l)
  /\ rest \in Seq(Task) /\ Once(rest) /\ Members(rest) = Members(l) \ W
  /\ state' \in [Task -> {"READY", "BLOCKED"}]
  /\ \A u \in Task : state'[u] = IF u \in W THEN "READY" ELSE state[u]
  /\ rest # << >> => Cardinality(W) = n
  /\ n = Len(l) => rest = << >>

(* Popping the first tasks of a wait list and unblocking them. *)
LEMMA WakeFacts ==
    ASSUME TypeOK, NEW l \in Seq(Task), Once(l), \A u \in Members(l) : state[u] = "BLOCKED",
           NEW n \in Nat, NEW k, k = Min2(n, Len(l)),
           NEW rest, rest = SubSeq(l, k + 1, Len(l)),
           NEW p, p = SubSeq(l, 1, k), state' = Unblock(Members(p))
    PROVE  \E W \in SUBSET Task : Woke(l, rest, n, W)
<1>1. /\ k \in 0..Len(l) /\ Len(l) \in Nat /\ (k # Len(l) => k = n) /\ (n = Len(l) => k = Len(l))
  BY DEF Min2
<1>2. /\ rest \in Seq(Task) /\ Once(rest)
      /\ Members(p) \subseteq Members(l) /\ Members(rest) = Members(l) \ Members(p)
      /\ (k = Len(l) => rest = << >>) /\ Cardinality(Members(p)) = k
  <2>1. IsCut(l, k, p, rest)
    BY DEF IsCut
  <2> QED BY <1>1, <2>1, CutFacts
<1>3. Members(l) \subseteq Task
  BY DEF Members
<1>4. /\ state' \in [Task -> {"READY", "BLOCKED"}]
      /\ \A u \in Task : state'[u] = IF u \in Members(p) THEN "READY" ELSE state[u]
  BY Zenon, <1>2 DEF Unblock, TypeOK
<1>5. Woke(l, rest, n, Members(p))
  BY Zenon, <1>1, <1>2, <1>4 DEF Woke
<1>6. Members(p) \in SUBSET Task
  BY <1>2, <1>3
<1> QED BY <1>5, <1>6

(* The readers a push wakes. *)
LEMMA ReadersWoken ==
    ASSUME IInv, NEW n \in Nat, WakeReaders(n)
    PROVE  \E W \in SUBSET Task : Woke(rxWaiters, rxWaiters', n, W)
<1>1. rxWaiters \in Seq(Task) /\ Once(rxWaiters) /\ TypeOK
  BY DEF IInv, TypeOK, WaitersExact
<1>2. \A u \in Members(rxWaiters) : state[u] = "BLOCKED"
  <2>1. Members(rxWaiters) \subseteq Task
    BY <1>1 DEF Members
  <2> QED BY <2>1 DEF IInv, WaitersExact
<1> DEFINE k == Min2(n, Len(rxWaiters))
           p == SubSeq(rxWaiters, 1, k)
<1>3. rxWaiters' = SubSeq(rxWaiters, k + 1, Len(rxWaiters)) /\ state' = Unblock(Members(p))
  BY DEF WakeReaders
<1>4. k = Min2(n, Len(rxWaiters)) /\ p = SubSeq(rxWaiters, 1, k)
  OBVIOUS
<1> HIDE DEF k, p
<1> QED BY Zenon, <1>1, <1>2, <1>3, <1>4, WakeFacts

(* The writers a pop or a reset wakes. *)
LEMMA WritersWoken ==
    ASSUME IInv, NEW n \in Nat, WakeWriters(n)
    PROVE  \E W \in SUBSET Task : Woke(txWaiters, txWaiters', n, W)
<1>1. txWaiters \in Seq(Task) /\ Once(txWaiters) /\ TypeOK
  BY DEF IInv, TypeOK, WaitersExact
<1>2. \A u \in Members(txWaiters) : state[u] = "BLOCKED"
  <2>1. Members(txWaiters) \subseteq Task
    BY <1>1 DEF Members
  <2> QED BY <2>1 DEF IInv, WaitersExact
<1> DEFINE k == Min2(n, Len(txWaiters))
           p == SubSeq(txWaiters, 1, k)
<1>3. txWaiters' = SubSeq(txWaiters, k + 1, Len(txWaiters)) /\ state' = Unblock(Members(p))
  BY DEF WakeWriters
<1>4. k = Min2(n, Len(txWaiters)) /\ p = SubSeq(txWaiters, 1, k)
  OBVIOUS
<1> HIDE DEF k, p
<1> QED BY <1>1, <1>2, <1>3, <1>4, WakeFacts

(* Counting tasks. *)
LEMMA CountTasks ==
    ASSUME NEW A \in SUBSET Task
    PROVE  /\ IsFiniteSet(A) /\ Cardinality(A) \in Nat
           /\ \A W \in SUBSET Task : A \cap W = {} => Cardinality(A \cup W) = Cardinality(A) + Cardinality(W)
           /\ \A t \in A : Cardinality(A \ {t}) = Cardinality(A) - 1
           /\ \A B \in SUBSET Task : A \subseteq B => Cardinality(A) <= Cardinality(B)
<1>1. \A B \in SUBSET Task : IsFiniteSet(B) /\ Cardinality(B) \in Nat
  BY Zenon, TaskAssumption, FS_Subset, FS_CardinalityType
<1>2. ASSUME NEW W \in SUBSET Task, A \cap W = {}
      PROVE  Cardinality(A \cup W) = Cardinality(A) + Cardinality(W)
  <2>1. Cardinality(A \cup W) = Cardinality(A) + Cardinality(W) - Cardinality(A \cap W)
    BY Zenon, <1>1, FS_Union
  <2>2. Cardinality(A \cap W) = 0
    BY Zenon, <1>2, FS_EmptySet
  <2>3. Cardinality(A) \in Nat /\ Cardinality(W) \in Nat
    BY <1>1
  <2> QED BY <2>1, <2>2, <2>3
<1>3. \A t \in A : Cardinality(A \ {t}) = Cardinality(A) - 1
  BY Zenon, <1>1, FS_RemoveElement
<1>4. \A B \in SUBSET Task : A \subseteq B => Cardinality(A) <= Cardinality(B)
  BY Zenon, <1>1, FS_Subset
<1> QED BY <1>1, <1>2, <1>3, <1>4

(* Queueing a task that is in no list. *)
LEMMA RequeueFacts ==
    ASSUME NEW l \in Seq(Task), Once(l), NEW t \in Task, t \notin Members(l)
    PROVE  /\ Requeue(l, t) \in Seq(Task)
           /\ Once(Requeue(l, t))
           /\ Members(Requeue(l, t)) = Members(l) \cup {t}
<1>1. RemoveTask(l, t) = l
  BY DEF RemoveTask
<1> QED BY <1>1, AppendFacts DEF Requeue

------------------------------------------------------------------------------
(* The invariant *)

(* An empty queue with nobody waiting satisfies it. *)
LEMMA InitInv == Init => IInv
<1> SUFFICES ASSUME Init PROVE IInv
  OBVIOUS
<1>1. Capacity \in Nat \ {0} /\ 0 \in Index
  BY QueueAssumption DEF Index
<1>2. TypeOK
  BY <1>1 DEF Init, TypeOK
<1>3. RingExact
  BY <1>1 DEF Init, RingExact, Wrap
<1>4. TodoExact /\ Dormant /\ NoneStranded /\ TransmitterArmed
  BY DEF Init, TodoExact, Writing, Dormant, NoneStranded, TransmitterArmed
<1>5. WaitersExact
  BY Zenon, EmptyFacts DEF Init, WaitersExact, Writing
<1> QED BY Zenon, <1>2, <1>3, <1>4, <1>5 DEF IInv

(* Entering a push: one more writer is awake. *)
LEMMA PushCallInv ==
    ASSUME IInv, NEW t \in Task, PushCall(t)
    PROVE  IInv'
<1> USE DEF IInv
<1>1. PICK s \in Arrays, c \in {"push", "push_arr"} :
        todo' = [todo EXCEPT ![t] = s] /\ pc' = [pc EXCEPT ![t] = c]
  BY Zenon DEF PushCall
<1>2. s \in Seq(Item) /\ s # << >>
  BY QueueAssumption
<1>3. /\ alive /\ state[t] = "READY" /\ pc[t] = "run"
      /\ UNCHANGED <<state, alive, buffer, count, head, tail, rxWaiters, txWaiters, callback, txie, last>>
  BY DEF PushCall, Ready, ring, waiters
<1>4. \A u \in Task : /\ pc'[u] = IF u = t THEN c ELSE pc[u]
                      /\ todo'[u] = IF u = t THEN s ELSE todo[u]
  BY <1>1 DEF TypeOK
<1>5. TypeOK'
  BY <1>1, <1>2, <1>3 DEF TypeOK
<1>6. RingExact' /\ Dormant' /\ TransmitterArmed'
  BY <1>3 DEF RingExact, Wrap, Dormant, TransmitterArmed
<1>7. TodoExact'
  BY Zenon, <1>2, <1>4 DEF TodoExact, Writing
<1>8. WaitersExact'
  BY Zenon, <1>3, <1>4 DEF WaitersExact, Writing
<1>9. NoneStranded'
  <2>1. WokenReaders' = WokenReaders
    BY Zenon, <1>3, <1>4 DEF WokenReaders
  <2>2. AwakeWriters \subseteq AwakeWriters' /\ AwakeWriters' \subseteq Task
    BY Zenon, <1>3, <1>4 DEF AwakeWriters, Writing
  <2>3. /\ Cardinality(AwakeWriters) <= Cardinality(AwakeWriters')
        /\ Cardinality(AwakeWriters) \in Nat /\ Cardinality(AwakeWriters') \in Nat
    BY Zenon, <2>2, CountTasks
  <2>4. Capacity - count \in Int
    BY QueueAssumption DEF TypeOK
  <2> QED BY <2>1, <2>3, <2>4, <1>3 DEF NoneStranded
<1> QED BY Zenon, <1>5, <1>6, <1>7, <1>8, <1>9

(* Waiting for space in a full queue. *)
LEMMA PushBlockedInv ==
    ASSUME IInv, NEW t \in Task, Ready(t), Writing(t), PushBlocked(t)
    PROVE  IInv'
<1> USE DEF IInv
<1>1. /\ count = Capacity /\ txWaiters' = Requeue(txWaiters, t)
      /\ UNCHANGED <<pc, alive, buffer, count, head, tail, rxWaiters, callback, txie, todo, last>>
  BY DEF PushBlocked, ring
<1>2. t \notin Members(txWaiters) /\ t \notin Members(rxWaiters)
  BY DEF WaitersExact, Ready
<1>3. txWaiters' \in Seq(Task) /\ Once(txWaiters') /\ Members(txWaiters') = Members(txWaiters) \cup {t}
  BY Zenon, <1>1, <1>2, RequeueFacts DEF TypeOK, WaitersExact
<1>4. /\ state' \in [Task -> {"READY", "BLOCKED"}]
      /\ \A u \in Task : state'[u] = IF u = t THEN "BLOCKED" ELSE state[u]
  BY DEF PushBlocked, SetBlocked, TypeOK
<1>5. TypeOK'
  BY Zenon, <1>1, <1>3, <1>4 DEF TypeOK
<1>6. RingExact' /\ Dormant' /\ TransmitterArmed' /\ TodoExact'
  BY Zenon, <1>1 DEF RingExact, Wrap, Dormant, TransmitterArmed, TodoExact, Writing
<1>7. WaitersExact'
  BY Zenon, <1>1, <1>2, <1>3, <1>4 DEF WaitersExact, Writing
<1>8. NoneStranded'
  <2>1. WokenReaders' = WokenReaders
    BY <1>1, <1>4 DEF WokenReaders, Writing
  <2>2. AwakeWriters' \subseteq Task
    BY Zenon DEF AwakeWriters
  <2>3. Cardinality(AwakeWriters') \in Nat /\ Capacity - count = 0
    BY <2>2, <1>1, CountTasks, QueueAssumption
  <2> QED BY <2>1, <2>3, <1>1 DEF NoneStranded
<1> QED BY Zenon, <1>5, <1>6, <1>7, <1>8

(* Each item a push adds finds a reader woken for it, if readers stay queued. *)
LEMMA ReadersServed ==
    ASSUME IInv, NEW n \in Nat, NEW W \in SUBSET Task, Woke(rxWaiters, rxWaiters', n, W),
           count' = count + n, \A u \in Task : pc'[u] = "pop" <=> pc[u] = "pop"
    PROVE  rxWaiters' # << >> => count' <= Cardinality(WokenReaders')
<1> SUFFICES ASSUME rxWaiters' # << >> PROVE count' <= Cardinality(WokenReaders')
  BY Zenon
<1>1. \A u \in W : pc[u] = "pop" /\ state[u] = "BLOCKED"
  BY DEF Woke, IInv, WaitersExact
<1>2. WokenReaders' = WokenReaders \cup W /\ WokenReaders \cap W = {}
  BY <1>1 DEF WokenReaders, Woke
<1>3. Members(rxWaiters) # {}
  <2>1. rxWaiters' \in Seq(Task) /\ Members(rxWaiters') \subseteq Members(rxWaiters)
    BY DEF Woke
  <2> QED BY Zenon, <2>1, MembersEmpty
<1>4. rxWaiters # << >>
  BY Zenon, <1>3, EmptyFacts
<1>5. count <= Cardinality(WokenReaders) /\ count \in Nat
  BY <1>4 DEF IInv, NoneStranded, TypeOK
<1>6. Cardinality(W) = n
  BY Zenon DEF Woke
<1>7. Cardinality(WokenReaders') = Cardinality(WokenReaders) + n /\ Cardinality(WokenReaders) \in Nat
  <2>1. WokenReaders \in SUBSET Task
    BY DEF WokenReaders
  <2> QED BY Zenon, <2>1, <1>2, <1>6, CountTasks
<1> QED BY <1>5, <1>7

(* The slot a pop frees finds a writer woken for it, if writers stay queued. *)
LEMMA WritersServed ==
    ASSUME IInv, NEW W \in SUBSET Task, Woke(txWaiters, txWaiters', 1, W),
           count' = count - 1, \A u \in Task : Writing(u)' <=> Writing(u)
    PROVE  txWaiters' # << >> => Capacity - count' <= Cardinality(AwakeWriters')
<1> SUFFICES ASSUME txWaiters' # << >> PROVE Capacity - count' <= Cardinality(AwakeWriters')
  BY Zenon
<1>1. \A u \in W : Writing(u) /\ state[u] = "BLOCKED"
  BY DEF Woke, IInv, WaitersExact
<1>2. AwakeWriters' = AwakeWriters \cup W /\ AwakeWriters \cap W = {}
  BY <1>1 DEF AwakeWriters, Woke
<1>3. Members(txWaiters) # {}
  <2>1. txWaiters' \in Seq(Task) /\ Members(txWaiters') \subseteq Members(txWaiters)
    BY DEF Woke
  <2> QED BY Zenon, <2>1, MembersEmpty
<1>4. txWaiters # << >>
  BY <1>3, EmptyFacts
<1>5. Capacity - count <= Cardinality(AwakeWriters) /\ count \in Nat /\ Capacity \in Nat
  BY <1>4, QueueAssumption DEF IInv, NoneStranded, TypeOK
<1>6. Cardinality(W) = 1
  BY DEF Woke
<1>7. Cardinality(AwakeWriters') = Cardinality(AwakeWriters) + 1 /\ Cardinality(AwakeWriters) \in Nat
  <2>1. AwakeWriters \in SUBSET Task
    BY DEF AwakeWriters
  <2> QED BY Zenon, <2>1, <1>2, <1>6, CountTasks
<1> QED BY <1>5, <1>7

\* What a chunk of n items of task t is.
IsChunk(t, n, s) ==
  /\ n \in Nat \ {0} /\ n <= Capacity - count /\ n <= Len(todo[t])
  /\ n = Capacity - count \/ n = Len(todo[t])
  /\ s \in Seq(Item) /\ Len(s) = n

(* The chunk PushChunk writes. *)
LEMMA ChunkFacts ==
    ASSUME IInv, NEW t \in Task, Writing(t), count < Capacity,
           NEW n, n = Min2(Capacity - count, Len(todo[t])),
           NEW s, NEW r, IsCut(todo[t], n, s, r)
    PROVE  IsChunk(t, n, s) /\ r \in Seq(Item) /\ (r = << >> <=> n = Len(todo[t]))
<1>1. todo[t] \in Seq(Item) /\ todo[t] # << >>
  BY DEF IInv, TypeOK, TodoExact
<1>2. Len(todo[t]) \in Nat \ {0} /\ count \in Nat /\ Capacity \in Nat
  BY <1>1, QueueAssumption DEF IInv, TypeOK
<1>3. /\ n \in Nat \ {0} /\ n <= Capacity - count /\ n <= Len(todo[t])
      /\ n = Capacity - count \/ n = Len(todo[t])
  BY <1>2 DEF Min2
<1> DEFINE d == todo[t]
<1>4. d \in Seq(Item) /\ n \in 0..Len(d) /\ IsCut(d, n, s, r)
  BY <1>1, <1>2, <1>3
<1> HIDE DEF d
<1>5. s \in Seq(Item) /\ Len(s) = n /\ r \in Seq(Item) /\ Len(r) = Len(d) - n
  BY <1>4, SplitFacts
<1>6. r = << >> <=> n = Len(d)
  BY <1>4, <1>5
<1> QED BY Zenon, <1>3, <1>5, <1>6 DEF IsChunk, d

(* Writing a chunk. *)
LEMMA PushChunkInv ==
    ASSUME IInv, NEW t \in Task, Ready(t), Writing(t), PushChunk(t)
    PROVE  IInv'
<1> DEFINE n == Min2(Capacity - count, Len(todo[t]))
           s == SubSeq(todo[t], 1, n)
           r == SubSeq(todo[t], n + 1, Len(todo[t]))
<1>1. /\ count < Capacity /\ WriteChunk(s) /\ todo' = [todo EXCEPT ![t] = r]
      /\ pc' = [pc EXCEPT ![t] = IF n = Len(todo[t]) THEN "run" ELSE @]
      /\ WakeReaders(n) /\ txie' = (txie \/ callback)
      /\ UNCHANGED <<alive, head, txWaiters, callback, last>>
  BY DEF PushChunk, Notify
<1>2. IsChunk(t, n, s) /\ r \in Seq(Item) /\ (r = << >> <=> n = Len(todo[t]))
  <2>1. IsCut(todo[t], n, s, r) /\ n = Min2(Capacity - count, Len(todo[t]))
    BY DEF IsCut
  <2>2. count < Capacity
    BY Zenon, <1>1
  <2> HIDE DEF n, s, r
  <2> QED BY <2>1, <2>2, ChunkFacts
<1> HIDE DEF n, s, r
<1> USE DEF IInv
<1>3. n \in Nat /\ n > 0 /\ n <= Capacity - count /\ count \in Nat /\ Capacity \in Nat
  BY <1>2, QueueAssumption DEF IsChunk, TypeOK
<1>4. /\ buffer' \in [Index -> Item] /\ tail' \in Index /\ count' = count + n /\ RingExact'
  <2>1. alive
    BY DEF Dormant, Writing
  <2> QED BY Zenon, <2>1, <1>1, <1>2, WriteChunkFacts DEF IsChunk
<1>5. PICK W \in SUBSET Task : Woke(rxWaiters, rxWaiters', n, W)
  BY Zenon, <1>1, <1>3, ReadersWoken
<1>6. /\ pc' \in [Task -> {"run", "push", "push_arr", "pop"}]
      /\ \A u \in Task : u # t => pc'[u] = pc[u] /\ todo'[u] = todo[u]
      /\ pc'[t] = IF n = Len(todo[t]) THEN "run" ELSE pc[t]
      /\ todo'[t] = r /\ todo' \in [Task -> Seq(Item)]
  BY Zenon, <1>1, <1>2 DEF TypeOK
<1>7. count' \in 0..Capacity
  BY <1>3, <1>4
<1>8. txie' \in BOOLEAN
  BY Zenon, <1>1 DEF TypeOK
<1>9. TypeOK'
  BY Zenon, <1>1, <1>4, <1>5, <1>6, <1>7, <1>8 DEF TypeOK, Woke
<1>10. alive
  BY Zenon DEF Dormant, Writing
<1>11. Dormant' /\ TransmitterArmed'
  BY Zenon, <1>1, <1>10 DEF Dormant, TransmitterArmed
<1>12. TodoExact'
  BY Zenon, <1>2, <1>6 DEF TodoExact, Writing
<1>13. t \notin Members(rxWaiters) /\ t \notin Members(txWaiters) /\ t \notin W
  BY <1>5 DEF WaitersExact, Ready, Woke
<1>14. WaitersExact'
  <2>1. \A u \in Task : state'[u] = IF u \in W THEN "READY" ELSE state[u]
    BY Zenon, <1>5 DEF Woke
  <2>2. W \subseteq Members(rxWaiters) /\ Once(rxWaiters') /\ Members(rxWaiters') = Members(rxWaiters) \ W
    BY Zenon, <1>5 DEF Woke
  <2>3. ASSUME NEW u \in Task
        PROVE  /\ u \in Members(rxWaiters') <=> pc'[u] = "pop" /\ state'[u] = "BLOCKED"
               /\ u \in Members(txWaiters) <=> pc'[u] \in {"push", "push_arr"} /\ state'[u] = "BLOCKED"
               /\ state'[u] = "BLOCKED" => pc'[u] # "run"
    <3>1. CASE u = t
      BY Zenon, <3>1, <2>1, <2>2, <1>13 DEF Ready
    <3>2. CASE u # t
      BY Zenon, <3>2, <2>1, <2>2, <1>6 DEF WaitersExact, Writing
    <3> QED BY Zenon, <3>1, <3>2
  <2> QED BY Zenon, <2>2, <2>3, <1>1 DEF WaitersExact, Writing
<1>15. rxWaiters' # << >> => count' <= Cardinality(WokenReaders')
  <2>1. \A u \in Task : pc'[u] = "pop" <=> pc[u] = "pop"
    BY <1>6 DEF Writing
  <2> QED BY <2>1, <1>3, <1>4, <1>5, ReadersServed
<1>16. txWaiters' # << >> => Capacity - count' <= Cardinality(AwakeWriters')
  <2> SUFFICES ASSUME txWaiters # << >> PROVE Capacity - count' <= Cardinality(AwakeWriters')
    BY Zenon, <1>1
  <2>1. AwakeWriters \in SUBSET Task /\ AwakeWriters' \in SUBSET Task /\ t \in AwakeWriters
    BY Zenon DEF AwakeWriters, Ready
  <2>2. Cardinality(AwakeWriters) \in Nat /\ Cardinality(AwakeWriters') \in Nat
    BY Zenon, <2>1, CountTasks
  <2>3. Capacity - count <= Cardinality(AwakeWriters)
    BY DEF NoneStranded
  <2>4. CASE n = Capacity - count
    BY <2>2, <2>4, <1>3, <1>4
  <2>5. CASE n # Capacity - count
    <3>1. pc'[t] = "run"
      BY Zenon, <2>5, <1>2, <1>6 DEF IsChunk
    <3>2. \A u \in W : ~Writing(u)
      BY Zenon, <1>5 DEF Woke, WaitersExact, Writing
    <3>3. AwakeWriters' = AwakeWriters \ {t}
      BY Zenon, <3>1, <3>2, <1>5, <1>6 DEF AwakeWriters, Writing, Woke
    <3>4. Cardinality(AwakeWriters') = Cardinality(AwakeWriters) - 1
      BY Zenon, <3>3, <2>1, CountTasks
    <3> QED BY <3>4, <2>2, <2>3, <1>3, <1>4
  <2> QED BY Zenon, <2>4, <2>5
<1> QED BY <1>4, <1>9, <1>11, <1>12, <1>14, <1>15, <1>16 DEF NoneStranded

(* queue_push_from_isr. *)
LEMMA PushFromIsrInv ==
    ASSUME IInv, QueuePushFromIsr
    PROVE  IInv'
<1> USE DEF IInv
<1>1. /\ alive /\ count < Capacity /\ WakeReaders(1) /\ txie' = (txie \/ callback)
      /\ UNCHANGED <<pc, alive, head, txWaiters, callback, todo, last>>
  BY DEF QueuePushFromIsr, Notify
<1>2. PICK x \in Item : WriteChunk(<<x>>)
  BY DEF QueuePushFromIsr
<1>3. count \in Nat /\ Capacity \in Nat
  BY QueueAssumption DEF TypeOK
<1>4. /\ buffer' \in [Index -> Item] /\ tail' \in Index /\ count' = count + 1 /\ RingExact'
  <2>1. <<x>> \in Seq(Item) /\ Len(<<x>>) = 1 /\ 1 <= Capacity - count
    BY <1>1, <1>3
  <2> QED BY Zenon, <2>1, <1>1, <1>2, WriteChunkFacts
<1>5. PICK W \in SUBSET Task : Woke(rxWaiters, rxWaiters', 1, W)
  BY <1>1, ReadersWoken
<1>6. count' \in 0..Capacity
  BY <1>1, <1>3, <1>4
<1>7. txie' \in BOOLEAN
  BY Zenon, <1>1 DEF TypeOK
<1>8. TypeOK'
  BY Zenon, <1>1, <1>4, <1>5, <1>6, <1>7 DEF TypeOK, Woke
<1>9. Dormant' /\ TransmitterArmed' /\ TodoExact'
  BY Zenon, <1>1 DEF Dormant, TransmitterArmed, TodoExact, Writing
<1>10. WaitersExact'
  BY <1>1, <1>5 DEF WaitersExact, Writing, Woke
<1>11. rxWaiters' # << >> => count' <= Cardinality(WokenReaders')
  BY <1>1, <1>4, <1>5, ReadersServed
<1>12. txWaiters' # << >> => Capacity - count' <= Cardinality(AwakeWriters')
  <2>1. \A u \in W : ~Writing(u)
    BY Zenon, <1>5 DEF Woke, WaitersExact, Writing
  <2>2. AwakeWriters' = AwakeWriters
    BY Zenon, <2>1, <1>1, <1>5 DEF AwakeWriters, Writing, Woke
  <2>3. Cardinality(AwakeWriters) \in Nat
    BY Zenon, CountTasks DEF AwakeWriters
  <2> QED BY <2>2, <2>3, <1>1, <1>3, <1>4 DEF NoneStranded
<1> QED BY <1>4, <1>8, <1>9, <1>10, <1>11, <1>12 DEF NoneStranded

(* Taking an item, by a task that returns from queue_pop or by an          *)
(* interrupt handler: done are the tasks that return.                      *)
LEMMA TakeItemInv ==
    ASSUME IInv, TakeItem, NEW done \in SUBSET Task,
           \A t \in done : state[t] = "READY" /\ pc[t] \in {"run", "pop"},
           \A t, u \in done : t = u,
           pc' = [u \in Task |-> IF u \in done THEN "run" ELSE pc[u]],
           UNCHANGED <<alive, buffer, tail, rxWaiters, callback, txie, todo>>
    PROVE  IInv'
<1> USE DEF IInv
<1>1. count > 0 /\ last' = buffer[head] /\ head' = Wrap(head + 1) /\ count' = count - 1 /\ WakeWriters(1)
  BY Zenon DEF TakeItem
<1>2. head' \in Index /\ count' \in 0..Capacity /\ RingExact'
  <2>1. alive
    BY <1>1 DEF Dormant
  <2> QED BY Zenon, <2>1, <1>1, TakeFacts
<1>3. PICK W \in SUBSET Task : Woke(txWaiters, txWaiters', 1, W)
  BY Zenon, <1>1, WritersWoken
<1>4. /\ pc' \in [Task -> {"run", "push", "push_arr", "pop"}]
      /\ \A u \in Task : pc'[u] = IF u \in done THEN "run" ELSE pc[u]
  BY Zenon DEF TypeOK
<1>5. \A u \in Task : Writing(u)' <=> Writing(u)
  BY Zenon, <1>4 DEF Writing
<1>6. buffer[head] \in Item
  BY Zenon DEF TypeOK
<1>7. TypeOK'
  BY Zenon, <1>1, <1>2, <1>3, <1>4, <1>6 DEF TypeOK, Woke
<1>8. count \in Nat
  BY DEF TypeOK
<1>9. Dormant' /\ TransmitterArmed'
  BY <1>1, <1>8 DEF Dormant, TransmitterArmed
<1>10. TodoExact'
  BY Zenon, <1>5 DEF TodoExact
<1>11. WaitersExact'
  <2>1. /\ \A u \in Task : state'[u] = IF u \in W THEN "READY" ELSE state[u]
        /\ W \subseteq Members(txWaiters) /\ Once(txWaiters') /\ Members(txWaiters') = Members(txWaiters) \ W
    BY Zenon, <1>3 DEF Woke
  <2>2. ASSUME NEW u \in Task
        PROVE  /\ u \in Members(rxWaiters) <=> pc'[u] = "pop" /\ state'[u] = "BLOCKED"
               /\ u \in Members(txWaiters') <=> Writing(u)' /\ state'[u] = "BLOCKED"
               /\ state'[u] = "BLOCKED" => pc'[u] # "run"
    <3>1. CASE u \in done
      BY Zenon, <3>1, <2>1, <1>4, <1>5 DEF WaitersExact
    <3>2. CASE u \notin done
      BY <3>2, <2>1, <1>4, <1>5 DEF WaitersExact, Writing
    <3> QED BY Zenon, <3>1, <3>2
  <2> QED BY Zenon, <2>1, <2>2 DEF WaitersExact
<1>12. txWaiters' # << >> => Capacity - count' <= Cardinality(AwakeWriters')
  BY Zenon, <1>1, <1>3, <1>5, WritersServed
<1>13. rxWaiters' # << >> => count' <= Cardinality(WokenReaders')
  <2> SUFFICES ASSUME rxWaiters # << >> PROVE count' <= Cardinality(WokenReaders')
    BY Zenon
  <2>1. WokenReaders \in SUBSET Task
    BY Zenon DEF WokenReaders
  <2>2. \A u \in W : pc[u] # "pop"
    BY Zenon, <1>3 DEF Woke, WaitersExact, Writing
  <2>3. WokenReaders' = WokenReaders \ done
    BY <2>2, <1>3, <1>4 DEF WokenReaders, Woke
  <2>4. Cardinality(WokenReaders') >= Cardinality(WokenReaders) - 1
    <3>1. CASE WokenReaders \cap done = {}
      <4>1. WokenReaders' = WokenReaders
        BY Zenon, <3>1, <2>3
      <4>2. Cardinality(WokenReaders) \in Nat
        BY Zenon, <2>1, CountTasks
      <4> QED BY <4>1, <4>2
    <3>2. CASE WokenReaders \cap done # {}
      <4>1. PICK t \in WokenReaders : t \in done
        BY Zenon, <3>2
      <4>2. WokenReaders' = WokenReaders \ {t}
        BY Zenon, <4>1, <2>3
      <4>3. Cardinality(WokenReaders') = Cardinality(WokenReaders) - 1 /\ Cardinality(WokenReaders) \in Nat
        BY Zenon, <4>2, <2>1, CountTasks
      <4> QED BY <4>3
    <3> QED BY Zenon, <3>1, <3>2
  <2>5. count <= Cardinality(WokenReaders)
    BY Zenon DEF NoneStranded
  <2>6. Cardinality(WokenReaders) \in Nat /\ Cardinality(WokenReaders') \in Nat
    <3>1. WokenReaders' \in SUBSET Task
      BY Zenon DEF WokenReaders
    <3> QED BY Zenon, <3>1, <2>1, CountTasks
  <2> QED BY <2>4, <2>5, <2>6, <1>1, <1>8
<1> QED BY <1>2, <1>7, <1>9, <1>10, <1>11, <1>12, <1>13 DEF NoneStranded

(* queue_pop blocking on an empty queue. *)
LEMMA PopBlockedInv ==
    ASSUME IInv, NEW t \in Task, alive, Ready(t), pc[t] \in {"run", "pop"}, count = 0,
           rxWaiters' = Requeue(rxWaiters, t), state' = SetBlocked(t),
           pc' = [pc EXCEPT ![t] = "pop"],
           UNCHANGED <<count, head, txWaiters, last, alive, buffer, tail, callback, txie, todo>>
    PROVE  IInv'
<1> USE DEF IInv
<1>1. t \notin Members(txWaiters) /\ t \notin Members(rxWaiters)
  BY Zenon DEF WaitersExact, Ready
<1>2. rxWaiters' \in Seq(Task) /\ Once(rxWaiters') /\ Members(rxWaiters') = Members(rxWaiters) \cup {t}
  BY Zenon, <1>1, RequeueFacts DEF TypeOK, WaitersExact
<1>3. /\ state' \in [Task -> {"READY", "BLOCKED"}] /\ pc' \in [Task -> {"run", "push", "push_arr", "pop"}]
      /\ \A u \in Task : /\ state'[u] = IF u = t THEN "BLOCKED" ELSE state[u]
                         /\ pc'[u] = IF u = t THEN "pop" ELSE pc[u]
  BY Zenon DEF SetBlocked, TypeOK
<1>4. TypeOK'
  BY Zenon, <1>2, <1>3 DEF TypeOK
<1>5. RingExact' /\ Dormant' /\ TransmitterArmed'
  BY Zenon DEF RingExact, Wrap, Dormant, TransmitterArmed
<1>6. TodoExact'
  BY Zenon, <1>3 DEF TodoExact, Writing
<1>7. WaitersExact'
  BY Zenon, <1>1, <1>2, <1>3 DEF WaitersExact, Writing
<1>8. NoneStranded'
  <2>1. AwakeWriters' = AwakeWriters
    BY Zenon, <1>3 DEF AwakeWriters, Writing, Ready
  <2>2. WokenReaders' \in SUBSET Task
    BY Zenon DEF WokenReaders
  <2>3. Cardinality(WokenReaders') \in Nat
    BY Zenon, <2>2, CountTasks
  <2> QED BY <2>1, <2>3 DEF NoneStranded
<1> QED BY Zenon, <1>4, <1>5, <1>6, <1>7, <1>8

(* queue_pop. *)
LEMMA PopInv ==
    ASSUME IInv, NEW t \in Task, QueuePop(t)
    PROVE  IInv'
<1>1. /\ alive /\ Ready(t) /\ pc[t] \in {"run", "pop"}
      /\ UNCHANGED <<alive, buffer, tail, callback, txie, todo>>
  BY Zenon DEF QueuePop
<1>2. CASE TakeItem /\ pc' = [pc EXCEPT ![t] = "run"] /\ UNCHANGED rxWaiters
  <2>1. pc' = [u \in Task |-> IF u \in {t} THEN "run" ELSE pc[u]]
    BY Zenon, <1>2 DEF IInv, TypeOK
  <2>2. \A u \in {t} : state[u] = "READY" /\ pc[u] \in {"run", "pop"}
    BY <1>1 DEF Ready
  <2> QED BY <2>1, <2>2, <1>1, <1>2, TakeItemInv
<1>3. CASE /\ count = 0 /\ rxWaiters' = Requeue(rxWaiters, t) /\ state' = SetBlocked(t)
           /\ pc' = [pc EXCEPT ![t] = "pop"] /\ UNCHANGED <<count, head, txWaiters, last>>
  BY Zenon, <1>1, <1>3, PopBlockedInv
<1> QED BY Zenon, <1>2, <1>3 DEF QueuePop

(* queue_pop_from_isr, which the transmit interrupt calls too. *)
LEMMA PopFromIsrInv ==
    ASSUME IInv, QueuePopFromIsr
    PROVE  IInv'
<1>1. TakeItem /\ UNCHANGED <<pc, alive, buffer, tail, rxWaiters, callback, txie, todo>>
  BY Zenon DEF QueuePopFromIsr
<1>2. pc' = [u \in Task |-> IF u \in {} THEN "run" ELSE pc[u]]
  BY <1>1 DEF IInv, TypeOK
<1>3. {} \in SUBSET Task /\ \A t \in {} : FALSE
  BY Zenon
<1> QED BY <1>1, <1>2, <1>3, TakeItemInv, Zenon

(* queue_reset. *)
LEMMA ResetInv ==
    ASSUME IInv, QueueReset
    PROVE  IInv'
<1> USE DEF IInv
<1>1. /\ alive /\ head' = 0 /\ tail' = 0 /\ count' = 0 /\ WakeWriters(Len(txWaiters))
      /\ UNCHANGED <<pc, alive, buffer, rxWaiters, callback, txie, todo, last>>
  BY Zenon DEF QueueReset
<1>2. Len(txWaiters) \in Nat /\ Capacity \in Nat \ {0} /\ 0 \in Index
  BY QueueAssumption DEF TypeOK, Index
<1>3. PICK W \in SUBSET Task : Woke(txWaiters, txWaiters', Len(txWaiters), W)
  BY Zenon, <1>1, <1>2, WritersWoken
<1>4. txWaiters' = << >>
  BY Zenon, <1>3 DEF Woke
<1>5. TypeOK'
  BY <1>1, <1>2, <1>3 DEF TypeOK, Woke
<1>6. RingExact' /\ Dormant' /\ TransmitterArmed' /\ TodoExact'
  BY <1>1, <1>2 DEF RingExact, Wrap, Dormant, TransmitterArmed, TodoExact, Writing
<1>7. WaitersExact'
  BY Zenon, <1>1, <1>3 DEF WaitersExact, Writing, Woke
<1>8. NoneStranded'
  <2>1. WokenReaders' \in SUBSET Task
    BY DEF WokenReaders
  <2>2. Cardinality(WokenReaders') \in Nat
    BY Zenon, <2>1, CountTasks
  <2> QED BY <2>2, <1>1, <1>4 DEF NoneStranded
<1> QED BY Zenon, <1>5, <1>6, <1>7, <1>8

(* queue_create and queue_delete: no task is in a call, so no task is blocked. *)
LEMMA CreateDeleteInv ==
    ASSUME IInv, QueueCreate \/ QueueDelete
    PROVE  IInv'
<1> USE DEF IInv
<1>1. /\ \A t \in Task : pc[t] = "run"
      /\ count' = 0 /\ rxWaiters' = << >> /\ txWaiters' = << >> /\ callback' = FALSE
      /\ UNCHANGED <<state, pc, buffer, txie, todo, last>>
  BY DEF QueueCreate, QueueDelete, Dormant
<1>2. Capacity \in Nat \ {0} /\ 0 \in Index
  BY QueueAssumption DEF Index
<1>3. count' \in 0..Capacity /\ rxWaiters' \in Seq(Task) /\ txWaiters' \in Seq(Task)
  BY <1>1, <1>2
<1>4. callback' \in BOOLEAN
  BY Zenon, <1>1
<1>5. CASE QueueCreate
  <2>1. head' = 0 /\ tail' = 0 /\ alive' = TRUE
    BY <1>5 DEF QueueCreate
  <2>2. TypeOK'
    <3>1. alive' \in BOOLEAN
      BY <2>1
    <3>2. head' \in Index /\ tail' \in Index
      BY Zenon, <2>1, <1>2
    <3> QED BY <3>1, <3>2, <1>1, <1>3, <1>4, Zenon DEF TypeOK
  <2>3. RingExact'
    BY <2>1, <1>1, <1>2 DEF RingExact, Wrap
  <2> QED BY <2>2, <2>3, <1>1, EmptyFacts
          DEF Dormant, TransmitterArmed, TodoExact, Writing, WaitersExact, NoneStranded
<1>6. CASE QueueDelete
  <2>1. UNCHANGED <<head, tail>> /\ alive' = FALSE
    BY <1>6 DEF QueueDelete
  <2>2. TypeOK'
    <3>1. alive' \in BOOLEAN
      BY Zenon, <2>1
    <3> QED BY <3>1, <2>1, <1>1, <1>3, <1>4, Zenon DEF TypeOK
  <2>3. RingExact'
    BY <2>1 DEF RingExact
  <2> QED BY <2>2, <2>3, <1>1, EmptyFacts
          DEF Dormant, TransmitterArmed, TodoExact, Writing, WaitersExact, NoneStranded
<1> QED BY Zenon, <1>5, <1>6

(* Every step of Queue keeps the invariant. *)
LEMMA NextInv == IInv /\ [Next]_vars => IInv'
<1> SUFFICES ASSUME IInv, [Next]_vars PROVE IInv'
  BY Zenon
<1>1. ASSUME NEW t \in Task, QueuePush(t) \/ QueuePushArr(t) PROVE IInv'
  BY Zenon, <1>1, PushBlockedInv, PushChunkInv DEF QueuePush, QueuePushArr, Writing
<1>2. ASSUME UNCHANGED <<state, pc, alive, ring, waiters, todo>>, TransmitterArmed',
             callback' \in BOOLEAN, txie' \in BOOLEAN, last' \in Item
      PROVE  IInv'
  <2>1. TypeOK'
    BY <1>2, Zenon DEF IInv, TypeOK, ring, waiters
  <2>2. RingExact' /\ TodoExact' /\ Dormant' /\ WaitersExact' /\ NoneStranded'
    BY <1>2 DEF IInv, RingExact, Wrap, TodoExact, Dormant, WaitersExact, NoneStranded,
                WokenReaders, AwakeWriters, Writing, ring, waiters
  <2> QED BY Zenon, <2>1, <2>2, <1>2 DEF IInv
<1>3. CASE UNCHANGED vars
  BY <1>2, <1>3, Zenon DEF IInv, TypeOK, TransmitterArmed, vars, ring
<1>4. CASE QueuePeek
  <2>1. last' \in Item
    BY <1>4 DEF QueuePeek, IInv, TypeOK
  <2> QED BY <2>1, <1>2, <1>4, Zenon DEF QueuePeek, IInv, TypeOK, TransmitterArmed, ring
<1>5. CASE QueueSetPushCallback
  <2>1. TransmitterArmed'
    BY <1>5 DEF QueueSetPushCallback, TransmitterArmed, ring
  <2>2. callback' \in BOOLEAN
    BY Zenon, <1>5 DEF QueueSetPushCallback
  <2> QED BY <2>1, <2>2, <1>2, <1>5, Zenon DEF QueueSetPushCallback, IInv, TypeOK
<1>6. CASE UartTransmitIrq
  <2>1. CASE QueuePopFromIsr
    BY <2>1, PopFromIsrInv
  <2>2. CASE /\ count = 0 /\ txie' = FALSE
             /\ UNCHANGED <<state, pc, alive, ring, waiters, callback, todo, last>>
    <3>1. TransmitterArmed'
      BY <2>2 DEF TransmitterArmed, ring
    <3>2. txie' \in BOOLEAN
      BY Zenon, <2>2
    <3> QED BY <3>1, <3>2, <2>2, <1>2, Zenon DEF IInv, TypeOK
  <2> QED BY Zenon, <2>1, <2>2, <1>6 DEF UartTransmitIrq
<1> QED BY <1>1, <1>3, <1>4, <1>5, <1>6, PushCallInv, PopInv, PushFromIsrInv, PopFromIsrInv,
           ResetInv, CreateDeleteInv DEF Next

(* The invariant holds of every behaviour. *)
LEMMA Invariance == Spec => []IInv
  BY InitInv, NextInv, PTL DEF Spec

(* The wait lists of queue.c hold exactly the tasks blocked in a pop or in  *)
(* a push, each once.                                                      *)
THEOREM WaitListsCorrect == Spec => []WaitersExact
<1>1. IInv => WaitersExact
  BY DEF IInv
<1> QED BY <1>1, Invariance, PTL

(* For every capacity and any number of tasks: no reader sleeps on an item  *)
(* and no writer on a free slot that nobody is on the way to take, though   *)
(* queue_push_arr adds several items at once.                              *)
THEOREM NobodyStranded == Spec => []NoneStranded
<1>1. IInv => NoneStranded
  BY DEF IInv
<1> QED BY <1>1, Invariance, PTL

(* The transmit interrupt is on whenever an attached queue holds items.     *)
THEOREM TransmitterStaysArmed == Spec => []TransmitterArmed
<1>1. IInv => TransmitterArmed
  BY DEF IInv
<1> QED BY <1>1, Invariance, PTL

------------------------------------------------------------------------------
(* Queue implements Fifo *)

(* The initial contents are empty. *)
LEMMA InitRefines == Init => F!Init
<1> SUFFICES ASSUME Init PROVE F!Init
  OBVIOUS
<1>1. Contents = << >>
  BY DEF Init, Contents
<1>2. todo = [t \in Task |-> << >>] /\ last \in Item
  BY Zenon DEF Init
<1> QED BY Zenon, <1>1, <1>2 DEF F!Init

(* A chunk enters as a whole. *)
LEMMA PushChunkRefines ==
    ASSUME IInv, NEW t \in Task, Writing(t), PushChunk(t)
    PROVE  F!Enter(t)
<1> DEFINE n == Min2(Capacity - count, Len(todo[t]))
           s == SubSeq(todo[t], 1, n)
           r == SubSeq(todo[t], n + 1, Len(todo[t]))
<1>1. count < Capacity /\ WriteChunk(s) /\ UNCHANGED <<head, last>>
  BY Zenon DEF PushChunk
<1>2. IsChunk(t, n, s)
  <2>1. IsCut(todo[t], n, s, r) /\ n = Min2(Capacity - count, Len(todo[t]))
    BY DEF IsCut
  <2>2. count < Capacity
    BY <1>1
  <2> HIDE DEF n, s, r
  <2> QED BY Zenon, <2>1, <2>2, ChunkFacts
<1>3. Contents' = Contents \o s
  <2>1. alive
    BY Zenon DEF IInv, Dormant, Writing
  <2> HIDE DEF s, n
  <2> QED BY <2>1, <1>1, <1>2, WriteChunkFacts DEF IsChunk, IInv
<1>4. Len(Contents) = count
  BY ContentsFacts DEF IInv
<1>5. F!Least(F!Space, Len(todo[t])) = n
  BY Zenon, <1>4 DEF F!Least, F!Space, Min2
<1>6. n > 0
  BY <1>2 DEF IsChunk
<1>7. todo' = [todo EXCEPT ![t] = SubSeq(todo[t], n + 1, Len(todo[t]))]
  BY Zenon DEF PushChunk
<1> HIDE DEF n
<1> QED BY Zenon, <1>1, <1>3, <1>5, <1>6, <1>7 DEF F!Enter

(* The contents depend on the ring only. *)
LEMMA SameContents ==
    ASSUME UNCHANGED ring
    PROVE  Contents' = Contents
  BY DEF ring, Contents, Wrap

(* Taking an item. *)
LEMMA TakeItemRefines ==
    ASSUME IInv, TakeItem, UNCHANGED <<buffer, tail, todo>>
    PROVE  F!Leave
<1>1. alive
  BY DEF IInv, Dormant, TakeItem
<1>2. Contents # << >> /\ last' = Head(Contents) /\ Contents' = Tail(Contents)
  BY Zenon, <1>1, TakeFacts DEF TakeItem, IInv
<1> QED BY Zenon, <1>2 DEF F!Leave

(* queue_push_from_isr enters one item. *)
LEMMA PushFromIsrRefines ==
    ASSUME IInv, QueuePushFromIsr
    PROVE  F!EnterOne
<1>1. PICK x \in Item : WriteChunk(<<x>>)
  BY DEF QueuePushFromIsr
<1>2. alive /\ count < Capacity /\ UNCHANGED <<head, todo, last>>
  BY Zenon DEF QueuePushFromIsr
<1>3. count \in Nat /\ Capacity \in Nat
  BY QueueAssumption DEF IInv, TypeOK
<1>4. <<x>> \in Seq(Item) /\ Len(<<x>>) = 1 /\ 1 <= Capacity - count
  BY <1>2, <1>3
<1>5. Contents' = Contents \o <<x>>
  BY Zenon, <1>1, <1>2, <1>4, WriteChunkFacts DEF IInv
<1>6. Contents \in Seq(Item) /\ Len(Contents) = count
  BY ContentsFacts DEF IInv
<1>7. Contents \o <<x>> = Append(Contents, x)
  BY <1>6
<1>8. F!Space > 0
  BY <1>2, <1>3, <1>6 DEF F!Space
<1> QED BY Zenon, <1>2, <1>5, <1>7, <1>8 DEF F!EnterOne

(* queue_peek looks at the oldest item. *)
LEMMA PeekRefines ==
    ASSUME IInv, QueuePeek
    PROVE  F!Look
<1>1. count > 0 /\ last' = buffer[head] /\ UNCHANGED <<ring, todo>>
  BY Zenon DEF QueuePeek
<1>2. /\ Contents \in Seq(Item) /\ Len(Contents) = count
      /\ \A i \in 1..count : Contents[i] = buffer[Wrap(head + i - 1)]
  BY Zenon, ContentsFacts DEF IInv
<1>3. count \in Nat /\ head \in Nat /\ head < Capacity /\ 1 \in 1..count
  BY <1>1, QueueAssumption DEF IInv, TypeOK, Index
<1>4. Wrap(head + 1 - 1) = head
  BY <1>3 DEF Wrap
<1>5. Contents[1] = buffer[head]
  BY Zenon, <1>2, <1>3, <1>4
<1>6. Contents # << >> /\ Head(Contents) = Contents[1]
  BY <1>1, <1>2, <1>3
<1>7. Contents' = Contents
  BY Zenon, <1>1, SameContents
<1> QED BY <1>1, <1>5, <1>6, <1>7 DEF F!Look

(* queue_reset, queue_create and queue_delete leave the queue empty. *)
LEMMA ClearRefines ==
    ASSUME QueueReset \/ QueueCreate \/ QueueDelete
    PROVE  F!Clear
<1>1. count' = 0 /\ UNCHANGED <<todo, last>>
  BY DEF QueueReset, QueueCreate, QueueDelete
<1>2. Contents' = << >>
  BY <1>1 DEF Contents
<1> QED BY Zenon, <1>1, <1>2 DEF F!Clear

(* Entering a push. *)
LEMMA PushCallRefines ==
    ASSUME IInv, NEW t \in Task, PushCall(t)
    PROVE  F!Request(t)
<1>1. todo[t] = << >>
  BY DEF PushCall, IInv, TodoExact, Writing
<1>2. \E s \in Arrays : todo' = [todo EXCEPT ![t] = s]
  BY Zenon DEF PushCall
<1>3. Contents' = Contents /\ last' = last
  BY SameContents DEF PushCall
<1> QED BY Zenon, <1>1, <1>2, <1>3 DEF F!Request

(* Every step of Queue is a step of Fifo or changes nothing of it. *)
LEMMA NextRefines == IInv /\ [Next]_vars => [F!Next]_(F!fifoVars)
<1> SUFFICES ASSUME IInv, [Next]_vars PROVE F!Next \/ UNCHANGED F!fifoVars
  OBVIOUS
<1>1. ASSUME UNCHANGED <<ring, todo, last>> PROVE UNCHANGED F!fifoVars
  BY Zenon, <1>1, SameContents DEF F!fifoVars
<1>2. ASSUME NEW t \in Task, PushCall(t) PROVE F!Next
  BY Zenon, <1>2, PushCallRefines DEF F!Next
<1>3. ASSUME NEW t \in Task, QueuePush(t) \/ QueuePushArr(t)
      PROVE  F!Next \/ UNCHANGED F!fifoVars
  <2>1. Writing(t) /\ (PushBlocked(t) \/ PushChunk(t))
    BY Zenon, <1>3 DEF QueuePush, QueuePushArr, Writing
  <2>2. CASE PushBlocked(t)
    BY Zenon, <2>2, <1>1 DEF PushBlocked
  <2>3. CASE PushChunk(t)
    BY Zenon, <2>1, <2>3, PushChunkRefines DEF F!Next
  <2> QED BY Zenon, <2>1, <2>2, <2>3
<1>4. ASSUME NEW t \in Task, QueuePop(t) PROVE F!Next \/ UNCHANGED F!fifoVars
  <2>1. CASE TakeItem
    BY Zenon, <2>1, <1>4, TakeItemRefines DEF QueuePop, F!Next
  <2>2. CASE ~TakeItem
    BY Zenon, <2>2, <1>1, <1>4 DEF QueuePop, ring
  <2> QED BY Zenon, <2>1, <2>2
<1>5. ASSUME QueuePopFromIsr PROVE F!Next
  BY Zenon, <1>5, TakeItemRefines DEF QueuePopFromIsr, F!Next
<1>6. ASSUME UartTransmitIrq PROVE F!Next \/ UNCHANGED F!fifoVars
  BY Zenon, <1>1, <1>5, <1>6 DEF UartTransmitIrq
<1>7. ASSUME QueueSetPushCallback PROVE UNCHANGED F!fifoVars
  BY <1>1, <1>7 DEF QueueSetPushCallback
<1>8. ASSUME UNCHANGED vars PROVE UNCHANGED F!fifoVars
  BY <1>1, <1>8 DEF vars
<1>9. QueuePushFromIsr \/ QueuePeek \/ QueueReset \/ QueueCreate \/ QueueDelete => F!Next
  BY PushFromIsrRefines, PeekRefines, ClearRefines DEF F!Next
<1> QED BY <1>2, <1>3, <1>4, <1>5, <1>6, <1>7, <1>8, <1>9 DEF Next

(* queue.c is a FIFO queue: for every capacity, any items, arrays of any    *)
(* length and any number of tasks and interrupts, the ring buffer loses,   *)
(* doubles, alters and reorders nothing.                                   *)
THEOREM QueueIsFifo == Spec => ImplementsFifo
<1>1. Spec => F!Init
  BY InitRefines DEF Spec
<1>2. Spec => [][F!Next]_(F!fifoVars)
  BY Invariance, NextRefines, PTL DEF Spec
<1> QED BY <1>1, <1>2, PTL DEF ImplementsFifo, F!Spec
==============================================================================
