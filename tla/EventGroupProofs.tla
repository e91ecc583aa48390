-------------------------- MODULE EventGroupProofs ---------------------------
(***************************************************************************)
(* The wait list of an event group is exact, no waiter is overlooked and   *)
(* no event is slept over, for any tasks, bits and waits: on the condition *)
(* that nothing comes between the section that blocks the caller and       *)
(* task_sleep_ticks, and that no task polls with timeout 0.                *)
(***************************************************************************)
EXTENDS EventGroup, ListLemmas

\* The window between blocking and sleeping is closed, and every wait blocks.
Disciplined == WindowOpen = FALSE /\ \A w \in Waits : w.timeout # "zero"

\* A task about to sleep still runs and was not satisfied; while there is no
\* group no task is in a wait.
WindowClosed ==
  /\ \A t \in Task : pc[t] = "sleep" => curr = t /\ satisfied[t] = FALSE
  /\ alive = FALSE => \A t \in Task : pc[t] = "run"

EventInv == TypeOK /\ LinkedExact /\ NoneOverlooked /\ SatisfiedAwake /\ WindowClosed

------------------------------------------------------------------------------
(* The walk *)

(* Fewer bits satisfy no more waits: a waiter that one round of            *)
(* _check_and_wake_tasks passed over is not satisfied by the bits that     *)
(* later rounds leave.                                                     *)
LEMMA FewerBits ==
    ASSUME NEW b, NEW c, b \subseteq c, NEW w, Satisfied(b, w)
    PROVE  Satisfied(c, w)
<1>1. CASE w.all
  BY <1>1 DEF Satisfied
<1>2. CASE ~w.all
  BY <1>2 DEF Satisfied
<1> QED BY <1>1, <1>2

(* Clearing on exit takes bits away and adds none. *)
LEMMA AfterFacts ==
    ASSUME NEW b \in SUBSET Bit, NEW w
    PROVE  After(b, w) \in SUBSET Bit /\ After(b, w) \subseteq b
  BY DEF After

\* What the walk has established after it met the tasks of P.
Walked(acc, P) ==
  /\ acc.bits \in SUBSET Bit
  /\ acc.left \in Seq(Task) /\ IsInjective(acc.left)
  /\ acc.woken \in SUBSET Task
  /\ acc.event \in [Task -> SUBSET Bit]
  /\ Range(acc.left) \cup acc.woken = P
  /\ Range(acc.left) \cap acc.woken = {}
  /\ \A t \in Range(acc.left) : ~Satisfied(acc.bits, wait[t])

(* _add_waiter: a task that is not linked becomes the tail. *)
LEMMA AppendRange ==
    ASSUME NEW l \in Seq(Task), IsInjective(l), NEW t \in Task, t \notin Range(l)
    PROVE  LET q == Append(l, t)
           IN  q \in Seq(Task) /\ Range(q) = Range(l) \cup {t} /\ IsInjective(q)
<1> DEFINE q == Append(l, t)
<1>1. /\ q \in Seq(Task) /\ Len(q) = Len(l) + 1 /\ Len(l) \in Nat
      /\ DOMAIN q = 1..Len(q) /\ DOMAIN l = 1..Len(l)
      /\ \A i \in 1..Len(l) : q[i] = l[i]
      /\ q[Len(l) + 1] = t
  OBVIOUS
<1> HIDE DEF q
<1>2. \A i \in 1..Len(q) : i \in 1..Len(l) \/ i = Len(l) + 1
  BY <1>1
<1>3. Len(l) + 1 \in 1..Len(q) /\ \A i \in 1..Len(l) : i \in 1..Len(q)
  BY <1>1
<1>4. Range(q) = Range(l) \cup {t}
  BY <1>1, <1>2, <1>3 DEF Range
<1>5. \A i \in 1..Len(l) : l[i] # t
  BY <1>1 DEF Range
<1>6. IsInjective(q)
  BY <1>1, <1>2, <1>5 DEF IsInjective
<1> QED BY <1>1, <1>4, <1>6 DEF q

(* One round of _check_and_wake_tasks. *)
LEMMA WalkStepFacts ==
    ASSUME NEW acc, NEW P, Walked(acc, P), NEW t \in Task, t \notin P
    PROVE  Walked(WalkStep(acc, t), P \cup {t})
<1> DEFINE b == acc.bits
           l == acc.left
           k == acc.woken
           e == acc.event
           c == After(b, wait[t])
<1>1. /\ b \in SUBSET Bit
      /\ l \in Seq(Task) /\ IsInjective(l) /\ k \in SUBSET Task /\ e \in [Task -> SUBSET Bit]
      /\ Range(l) \cup k = P /\ Range(l) \cap k = {}
      /\ \A u \in Range(l) : ~Satisfied(b, wait[u])
  BY DEF Walked
<1>2. c \in SUBSET Bit /\ c \subseteq b
  BY <1>1, AfterFacts
<1>3. CASE Satisfied(b, wait[t])
  <2> DEFINE n == WalkStep(acc, t)
  <2>1. n = [bits |-> c, left |-> l, woken |-> k \cup {t}, event |-> [e EXCEPT ![t] = c]]
    BY <1>3 DEF WalkStep
  <2> HIDE DEF c
  <2>2. n.bits = c /\ n.left = l /\ n.woken = k \cup {t} /\ n.event = [e EXCEPT ![t] = c]
    BY <2>1
  <2>3. [e EXCEPT ![t] = c] \in [Task -> SUBSET Bit]
    BY <1>1, <1>2
  <2>4. \A u \in Range(l) : ~Satisfied(c, wait[u])
    BY <1>1, <1>2, FewerBits
  <2>5. Range(l) \cup (k \cup {t}) = P \cup {t} /\ Range(l) \cap (k \cup {t}) = {}
    BY <1>1
  <2> HIDE DEF n, b, l, k, e
  <2> QED BY <1>1, <1>2, <2>2, <2>3, <2>4, <2>5 DEF Walked, n
<1>4. CASE ~Satisfied(b, wait[t])
  <2> DEFINE n == WalkStep(acc, t)
             q == Append(l, t)
  <2>1. n = [acc EXCEPT !.left = q]
    BY <1>4 DEF WalkStep
  <2>2. n.bits = b /\ n.left = q /\ n.woken = k /\ n.event = e
    BY <2>1
  <2> HIDE DEF n, b, l, k, e
  <2>3. /\ q \in Seq(Task) /\ Range(q) = Range(l) \cup {t} /\ IsInjective(q)
    <3>1. t \notin Range(l)
      BY <1>1
    <3> QED BY <1>1, <3>1, AppendRange
  <2>4. \A u \in Range(q) : ~Satisfied(b, wait[u])
    BY <1>1, <1>4, <2>3
  <2>5. Range(q) \cup k = P \cup {t} /\ Range(q) \cap k = {}
    BY <1>1, <2>3
  <2> QED BY <1>1, <2>2, <2>3, <2>4, <2>5 DEF Walked, n
<1> QED BY <1>3, <1>4

(* The whole of _check_and_wake_tasks: the list is split into the tasks    *)
(* woken and the tasks left, and no task left is satisfied by the bits     *)
(* left.                                                                   *)
LEMMA WalkFacts ==
    ASSUME TypeOK, IsInjective(waitList), NEW b \in SUBSET Bit
    PROVE  Walked(Walk(b), Range(waitList))
<1> DEFINE n == Len(waitList)
           a == [bits |-> b, left |-> << >>, woken |-> {}, event |-> event]
           F(f, m) == [i \in 0..m |-> IF i = 0 THEN a ELSE WalkStep(f[i - 1], waitList[i])]
           walk == CHOOSE f : f = F(f, n)
           Seen(i) == {waitList[j] : j \in 1..i}
<1>1. Walk(b) = walk[n]
  BY DEF Walk
<1>2. /\ n \in Nat /\ \A i \in 1..n : waitList[i] \in Task
      /\ DOMAIN waitList = 1..n /\ event \in [Task -> SUBSET Bit]
  BY DEF TypeOK
<1> HIDE DEF n, a
<1>3. \E f : f = F(f, n)
  <2> SUFFICES ASSUME \A f : f # F(f, n) PROVE FALSE
    OBVIOUS
  <2> DEFINE T == {m \in Nat : \A f : f # F(f, m)}
  <2>1. T \in SUBSET Nat /\ T # {}
    BY SMTT(30), <1>2
  <2>2. PICK m \in T : \A x \in T : m <= x
    BY Zenon, <2>1, LeastElement
  <2>3. m \in Nat /\ \A f : f # F(f, m)
    BY <2>2
  <2>4. CASE m = 0
    <3> DEFINE f == [i \in 0..0 |-> a]
    <3>1. f = F(f, 0)
      OBVIOUS
    <3> QED BY Zenon, <2>3, <2>4, <3>1
  <2>5. CASE m # 0
    <3> DEFINE k == m - 1
    <3>1. k \in Nat /\ m = k + 1 /\ ~(m <= k)
      BY <2>3, <2>5
    <3>2. k \notin T
      BY Zenon, <2>2, <3>1
    <3> HIDE DEF k
    <3>3. PICK f : f = F(f, k)
      BY <3>1, <3>2
    <3> DEFINE g == [i \in 0..m |-> IF i <= k THEN f[i] ELSE WalkStep(f[k], waitList[m])]
    <3>4. ASSUME NEW i \in 0..m
          PROVE  g[i] = IF i = 0 THEN a ELSE WalkStep(g[i - 1], waitList[i])
      <4>1. CASE i = 0
        BY <3>1, <3>3, <4>1
      <4>2. CASE i # 0 /\ i <= k
        <5>1. i \in 0..k /\ i - 1 \in 0..k /\ i - 1 \in 0..m /\ i - 1 <= k
          BY <3>1, <4>2
        <5>2. g[i] = f[i] /\ g[i - 1] = f[i - 1]
          BY <5>1, <4>2
        <5>3. f[i] = WalkStep(f[i - 1], waitList[i])
          BY <3>3, <4>2, <5>1
        <5> QED BY <4>2, <5>2, <5>3
      <4>3. CASE i = m
        <5>1. ~(i <= k) /\ i - 1 = k /\ k \in 0..m /\ k <= k /\ i # 0
          BY <3>1, <4>3
        <5>2. g[i] = WalkStep(f[k], waitList[m]) /\ g[k] = f[k]
          BY <5>1
        <5> QED BY <4>3, <5>1, <5>2
      <4> QED BY <3>1, <4>1, <4>2, <4>3
    <3>5. g = F(g, m)
      <4> DEFINE h == F(g, m)
      <4>1. \A i \in 0..m : g[i] = h[i]
        BY <3>4
      <4>2. g = [i \in 0..m |-> g[i]] /\ h = [i \in 0..m |-> h[i]]
        OBVIOUS
      <4> HIDE DEF g, h
      <4> QED BY Zenon, <4>1, <4>2 DEF h
    <3> QED BY Zenon, <2>3, <3>5
  <2> QED BY <2>4, <2>5
<1>4. walk = F(walk, n)
  BY <1>3, Zenon
<1> HIDE DEF walk
<1>5. walk[0] = a /\ \A i \in 1..n : walk[i] = WalkStep(walk[i - 1], waitList[i])
  <2>1. \A i \in 0..n : walk[i] = IF i = 0 THEN a ELSE WalkStep(walk[i - 1], waitList[i])
    BY Zenon, <1>4
  <2>2. 0 \in 0..n /\ \A i \in 1..n : i \in 0..n /\ i # 0
    BY <1>2
  <2> QED BY <2>1, <2>2
<1>6. Walked(walk[n], Seen(n))
  <2> SUFFICES ASSUME ~Walked(walk[n], Seen(n)) PROVE FALSE
    OBVIOUS
  <2> DEFINE T == {i \in 0..n : ~Walked(walk[i], Seen(i))}
  <2>1. T \in SUBSET Nat /\ n \in T
    BY <1>2
  <2>2. PICK i \in T : \A x \in T : i <= x
    BY Zenon, <2>1, LeastElement
  <2>3. i \in 0..n /\ ~Walked(walk[i], Seen(i))
    BY <2>2
  <2>4. CASE i = 0
    <3>1. Seen(0) = {} /\ << >> \in Seq(Task) /\ IsInjective(<< >>) /\ Range(<< >>) = {}
      BY DEF IsInjective, Range
    <3>2. a.bits = b /\ a.left = << >> /\ a.woken = {} /\ a.event = event
      BY DEF a
    <3>3. Walked(a, {})
      BY <1>2, <3>1, <3>2 DEF Walked
    <3> QED BY Zenon, <1>5, <2>3, <2>4, <3>1, <3>3
  <2>5. CASE i # 0
    <3> DEFINE k == i - 1
    <3>1. k \in 0..n /\ ~(i <= k) /\ i \in 1..n /\ i = k + 1
      BY <1>2, <2>3, <2>5
    <3>2. k \notin T
      BY Zenon, <2>2, <3>1
    <3>3. Walked(walk[k], Seen(k))
      BY <3>1, <3>2
    <3>4. waitList[i] \in Task /\ waitList[i] \notin Seen(k)
      <4>1. ASSUME NEW j \in 1..k PROVE waitList[j] # waitList[i]
        <5>1. j \in 1..n /\ j # i
          BY <1>2, <3>1
        <5> QED BY <1>2, <3>1, <5>1 DEF IsInjective
      <4> QED BY <1>2, <3>1, <4>1
    <3>5. Seen(i) = Seen(k) \cup {waitList[i]}
      <4>1. \A j : j \in 1..i <=> j \in 1..k \/ j = i
        BY <1>2, <3>1
      <4> QED BY <4>1
    <3> HIDE DEF Seen, k
    <3>6. Walked(WalkStep(walk[k], waitList[i]), Seen(k) \cup {waitList[i]})
      BY <3>3, <3>4, WalkStepFacts
    <3>7. walk[i] = WalkStep(walk[k], waitList[i])
      BY <1>5, <3>1 DEF k
    <3> QED BY <2>3, <3>5, <3>6, <3>7
  <2> QED BY <2>4, <2>5
<1>7. Seen(n) = Range(waitList)
  BY <1>2 DEF Range
<1> QED BY <1>1, <1>6, <1>7

------------------------------------------------------------------------------
(* The steps *)

(* The invariant holds before the group is created. *)
LEMMA EventInit == Init => EventInv
<1> SUFFICES ASSUME Init PROVE EventInv
  OBVIOUS
<1>1. waitList = << >> /\ Range(waitList) = {} /\ IsInjective(waitList) /\ waitList \in Seq(Task)
  BY DEF Init, Range, IsInjective
<1>2. \A t \in Task : pc[t] = "run"
  BY DEF Init
<1>3. TypeOK
  BY Zenon, <1>1 DEF Init, TypeOK
<1>4. LinkedExact /\ NoneOverlooked /\ SatisfiedAwake
  BY <1>1, <1>2 DEF LinkedExact, NoneOverlooked, SatisfiedAwake, InWait
<1>5. WindowClosed
  BY <1>2 DEF WindowClosed
<1> QED BY <1>3, <1>4, <1>5 DEF EventInv

(* schedule_next_task leaves every task of the heap and the running one    *)
(* READY or RUNNING if it was.                                             *)
LEMMA SwitchFacts ==
    ASSUME TypeOK, NEW next \in Task \cup {NULL}, SwitchTo(next)
    PROVE  /\ state' \in [Task -> {"READY", "RUNNING", "BLOCKED", "SLEEPING"}]
           /\ \A t \in Task : state[t] \in {"READY", "RUNNING"} => state'[t] \in {"READY", "RUNNING"}
           /\ curr' \in Task \cup {NULL} /\ heap' \subseteq Task /\ asleep' \subseteq Task
<1> DEFINE yields == curr # NULL /\ state[curr] = "RUNNING"
           ready == IF yields THEN heap \cup {curr} ELSE heap
           parked == IF yields THEN [state EXCEPT ![curr] = "READY"] ELSE state
<1>1. /\ curr' = next /\ heap' = ready \ {next} /\ asleep' = asleep
      /\ state' = [t \in Task |-> IF t = next THEN "RUNNING" ELSE parked[t]]
  BY DEF SwitchTo
<1>2. /\ state \in [Task -> {"READY", "RUNNING", "BLOCKED", "SLEEPING"}]
      /\ curr \in Task \cup {NULL} /\ heap \subseteq Task /\ asleep \subseteq Task
  BY DEF TypeOK
<1>3. ready \subseteq Task
  BY <1>2
<1>4. \A t \in Task : /\ parked[t] \in {"READY", "RUNNING", "BLOCKED", "SLEEPING"}
                      /\ state[t] \in {"READY", "RUNNING"} => parked[t] \in {"READY", "RUNNING"}
  BY <1>2
<1> HIDE DEF ready, parked
<1> QED BY <1>1, <1>2, <1>3, <1>4

(* The preempting tick, unless the caller is between blocking and sleeping. *)
LEMMA PreemptStep ==
    ASSUME EventInv, Disciplined, NEW next \in Task \cup {NULL}, Preempt(next)
    PROVE  EventInv'
<1>1. SwitchTo(next) /\ UNCHANGED <<group, request, pc>> /\ Undisturbed
  BY DEF Preempt
<1>2. TypeOK
  BY DEF EventInv
<1>3. /\ state' \in [Task -> {"READY", "RUNNING", "BLOCKED", "SLEEPING"}]
      /\ \A t \in Task : state[t] \in {"READY", "RUNNING"} => state'[t] \in {"READY", "RUNNING"}
      /\ curr' \in Task \cup {NULL} /\ heap' \subseteq Task /\ asleep' \subseteq Task
  BY <1>1, <1>2, SwitchFacts
<1>4. TypeOK'
  BY <1>1, <1>2, <1>3 DEF TypeOK, group, request
<1>5. LinkedExact' /\ NoneOverlooked'
  BY <1>1 DEF EventInv, LinkedExact, NoneOverlooked, InWait, group, request
<1>6. SatisfiedAwake'
  BY <1>1, <1>3 DEF EventInv, SatisfiedAwake, InWait, request
<1>7. \A t \in Task : pc[t] # "sleep"
  BY <1>1, EventGroupAssumption DEF EventInv, WindowClosed, Undisturbed, Disciplined
<1>8. WindowClosed'
  BY <1>1, <1>7 DEF EventInv, WindowClosed, group, request
<1> QED BY <1>4, <1>5, <1>6, <1>8 DEF EventInv

(* The tick that ends a sleep: the task becomes READY and stays linked     *)
(* until it runs.                                                          *)
LEMMA TimeoutStep ==
    ASSUME EventInv, NEW t \in Task, Timeout(t)
    PROVE  EventInv'
<1>1. /\ asleep' = asleep \ {t} /\ state' = [state EXCEPT ![t] = "READY"] /\ heap' = heap \cup {t}
      /\ UNCHANGED <<group, request, pc, curr>>
  BY DEF Timeout
<1>2. TypeOK'
  BY <1>1 DEF EventInv, TypeOK, group, request
<1>3. LinkedExact' /\ NoneOverlooked'
  BY <1>1 DEF EventInv, LinkedExact, NoneOverlooked, InWait, group, request
<1>4. SatisfiedAwake'
  BY <1>1 DEF EventInv, SatisfiedAwake, InWait, request, TypeOK
<1>5. WindowClosed'
  BY <1>1 DEF EventInv, WindowClosed, group, request
<1> QED BY <1>2, <1>3, <1>4, <1>5 DEF EventInv

(* event_group_set_bits: every waiter the new bits satisfy is unlinked,    *)
(* marked satisfied and woken, in whichever state it is.                   *)
LEMMA SetBitsStep ==
    ASSUME EventInv, Disciplined, NEW S \in SUBSET Bit, SetBits(S)
    PROVE  EventInv'
<1> DEFINE d == Walk(bits \cup S)
<1>1. /\ alive /\ Undisturbed /\ UNCHANGED <<alive, wait, pc>>
      /\ bits' = d.bits /\ waitList' = d.left /\ event' = d.event
      /\ satisfied' = [t \in Task |-> satisfied[t] \/ t \in d.woken]
      /\ Unblock(d.woken)
  BY DEF SetBits, CheckAndWakeTasks
<1>2. TypeOK /\ IsInjective(waitList) /\ bits \cup S \in SUBSET Bit
  BY DEF EventInv, LinkedExact, TypeOK
<1>3. Walked(d, Range(waitList))
  BY <1>2, WalkFacts
<1> HIDE DEF d
<1>4. /\ bits' \in SUBSET Bit /\ waitList' \in Seq(Task) /\ IsInjective(waitList')
      /\ d.woken \in SUBSET Task /\ event' \in [Task -> SUBSET Bit]
      /\ Range(waitList') \cup d.woken = Range(waitList)
      /\ Range(waitList') \cap d.woken = {}
      /\ \A t \in Range(waitList') : ~Satisfied(bits', wait[t])
  BY <1>1, <1>3 DEF Walked
<1> DEFINE k == d.woken
<1>5. /\ \A t \in Task : t \in k => state'[t] \in {"READY", "RUNNING"}
      /\ \A t \in Task : t \notin k => state'[t] = state[t]
      /\ state' \in [Task -> {"READY", "RUNNING", "BLOCKED", "SLEEPING"}]
      /\ heap' \subseteq Task /\ asleep' \subseteq Task /\ curr' = curr
  BY <1>1, <1>2, <1>4 DEF Unblock, TypeOK
<1>6. /\ satisfied' \in [Task -> BOOLEAN]
      /\ \A t \in Task : t \in k => satisfied'[t] = TRUE
      /\ \A t \in Task : t \notin k => satisfied'[t] = satisfied[t]
  <2>1. satisfied \in [Task -> BOOLEAN]
    BY <1>2 DEF TypeOK
  <2> QED BY Zenon, <1>1, <2>1
<1> HIDE DEF k
<1>7. TypeOK'
  BY <1>1, <1>2, <1>4, <1>5, <1>6 DEF TypeOK
<1>8. \A t \in Task : t \in Range(waitList) <=> InWait(t) /\ ~satisfied[t]
  BY DEF EventInv, LinkedExact
<1>9. LinkedExact'
  <2>1. \A t \in Task : t \in Range(waitList') <=> t \in Range(waitList) /\ t \notin k
    BY <1>4 DEF k
  <2>2. \A t \in Task : InWait(t)' <=> InWait(t)
    BY <1>1 DEF InWait
  <2>3. \A t \in Task : t \in Range(waitList') <=> InWait(t)' /\ ~satisfied'[t]
    BY <1>6, <1>8, <2>1, <2>2
  <2> QED BY <1>4, <2>3 DEF LinkedExact
<1>10. NoneOverlooked'
  BY <1>1, <1>4 DEF NoneOverlooked
<1>11. SatisfiedAwake'
  <2>1. \A t \in Task : InWait(t) /\ satisfied[t] => state[t] \in {"READY", "RUNNING"}
    BY DEF EventInv, SatisfiedAwake
  <2>2. \A t \in Task : InWait(t)' <=> InWait(t)
    BY <1>1 DEF InWait
  <2> QED BY <1>5, <1>6, <2>1, <2>2 DEF SatisfiedAwake
<1>12. \A t \in Task : pc[t] # "sleep"
  BY <1>1, EventGroupAssumption DEF EventInv, WindowClosed, Undisturbed, Disciplined
<1>13. WindowClosed'
  BY <1>1, <1>12 DEF EventInv, WindowClosed
<1> QED BY <1>7, <1>9, <1>10, <1>11, <1>13 DEF EventInv

(* event_group_clear_bits satisfies no one. *)
LEMMA ClearBitsStep ==
    ASSUME EventInv, NEW S \in SUBSET Bit, ClearBits(S)
    PROVE  EventInv'
<1>1. bits' = bits \ S /\ UNCHANGED <<alive, waitList, request, pc, sched>>
  BY DEF ClearBits
<1>2. TypeOK'
  BY <1>1 DEF EventInv, TypeOK, request, sched
<1>3. bits' \subseteq bits
  BY <1>1
<1>4. NoneOverlooked'
  BY <1>1, <1>3, FewerBits DEF EventInv, NoneOverlooked, request
<1>5. LinkedExact' /\ SatisfiedAwake' /\ WindowClosed'
  BY <1>1 DEF EventInv, LinkedExact, SatisfiedAwake, WindowClosed, InWait, request, sched
<1> QED BY <1>2, <1>4, <1>5 DEF EventInv

(* The first section of event_group_wait_bits, the bits being there. *)
LEMMA WaitSatisfiedStep ==
    ASSUME EventInv, NEW t \in Task, NEW w \in Waits, WaitBits(t, w), WaitSatisfied(t, w)
    PROVE  EventInv'
<1>1. /\ alive /\ curr = t /\ pc[t] = "run"
      /\ wait' = [wait EXCEPT ![t] = w] /\ satisfied' = [satisfied EXCEPT ![t] = FALSE]
      /\ event' = [event EXCEPT ![t] = w.bits]
      /\ UNCHANGED <<alive, curr, heap, asleep>>
      /\ bits' = After(bits, w) /\ UNCHANGED <<waitList, pc, state>>
  BY DEF WaitBits, WaitSatisfied, Running
<1>2. TypeOK
  BY DEF EventInv
<1>3. bits' \in SUBSET Bit /\ bits' \subseteq bits
  BY <1>1, <1>2, AfterFacts DEF TypeOK
<1>4. TypeOK'
  BY <1>1, <1>2, <1>3, EventGroupAssumption DEF TypeOK
<1>5. t \notin Range(waitList)
  BY <1>1 DEF EventInv, LinkedExact, InWait
<1>6. /\ \A u \in Task : u # t => wait'[u] = wait[u] /\ satisfied'[u] = satisfied[u]
      /\ satisfied'[t] = FALSE
  BY <1>1, <1>2 DEF TypeOK
<1>7. LinkedExact'
  BY <1>1, <1>6 DEF EventInv, LinkedExact, InWait
<1>8. NoneOverlooked'
  BY <1>1, <1>3, <1>5, <1>6, FewerBits DEF EventInv, NoneOverlooked
<1>9. SatisfiedAwake'
  BY <1>1, <1>6 DEF EventInv, SatisfiedAwake, InWait
<1>10. WindowClosed'
  BY <1>1, <1>6 DEF EventInv, WindowClosed
<1> QED BY <1>4, <1>7, <1>8, <1>9, <1>10 DEF EventInv

(* The first section of event_group_wait_bits, the bits missing: the       *)
(* caller becomes the tail of the list.                                    *)
LEMMA WaitMissedStep ==
    ASSUME EventInv, Disciplined, NEW t \in Task, NEW w \in Waits, WaitBits(t, w), WaitMissed(t, w)
    PROVE  EventInv'
<1>1. /\ alive /\ curr = t /\ pc[t] = "run"
      /\ wait' = [wait EXCEPT ![t] = w] /\ satisfied' = [satisfied EXCEPT ![t] = FALSE]
      /\ event' = [event EXCEPT ![t] = w.bits]
      /\ UNCHANGED <<alive, curr, heap, asleep, bits>>
      /\ ~Satisfied(bits, w)
      /\ waitList' = AddWaiter(waitList, t)
  BY DEF WaitBits, WaitMissed, Running
<1>2. /\ state' = [state EXCEPT ![t] = "BLOCKED"]
      /\ pc' = [pc EXCEPT ![t] = IF w.timeout = "ticks" THEN "sleep" ELSE "yield"]
  BY DEF WaitMissed, Disciplined
<1>3. TypeOK /\ IsInjective(waitList) /\ waitList \in Seq(Task)
  BY DEF EventInv, LinkedExact, TypeOK
<1>4. t \notin Range(waitList)
  BY <1>1 DEF EventInv, LinkedExact, InWait
<1>5. waitList' \in Seq(Task) /\ Range(waitList') = Range(waitList) \cup {t} /\ IsInjective(waitList')
  <2>1. waitList' = Append(waitList, t)
    BY <1>1, <1>4 DEF AddWaiter
  <2> QED BY <1>3, <1>4, <2>1, AppendRange
<1>6. TypeOK'
  BY <1>1, <1>2, <1>3, <1>5, EventGroupAssumption DEF TypeOK
<1>7. /\ \A u \in Task : u # t => /\ wait'[u] = wait[u] /\ satisfied'[u] = satisfied[u]
                                  /\ pc'[u] = pc[u] /\ state'[u] = state[u]
      /\ satisfied'[t] = FALSE /\ wait'[t] = w /\ pc'[t] \in {"sleep", "yield"}
  BY <1>1, <1>2, <1>3 DEF TypeOK
<1>8. LinkedExact'
  BY <1>5, <1>7 DEF EventInv, LinkedExact, InWait
<1>9. NoneOverlooked'
  BY <1>1, <1>5, <1>7 DEF EventInv, NoneOverlooked
<1>10. SatisfiedAwake'
  BY SMTT(30), <1>7 DEF EventInv, SatisfiedAwake, InWait
<1>11. WindowClosed'
  BY <1>1, <1>7 DEF EventInv, WindowClosed
<1> QED BY <1>6, <1>8, <1>9, <1>10, <1>11 DEF EventInv

(* task_sleep_ticks, on a caller that no event has reached yet. *)
LEMMA SleepTicksStep ==
    ASSUME EventInv, NEW t \in Task, SleepTicks(t)
    PROVE  EventInv'
<1>1. /\ pc[t] = "sleep" /\ state' = [state EXCEPT ![t] = "SLEEPING"] /\ asleep' = asleep \cup {t}
      /\ pc' = [pc EXCEPT ![t] = "yield"] /\ UNCHANGED <<group, request, curr, heap>>
  BY DEF SleepTicks, Running
<1>2. TypeOK' /\ TypeOK
  BY <1>1 DEF EventInv, TypeOK, group, request
<1>3. satisfied[t] = FALSE /\ satisfied' = satisfied /\ waitList' = waitList /\ wait' = wait /\ bits' = bits
      /\ alive' = alive
  BY <1>1 DEF EventInv, WindowClosed, group, request
<1>4. /\ \A u \in Task : u # t => pc'[u] = pc[u] /\ state'[u] = state[u]
      /\ pc'[t] = "yield"
  BY SMTT(30), <1>1, <1>2 DEF TypeOK
<1>5. LinkedExact' /\ NoneOverlooked'
  BY <1>1, <1>3, <1>4 DEF EventInv, LinkedExact, NoneOverlooked, InWait
<1>6. SatisfiedAwake'
  BY <1>3, <1>4 DEF EventInv, SatisfiedAwake, InWait
<1>7. WindowClosed'
  BY <1>1, <1>3, <1>4 DEF EventInv, WindowClosed
<1> QED BY <1>2, <1>5, <1>6, <1>7 DEF EventInv

(* platform_yield. *)
LEMMA YieldStep ==
    ASSUME EventInv, NEW t \in Task, NEW next \in Task \cup {NULL}, Yield(t, next)
    PROVE  EventInv'
<1>1. /\ curr = t /\ pc[t] = "yield" /\ pc' = [pc EXCEPT ![t] = "woke"]
      /\ SwitchTo(next) /\ UNCHANGED <<group, request>>
  BY DEF Yield, Running
<1>2. TypeOK
  BY DEF EventInv
<1>3. /\ state' \in [Task -> {"READY", "RUNNING", "BLOCKED", "SLEEPING"}]
      /\ \A u \in Task : state[u] \in {"READY", "RUNNING"} => state'[u] \in {"READY", "RUNNING"}
      /\ curr' \in Task \cup {NULL} /\ heap' \subseteq Task /\ asleep' \subseteq Task
  BY <1>1, <1>2, SwitchFacts
<1>4. TypeOK'
  BY <1>1, <1>2, <1>3 DEF TypeOK, group, request
<1>5. \A u \in Task : u # t => pc'[u] = pc[u]
  BY <1>1, <1>2 DEF TypeOK
<1>6. pc'[t] = "woke"
  BY <1>1, <1>2 DEF TypeOK
<1>7. LinkedExact' /\ NoneOverlooked'
  BY <1>1, <1>5, <1>6 DEF EventInv, LinkedExact, NoneOverlooked, InWait, group, request
<1>8. SatisfiedAwake'
  BY <1>1, <1>3, <1>5, <1>6 DEF EventInv, SatisfiedAwake, InWait, request
<1>9. \A u \in Task : pc[u] # "sleep"
  BY <1>1 DEF EventInv, WindowClosed
<1>10. WindowClosed'
  BY <1>1, <1>5, <1>6, <1>9 DEF EventInv, WindowClosed, group, request
<1> QED BY <1>4, <1>7, <1>8, <1>10 DEF EventInv

(* _remove_waiter. *)
LEMMA RemoveWaiterFacts ==
    ASSUME NEW l \in Seq(Task), IsInjective(l), NEW t
    PROVE  LET r == RemoveWaiter(l, t)
           IN  r \in Seq(Task) /\ Range(r) = Range(l) \ {t} /\ IsInjective(r)
<1>1. CASE t \in Range(l)
  <2> DEFINE i == CHOOSE i \in 1..Len(l) : l[i] = t
  <2>1. \E j \in 1..Len(l) : l[j] = t
    BY <1>1 DEF Range
  <2>2. i \in 1..Len(l) /\ l[i] = t
    BY <2>1, Zenon
  <2>3. RemoveWaiter(l, t) = Unlinked(l, i)
    BY <1>1, Zenon DEF RemoveWaiter
  <2> HIDE DEF i
  <2> QED BY <2>2, <2>3, RemoveFacts
<1>2. CASE t \notin Range(l)
  BY <1>2 DEF RemoveWaiter
<1> QED BY <1>1, <1>2

(* The last section of event_group_wait_bits: after a timeout the caller   *)
(* takes itself off the list.                                              *)
LEMMA WokeStep ==
    ASSUME EventInv, NEW t \in Task, Woke(t)
    PROVE  EventInv'
<1>1. /\ curr = t /\ pc[t] = "woke" /\ pc' = [pc EXCEPT ![t] = "run"]
      /\ waitList' = IF satisfied[t] THEN waitList ELSE RemoveWaiter(waitList, t)
      /\ UNCHANGED <<alive, bits, wait, satisfied, event, sched>>
  BY DEF Woke, Running
<1>2. TypeOK /\ waitList \in Seq(Task) /\ IsInjective(waitList)
  BY DEF EventInv, TypeOK, LinkedExact
<1>3. waitList' \in Seq(Task) /\ Range(waitList') = Range(waitList) \ {t} /\ IsInjective(waitList')
  <2>1. CASE satisfied[t]
    <3>1. t \notin Range(waitList)
      BY <2>1 DEF EventInv, LinkedExact
    <3> QED BY <1>1, <1>2, <2>1, <3>1
  <2>2. CASE ~satisfied[t]
    BY <1>1, <1>2, <2>2, RemoveWaiterFacts
  <2> QED BY <2>1, <2>2
<1>4. TypeOK'
  BY <1>1, <1>2, <1>3 DEF TypeOK, sched
<1>5. (\A u \in Task : u # t => pc'[u] = pc[u]) /\ pc'[t] = "run"
  BY <1>1, <1>2 DEF TypeOK
<1>6. LinkedExact'
  BY <1>1, <1>3, <1>5 DEF EventInv, LinkedExact, InWait
<1>7. NoneOverlooked'
  BY <1>1, <1>3 DEF EventInv, NoneOverlooked
<1>8. SatisfiedAwake'
  BY <1>1, <1>5 DEF EventInv, SatisfiedAwake, InWait, sched
<1>9. WindowClosed'
  BY <1>1, <1>5 DEF EventInv, WindowClosed, sched
<1> QED BY <1>4, <1>6, <1>7, <1>8, <1>9 DEF EventInv

(* event_group_create and event_group_delete, while no task waits. *)
LEMMA LifeStep == EventInv /\ (EventGroupCreate \/ EventGroupDelete) => EventInv'
<1> SUFFICES ASSUME EventInv, EventGroupCreate \/ EventGroupDelete PROVE EventInv'
  OBVIOUS
<1>1. CASE EventGroupCreate
  <2>1. /\ alive = FALSE /\ alive' = TRUE /\ bits' = {} /\ waitList' = << >>
        /\ UNCHANGED <<request, pc, sched>>
    BY <1>1 DEF EventGroupCreate, EventInv, TypeOK
  <2>2. Range(waitList') = {} /\ IsInjective(waitList') /\ waitList' \in Seq(Task)
    BY <2>1 DEF Range, IsInjective
  <2>3. \A t \in Task : pc[t] = "run"
    BY <2>1 DEF EventInv, WindowClosed
  <2>4. TypeOK'
    BY <2>1, <2>2 DEF EventInv, TypeOK, request, sched
  <2>5. LinkedExact' /\ NoneOverlooked' /\ SatisfiedAwake' /\ WindowClosed'
    BY <2>1, <2>2, <2>3 DEF LinkedExact, NoneOverlooked, SatisfiedAwake, WindowClosed, InWait
  <2> QED BY <2>4, <2>5 DEF EventInv
<1>2. CASE EventGroupDelete
  <2>1. /\ alive' = FALSE /\ UNCHANGED <<bits, waitList, request, pc, sched>>
        /\ \A t \in Task : pc[t] = "run"
    BY <1>2 DEF EventGroupDelete
  <2>2. TypeOK'
    BY Zenon, <2>1 DEF EventInv, TypeOK, request, sched
  <2>3. LinkedExact' /\ NoneOverlooked' /\ SatisfiedAwake' /\ WindowClosed'
    BY <2>1 DEF EventInv, LinkedExact, NoneOverlooked, SatisfiedAwake, WindowClosed, InWait, request, sched
  <2> QED BY <2>2, <2>3 DEF EventInv
<1> QED BY <1>1, <1>2

(* Every step of the event group keeps the invariant. *)
LEMMA EventNext == ASSUME Disciplined PROVE EventInv /\ [Next]_vars => EventInv'
<1> SUFFICES ASSUME EventInv, [Next]_vars PROVE EventInv'
  OBVIOUS
<1>1. ASSUME NEW next \in Task \cup {NULL}, Preempt(next) PROVE EventInv'
  BY <1>1, PreemptStep
<1>2. ASSUME NEW t \in Task, Timeout(t) PROVE EventInv'
  BY <1>2, TimeoutStep
<1>3. ASSUME NEW S \in SUBSET Bit, SetBits(S) PROVE EventInv'
  BY <1>3, SetBitsStep
<1>4. ASSUME NEW S \in SUBSET Bit, ClearBits(S) PROVE EventInv'
  BY <1>4, ClearBitsStep
<1>5. ASSUME NEW t \in Task, NEW w \in Waits, WaitBits(t, w) PROVE EventInv'
  <2>1. WaitSatisfied(t, w) \/ WaitMissed(t, w)
    BY <1>5 DEF WaitBits
  <2> QED BY <1>5, <2>1, WaitSatisfiedStep, WaitMissedStep
<1>6. ASSUME NEW t \in Task, SleepTicks(t) PROVE EventInv'
  BY <1>6, SleepTicksStep
<1>7. ASSUME NEW t \in Task, NEW next \in Task \cup {NULL}, Yield(t, next) PROVE EventInv'
  BY <1>7, YieldStep
<1>8. ASSUME NEW t \in Task, Woke(t) PROVE EventInv'
  BY <1>8, WokeStep
<1>9. CASE EventGroupCreate \/ EventGroupDelete
  BY <1>9, LifeStep
<1>10. CASE UNCHANGED vars
  BY <1>10 DEF vars, group, request, sched, EventInv, TypeOK, LinkedExact, NoneOverlooked,
               SatisfiedAwake, WindowClosed, InWait
<1> QED BY <1>1, <1>2, <1>3, <1>4, <1>5, <1>6, <1>7, <1>8, <1>9, <1>10, Zenon DEF Next

------------------------------------------------------------------------------
(* The theorems *)

(* The wait list holds exactly the tasks that wait and were not satisfied, *)
(* once each, through timeouts, late events and further waits.             *)
THEOREM WaitersAlwaysExact == ASSUME Disciplined PROVE Spec => []LinkedExact
<1>1. EventInv => LinkedExact
  BY DEF EventInv
<1>2. Init => EventInv
  BY EventInit
<1>3. EventInv /\ [Next]_vars => EventInv'
  BY EventNext
<1> QED BY <1>1, <1>2, <1>3, PTL DEF Spec

(* No task stays linked while the bits satisfy its wait, whatever the      *)
(* waiters before it in the walk of _check_and_wake_tasks cleared.         *)
THEOREM NoWaiterOverlooked == ASSUME Disciplined PROVE Spec => []NoneOverlooked
<1>1. EventInv => NoneOverlooked
  BY DEF EventInv
<1>2. Init => EventInv
  BY EventInit
<1>3. EventInv /\ [Next]_vars => EventInv'
  BY EventNext
<1> QED BY <1>1, <1>2, <1>3, PTL DEF Spec

(* A task whose event has come is READY or RUNNING until its call returns. *)
THEOREM NoEventSleptOver == ASSUME Disciplined PROVE Spec => []SatisfiedAwake
<1>1. EventInv => SatisfiedAwake
  BY DEF EventInv
<1>2. Init => EventInv
  BY EventInit
<1>3. EventInv /\ [Next]_vars => EventInv'
  BY EventNext
<1> QED BY <1>1, <1>2, <1>3, PTL DEF Spec
==============================================================================
