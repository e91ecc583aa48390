----------------------------- MODULE TimerProofs -----------------------------
(***************************************************************************)
(* Proofs about the software timers: the list of active timers is exact    *)
(* and sorted, and the daemon serves every timer in time.                  *)
(***************************************************************************)
EXTENDS Timer, ListLemmas

\* The ticks left until each timer expires, when the clock shows c.
Lefts(tm, c) == [s \in Timers |-> Diff(tm[s].expiry, c)]

\* f does not decrease along the list l.
Sorted(l, f) == \A i, j \in 1..Len(l) : i < j => f[l[i]] <= f[l[j]]

TimerRecords == [active : BOOLEAN, reload : BOOLEAN, period : Nat, expiry : 0..TimerTickMod - 1]

DaemonRecords ==
  [at : {"read", "lock", "callback", "wait", "blocked", "woke"},
   now : 0..TimerTickMod - 1, tmr : Int, until : Int]

TimerTypeOK ==
  /\ freeSlots \in Seq(Timers)
  /\ timer \in [Timers -> TimerRecords]
  /\ timerList \in Seq(Timers)
  /\ doomed \in SUBSET Timers
  /\ clock \in 0..TimerTickMod - 1
  /\ daemon \in DaemonRecords
  /\ notified \in BOOLEAN
  /\ notifying \in {0, 1}
  /\ lag \in 0..MaxLag

\* Which slots are in which list.
SlotsInv(fr, tm, l, dm) ==
  /\ IsInjective(l) /\ IsInjective(fr)
  /\ Range(l) = {s \in Timers : tm[s].active}
  /\ \A s \in Range(l) : s \notin Range(fr) /\ s \notin dm
  /\ \A s \in dm : s \notin Range(fr)
  /\ \A s \in Timers : s \notin Range(fr) => tm[s].period \in Periods

\* A timer is at most its period away, and late by at most MaxLag when the
\* daemon was woken, and by lag more since.
Window(tm, l, f, g) ==
  \A s \in Range(l) : f[s] \in Int /\ f[s] >= 0 - (MaxLag + g) /\ f[s] <= tm[s].period

\* What the daemon knows at each point, with f the ticks left, c the clock, nd
\* and ng the notification, and g the lag: the clock it read is not older than
\* the lag; the wait it computed is right up to the lag, and so is the tick it
\* is to be woken at up to MaxLag, except for a timer whose notification is on
\* its way.
AtLock(d, c, g) == d.at = "lock" => Diff(c, d.now) \in 0..g

AtWait(d, l, f, nd, ng, g) ==
  d.at = "wait" =>
    /\ d.until = NoWait \/ (d.until >= 1 /\ 2 * d.until < TimerTickMod)
    /\ \A s \in Range(l) :
         /\ f[s] > 0 - g
         /\ (d.until # NoWait /\ f[s] >= d.until - g) \/ ng = 1 \/ nd

AtBlocked(d, l, f, c, ng, g) ==
  d.at = "blocked" =>
    /\ d.until = NoWait \/ (d.until \in 0..TimerTickMod - 1 /\ Diff(d.until, c) >= 1)
    /\ \A s \in Range(l) :
         \/ d.until # NoWait /\ f[s] >= Diff(d.until, c) - MaxLag
         \/ ng = 1 /\ f[s] > 0 - g

DaemonInv(d, l, f, c, nd, ng, g) ==
  AtLock(d, c, g) /\ AtWait(d, l, f, nd, ng, g) /\ AtBlocked(d, l, f, c, ng, g)

TimerInv ==
  /\ TimerTypeOK
  /\ SlotsInv(freeSlots, timer, timerList, doomed)
  /\ Window(timer, timerList, Lefts(timer, clock), lag)
  /\ Sorted(timerList, Lefts(timer, clock))
  /\ DaemonInv(daemon, timerList, Lefts(timer, clock), clock, notified, notifying, lag)

------------------------------------------------------------------------------
(* Modular time *)

(* The tick modulus has room for the longest period and the longest lag.   *)
LEMMA TickModFacts ==
    /\ TimerTickMod \in Nat /\ TimerTickMod > 2
    /\ MaxLag \in Nat /\ 4 * MaxLag + 2 < TimerTickMod
<1>1. PICK p \in Periods : TRUE
  BY Zenon, TimerAssumption
<1>2. p \in Nat \ {0} /\ 2 * (p + 2 * MaxLag) < TimerTickMod
  BY <1>1, TimerAssumption
<1> QED BY <1>2, TimerAssumption

(* The remainder of a number within one modulus of the range.              *)
LEMMA ModSmall ==
    ASSUME NEW M \in Nat, M > 0, NEW x \in Int, x >= 0 - M, x < 2 * M
    PROVE  x % M = IF x < 0 THEN x + M ELSE IF x < M THEN x ELSE x - M
<1>1. CASE x < 0
  BY <1>1
<1>2. CASE x >= 0 /\ x < M
  BY <1>2
<1>3. CASE x >= M
  BY <1>3
<1> QED BY <1>1, <1>2, <1>3

(* The signed difference of two ticks is in the signed range, and is the   *)
(* plain difference up to one modulus.                                     *)
LEMMA DiffCases ==
    ASSUME NEW a \in 0..TimerTickMod - 1, NEW b \in 0..TimerTickMod - 1
    PROVE  /\ Diff(a, b) \in Int
           /\ 2 * Diff(a, b) < TimerTickMod /\ 2 * Diff(a, b) >= 0 - TimerTickMod
           /\ Diff(a, b) \in {a - b, (a - b) + TimerTickMod, (a - b) - TimerTickMod}
           /\ Diff(a, b) >= 0 => (a - b) % TimerTickMod = Diff(a, b)
<1> DEFINE x == a - b
           d == x % TimerTickMod
<1>0. TimerTickMod \in Nat /\ TimerTickMod > 0
  BY TickModFacts
<1>1. x \in Int /\ x >= 0 - TimerTickMod /\ x < TimerTickMod
  BY <1>0
<1>2. d = IF x < 0 THEN x + TimerTickMod ELSE x
  <2> HIDE DEF x
  <2>1. x < 2 * TimerTickMod
    BY <1>0, <1>1
  <2> QED BY <1>0, <1>1, <2>1, ModSmall
<1>3. Diff(a, b) = IF 2 * d < TimerTickMod THEN d ELSE d - TimerTickMod
  BY DEF Diff
<1>4. d \in Int /\ d >= 0 /\ d < TimerTickMod /\ d \in {a - b, (a - b) + TimerTickMod}
  <2> HIDE DEF d
  <2> QED BY <1>0, <1>1, <1>2
<1>5. (a - b) % TimerTickMod = d
  OBVIOUS
<1> HIDE DEF x, d
<1> QED BY <1>0, <1>3, <1>4, <1>5

\* The difference is the only value of its residue in its range.
LEMMA DiffUnique ==
    ASSUME NEW a \in 0..TimerTickMod - 1, NEW b \in 0..TimerTickMod - 1, NEW x \in Int,
           2 * x < TimerTickMod, 2 * x >= 0 - TimerTickMod,
           NEW k \in {-2, -1, 0, 1, 2}, x = (a - b) + k * TimerTickMod
    PROVE  Diff(a, b) = x
<1>1. TimerTickMod \in Nat /\ TimerTickMod > 0
  BY TickModFacts
<1>2. /\ Diff(a, b) \in Int
      /\ 2 * Diff(a, b) < TimerTickMod /\ 2 * Diff(a, b) >= 0 - TimerTickMod
      /\ Diff(a, b) \in {a - b, (a - b) + TimerTickMod, (a - b) - TimerTickMod}
  BY DiffCases
<1>3. k = -2 \/ k = -1 \/ k = 0 \/ k = 1 \/ k = 2
  OBVIOUS
<1> QED BY <1>1, <1>2, <1>3

(* Differences of near ticks add up.                                       *)
LEMMA DiffMinus ==
    ASSUME NEW a \in 0..TimerTickMod - 1, NEW b \in 0..TimerTickMod - 1,
           NEW c \in 0..TimerTickMod - 1,
           2 * (Diff(a, c) - Diff(b, c)) < TimerTickMod,
           2 * (Diff(a, c) - Diff(b, c)) > 0 - TimerTickMod
    PROVE  Diff(a, b) = Diff(a, c) - Diff(b, c)
<1>0. TimerTickMod \in Nat /\ TimerTickMod > 0
  BY TickModFacts
<1> DEFINE x == Diff(a, c)
           y == Diff(b, c)
<1>1. x \in Int /\ x \in {a - c, (a - c) + TimerTickMod, (a - c) - TimerTickMod}
  BY DiffCases
<1>2. y \in Int /\ y \in {b - c, (b - c) + TimerTickMod, (b - c) - TimerTickMod}
  BY DiffCases
<1>3. 2 * (x - y) < TimerTickMod /\ 2 * (x - y) > 0 - TimerTickMod
  OBVIOUS
<1> HIDE DEF x, y
<1>4. \E k \in {-2, -1, 0, 1, 2} : x - y = (a - b) + k * TimerTickMod
  BY <1>0, <1>1, <1>2
<1>5. PICK k \in {-2, -1, 0, 1, 2} : x - y = (a - b) + k * TimerTickMod
  BY <1>4
<1>6. Diff(a, b) = x - y
  BY <1>0, <1>1, <1>2, <1>3, <1>5, DiffUnique
<1> QED BY <1>6 DEF x, y

(* The difference the other way round is the negative one.                 *)
LEMMA DiffOpposite ==
    ASSUME NEW a \in 0..TimerTickMod - 1, NEW b \in 0..TimerTickMod - 1,
           2 * Diff(a, b) > 0 - TimerTickMod
    PROVE  Diff(b, a) = 0 - Diff(a, b)
<1>0. TimerTickMod \in Nat /\ TimerTickMod > 0
  BY TickModFacts
<1>1. /\ Diff(a, b) \in Int /\ 2 * Diff(a, b) < TimerTickMod
      /\ Diff(a, b) \in {a - b, (a - b) + TimerTickMod, (a - b) - TimerTickMod}
  BY DiffCases
<1>2. \E k \in {-2, -1, 0, 1, 2} : 0 - Diff(a, b) = (b - a) + k * TimerTickMod
  BY <1>0, <1>1
<1>3. PICK k \in {-2, -1, 0, 1, 2} : 0 - Diff(a, b) = (b - a) + k * TimerTickMod
  BY <1>2
<1> DEFINE x == 0 - Diff(a, b)
<1>4. x \in Int /\ 2 * x < TimerTickMod /\ 2 * x >= 0 - TimerTickMod
      /\ x = (b - a) + k * TimerTickMod
  BY <1>0, <1>1, <1>3
<1> HIDE DEF x
<1>5. Diff(b, a) = x
  BY <1>4, <1>3, DiffUnique
<1> QED BY <1>5 DEF x

(* A tick moved on is a tick.                                              *)
LEMMA PlusFacts ==
    ASSUME NEW a \in 0..TimerTickMod - 1, NEW n \in Nat, n < TimerTickMod
    PROVE  /\ Plus(a, n) \in 0..TimerTickMod - 1
           /\ Plus(a, n) \in {a + n, (a + n) - TimerTickMod}
<1>0. TimerTickMod \in Nat /\ TimerTickMod > 0
  BY TickModFacts
<1> DEFINE x == a + n
<1>1. x \in Int /\ x >= 0 /\ x < 2 * TimerTickMod
  BY <1>0
<1>2. Plus(a, n) = x % TimerTickMod
  BY DEF Plus
<1> HIDE DEF x
<1>3. x % TimerTickMod = IF x < TimerTickMod THEN x ELSE x - TimerTickMod
  BY <1>0, <1>1, ModSmall
<1> QED BY <1>0, <1>1, <1>2, <1>3 DEF x

(* A tick moved on by less than half the modulus is that far ahead.        *)
LEMMA PlusDiff ==
    ASSUME NEW c \in 0..TimerTickMod - 1, NEW n \in Nat, 2 * n < TimerTickMod
    PROVE  Plus(c, n) \in 0..TimerTickMod - 1 /\ Diff(Plus(c, n), c) = n
<1>0. TimerTickMod \in Nat /\ TimerTickMod > 0 /\ n < TimerTickMod
  BY TickModFacts
<1> DEFINE p == Plus(c, n)
<1>1. p \in 0..TimerTickMod - 1 /\ p \in {c + n, (c + n) - TimerTickMod}
  BY <1>0, PlusFacts
<1> HIDE DEF p
<1>2. \E k \in {-2, -1, 0, 1, 2} : n = (p - c) + k * TimerTickMod
  BY <1>0, <1>1
<1>3. PICK k \in {-2, -1, 0, 1, 2} : n = (p - c) + k * TimerTickMod
  BY <1>2
<1>4. 2 * n >= 0 - TimerTickMod /\ n \in Int
  BY <1>0
<1>5. Diff(p, c) = n
  BY <1>1, <1>3, <1>4, DiffUnique
<1> QED BY <1>1, <1>5 DEF p

\* One tick later, an instant is one tick nearer.
LEMMA DiffTick ==
    ASSUME NEW a \in 0..TimerTickMod - 1, NEW c \in 0..TimerTickMod - 1,
           2 * Diff(a, c) - 2 >= 0 - TimerTickMod
    PROVE  /\ Plus(c, 1) \in 0..TimerTickMod - 1
           /\ Diff(a, Plus(c, 1)) = Diff(a, c) - 1
<1>0. TimerTickMod \in Nat /\ TimerTickMod > 1
  BY TickModFacts
<1> DEFINE p == Plus(c, 1)
           x == Diff(a, c) - 1
<1>1. p \in 0..TimerTickMod - 1 /\ p \in {c + 1, (c + 1) - TimerTickMod}
  BY <1>0, PlusFacts
<1>2. /\ Diff(a, c) \in Int /\ 2 * Diff(a, c) < TimerTickMod
      /\ Diff(a, c) \in {a - c, (a - c) + TimerTickMod, (a - c) - TimerTickMod}
  BY DiffCases
<1>3. x \in Int /\ 2 * x < TimerTickMod /\ 2 * x >= 0 - TimerTickMod
      /\ x \in {(a - c) - 1, (a - c) - 1 + TimerTickMod, (a - c) - 1 - TimerTickMod}
  BY <1>0, <1>2
<1> HIDE DEF p, x
<1>4. \E k \in {-2, -1, 0, 1, 2} : x = (a - p) + k * TimerTickMod
  BY <1>0, <1>1, <1>3
<1>5. PICK k \in {-2, -1, 0, 1, 2} : x = (a - p) + k * TimerTickMod
  BY <1>4
<1>6. Diff(a, p) = x
  BY <1>1, <1>3, <1>5, DiffUnique
<1> QED BY <1>1, <1>6 DEF p, x

------------------------------------------------------------------------------
(* Sorted lists *)

(* The elements of a list are what its indices show.                       *)
LEMMA RangeOf ==
    ASSUME NEW S, NEW l \in Seq(S)
    PROVE  /\ Len(l) \in Nat
           /\ \A i \in 1..Len(l) : l[i] \in Range(l) /\ l[i] \in S
           /\ \A s \in Range(l) : s \in S /\ \E i \in 1..Len(l) : l[i] = s
  BY DEF Range

(* The order is kept when values are replaced by ones that compare alike.  *)
LEMMA SortedMono ==
    ASSUME NEW l \in Seq(Timers), NEW f, NEW g, Sorted(l, f),
           \A s, t \in Range(l) : f[s] <= f[t] => g[s] <= g[t]
    PROVE  Sorted(l, g)
  BY Zenon, RangeOf DEF Sorted

(* The head of a sorted list is its least element.                         *)
LEMMA SortedHead ==
    ASSUME NEW l \in Seq(Timers), l # << >>, NEW f, Sorted(l, f),
           \A s \in Range(l) : f[s] \in Int
    PROVE  Head(l) \in Range(l) /\ \A s \in Range(l) : f[Head(l)] <= f[s]
<1>1. Len(l) \in Nat /\ Len(l) >= 1 /\ Head(l) = l[1] /\ 1 \in 1..Len(l)
  OBVIOUS
<1>2. Head(l) \in Range(l)
  BY <1>1, RangeOf
<1>3. ASSUME NEW s \in Range(l) PROVE f[Head(l)] <= f[s]
  <2>1. PICK i \in 1..Len(l) : l[i] = s
    BY RangeOf
  <2>2. CASE i = 1
    BY <2>1, <2>2, <1>1
  <2>3. CASE 1 < i
    BY <2>1, <2>3, <1>1 DEF Sorted
  <2> QED BY <2>2, <2>3, <1>1
<1> QED BY <1>2, <1>3

(* timer_remove keeps the list sorted.                                     *)
LEMMA SortedRemove ==
    ASSUME NEW l \in Seq(Timers), IsInjective(l), NEW f, Sorted(l, f), NEW s
    PROVE  /\ TimerRemove(l, s) \in Seq(Timers)
           /\ Range(TimerRemove(l, s)) = Range(l) \ {s}
           /\ IsInjective(TimerRemove(l, s))
           /\ Sorted(TimerRemove(l, s), f)
<1>1. CASE s \in Range(l)
  <2> DEFINE i == CHOOSE i \in DOMAIN l : l[i] = s
             r == Unlinked(l, i)
  <2>1. \E j \in DOMAIN l : l[j] = s
    BY <1>1, RangeOf
  <2>2. i \in DOMAIN l /\ l[i] = s
    BY <2>1, Zenon
  <2>3. TimerRemove(l, s) = r
    BY <1>1, Zenon DEF TimerRemove
  <2> HIDE DEF i
  <2>4. i \in 1..Len(l)
    BY <2>2
  <2>5. /\ r \in Seq(Timers)
        /\ Len(r) = Len(l) - 1
        /\ \A k \in 1..Len(r) : r[k] = IF k < i THEN l[k] ELSE l[k + 1]
        /\ Range(r) = Range(l) \ {l[i]}
        /\ IsInjective(r)
    BY <2>4, RemoveFacts
  <2> HIDE DEF r
  <2>6. ASSUME NEW x \in 1..Len(r), NEW y \in 1..Len(r), x < y PROVE f[r[x]] <= f[r[y]]
    <3> DEFINE u == IF x < i THEN x ELSE x + 1
               v == IF y < i THEN y ELSE y + 1
    <3>1. u \in 1..Len(l) /\ v \in 1..Len(l) /\ u < v
      BY <2>4, <2>5, <2>6
    <3>2. r[x] = l[u] /\ r[y] = l[v]
      BY Zenon, <2>5
    <3> HIDE DEF u, v
    <3> QED BY <3>1, <3>2 DEF Sorted
  <2>7. Sorted(r, f)
    BY <2>6 DEF Sorted
  <2> QED BY Zenon, <2>2, <2>3, <2>5, <2>7
<1>2. CASE s \notin Range(l)
  BY <1>2 DEF TimerRemove
<1> QED BY <1>1, <1>2

(* A sorted list without its head is sorted.                               *)
LEMMA SortedTail ==
    ASSUME NEW l \in Seq(Timers), l # << >>, IsInjective(l), NEW f, Sorted(l, f)
    PROVE  /\ Tail(l) \in Seq(Timers)
           /\ Range(Tail(l)) = Range(l) \ {Head(l)}
           /\ IsInjective(Tail(l))
           /\ Sorted(Tail(l), f)
<1> DEFINE t == Tail(l)
<1>1. /\ t \in Seq(Timers) /\ Len(t) = Len(l) - 1 /\ Len(l) \in Nat
      /\ \A i \in 1..Len(t) : t[i] = l[i + 1]
  OBVIOUS
<1>2. Range(t) = Range(l) \ {Head(l)} /\ IsInjective(t)
  BY PopFacts
<1> HIDE DEF t
<1>3. ASSUME NEW x \in 1..Len(t), NEW y \in 1..Len(t), x < y PROVE f[t[x]] <= f[t[y]]
  <2>1. x + 1 \in 1..Len(l) /\ y + 1 \in 1..Len(l) /\ x + 1 < y + 1
    BY <1>1, <1>3
  <2>2. t[x] = l[x + 1] /\ t[y] = l[y + 1]
    BY <1>1
  <2> QED BY <2>1, <2>2 DEF Sorted
<1>4. Sorted(t, f)
  BY <1>3 DEF Sorted
<1> QED BY <1>1, <1>2, <1>4 DEF t

(* An element linked in between its neighbours keeps the list sorted.      *)
LEMMA SortedLinkedIn ==
    ASSUME NEW l \in Seq(Timers), IsInjective(l), NEW s \in Timers, s \notin Range(l),
           NEW f, Sorted(l, f), NEW m \in 0..Len(l), NEW q, q = LinkedIn(l, m + 1, s),
           \A j \in 1..m : f[l[j]] <= f[s],
           \A j \in 1..Len(l) : j > m => f[s] <= f[l[j]]
    PROVE  /\ q \in Seq(Timers)
           /\ Range(q) = Range(l) \cup {s}
           /\ IsInjective(q)
           /\ Sorted(q, f)
<1>0. Len(l) \in Nat
  OBVIOUS
<1>8. /\ q \in Seq(Timers)
      /\ Len(q) = Len(l) + 1
      /\ \A j \in 1..Len(q) : q[j] = IF j <= m THEN l[j] ELSE IF j = m + 1 THEN s ELSE l[j - 1]
      /\ Range(q) = Range(l) \cup {s}
      /\ IsInjective(q)
  BY InsertFacts
<1>9. ASSUME NEW x \in 1..Len(q), NEW y \in 1..Len(q), x < y PROVE f[q[x]] <= f[q[y]]
  <2>1. CASE y <= m
    <3>1. x \in 1..Len(l) /\ y \in 1..Len(l) /\ q[x] = l[x] /\ q[y] = l[y]
      BY <1>0, <1>8, <1>9, <2>1
    <3> QED BY <3>1, <1>9 DEF Sorted
  <2>2. CASE y = m + 1
    <3>1. x \in 1..m /\ q[x] = l[x] /\ q[y] = s
      BY <1>0, <1>8, <1>9, <2>2
    <3> QED BY <3>1
  <2>3. CASE y > m + 1 /\ x <= m
    <3>1. x \in 1..Len(l) /\ y - 1 \in 1..Len(l) /\ x < y - 1 /\ q[x] = l[x] /\ q[y] = l[y - 1]
      BY <1>0, <1>8, <1>9, <2>3
    <3> QED BY Zenon, <3>1 DEF Sorted
  <2>4. CASE y > m + 1 /\ x = m + 1
    <3>1. y - 1 \in 1..Len(l) /\ y - 1 > m /\ q[x] = s /\ q[y] = l[y - 1]
      BY <1>0, <1>8, <1>9, <2>4
    <3> QED BY Zenon, <3>1
  <2>5. CASE y > m + 1 /\ x > m + 1
    <3>1. x - 1 \in 1..Len(l) /\ y - 1 \in 1..Len(l) /\ x - 1 < y - 1
          /\ q[x] = l[x - 1] /\ q[y] = l[y - 1]
      BY <1>0, <1>8, <1>9, <2>5
    <3> QED BY Zenon, <3>1 DEF Sorted
  <2> QED BY <1>8, <2>1, <2>2, <2>3, <2>4, <2>5
<1>10. Sorted(q, f)
  BY <1>9 DEF Sorted
<1> QED BY <1>8, <1>10

(* timer_insert finds the place where the list stays sorted.               *)
LEMMA SortedInsert ==
    ASSUME NEW l \in Seq(Timers), IsInjective(l), NEW s \in Timers, s \notin Range(l),
           NEW f \in [Timers -> Int], Sorted(l, f), NEW tm,
           \A t \in Range(l) : Diff(tm[s].expiry, tm[t].expiry) < 0 <=> f[s] < f[t]
    PROVE  /\ TimerInsert(tm, l, s) \in Seq(Timers)
           /\ Range(TimerInsert(tm, l, s)) = Range(l) \cup {s}
           /\ IsInjective(TimerInsert(tm, l, s))
           /\ Sorted(TimerInsert(tm, l, s), f)
<1> DEFINE Later(i) == Diff(tm[s].expiry, tm[l[i]].expiry) < 0
           P(i) == (i = Len(l) + 1 \/ Later(i)) /\ \A j \in 1..i - 1 : ~Later(j)
           k == CHOOSE i \in 1..Len(l) + 1 : P(i)
           q == TimerInsert(tm, l, s)
           T == {i \in 1..Len(l) + 1 : i = Len(l) + 1 \/ Later(i)}
<1>0. /\ Len(l) \in Nat
      /\ \A i \in 1..Len(l) : l[i] \in Range(l) /\ l[i] \in Timers
  BY RangeOf
<1>1. q = LinkedIn(l, k, s)
  BY Zenon DEF TimerInsert
<1>2. \E i \in 1..Len(l) + 1 : P(i)
  <2>1. T \in SUBSET Nat /\ Len(l) + 1 \in T
    BY <1>0
  <2>2. PICK x \in T : \A y \in T : x <= y
    BY Zenon, <2>1, LeastElement
  <2>3. x \in 1..Len(l) + 1 /\ (x = Len(l) + 1 \/ Later(x))
    BY <2>2
  <2>4. ASSUME NEW j \in 1..x - 1 PROVE ~Later(j)
    <3>1. j \in 1..Len(l) + 1 /\ ~(x <= j)
      BY <2>3, <1>0
    <3>2. j \notin T
      BY <2>2, <3>1
    <3> QED BY <3>1, <3>2
  <2> QED BY Zenon, <2>3, <2>4
<1>3. k \in 1..Len(l) + 1 /\ P(k)
  BY <1>2, Zenon
<1> HIDE DEF k
<1> DEFINE m == k - 1
<1>4. m \in 0..Len(l) /\ k = m + 1
  BY <1>0, <1>3
<1>5. q = LinkedIn(l, m + 1, s)
  BY <1>1, <1>4
<1>6. \A j \in 1..m : f[l[j]] <= f[s]
  <2> SUFFICES ASSUME NEW j \in 1..m PROVE f[l[j]] <= f[s]
    OBVIOUS
  <2>1. j \in 1..Len(l) /\ ~Later(j)
    BY <1>0, <1>3, <1>4
  <2>2. l[j] \in Range(l) /\ l[j] \in Timers
    BY Zenon, <1>0, <2>1
  <2>3. f[l[j]] \in Int /\ f[s] \in Int
    BY <2>2
  <2>4. ~(f[s] < f[l[j]])
    BY Zenon, <2>1, <2>2
  <2> QED BY <2>3, <2>4
<1>7. \A j \in 1..Len(l) : j > m => f[s] <= f[l[j]]
  <2> SUFFICES ASSUME NEW j \in 1..Len(l), j > m PROVE f[s] <= f[l[j]]
    OBVIOUS
  <2>1. k \in 1..Len(l) /\ k # Len(l) + 1 /\ k <= j
    BY <1>0, <1>3, <1>4
  <2>2. Later(k)
    BY <1>3, <2>1
  <2>3. l[k] \in Range(l) /\ l[k] \in Timers /\ l[j] \in Timers
    BY Zenon, <1>0, <2>1
  <2>4. f[s] \in Int /\ f[l[k]] \in Int /\ f[l[j]] \in Int
    BY <2>3
  <2>5. f[s] < f[l[k]]
    BY <2>2, <2>3
  <2>6. f[l[k]] <= f[l[j]]
    <3>1. CASE k = j
      BY <3>1, <2>4
    <3>2. CASE k < j
      BY <3>2, <2>1 DEF Sorted
    <3> QED BY <3>1, <3>2, <2>1
  <2> QED BY <2>4, <2>5, <2>6
<1> HIDE DEF m, q, T
<1>8. q \in Seq(Timers) /\ Range(q) = Range(l) \cup {s} /\ IsInjective(q) /\ Sorted(q, f)
  BY <1>4, <1>5, <1>6, <1>7, SortedLinkedIn, Zenon
<1> QED BY <1>8 DEF q

------------------------------------------------------------------------------
(* The invariant *)

(* The ticks left are signed differences.                                  *)
LEMMA LeftsFacts ==
    ASSUME NEW tm \in [Timers -> TimerRecords], NEW c \in 0..TimerTickMod - 1
    PROVE  /\ Lefts(tm, c) \in [Timers -> Int]
           /\ \A s \in Timers : /\ tm[s].expiry \in 0..TimerTickMod - 1
                                /\ Lefts(tm, c)[s] = Diff(tm[s].expiry, c)
                                /\ Lefts(tm, c)[s] \in Int
<1>1. \A s \in Timers : tm[s].expiry \in 0..TimerTickMod - 1
  BY DEF TimerRecords
<1>2. \A s \in Timers : Diff(tm[s].expiry, c) \in Int
  BY Zenon, <1>1, DiffCases
<1> QED BY <1>1, <1>2 DEF Lefts

\* Near timers expire in the order of the ticks they have left.
LEMMA LeftsOrder ==
    ASSUME NEW tm \in [Timers -> TimerRecords], NEW c \in 0..TimerTickMod - 1,
           NEW s \in Timers, NEW t \in Timers, NEW p \in Periods, NEW q \in Periods,
           Lefts(tm, c)[s] >= 0 - 2 * MaxLag, Lefts(tm, c)[s] <= p,
           Lefts(tm, c)[t] >= 0 - 2 * MaxLag, Lefts(tm, c)[t] <= q
    PROVE  Diff(tm[s].expiry, tm[t].expiry) = Lefts(tm, c)[s] - Lefts(tm, c)[t]
<1> DEFINE a == tm[s].expiry
           b == tm[t].expiry
           x == Diff(a, c)
           y == Diff(b, c)
<1>1. a \in 0..TimerTickMod - 1 /\ b \in 0..TimerTickMod - 1 /\ x \in Int /\ y \in Int
      /\ Lefts(tm, c)[s] = x /\ Lefts(tm, c)[t] = y
  BY Zenon, LeftsFacts
<1>2. x >= 0 - 2 * MaxLag /\ x <= p /\ y >= 0 - 2 * MaxLag /\ y <= q
  BY <1>1
<1>3. /\ p \in Nat /\ 2 * (p + 2 * MaxLag) < TimerTickMod
      /\ q \in Nat /\ 2 * (q + 2 * MaxLag) < TimerTickMod
      /\ MaxLag \in Nat /\ TimerTickMod \in Nat
  BY TimerAssumption
<1> HIDE DEF x, y
<1>4. 2 * (x - y) < TimerTickMod /\ 2 * (x - y) > 0 - TimerTickMod
  BY <1>1, <1>2, <1>3
<1> HIDE DEF a, b
<1>5. Diff(a, b) = x - y
  BY Zenon, <1>1, <1>4, DiffMinus DEF x, y
<1> QED BY Zenon, <1>1, <1>5 DEF a, b

\* n is tm with the active flag and the expiry of s set.
IsSet(n, tm, s, a, e) ==
  \/ n = [tm EXCEPT ![s].active = a, ![s].expiry = e]
  \/ n = [tm EXCEPT ![s].expiry = e, ![s].active = a]

(* Updating the two fields of a timer changes nothing else.                *)
LEMMA SetTimer ==
    ASSUME NEW tm \in [Timers -> TimerRecords], NEW s \in Timers, NEW a \in BOOLEAN,
           NEW e \in 0..TimerTickMod - 1, NEW n, IsSet(n, tm, s, a, e)
    PROVE  /\ n \in [Timers -> TimerRecords]
           /\ n[s].active = a /\ n[s].expiry = e /\ n[s].period = tm[s].period
           /\ \A t \in Timers : t # s => n[t] = tm[t]
           /\ \A t \in Timers : n[t].period = tm[t].period
<1> DEFINE r == [active |-> a, reload |-> tm[s].reload, period |-> tm[s].period, expiry |-> e]
<1>1. tm[s] \in TimerRecords /\ tm[s].reload \in BOOLEAN /\ tm[s].period \in Nat
  BY DEF TimerRecords
<1>2. r \in TimerRecords
  BY <1>1 DEF TimerRecords
<1>3. n = [tm EXCEPT ![s] = r]
  BY <1>1 DEF TimerRecords, IsSet
<1>4. r.active = a /\ r.expiry = e /\ r.period = tm[s].period
  OBVIOUS
<1> HIDE DEF r
<1>5. n[s] = r /\ \A t \in Timers : t # s => n[t] = tm[t]
  BY <1>3
<1>6. n \in [Timers -> TimerRecords]
  BY <1>2, <1>3
<1> QED BY Zenon, <1>4, <1>5, <1>6

\* n is tm with s active and its expiry set.
IsStarted(n, tm, s, e) ==
  \/ n = [tm EXCEPT ![s].active = TRUE, ![s].expiry = e]
  \/ n = [tm EXCEPT ![s].expiry = e, ![s].active = TRUE]

StartedFacts(n, tm, s, e) ==
  /\ n \in [Timers -> TimerRecords]
  /\ n[s].active = TRUE /\ n[s].expiry = e /\ n[s].period = tm[s].period
  /\ \A t \in Timers : t # s => n[t] = tm[t]
  /\ \A t \in Timers : n[t].period = tm[t].period

(* Starting a timer changes its expiry and its active flag only.           *)
LEMMA StartTimer ==
    ASSUME NEW tm \in [Timers -> TimerRecords], NEW s \in Timers,
           NEW e \in 0..TimerTickMod - 1, NEW n, IsStarted(n, tm, s, e)
    PROVE  StartedFacts(n, tm, s, e)
<1> DEFINE r == [active |-> TRUE, reload |-> tm[s].reload, period |-> tm[s].period, expiry |-> e]
<1>1. tm[s] \in TimerRecords /\ tm[s].reload \in BOOLEAN /\ tm[s].period \in Nat
  BY DEF TimerRecords
<1>2. r \in TimerRecords
  BY <1>1 DEF TimerRecords
<1>3. n = [tm EXCEPT ![s] = r]
  BY <1>1 DEF TimerRecords, IsStarted
<1>4. r.active = TRUE /\ r.expiry = e /\ r.period = tm[s].period
  OBVIOUS
<1> HIDE DEF r
<1>5. n[s] = r /\ \A t \in Timers : t # s => n[t] = tm[t]
  BY <1>3
<1>6. n \in [Timers -> TimerRecords]
  BY Zenon, <1>2, <1>3
<1> QED BY <1>4, <1>5, <1>6 DEF StartedFacts

\* The facts about the timers of the list hold of any part of it.
LEMMA FewerTimers ==
    ASSUME NEW l, NEW l2, Range(l2) \subseteq Range(l), NEW f, NEW f2, NEW tm, NEW tm2,
           \A s \in Range(l2) : f2[s] = f[s] /\ tm2[s].period = tm[s].period,
           NEW d, NEW c, NEW nd, NEW ng, NEW g,
           Window(tm, l, f, g), DaemonInv(d, l, f, c, nd, ng, g)
    PROVE  Window(tm2, l2, f2, g) /\ DaemonInv(d, l2, f2, c, nd, ng, g)
<1>1. \A s \in Range(l2) : s \in Range(l) /\ f2[s] = f[s] /\ tm2[s].period = tm[s].period
  OBVIOUS
<1>2. Window(tm2, l2, f2, g)
  BY Zenon, <1>1 DEF Window
<1>3. AtLock(d, c, g)
  BY Zenon DEF DaemonInv
<1>4. AtWait(d, l2, f2, nd, ng, g)
  BY Zenon, <1>1 DEF DaemonInv, AtWait
<1>5. AtBlocked(d, l2, f2, c, ng, g)
  BY <1>1 DEF DaemonInv, AtBlocked
<1> QED BY Zenon, <1>2, <1>3, <1>4, <1>5 DEF DaemonInv

(* A list stays sorted while the ticks left of its timers stay the same.   *)
LEMMA SameSorted ==
    ASSUME NEW l \in Seq(Timers), NEW f, NEW g, Sorted(l, f), \A s \in Range(l) : g[s] = f[s]
    PROVE  Sorted(l, g)
  BY SortedMono

\* Where the daemon has nothing to remember.
LEMMA DaemonElsewhere ==
    ASSUME NEW d, d.at \notin {"lock", "wait", "blocked"}, NEW l, NEW f, NEW c, NEW nd, NEW ng, NEW g
    PROVE  DaemonInv(d, l, f, c, nd, ng, g)
  BY Zenon DEF DaemonInv, AtLock, AtWait, AtBlocked

\* What the invariant says of a timer of the list.
LEMMA ListedFacts ==
    ASSUME TimerInv, NEW s \in Range(timerList)
    PROVE  LET x == Lefts(timer, clock)[s]
           IN  /\ s \in Timers
               /\ timer[s].period \in Periods /\ timer[s].period \in Nat \ {0}
               /\ x \in Int /\ x = Diff(timer[s].expiry, clock)
               /\ x >= 0 - (MaxLag + lag) /\ x >= 0 - 2 * MaxLag /\ x <= timer[s].period
               /\ 2 * (timer[s].period + 2 * MaxLag) < TimerTickMod
<1> DEFINE x == Lefts(timer, clock)[s]
<1>1. s \in Timers
  BY RangeOf DEF TimerInv, TimerTypeOK
<1>2. timer[s].period \in Periods
  BY <1>1 DEF TimerInv, SlotsInv
<1>3. x \in Int /\ x = Diff(timer[s].expiry, clock)
  BY <1>1, LeftsFacts DEF TimerInv, TimerTypeOK
<1>4. x >= 0 - (MaxLag + lag) /\ x <= timer[s].period
  BY DEF TimerInv, Window
<1>5. lag \in 0..MaxLag /\ MaxLag \in Nat
  BY TimerAssumption DEF TimerInv, TimerTypeOK
<1> HIDE DEF x
<1>6. x >= 0 - 2 * MaxLag
  BY <1>3, <1>4, <1>5
<1> QED BY Zenon, <1>1, <1>2, <1>3, <1>4, <1>6, TimerAssumption DEF x

------------------------------------------------------------------------------
(* The calls *)

(* Initially there is no timer and the daemon reads the clock.             *)
LEMMA TimerInitHolds == TimerInit => TimerInv
<1> SUFFICES ASSUME TimerInit PROVE TimerInv
  OBVIOUS
<1>0. TimerTickMod \in Nat /\ TimerTickMod > 2 /\ MaxLag \in Nat
  BY TickModFacts
<1>1. Unset \in TimerRecords /\ Unset.active = FALSE
  BY <1>0 DEF Unset, TimerRecords
<1>2. timer \in [Timers -> TimerRecords] /\ \A s \in Timers : timer[s].active = FALSE
  BY Zenon, <1>1 DEF TimerInit
<1>3. /\ freeSlots \in Seq(Timers) /\ DOMAIN freeSlots = Timers
      /\ \A i \in Timers : freeSlots[i] = i
  BY TimerAssumption DEF TimerInit, MempoolCreate, Timers
<1>4. Range(freeSlots) = Timers /\ IsInjective(freeSlots)
  BY <1>3 DEF Range, IsInjective
<1>5. timerList = << >> /\ timerList \in Seq(Timers) /\ Range(timerList) = {} /\ IsInjective(timerList)
  BY DEF TimerInit, Range, IsInjective
<1>6. TimerTypeOK
  <2>1. clock = 0 /\ lag = 0 /\ notifying = 0 /\ notified = FALSE /\ doomed = {}
        /\ daemon = [at |-> "read", now |-> 0, tmr |-> 0, until |-> 0]
    BY DEF TimerInit
  <2>2. 0 \in 0..TimerTickMod - 1 /\ 0 \in 0..MaxLag
    BY <1>0
  <2>3. daemon \in DaemonRecords
    BY <2>1, <2>2 DEF DaemonRecords
  <2> QED BY Zenon, <1>2, <1>3, <1>5, <2>1, <2>2, <2>3 DEF TimerTypeOK
<1>7. SlotsInv(freeSlots, timer, timerList, doomed)
  BY <1>2, <1>4, <1>5 DEF TimerInit, SlotsInv
<1>8. Window(timer, timerList, Lefts(timer, clock), lag)
  BY <1>5 DEF Window
<1>9. Sorted(timerList, Lefts(timer, clock))
  BY <1>5 DEF Sorted
<1>10. DaemonInv(daemon, timerList, Lefts(timer, clock), clock, notified, notifying, lag)
  BY Zenon, DaemonElsewhere DEF TimerInit
<1> QED BY Zenon, <1>6, <1>7, <1>8, <1>9, <1>10 DEF TimerInv

(* timer_create takes a slot that is in no list.                           *)
LEMMA TimerCreateStep == TimerInv /\ TimerCreate => TimerInv'
<1> SUFFICES ASSUME TimerInv, TimerCreate PROVE TimerInv'
  BY Zenon
<1> DEFINE h == Head(freeSlots)
           f == Lefts(timer, clock)
<1>1. freeSlots \in Seq(Timers) /\ freeSlots # << >> /\ IsInjective(freeSlots)
  BY Zenon DEF TimerInv, TimerTypeOK, SlotsInv, TimerCreate
<1>2. /\ h \in Timers /\ h \in Range(freeSlots)
      /\ freeSlots' \in Seq(Timers) /\ Range(freeSlots') = Range(freeSlots) \ {h} /\ IsInjective(freeSlots')
  BY Zenon, <1>1, PopFacts DEF TimerCreate, MempoolAlloc
<1>3. PICK p \in Periods, reload \in BOOLEAN :
        timer' = [timer EXCEPT ![h] = [active |-> FALSE, reload |-> reload, period |-> p, expiry |-> 0]]
  BY Zenon DEF TimerCreate, MempoolAlloc
<1> HIDE DEF h
<1> DEFINE r == [active |-> FALSE, reload |-> reload, period |-> p, expiry |-> 0]
<1>4. r \in TimerRecords /\ r.active = FALSE /\ r.period = p
  <2>1. p \in Nat /\ 0 \in 0..TimerTickMod - 1
    BY TickModFacts, TimerAssumption
  <2> QED BY <2>1 DEF TimerRecords
<1> HIDE DEF r
<1>5. timer \in [Timers -> TimerRecords] /\ clock \in 0..TimerTickMod - 1
  BY DEF TimerInv, TimerTypeOK
<1>6. timer' = [timer EXCEPT ![h] = r]
  BY <1>3 DEF r
<1>7. /\ timer' \in [Timers -> TimerRecords]
      /\ timer'[h] = r /\ \A s \in Timers : s # h => timer'[s] = timer[s]
  BY <1>2, <1>4, <1>5, <1>6
<1>8. /\ UNCHANGED <<timerList, doomed, clock, daemon, notified, notifying, lag>>
      /\ timerList \in Seq(Timers)
  BY Zenon DEF TimerCreate, TimerInv, TimerTypeOK
<1>9. h \notin Range(timerList) /\ h \notin doomed
  BY <1>2 DEF TimerInv, SlotsInv
<1>10. \A s \in Range(timerList) : s \in Timers /\ s # h
  BY Zenon, <1>8, <1>9, RangeOf
<1>11. \A s \in Range(timerList) : f'[s] = f[s] /\ timer'[s].period = timer[s].period
  <2>1. Range(timerList) \subseteq Timers /\ \A s \in Range(timerList) : timer'[s] = timer[s]
    BY Zenon, <1>7, <1>10
  <2>2. clock' = clock
    BY Zenon, <1>8
  <2> QED BY Zenon, <2>1, <2>2 DEF Lefts
<1>12. TimerTypeOK'
  BY Zenon, <1>2, <1>7, <1>8 DEF TimerInv, TimerTypeOK
<1>13. SlotsInv(freeSlots, timer, timerList, doomed)'
  <2>1. timer[h].active = FALSE
    <3>1. timer[h].active \in BOOLEAN
      BY Zenon, <1>2, <1>5 DEF TimerRecords
    <3> QED BY Zenon, <3>1, <1>2, <1>9 DEF TimerInv, SlotsInv
  <2>2. \A s \in Timers : timer'[s].active <=> timer[s].active
    BY Zenon, <1>4, <1>7, <2>1
  <2>3. Range(timerList') = {s \in Timers : timer'[s].active}
    BY Zenon, <1>8, <2>2 DEF TimerInv, SlotsInv
  <2>4. \A s \in Timers : s \notin Range(freeSlots') => timer'[s].period \in Periods
    BY Zenon, <1>2, <1>4, <1>7 DEF TimerInv, SlotsInv
  <2> QED BY Zenon, <1>2, <1>8, <1>9, <2>3, <2>4 DEF TimerInv, SlotsInv
<1>14. /\ Window(timer', timerList, f', lag)
       /\ DaemonInv(daemon, timerList, f', clock, notified, notifying, lag)
  <2>1. Window(timer, timerList, f, lag) /\ DaemonInv(daemon, timerList, f, clock, notified, notifying, lag)
    BY DEF TimerInv
  <2> HIDE DEF f
  <2> QED BY Zenon, <2>1, <1>11, FewerTimers
<1>15. Sorted(timerList, f')
  <2>1. Sorted(timerList, f)
    BY DEF TimerInv
  <2> HIDE DEF f
  <2> QED BY <2>1, <1>8, <1>11, SameSorted
<1> QED BY Zenon, <1>8, <1>12, <1>13, <1>14, <1>15 DEF TimerInv

\* timer_stop and the first half of timer_delete.
LEMMA StoppedStep ==
    ASSUME TimerInv, NEW s \in Timers, Owned(s), Stopped(s), doomed' \in {doomed, doomed \cup {s}}
    PROVE  TimerInv'
<1> DEFINE f == Lefts(timer, clock)
<1>1. /\ timer \in [Timers -> TimerRecords] /\ clock \in 0..TimerTickMod - 1
      /\ timerList \in Seq(Timers) /\ IsInjective(timerList) /\ Sorted(timerList, f)
      /\ Range(timerList) = {x \in Timers : timer[x].active}
  BY DEF TimerInv, TimerTypeOK, SlotsInv
<1>2. UNCHANGED <<freeSlots, clock, daemon, notified, notifying, lag>>
  BY DEF Stopped
<1>3. timerList' = TimerRemove(timerList, s)
  <2>1. CASE timer[s].active
    BY <2>1 DEF Stopped
  <2>2. CASE ~timer[s].active
    BY Zenon, <1>1, <2>2 DEF Stopped, TimerRemove
  <2> QED BY <2>1, <2>2
<1> HIDE DEF f
<1>4. /\ timerList' \in Seq(Timers) /\ Range(timerList') = Range(timerList) \ {s}
      /\ IsInjective(timerList') /\ Sorted(timerList', f)
  BY Zenon, <1>1, <1>3, SortedRemove
<1>5. /\ timer' \in [Timers -> TimerRecords]
      /\ timer'[s].active = FALSE
      /\ \A t \in Timers : t # s => timer'[t] = timer[t]
      /\ \A t \in Timers : timer'[t].period = timer[t].period
  <2>1. timer' = [timer EXCEPT ![s].active = FALSE, ![s].expiry = 0]
    BY DEF Stopped
  <2> DEFINE a == FALSE
             e == 0
  <2>2. /\ a \in BOOLEAN /\ e \in 0..TimerTickMod - 1 /\ a = FALSE
        /\ IsSet(timer', timer, s, a, e)
    BY <2>1, TickModFacts DEF IsSet
  <2> HIDE DEF a, e
  <2>3. /\ timer' \in [Timers -> TimerRecords]
        /\ timer'[s].active = a
        /\ \A t \in Timers : t # s => timer'[t] = timer[t]
        /\ \A t \in Timers : timer'[t].period = timer[t].period
    BY <1>1, <2>2, SetTimer
  <2> QED BY <2>2, <2>3
<1>6. \A t \in Range(timerList') : t \in Timers /\ t # s
  BY Zenon, <1>4, RangeOf
<1>7. \A t \in Range(timerList') : f'[t] = f[t] /\ timer'[t].period = timer[t].period
  <2>1. Range(timerList') \subseteq Timers /\ \A t \in Range(timerList') : timer'[t] = timer[t]
    BY <1>5, <1>6
  <2>2. clock' = clock
    BY Zenon, <1>2
  <2> QED BY <2>1, <2>2 DEF f, Lefts
<1>8. TimerTypeOK'
  BY Zenon, <1>2, <1>4, <1>5 DEF TimerInv, TimerTypeOK
<1>9. SlotsInv(freeSlots, timer, timerList, doomed)'
  <2>1. Range(timerList') = {x \in Timers : timer'[x].active}
    BY Zenon, <1>1, <1>4, <1>5
  <2>2. \A x \in Range(timerList') : x \notin Range(freeSlots) /\ x \notin doomed'
    BY Zenon, <1>4 DEF TimerInv, SlotsInv
  <2>3. \A x \in doomed' : x \notin Range(freeSlots)
    BY Zenon DEF TimerInv, SlotsInv, Owned
  <2>4. \A x \in Timers : x \notin Range(freeSlots) => timer'[x].period \in Periods
    BY Zenon, <1>5 DEF TimerInv, SlotsInv
  <2>5. IsInjective(freeSlots)
    BY Zenon DEF TimerInv, SlotsInv
  <2> QED BY Zenon, <1>2, <1>4, <2>1, <2>2, <2>3, <2>4, <2>5 DEF SlotsInv
<1>10. /\ Window(timer', timerList', f', lag)
       /\ DaemonInv(daemon, timerList', f', clock, notified, notifying, lag)
  <2>1. Window(timer, timerList, f, lag) /\ DaemonInv(daemon, timerList, f, clock, notified, notifying, lag)
    BY DEF TimerInv, f
  <2>2. Range(timerList') \subseteq Range(timerList)
    BY Zenon, <1>4
  <2> QED BY Zenon, <2>1, <2>2, <1>7, FewerTimers
<1>11. Sorted(timerList', f')
  BY Zenon, <1>4, <1>7, SameSorted
<1> QED BY <1>2, <1>8, <1>9, <1>10, <1>11 DEF TimerInv, f

(* The second half of timer_delete gives back a slot that is in no list.   *)
LEMMA MempoolFreeStep ==
    ASSUME TimerInv, NEW s \in Timers, MempoolFree(s)
    PROVE  TimerInv'
<1> DEFINE f == Lefts(timer, clock)
<1>1. /\ timer \in [Timers -> TimerRecords] /\ clock \in 0..TimerTickMod - 1
      /\ timerList \in Seq(Timers) /\ Sorted(timerList, f)
      /\ freeSlots \in Seq(Timers) /\ IsInjective(freeSlots)
  BY DEF TimerInv, TimerTypeOK, SlotsInv
<1>2. UNCHANGED <<timerList, clock, daemon, notified, notifying, lag>> /\ s \in doomed
      /\ doomed' = doomed \ {s}
  BY Zenon DEF MempoolFree
<1>3. s \notin Range(freeSlots) /\ s \notin Range(timerList)
  BY Zenon, <1>2 DEF TimerInv, SlotsInv
<1>4. freeSlots' \in Seq(Timers) /\ Range(freeSlots') = Range(freeSlots) \cup {s} /\ IsInjective(freeSlots')
  BY <1>1, <1>3, PushFacts DEF MempoolFree
<1>5. Unset \in TimerRecords /\ Unset.active = FALSE
  BY TickModFacts DEF Unset, TimerRecords
<1>6. timer' \in [Timers -> TimerRecords] /\ timer'[s] = Unset /\ \A t \in Timers : t # s => timer'[t] = timer[t]
  BY Zenon, <1>1, <1>5 DEF MempoolFree
<1> HIDE DEF f
<1>7. \A t \in Range(timerList) : t \in Timers /\ t # s
  BY Zenon, <1>1, <1>3, RangeOf
<1>8. \A t \in Range(timerList) : f'[t] = f[t] /\ timer'[t].period = timer[t].period
  <2>1. Range(timerList) \subseteq Timers /\ \A t \in Range(timerList) : timer'[t] = timer[t]
    BY Zenon, <1>6, <1>7
  <2>2. clock' = clock
    BY Zenon, <1>2
  <2> QED BY Zenon, <2>1, <2>2 DEF f, Lefts
<1>9. TimerTypeOK'
  BY Zenon, <1>2, <1>4, <1>6 DEF TimerInv, TimerTypeOK
<1>10. SlotsInv(freeSlots, timer, timerList, doomed)'
  <2>0. timer[s].active = FALSE
    <3>1. timer[s].active \in BOOLEAN
      BY Zenon, <1>1 DEF TimerRecords
    <3> QED BY Zenon, <3>1, <1>3 DEF TimerInv, SlotsInv
  <2>1. Range(timerList) = {x \in Timers : timer'[x].active}
    BY Zenon, <1>5, <1>6, <2>0 DEF TimerInv, SlotsInv
  <2>2. \A x \in Range(timerList) : x \notin Range(freeSlots') /\ x \notin doomed'
    BY Zenon, <1>2, <1>4, <1>7 DEF TimerInv, SlotsInv
  <2>3. \A x \in doomed' : x \notin Range(freeSlots')
    BY Zenon, <1>2, <1>4 DEF TimerInv, SlotsInv
  <2>4. \A x \in Timers : x \notin Range(freeSlots') => timer'[x].period \in Periods
    BY Zenon, <1>4, <1>6 DEF TimerInv, SlotsInv
  <2>5. IsInjective(timerList)
    BY Zenon DEF TimerInv, SlotsInv
  <2> QED BY SMTT(30), <1>2, <1>4, <2>1, <2>2, <2>3, <2>4, <2>5 DEF SlotsInv
<1>11. /\ Window(timer', timerList, f', lag)
       /\ DaemonInv(daemon, timerList, f', clock, notified, notifying, lag)
  <2>1. Window(timer, timerList, f, lag) /\ DaemonInv(daemon, timerList, f, clock, notified, notifying, lag)
    BY DEF TimerInv, f
  <2> QED BY Zenon, <2>1, <1>8, FewerTimers
<1>12. Sorted(timerList, f')
  BY <1>1, <1>8, SameSorted
<1> QED BY Zenon, <1>2, <1>9, <1>10, <1>11, <1>12 DEF TimerInv, f

\* l is the list without s.
ListWithout(l, s) ==
  /\ l \in Seq(Timers) /\ IsInjective(l) /\ Range(l) = Range(timerList) \ {s}
  /\ Sorted(l, Lefts(timer, clock))

\* e is an expiry that s may be given now.
Expiry(s, e) ==
  /\ e \in 0..TimerTickMod - 1
  /\ Diff(e, clock) >= 0 - (MaxLag + lag) /\ Diff(e, clock) <= timer[s].period

\* What holds of the timers n and the list q when s is put into l.
InsertedFacts(n, q, l, s, e) ==
  /\ n \in [Timers -> TimerRecords] /\ q \in Seq(Timers)
  /\ Range(q) = Range(l) \cup {s}
  /\ SlotsInv(freeSlots, n, q, doomed)
  /\ Window(n, q, Lefts(n, clock), lag)
  /\ Sorted(q, Lefts(n, clock))
  /\ Lefts(n, clock)[s] = Diff(e, clock)
  /\ \A t \in Range(l) : /\ Lefts(n, clock)[t] = Lefts(timer, clock)[t]
                         /\ Diff(n[s].expiry, n[t].expiry) = Diff(e, clock) - Lefts(timer, clock)[t]

(* What the list and the ticks left are after timer_insert.                *)
LEMMA Inserted ==
    ASSUME TimerInv, NEW s \in Timers, s \notin Range(freeSlots), s \notin doomed,
           NEW l, ListWithout(l, s), NEW e, Expiry(s, e),
           NEW n, StartedFacts(n, timer, s, e)
    PROVE  InsertedFacts(n, TimerInsert(n, l, s), l, s, e)
<1> DEFINE f == Lefts(timer, clock)
           g == Lefts(n, clock)
           x == Diff(e, clock)
           q == TimerInsert(n, l, s)
<1>0. /\ l \in Seq(Timers) /\ IsInjective(l) /\ Range(l) = Range(timerList) \ {s} /\ Sorted(l, f)
      /\ e \in 0..TimerTickMod - 1
      /\ x >= 0 - (MaxLag + lag) /\ x <= timer[s].period
  BY Zenon DEF ListWithout, Expiry
<1>1. timer \in [Timers -> TimerRecords] /\ clock \in 0..TimerTickMod - 1
  BY DEF TimerInv, TimerTypeOK
<1>2. /\ n \in [Timers -> TimerRecords]
      /\ n[s].active = TRUE /\ n[s].expiry = e /\ n[s].period = timer[s].period
      /\ \A t \in Timers : t # s => n[t] = timer[t]
      /\ \A t \in Timers : n[t].period = timer[t].period
  BY Zenon DEF StartedFacts
<1>3. /\ g \in [Timers -> Int]
      /\ g[s] = x /\ x \in Int
  BY SMTT(30), <1>1, <1>2, LeftsFacts
<1>4. \A t \in Range(l) : t \in Timers /\ t # s /\ t \in Range(timerList) /\ n[t] = timer[t]
  BY Zenon, <1>0, <1>2, RangeOf
<1>5. \A t \in Range(l) : g[t] = f[t]
  BY Zenon, <1>4 DEF Lefts
<1>6. timer[s].period \in Periods /\ MaxLag \in Nat /\ lag \in 0..MaxLag
  BY Zenon, TimerAssumption DEF TimerInv, SlotsInv, TimerTypeOK
<1>7. x >= 0 - 2 * MaxLag
  <2> HIDE DEF x
  <2>1. x >= 0 - (MaxLag + lag)
    BY Zenon, <1>0
  <2> QED BY <1>3, <1>6, <2>1
<1> HIDE DEF f, g, x
<1>8. ASSUME NEW t \in Range(l) PROVE Diff(n[s].expiry, n[t].expiry) = x - f[t]
  <2>1. /\ t \in Timers /\ timer[t].period \in Periods
        /\ f[t] >= 0 - 2 * MaxLag /\ f[t] <= timer[t].period
    BY Zenon, <1>4, ListedFacts DEF f
  <2>2. g[t] >= 0 - 2 * MaxLag /\ g[t] <= timer[t].period
    BY Zenon, <1>5, <2>1
  <2>3. g[s] >= 0 - 2 * MaxLag /\ g[s] <= timer[s].period
    BY Zenon, <1>0, <1>3, <1>7
  <2>4. Diff(n[s].expiry, n[t].expiry) = g[s] - g[t]
    <3>1. /\ Lefts(n, clock)[s] >= 0 - 2 * MaxLag /\ Lefts(n, clock)[s] <= timer[s].period
          /\ Lefts(n, clock)[t] >= 0 - 2 * MaxLag /\ Lefts(n, clock)[t] <= timer[t].period
      BY Zenon, <2>2, <2>3 DEF g
    <3>2. Diff(n[s].expiry, n[t].expiry) = Lefts(n, clock)[s] - Lefts(n, clock)[t]
      BY SMTT(60), <1>1, <1>2, <1>6, <2>1, <3>1, LeftsOrder
    <3> QED BY Zenon, <3>2 DEF g
  <2> QED BY Zenon, <1>3, <1>5, <2>4
<1>9. /\ q \in Seq(Timers)
      /\ Range(q) = Range(l) \cup {s}
      /\ IsInjective(q)
      /\ Sorted(q, g)
  <2>1. Sorted(l, f)
    BY Zenon, <1>0
  <2>2. Sorted(l, g)
    BY Zenon, <1>0, <1>5, <2>1, SameSorted
  <2>3. s \notin Range(l)
    BY Zenon, <1>4
  <2>4. ASSUME NEW t \in Range(l) PROVE Diff(n[s].expiry, n[t].expiry) < 0 <=> g[s] < g[t]
    <3>1. t \in Timers /\ g[t] = f[t] /\ g[t] \in Int
      BY Zenon, <1>3, <1>4, <1>5
    <3>2. Diff(n[s].expiry, n[t].expiry) = g[s] - g[t]
      BY Zenon, <1>3, <1>8, <3>1
    <3> QED BY <1>3, <3>1, <3>2
  <2> QED BY Zenon, <1>0, <1>3, <2>2, <2>3, <2>4, SortedInsert
<1>10. SlotsInv(freeSlots, n, q, doomed)
  <2>1. IsInjective(freeSlots)
    BY Zenon DEF TimerInv, SlotsInv
  <2>2. Range(q) = {t \in Timers : n[t].active}
    <3>1. Range(timerList) = {t \in Timers : timer[t].active}
      BY Zenon DEF TimerInv, SlotsInv
    <3>2. \A t \in Timers : t \in Range(q) <=> n[t].active
      BY Zenon, <1>0, <1>2, <1>9, <3>1
    <3>3. \A t \in Range(q) : t \in Timers
      BY Zenon, <1>4, <1>9
    <3> QED BY Zenon, <3>2, <3>3
  <2>3. \A t \in Range(q) : t \notin Range(freeSlots) /\ t \notin doomed
    BY Zenon, <1>4, <1>9 DEF TimerInv, SlotsInv
  <2>4. \A t \in Timers : t \notin Range(freeSlots) => n[t].period \in Periods
    BY Zenon, <1>2 DEF TimerInv, SlotsInv
  <2>5. \A t \in doomed : t \notin Range(freeSlots)
    BY Zenon DEF TimerInv, SlotsInv
  <2> QED BY Zenon, <1>9, <2>1, <2>2, <2>3, <2>4, <2>5 DEF SlotsInv
<1>11. Window(n, q, g, lag)
  <2> SUFFICES ASSUME NEW t \in Range(q)
               PROVE  g[t] \in Int /\ g[t] >= 0 - (MaxLag + lag) /\ g[t] <= n[t].period
    BY Zenon DEF Window
  <2>1. CASE t = s
    BY Zenon, <1>0, <1>2, <1>3, <2>1
  <2>2. CASE t # s
    <3>1. t \in Range(l) /\ t \in Range(timerList) /\ n[t] = timer[t] /\ g[t] = f[t]
      BY Zenon, <1>4, <1>5, <1>9, <2>2
    <3>2. f[t] \in Int /\ f[t] >= 0 - (MaxLag + lag) /\ f[t] <= timer[t].period
      BY Zenon, <3>1, ListedFacts DEF f
    <3> QED BY Zenon, <3>1, <3>2
  <2> QED BY Zenon, <2>1, <2>2
<1> QED BY <1>2, <1>3, <1>5, <1>8, <1>9, <1>10, <1>11 DEF InsertedFacts, f, g, x

(* timer_start inserts the timer and notifies the daemon if it is the new  *)
(* head.                                                                   *)
LEMMA TimerStartStep ==
    ASSUME TimerInv, NEW s \in Timers, TimerStart(s)
    PROVE  TimerInv'
<1> DEFINE f == Lefts(timer, clock)
           l == TimerRemove(timerList, s)
           p == timer[s].period
           e == Plus(clock, p)
<1>1. /\ timer \in [Timers -> TimerRecords] /\ clock \in 0..TimerTickMod - 1
      /\ timerList \in Seq(Timers) /\ IsInjective(timerList) /\ Sorted(timerList, f)
      /\ Range(timerList) = {t \in Timers : timer[t].active}
      /\ s \notin Range(freeSlots) /\ s \notin doomed
      /\ p \in Periods /\ p \in Nat \ {0} /\ 2 * p < TimerTickMod
      /\ MaxLag \in Nat /\ lag \in 0..MaxLag
  <2>1. s \notin Range(freeSlots) /\ s \notin doomed
    BY Zenon DEF TimerStart, Owned
  <2>2. p \in Periods
    BY Zenon, <2>1 DEF TimerInv, SlotsInv
  <2> HIDE DEF p, e
  <2>3. p \in Nat \ {0} /\ 2 * p < TimerTickMod
    BY <2>2, TimerAssumption
  <2> QED BY Zenon, <2>1, <2>2, <2>3, TimerAssumption DEF TimerInv, TimerTypeOK, SlotsInv
<1>2. l = IF timer[s].active THEN TimerRemove(timerList, s) ELSE timerList
  BY <1>1 DEF TimerRemove
<1>3. /\ notifying = 0
      /\ timer' = [timer EXCEPT ![s].expiry = e, ![s].active = TRUE]
      /\ timerList' = TimerInsert(timer', l, s)
      /\ notifying' = IF BecomesHead(l, timer', s) THEN 1 ELSE 0
      /\ UNCHANGED <<freeSlots, doomed, clock, daemon, notified, lag>>
  BY <1>2, Zenon DEF TimerStart
<1>5. e \in 0..TimerTickMod - 1 /\ Diff(e, clock) = p
  BY Zenon, <1>1, PlusDiff
<1>4. StartedFacts(timer', timer, s, e)
  <2>1. IsStarted(timer', timer, s, e)
    BY Zenon, <1>3 DEF IsStarted
  <2> HIDE DEF e
  <2> QED BY Zenon, <1>1, <1>5, <2>1, StartTimer
<1>6. l \in Seq(Timers) /\ Range(l) = Range(timerList) \ {s} /\ IsInjective(l) /\ Sorted(l, f)
  <2> HIDE DEF f
  <2> QED BY Zenon, <1>1, SortedRemove
<1> HIDE DEF e, l, p
<1>7. Diff(e, clock) >= 0 - (MaxLag + lag) /\ Diff(e, clock) <= p
  BY <1>1, <1>5
<1>8. /\ timer' \in [Timers -> TimerRecords] /\ timerList' \in Seq(Timers)
      /\ Range(timerList') = Range(l) \cup {s}
      /\ SlotsInv(freeSlots, timer', timerList', doomed)
      /\ Window(timer', timerList', Lefts(timer', clock), lag)
      /\ Sorted(timerList', Lefts(timer', clock))
      /\ Lefts(timer', clock)[s] = Diff(e, clock)
      /\ \A t \in Range(l) :
           /\ Lefts(timer', clock)[t] = f[t]
           /\ Diff(timer'[s].expiry, timer'[t].expiry) = Diff(e, clock) - f[t]
  <2>1. ListWithout(l, s) /\ Expiry(s, e)
    BY Zenon, <1>5, <1>6, <1>7 DEF ListWithout, Expiry, p
  <2>2. InsertedFacts(timer', timerList', l, s, e)
    BY <1>1, <1>3, <1>4, <2>1, Inserted, Zenon
  <2> QED BY Zenon, <2>2 DEF InsertedFacts
<1> DEFINE g == Lefts(timer', clock)
<1>9. TimerTypeOK'
  BY Zenon, <1>3, <1>8 DEF TimerInv, TimerTypeOK
<1>10. \A t \in Range(l) : g[t] = f[t] /\ f[t] \in Int /\ t \in Range(timerList)
  BY Zenon, <1>6, <1>8, ListedFacts
<1>11. CASE notifying' = 1
  <2>1. \A t \in Range(timerList') : t = s \/ t \in Range(l)
    BY <1>8
  <2>2. g[s] = p
    BY <1>5, <1>8
  <2> HIDE DEF f, g
  <2>3. AtLock(daemon, clock, lag)
    BY Zenon DEF TimerInv, DaemonInv
  <2>4. AtWait(daemon, timerList', g, notified, 1, lag)
    <3>1. AtWait(daemon, timerList, f, notified, notifying, lag)
      BY Zenon DEF TimerInv, DaemonInv, f
    <3> QED BY SMTT(30), <1>1, <1>10, <2>1, <2>2, <3>1 DEF AtWait
  <2>5. AtBlocked(daemon, timerList', g, clock, 1, lag)
    <3>1. AtBlocked(daemon, timerList, f, clock, 0, lag)
      BY Zenon, <1>3 DEF TimerInv, DaemonInv, f
    <3> QED BY <1>1, <1>10, <2>1, <2>2, <3>1 DEF AtBlocked
  <2>6. DaemonInv(daemon, timerList', g, clock, notified, 1, lag)
    BY Zenon, <2>3, <2>4, <2>5 DEF DaemonInv
  <2> QED BY Zenon, <1>3, <1>8, <1>9, <1>11, <2>6 DEF TimerInv, g
<1>12. CASE notifying' # 1
  <2>1. ~BecomesHead(l, timer', s) /\ notifying' = 0
    BY <1>3, <1>12
  <2>2. l # << >> /\ ~(Diff(timer'[s].expiry, timer'[Head(l)].expiry) < 0)
    BY <2>1 DEF BecomesHead
  <2>3. Head(l) \in Range(l)
    BY <1>6, <2>2, PopFacts
  <2>4. PICK h : h = Head(l)
    BY Zenon
  <2>5. h \in Range(l) /\ f[h] \in Int /\ g[h] = f[h] /\ h \in Range(timerList)
    BY Zenon, <1>10, <2>3, <2>4
  <2>6. g[s] = p /\ f[h] <= p
    <3>1. Diff(timer'[s].expiry, timer'[h].expiry) = p - f[h]
      BY Zenon, <1>5, <1>8, <2>5
    <3> HIDE DEF f, g
    <3>2. p - f[h] >= 0
      BY SMTT(30), <1>1, <2>2, <2>4, <2>5, <3>1
    <3>3. g[s] = p
      BY Zenon, <1>5, <1>8 DEF g
    <3> QED BY SMTT(30), <1>1, <2>5, <3>2, <3>3
  <2>7. \A t \in Range(timerList') : t = s \/ t \in Range(l)
    BY <1>8
  <2> HIDE DEF f, g
  <2>8. AtLock(daemon, clock, lag)
    BY DEF TimerInv, DaemonInv
  <2>9. AtWait(daemon, timerList', g, notified, 0, lag)
    <3>1. AtWait(daemon, timerList, f, notified, 0, lag)
      BY <1>3 DEF TimerInv, DaemonInv, f
    <3>2. daemon.until \in Int
      BY Zenon DEF TimerInv, TimerTypeOK, DaemonRecords
    <3> QED BY SMTT(30), <1>1, <1>10, <2>5, <2>6, <2>7, <3>1, <3>2 DEF AtWait
  <2>10. AtBlocked(daemon, timerList', g, clock, 0, lag)
    <3>1. AtBlocked(daemon, timerList, f, clock, 0, lag)
      BY <1>3 DEF TimerInv, DaemonInv, f
    <3>2. daemon.until # NoWait /\ daemon.at = "blocked" => Diff(daemon.until, clock) \in Int
      BY Zenon, <1>1, <3>1, DiffCases DEF AtBlocked
    <3> QED BY SMTT(30), <1>1, <1>10, <2>5, <2>6, <2>7, <3>1, <3>2 DEF AtBlocked
  <2>11. DaemonInv(daemon, timerList', g, clock, notified, 0, lag)
    BY Zenon, <2>8, <2>9, <2>10 DEF DaemonInv
  <2> QED BY Zenon, <1>3, <1>8, <1>9, <2>1, <2>11 DEF TimerInv, g
<1> QED BY Zenon, <1>11, <1>12

------------------------------------------------------------------------------
(* The notification, the daemon and the tick *)

\* A step that leaves the timers and the list alone.
LEMMA SameTimers ==
    ASSUME TimerInv, UNCHANGED <<freeSlots, timer, timerList, doomed, clock>>,
           Window(timer, timerList, Lefts(timer, clock), lag'),
           DaemonInv(daemon', timerList, Lefts(timer, clock), clock, notified', notifying', lag'),
           notified' \in BOOLEAN, notifying' \in {0, 1}, lag' \in 0..MaxLag,
           daemon' \in DaemonRecords
    PROVE  TimerInv'
<1>1. TimerTypeOK'
  BY Zenon DEF TimerInv, TimerTypeOK
<1>2. /\ SlotsInv(freeSlots, timer, timerList, doomed)
      /\ Sorted(timerList, Lefts(timer, clock))
  BY DEF TimerInv
<1> QED BY Zenon, <1>1, <1>2 DEF TimerInv

(* The notification reaches the daemon, which no longer has to remember a  *)
(* wait.                                                                   *)
LEMMA TimerNotifyStep == TimerInv /\ TimerNotify => TimerInv'
<1> SUFFICES ASSUME TimerInv, TimerNotify PROVE TimerInv'
  OBVIOUS
<1> DEFINE f == Lefts(timer, clock)
<1>1. /\ notifying = 1 /\ notifying' = 0 /\ notified' = TRUE
      /\ UNCHANGED <<freeSlots, timer, timerList, doomed, clock>>
  BY Zenon DEF TimerNotify
<1>2. /\ Window(timer, timerList, f, lag)
      /\ DaemonInv(daemon, timerList, f, clock, notified, notifying, lag)
      /\ daemon \in DaemonRecords /\ lag \in 0..MaxLag /\ MaxLag \in Nat /\ clock \in 0..TimerTickMod - 1
  BY Zenon, TimerAssumption DEF TimerInv, TimerTypeOK
<1>3. CASE daemon.at = "blocked"
  <2>1. lag' = 0 /\ daemon' = [daemon EXCEPT !.at = "woke", !.until = 0]
    BY <1>3 DEF TimerNotify
  <2>2. daemon' \in DaemonRecords /\ daemon'.at = "woke"
    <3> DEFINE u == 0
    <3>1. u \in Int /\ daemon' = [daemon EXCEPT !.at = "woke", !.until = u]
      BY <2>1
    <3> HIDE DEF u
    <3> QED BY Zenon, <1>2, <3>1 DEF DaemonRecords
  <2>3. DaemonInv(daemon', timerList, f, clock, notified', notifying', lag')
    BY <2>2, DaemonElsewhere
  <2>4. Window(timer, timerList, f, 0)
    <3> SUFFICES ASSUME NEW s \in Range(timerList) PROVE f[s] >= 0 - MaxLag
      BY <1>2 DEF Window
    <3>1. f[s] \in Int
      BY Zenon, <1>2 DEF Window
    <3> HIDE DEF f
    <3>2. /\ daemon.until = NoWait \/ (daemon.until \in 0..TimerTickMod - 1 /\ Diff(daemon.until, clock) >= 1)
          /\ \/ daemon.until # NoWait /\ f[s] >= Diff(daemon.until, clock) - MaxLag
             \/ f[s] > 0 - lag
      BY Zenon, <1>2, <1>3 DEF DaemonInv, AtBlocked
    <3>3. CASE daemon.until # NoWait /\ f[s] >= Diff(daemon.until, clock) - MaxLag
      <4>1. Diff(daemon.until, clock) \in Int /\ Diff(daemon.until, clock) >= 1
        BY Zenon, <1>2, <3>2, <3>3, DiffCases
      <4> QED BY SMTT(30), <1>2, <3>1, <3>3, <4>1
    <3>4. CASE f[s] > 0 - lag
      BY <1>2, <3>1, <3>4
    <3> QED BY <3>2, <3>3, <3>4
  <2>5. lag' \in 0..MaxLag
    BY <1>2, <2>1
  <2>6. Window(timer, timerList, f, lag')
    BY Zenon, <2>1, <2>4
  <2> QED BY <1>1, <2>2, <2>3, <2>5, <2>6, SameTimers
<1>4. CASE daemon.at # "blocked"
  <2>1. UNCHANGED <<daemon, lag>>
    BY Zenon, <1>4 DEF TimerNotify
  <2> HIDE DEF f
  <2>2. DaemonInv(daemon, timerList, f, clock, TRUE, 0, lag)
    BY Zenon, <1>2, <1>4 DEF DaemonInv, AtLock, AtWait, AtBlocked
  <2>3. DaemonInv(daemon', timerList, f, clock, notified', notifying', lag') /\ Window(timer, timerList, f, lag')
    BY Zenon, <1>1, <1>2, <2>1, <2>2
  <2>4. daemon' \in DaemonRecords /\ lag' \in 0..MaxLag /\ notified' \in BOOLEAN /\ notifying' \in {0, 1}
    BY <1>1, <1>2, <2>1
  <2> QED BY Zenon, <1>1, <2>3, <2>4, SameTimers DEF f
<1> QED BY Zenon, <1>3, <1>4

\* The daemon's steps that only move it on: reading the clock, the callback,
\* clearing the notification.
LEMMA DaemonMovesStep == TimerInv /\ (DaemonReadsClock \/ TimerCallback \/ DaemonWoke) => TimerInv'
<1> SUFFICES ASSUME TimerInv, DaemonReadsClock \/ TimerCallback \/ DaemonWoke PROVE TimerInv'
  OBVIOUS
<1> DEFINE f == Lefts(timer, clock)
<1>1. /\ UNCHANGED <<freeSlots, timer, timerList, doomed, clock, notifying, lag>>
      /\ notified' \in {notified, FALSE}
  BY Zenon DEF DaemonReadsClock, TimerCallback, DaemonWoke
<1>2. /\ daemon \in DaemonRecords /\ notified \in BOOLEAN /\ notifying \in {0, 1} /\ lag \in 0..MaxLag
      /\ clock \in 0..TimerTickMod - 1 /\ Window(timer, timerList, f, lag) /\ MaxLag \in Nat
  BY TimerAssumption DEF TimerInv, TimerTypeOK
<1>3. CASE DaemonReadsClock
  <2>1. daemon' = [daemon EXCEPT !.at = "lock", !.now = clock]
    BY <1>3 DEF DaemonReadsClock
  <2>2. daemon' \in DaemonRecords /\ daemon'.at = "lock" /\ daemon'.now = clock
    BY Zenon, <1>2, <2>1 DEF DaemonRecords
  <2>3. Diff(clock, clock) = 0
    <3> DEFINE x == Diff(clock, clock)
    <3>1. /\ x \in Int /\ 2 * x < TimerTickMod /\ 2 * x >= 0 - TimerTickMod
          /\ x \in {clock - clock, (clock - clock) + TimerTickMod, (clock - clock) - TimerTickMod}
      BY <1>2, DiffCases
    <3> HIDE DEF x
    <3>2. TimerTickMod \in Nat /\ TimerTickMod > 2 /\ clock \in Int
      BY <1>2, TickModFacts
    <3>3. x = 0
      BY SMTT(30), <3>1, <3>2
    <3> QED BY <3>3 DEF x
  <2>4. DaemonInv(daemon', timerList, f, clock, notified', notifying', lag')
    BY <1>1, <1>2, <2>2, <2>3 DEF DaemonInv, AtLock, AtWait, AtBlocked
  <2> HIDE DEF f
  <2>5. Window(timer, timerList, f, lag') /\ notified' \in BOOLEAN /\ notifying' \in {0, 1} /\ lag' \in 0..MaxLag
    BY Zenon, <1>1, <1>2
  <2> QED BY <1>1, <2>2, <2>4, <2>5, SameTimers DEF f
<1>4. CASE TimerCallback \/ DaemonWoke
  <2>1. daemon' \in DaemonRecords /\ daemon'.at = "read"
    <3> DEFINE u == 0
    <3>1. u \in Int
      OBVIOUS
    <3>2. \/ daemon' = [daemon EXCEPT !.at = "read", !.until = u]
          \/ daemon' = [daemon EXCEPT !.at = "read", !.tmr = u]
      BY <1>4 DEF TimerCallback, DaemonWoke
    <3> HIDE DEF u
    <3>3. CASE daemon' = [daemon EXCEPT !.at = "read", !.until = u]
      BY Zenon, <1>2, <3>1, <3>3 DEF DaemonRecords
    <3>4. CASE daemon' = [daemon EXCEPT !.at = "read", !.tmr = u]
      BY Zenon, <1>2, <3>1, <3>4 DEF DaemonRecords
    <3> QED BY <3>2, <3>3, <3>4
  <2>2. DaemonInv(daemon', timerList, f, clock, notified', notifying', lag')
    BY <2>1, DaemonElsewhere
  <2> HIDE DEF f
  <2>3. Window(timer, timerList, f, lag') /\ notified' \in BOOLEAN /\ notifying' \in {0, 1} /\ lag' \in 0..MaxLag
    BY <1>1, <1>2
  <2> QED BY <1>1, <2>1, <2>2, <2>3, SameTimers DEF f
<1> QED BY <1>3, <1>4

(* The daemon begins to wait, or finds that it was notified meanwhile.     *)
LEMMA DaemonWaitsStep == TimerInv /\ DaemonWaits => TimerInv'
<1> SUFFICES ASSUME TimerInv, DaemonWaits PROVE TimerInv'
  OBVIOUS
<1> DEFINE f == Lefts(timer, clock)
<1>1. /\ UNCHANGED <<freeSlots, timer, timerList, doomed, clock, notified, notifying>>
      /\ daemon.at = "wait"
  BY Zenon DEF DaemonWaits
<1>2. /\ daemon \in DaemonRecords /\ notified \in BOOLEAN /\ notifying \in {0, 1} /\ lag \in 0..MaxLag
      /\ clock \in 0..TimerTickMod - 1 /\ Window(timer, timerList, f, lag)
      /\ MaxLag \in Nat /\ TimerTickMod \in Nat
  BY Zenon, TimerAssumption DEF TimerInv, TimerTypeOK
<1>3. CASE notified
  <2>1. lag' = lag /\ daemon' = [daemon EXCEPT !.at = "woke", !.until = 0]
    BY <1>3 DEF DaemonWaits
  <2>2. daemon' \in DaemonRecords /\ daemon'.at = "woke"
    <3> DEFINE u == 0
    <3>1. u \in Int /\ daemon' = [daemon EXCEPT !.at = "woke", !.until = u]
      BY <2>1
    <3> HIDE DEF u
    <3> QED BY Zenon, <1>2, <3>1 DEF DaemonRecords
  <2>3. DaemonInv(daemon', timerList, f, clock, notified', notifying', lag')
    BY <2>2, DaemonElsewhere
  <2> HIDE DEF f
  <2>4. Window(timer, timerList, f, lag') /\ notified' \in BOOLEAN /\ notifying' \in {0, 1} /\ lag' \in 0..MaxLag
    BY <1>1, <1>2, <2>1
  <2> QED BY Zenon, <1>1, <2>2, <2>3, <2>4, SameTimers DEF f
<1>4. CASE ~notified
  <2> DEFINE w == daemon.until
             u == IF w = NoWait THEN NoWait ELSE Plus(clock, w)
  <2>1. /\ daemon' = [daemon EXCEPT !.at = "blocked", !.until = u]
        /\ lag' = IF notifying = 1 THEN lag ELSE 0
    BY Zenon, <1>4 DEF DaemonWaits
  <2>2. w \in Int /\ NoWait \in Int
    BY <1>2 DEF DaemonRecords, NoWait
  <2> HIDE DEF f
  <2>3. /\ w = NoWait \/ (w >= 1 /\ 2 * w < TimerTickMod)
        /\ \A s \in Range(timerList) :
             /\ f[s] > 0 - lag
             /\ (w # NoWait /\ f[s] >= w - lag) \/ notifying = 1
    BY Zenon, <1>1, <1>4 DEF TimerInv, DaemonInv, AtWait, f
  <2> HIDE DEF w
  <2>4. u = NoWait \/ (w # NoWait /\ u \in 0..TimerTickMod - 1 /\ Diff(u, clock) = w /\ w >= 1)
    <3>1. CASE w # NoWait
      <4>1. w \in Nat /\ 2 * w < TimerTickMod /\ w >= 1
        BY SMTT(30), <2>2, <2>3, <3>1
      <4> QED BY Zenon, <1>2, <3>1, <4>1, PlusDiff
    <3> QED BY Zenon, <3>1
  <2>5. u \in Int /\ (w = NoWait => u = NoWait) /\ (w # NoWait => u # NoWait)
    BY <1>2, <2>2, <2>3, <2>4, PlusFacts DEF NoWait
  <2> HIDE DEF u
  <2>6. daemon' \in DaemonRecords /\ daemon'.at = "blocked" /\ daemon'.until = u
    BY Zenon, <1>2, <2>1, <2>5 DEF DaemonRecords
  <2>7. \A s \in Range(timerList) : f[s] \in Int
    BY <1>2 DEF Window
  <2>8. lag' \in 0..MaxLag
    BY <1>2, <2>1
  <2>9. Window(timer, timerList, f, lag')
    BY <1>2, <2>1, <2>3, <2>7 DEF Window
  <2>10. AtBlocked(daemon', timerList, f, clock, notifying, lag')
    <3>1. u = NoWait \/ (u \in 0..TimerTickMod - 1 /\ Diff(u, clock) >= 1)
      BY Zenon, <2>4
    <3>2. ASSUME NEW s \in Range(timerList)
          PROVE  \/ u # NoWait /\ f[s] >= Diff(u, clock) - MaxLag
                 \/ notifying = 1 /\ f[s] > 0 - lag'
      <4>1. CASE notifying = 1
        BY Zenon, <2>1, <2>3, <4>1
      <4>2. CASE notifying # 1
        <5>1. w # NoWait /\ f[s] >= w - lag
          BY Zenon, <2>3, <4>2
        <5>2. u # NoWait /\ Diff(u, clock) = w
          BY Zenon, <2>4, <2>5, <5>1
        <5> QED BY <1>2, <2>2, <2>7, <5>1, <5>2
      <4> QED BY Zenon, <4>1, <4>2
    <3> QED BY Zenon, <2>6, <3>1, <3>2 DEF AtBlocked
  <2>11. DaemonInv(daemon', timerList, f, clock, notified', notifying', lag')
    BY Zenon, <1>1, <2>6, <2>10 DEF DaemonInv, AtLock, AtWait
  <2>12. notified' \in BOOLEAN /\ notifying' \in {0, 1}
    BY Zenon, <1>1, <1>2
  <2> QED BY <1>1, <2>6, <2>8, <2>9, <2>11, <2>12, SameTimers DEF f
<1> QED BY Zenon, <1>3, <1>4

(* timer_check_expiries computes the wait from the head of the list.       *)
LEMMA NextWakeStep == TimerInv /\ NextWake => TimerInv'
<1> SUFFICES ASSUME TimerInv, NextWake PROVE TimerInv'
  OBVIOUS
<1> DEFINE f == Lefts(timer, clock)
           w == IF timerList = << >> THEN NoWait
                ELSE (timer[Head(timerList)].expiry - daemon.now) % TimerTickMod
<1>1. /\ UNCHANGED <<freeSlots, timer, timerList, doomed, clock, notified, notifying, lag>>
      /\ daemon.at = "lock" /\ ~HeadExpired
      /\ daemon' = [daemon EXCEPT !.at = "wait", !.now = 0, !.until = w]
  BY Zenon DEF NextWake
<1>2. /\ daemon \in DaemonRecords /\ notified \in BOOLEAN /\ notifying \in {0, 1} /\ lag \in 0..MaxLag
      /\ clock \in 0..TimerTickMod - 1 /\ Window(timer, timerList, f, lag)
      /\ Sorted(timerList, f) /\ timerList \in Seq(Timers)
      /\ MaxLag \in Nat /\ TimerTickMod \in Nat /\ TimerTickMod > 2
      /\ timer \in [Timers -> TimerRecords] /\ daemon.now \in 0..TimerTickMod - 1
  BY Zenon, TickModFacts DEF TimerInv, TimerTypeOK, DaemonRecords
<1> HIDE DEF w
<1>3. /\ w \in Int
      /\ w = NoWait \/ (w >= 1 /\ 2 * w < TimerTickMod)
      /\ \A s \in Range(timerList) : f[s] > 0 - lag /\ w # NoWait /\ f[s] >= w - lag
  <2>1. CASE timerList = << >>
    <3>1. w = NoWait /\ w \in Int
      BY <2>1 DEF w, NoWait
    <3>2. Range(timerList) = {}
      BY <2>1 DEF Range
    <3> QED BY Zenon, <3>1, <3>2
  <2>2. CASE timerList # << >>
    <3>1. PICK h : h = Head(timerList)
      BY Zenon
    <3>2. \A s \in Range(timerList) : f[s] \in Int
      BY Zenon, <1>2 DEF Window
    <3>3. h \in Range(timerList) /\ \A s \in Range(timerList) : f[h] <= f[s]
      <4> HIDE DEF f
      <4> QED BY Zenon, <1>2, <2>2, <3>1, <3>2, SortedHead
    <3> DEFINE x == f[h]
               d == Diff(clock, daemon.now)
               e == timer[h].expiry
               p == timer[h].period
    <3>4. /\ x \in Int /\ x >= 0 - 2 * MaxLag /\ x <= p /\ p \in Nat
          /\ 2 * (p + 2 * MaxLag) < TimerTickMod /\ h \in Timers /\ x = Diff(e, clock)
      BY Zenon, <3>3, ListedFacts
    <3>5. e \in 0..TimerTickMod - 1
      BY Zenon, <1>2, <3>4, LeftsFacts
    <3>6. d \in 0..lag
      BY <1>1 DEF TimerInv, DaemonInv, AtLock
    <3> HIDE DEF d
    <3>7. Diff(daemon.now, clock) = 0 - d
      <4>1. 2 * d > 0 - TimerTickMod
        BY <1>2, <3>6
      <4> QED BY <1>2, <4>1, DiffOpposite DEF d
    <3> DEFINE y == Diff(e, daemon.now)
    <3> HIDE DEF e, p, x
    <3>8. y = x + d
      <4>1. 2 * (x - (0 - d)) < TimerTickMod /\ 2 * (x - (0 - d)) > 0 - TimerTickMod
        BY SMTT(30), <1>2, <3>4, <3>6
      <4>2. y = Diff(e, clock) - Diff(daemon.now, clock)
        BY SMTT(30), <1>2, <3>4, <3>5, <3>7, <4>1, DiffMinus
      <4>3. y = x - (0 - d)
        BY Zenon, <3>4, <3>7, <4>2
      <4> QED BY SMTT(30), <1>2, <3>4, <3>6, <4>3
    <3>b. lag \in Nat /\ lag <= MaxLag /\ MaxLag \in Nat /\ TimerTickMod \in Nat /\ d \in Nat /\ d <= lag
      BY <1>2, <3>6
    <3>9. 2 * y < TimerTickMod /\ 2 * y > 0 - TimerTickMod /\ y \in Int
      <4> HIDE DEF y
      <4> QED BY <3>b, <3>4, <3>8
    <3>10. y >= 1
      <4>1. ~(Diff(daemon.now, e) >= 0)
        BY Zenon, <1>1, <2>2, <3>1 DEF HeadExpired, e
      <4>2. Diff(daemon.now, e) = 0 - y
        BY Zenon, <1>2, <3>5, <3>9, DiffOpposite
      <4> HIDE DEF y
      <4> QED BY <3>9, <4>1, <4>2
    <3>11. w = y
      <4>1. w = (e - daemon.now) % TimerTickMod
        BY <2>2, <3>1 DEF w, e
      <4>2. y >= 0
        BY <3>9, <3>10
      <4> QED BY Zenon, <1>2, <3>5, <4>1, <4>2, DiffCases
    <3> HIDE DEF y
    <3>12. ASSUME NEW s \in Range(timerList)
           PROVE  f[s] > 0 - lag /\ f[s] >= w - lag
      <4>1. f[s] \in Int /\ x <= f[s]
        BY Zenon, <3>2, <3>3 DEF x
      <4> DEFINE v == f[s]
      <4>2. v \in Int /\ x <= v
        BY Zenon, <4>1
      <4> HIDE DEF v
      <4>3. v > 0 - lag /\ v >= w - lag
        BY SMTT(30), <3>b, <3>4, <3>8, <3>9, <3>10, <3>11, <4>2
      <4> QED BY Zenon, <4>3 DEF v
    <3>13. w # NoWait
      BY <3>9, <3>10, <3>11 DEF NoWait
    <3> QED BY <3>9, <3>10, <3>11, <3>12, <3>13
  <2> QED BY Zenon, <2>1, <2>2
<1>4. daemon' \in DaemonRecords /\ daemon'.at = "wait" /\ daemon'.until = w
  <2> DEFINE z == 0
  <2>1. z \in 0..TimerTickMod - 1 /\ daemon' = [daemon EXCEPT !.at = "wait", !.now = z, !.until = w]
    BY <1>1, <1>2
  <2> HIDE DEF z
  <2> QED BY Zenon, <1>2, <1>3, <2>1 DEF DaemonRecords
<1> HIDE DEF f
<1>5. DaemonInv(daemon', timerList, f, clock, notified, notifying, lag)
  BY <1>3, <1>4 DEF DaemonInv, AtLock, AtWait, AtBlocked
<1>6. DaemonInv(daemon', timerList, f, clock, notified', notifying', lag')
      /\ Window(timer, timerList, f, lag')
  BY Zenon, <1>1, <1>2, <1>5
<1>7. notified' \in BOOLEAN /\ notifying' \in {0, 1} /\ lag' \in 0..MaxLag
  BY Zenon, <1>1, <1>2
<1> QED BY <1>1, <1>4, <1>6, <1>7, SameTimers DEF f

(* timer_check_expiries takes the head off the list, and puts it back if   *)
(* it reloads.                                                             *)
LEMMA TimerExpiresStep == TimerInv /\ TimerExpires => TimerInv'
<1> SUFFICES ASSUME TimerInv, TimerExpires PROVE TimerInv'
  OBVIOUS
<1> DEFINE f == Lefts(timer, clock)
<1>1. PICK s : s = Head(timerList)
  OBVIOUS
<1> DEFINE p == timer[s].period
           e == Plus(daemon.now, p)
           l == Tail(timerList)
<1>2. /\ UNCHANGED <<freeSlots, doomed, clock, notified, notifying, lag>>
      /\ daemon.at = "lock" /\ timerList # << >>
      /\ daemon' = [daemon EXCEPT !.at = "callback", !.now = 0, !.tmr = s]
      /\ timer' = [timer EXCEPT ![s].active = timer[s].reload,
                                ![s].expiry = IF timer[s].reload THEN e ELSE 0]
      /\ timerList' = IF timer[s].reload THEN TimerInsert(timer', l, s) ELSE l
  BY <1>1 DEF TimerExpires, HeadExpired
<1>3. /\ daemon \in DaemonRecords /\ notified \in BOOLEAN /\ notifying \in {0, 1} /\ lag \in 0..MaxLag
      /\ clock \in 0..TimerTickMod - 1 /\ Window(timer, timerList, f, lag)
      /\ Sorted(timerList, f) /\ timerList \in Seq(Timers) /\ IsInjective(timerList)
      /\ MaxLag \in Nat /\ TimerTickMod \in Nat /\ TimerTickMod > 2
      /\ timer \in [Timers -> TimerRecords] /\ daemon.now \in 0..TimerTickMod - 1
      /\ DaemonInv(daemon, timerList, f, clock, notified, notifying, lag)
      /\ Range(timerList) = {t \in Timers : timer[t].active}
  BY TickModFacts DEF TimerInv, TimerTypeOK, DaemonRecords, SlotsInv
<1>4. s \in Range(timerList)
  BY Zenon, <1>1, <1>2, <1>3, PopFacts
<1>5. /\ s \in Timers /\ p \in Periods /\ p \in Nat /\ 2 * (p + 2 * MaxLag) < TimerTickMod
      /\ s \notin Range(freeSlots) /\ s \notin doomed /\ timer[s].reload \in BOOLEAN
  <2>1. s \in Timers /\ p \in Periods /\ p \in Nat /\ 2 * (p + 2 * MaxLag) < TimerTickMod
    BY Zenon, <1>4, ListedFacts
  <2>2. s \notin Range(freeSlots) /\ s \notin doomed
    BY Zenon, <1>4 DEF TimerInv, SlotsInv
  <2>3. timer[s].reload \in BOOLEAN
    BY Zenon, <1>3, <2>1 DEF TimerRecords
  <2> QED BY Zenon, <2>1, <2>2, <2>3
<1>6. l \in Seq(Timers) /\ Range(l) = Range(timerList) \ {s} /\ IsInjective(l) /\ Sorted(l, f)
  <2> HIDE DEF f
  <2> QED BY Zenon, <1>1, <1>2, <1>3, SortedTail
<1>7. daemon' \in DaemonRecords /\ daemon'.at = "callback"
  <2> DEFINE z == 0
  <2>1. z \in 0..TimerTickMod - 1 /\ daemon' = [daemon EXCEPT !.at = "callback", !.now = z, !.tmr = s] /\ s \in Int
    BY <1>2, <1>3, <1>5 DEF Timers
  <2> HIDE DEF z
  <2> QED BY Zenon, <1>3, <2>1 DEF DaemonRecords
<1> HIDE DEF l
<1>8. CASE timer[s].reload = TRUE
  <2>1. /\ timer' = [timer EXCEPT ![s].active = TRUE, ![s].expiry = e]
        /\ timerList' = TimerInsert(timer', l, s)
    BY Zenon, <1>2, <1>8
  <2>2. e \in 0..TimerTickMod - 1 /\ Diff(e, daemon.now) = p
    <3>1. 2 * p < TimerTickMod
      BY <1>3, <1>5
    <3> QED BY Zenon, <1>3, <1>5, <3>1, PlusDiff
  <2> HIDE DEF e
  <2>3. StartedFacts(timer', timer, s, e)
    <3>1. IsStarted(timer', timer, s, e)
      BY <2>1 DEF IsStarted
    <3> HIDE DEF f
    <3> QED BY Zenon, <1>3, <1>5, <2>2, <3>1, StartTimer
  <2>4. Expiry(s, e)
    <3> DEFINE d == Diff(clock, daemon.now)
    <3>1. d \in 0..lag
      BY Zenon, <1>2, <1>3 DEF DaemonInv, AtLock
    <3> HIDE DEF d, p
    <3>2. 2 * (p - d) < TimerTickMod /\ 2 * (p - d) > 0 - TimerTickMod
      BY <1>3, <1>5, <3>1
    <3>3. Diff(e, clock) = p - d
      BY Zenon, <1>3, <2>2, <3>2, DiffMinus DEF d
    <3>4. p - d >= 0 - (MaxLag + lag) /\ p - d <= p
      BY <1>3, <1>5, <3>1
    <3> QED BY Zenon, <2>2, <3>3, <3>4 DEF Expiry, p
  <2>5. ListWithout(l, s)
    BY <1>6 DEF ListWithout
  <2>6. InsertedFacts(timer', timerList', l, s, e)
    BY <1>5, <2>1, <2>3, <2>4, <2>5, Inserted, Zenon
  <2>7. /\ timer' \in [Timers -> TimerRecords] /\ timerList' \in Seq(Timers)
        /\ SlotsInv(freeSlots, timer', timerList', doomed)
        /\ Window(timer', timerList', Lefts(timer', clock), lag)
        /\ Sorted(timerList', Lefts(timer', clock))
    BY Zenon, <2>6 DEF InsertedFacts
  <2>8. TimerTypeOK'
    BY Zenon, <1>2, <1>7, <2>7 DEF TimerInv, TimerTypeOK
  <2>9. DaemonInv(daemon', timerList', Lefts(timer', clock), clock, notified, notifying, lag)
    BY Zenon, <1>7, DaemonElsewhere
  <2> QED BY <1>2, <2>7, <2>8, <2>9 DEF TimerInv
<1>9. CASE timer[s].reload = FALSE
  <2>1. /\ timer' = [timer EXCEPT ![s].active = FALSE, ![s].expiry = 0]
        /\ timerList' = l
    BY Zenon, <1>2, <1>9
  <2>2. /\ timer' \in [Timers -> TimerRecords]
        /\ timer'[s].active = FALSE
        /\ \A t \in Timers : t # s => timer'[t] = timer[t]
        /\ \A t \in Timers : timer'[t].period = timer[t].period
    <3> DEFINE a == FALSE
               z == 0
    <3>1. /\ a \in BOOLEAN /\ z \in 0..TimerTickMod - 1 /\ a = FALSE
          /\ IsSet(timer', timer, s, a, z)
      BY <1>3, <2>1 DEF IsSet
    <3>0. timer \in [Timers -> TimerRecords] /\ s \in Timers
      BY <1>3, <1>5
    <3> HIDE DEF a, z, f, p
    <3>2. /\ timer' \in [Timers -> TimerRecords]
          /\ timer'[s].active = a
          /\ \A t \in Timers : t # s => timer'[t] = timer[t]
          /\ \A t \in Timers : timer'[t].period = timer[t].period
      BY <3>0, <3>1, SetTimer
    <3> QED BY <3>1, <3>2
  <2>3. \A t \in Range(l) : t \in Timers /\ t # s /\ t \in Range(timerList)
    BY Zenon, <1>6, RangeOf
  <2>4. \A t \in Range(l) : Lefts(timer', clock)[t] = f[t] /\ timer'[t].period = timer[t].period
    <3>1. \A t \in Range(l) : t \in Timers /\ timer'[t] = timer[t]
      BY Zenon, <2>2, <2>3
    <3> QED BY Zenon, <3>1 DEF Lefts
  <2>5. TimerTypeOK'
    BY Zenon, <1>2, <1>6, <1>7, <2>1, <2>2 DEF TimerInv, TimerTypeOK
  <2>6. SlotsInv(freeSlots, timer', l, doomed)
    <3>1. Range(l) = {x \in Timers : timer'[x].active}
      BY Zenon, <1>3, <1>6, <2>2
    <3>2. \A x \in Timers : x \notin Range(freeSlots) => timer'[x].period \in Periods
      BY Zenon, <2>2 DEF TimerInv, SlotsInv
    <3> QED BY Zenon, <1>6, <2>3, <3>1, <3>2 DEF TimerInv, SlotsInv
  <2> DEFINE g == Lefts(timer', clock)
  <2>7. \A t \in Range(l) : g[t] = f[t]
    BY Zenon, <2>4
  <2> HIDE DEF f, g
  <2>8. Window(timer', l, g, lag)
    BY <1>3, <2>3, <2>4, <2>7 DEF Window
  <2>9. Sorted(l, g)
    BY Zenon, <1>6, <2>7, SameSorted
  <2>10. DaemonInv(daemon', l, g, clock, notified, notifying, lag)
    BY Zenon, <1>7, DaemonElsewhere
  <2> QED BY SMTT(30), <1>2, <2>1, <2>5, <2>6, <2>8, <2>9, <2>10 DEF TimerInv, g
<1> QED BY Zenon, <1>5, <1>8, <1>9

(* A tick brings every timer nearer, and wakes the daemon in time.         *)
LEMMA TimerTickStep == TimerInv /\ TimerTick => TimerInv'
<1> SUFFICES ASSUME TimerInv, TimerTick PROVE TimerInv'
  OBVIOUS
<1> DEFINE f == Lefts(timer, clock)
           c == Plus(clock, 1)
           g == Lefts(timer, c)
           U == Diff(daemon.until, clock)
           V == Diff(daemon.until, c)
           wakes == daemon.at = "blocked" /\ daemon.until # NoWait /\ Diff(c, daemon.until) >= 0
<1>1. /\ UNCHANGED <<freeSlots, timer, timerList, doomed, notified, notifying>>
      /\ clock' = c
      /\ daemon' = IF wakes THEN [daemon EXCEPT !.at = "woke", !.until = 0] ELSE daemon
  BY Zenon DEF TimerTick
<1>2. /\ daemon \in DaemonRecords /\ notified \in BOOLEAN /\ notifying \in {0, 1} /\ lag \in 0..MaxLag
      /\ clock \in 0..TimerTickMod - 1 /\ Window(timer, timerList, f, lag)
      /\ Sorted(timerList, f) /\ timerList \in Seq(Timers)
      /\ MaxLag \in Nat /\ TimerTickMod \in Nat /\ TimerTickMod > 2 /\ 4 * MaxLag + 2 < TimerTickMod
      /\ timer \in [Timers -> TimerRecords] /\ daemon.now \in 0..TimerTickMod - 1
      /\ DaemonInv(daemon, timerList, f, clock, notified, notifying, lag)
  BY Zenon, TickModFacts DEF TimerInv, TimerTypeOK, DaemonRecords
<1>3. /\ lag' \in 0..MaxLag
      /\ \/ lag' = 0 /\ daemon.at = "blocked" /\ notifying = 0
         \/ lag' = lag + 1 /\ lag < MaxLag /\ (daemon.at = "blocked" => notifying = 1)
  BY <1>2 DEF TimerTick
<1>4. c \in 0..TimerTickMod - 1
  BY <1>2, PlusFacts
<1>5. \A s \in Range(timerList) : f[s] \in Int /\ g[s] = f[s] - 1
  <2> SUFFICES ASSUME NEW s \in Range(timerList) PROVE f[s] \in Int /\ g[s] = f[s] - 1
    BY Zenon
  <2>1. s \in Timers /\ f[s] \in Int /\ f[s] = Diff(timer[s].expiry, clock) /\ f[s] >= 0 - 2 * MaxLag
    BY Zenon, ListedFacts
  <2>2. timer[s].expiry \in 0..TimerTickMod - 1 /\ g[s] = Diff(timer[s].expiry, c)
    BY Zenon, <1>2, <1>4, <2>1, LeftsFacts
  <2> DEFINE x == f[s]
             e == timer[s].expiry
  <2>3. x \in Int /\ x >= 0 - 2 * MaxLag /\ x = Diff(e, clock) /\ e \in 0..TimerTickMod - 1 /\ g[s] = Diff(e, c)
    BY Zenon, <2>1, <2>2
  <2> HIDE DEF x, e, f, g, c
  <2>4. 2 * x - 2 >= 0 - TimerTickMod
    BY <1>2, <2>3
  <2>5. Diff(e, c) = x - 1
    BY Zenon, <1>2, <2>3, <2>4, DiffTick DEF c
  <2> QED BY Zenon, <2>3, <2>5 DEF x
<1>6. Sorted(timerList, g)
  <2> HIDE DEF f, g
  <2>1. \A s, t \in Range(timerList) : f[s] <= f[t] => g[s] <= g[t]
    BY <1>5
  <2> QED BY Zenon, <1>2, <2>1, SortedMono
<1>7. daemon.at = "blocked" /\ daemon.until # NoWait =>
        /\ U \in Int /\ U >= 1 /\ V = U - 1 /\ Diff(c, daemon.until) = 0 - V
        /\ daemon.until \in 0..TimerTickMod - 1
  <2> SUFFICES ASSUME daemon.at = "blocked", daemon.until # NoWait
               PROVE  /\ U \in Int /\ U >= 1 /\ V = U - 1 /\ Diff(c, daemon.until) = 0 - V
                      /\ daemon.until \in 0..TimerTickMod - 1
    BY Zenon
  <2>1. daemon.until \in 0..TimerTickMod - 1 /\ U >= 1
    BY Zenon, <1>2 DEF DaemonInv, AtBlocked
  <2>2. U \in Int
    BY Zenon, <1>2, <2>1, DiffCases
  <2>3. V = U - 1
    <3>1. 2 * U - 2 >= 0 - TimerTickMod
      <4> HIDE DEF U
      <4> QED BY <1>2, <2>1, <2>2
    <3> QED BY Zenon, <1>2, <2>1, <3>1, DiffTick
  <2>4. 2 * V > 0 - TimerTickMod
    <3> HIDE DEF U, V
    <3> QED BY <1>2, <2>1, <2>2, <2>3
  <2>5. Diff(c, daemon.until) = 0 - V
    BY Zenon, <1>4, <2>1, <2>4, DiffOpposite
  <2> QED BY <2>1, <2>2, <2>3, <2>5
<1> HIDE DEF f, g, U, V
<1>8. daemon' \in DaemonRecords
  <2>1. CASE wakes
    <3> DEFINE u == 0
    <3>1. u \in Int /\ daemon' = [daemon EXCEPT !.at = "woke", !.until = u]
      BY <1>1, <2>1
    <3> HIDE DEF u
    <3> QED BY Zenon, <1>2, <3>1 DEF DaemonRecords
  <2>2. CASE ~wakes
    BY <1>1, <1>2, <2>2
  <2> QED BY <2>1, <2>2
<1>9. wakes => daemon'.at = "woke"
  BY <1>1, <1>2 DEF DaemonRecords
<1>10. Window(timer, timerList, g, lag')
  <2> SUFFICES ASSUME NEW s \in Range(timerList)
               PROVE  g[s] \in Int /\ g[s] >= 0 - (MaxLag + lag') /\ g[s] <= timer[s].period
    BY Zenon DEF Window
  <2> DEFINE x == f[s]
             p == timer[s].period
  <2>1. x \in Int /\ x >= 0 - (MaxLag + lag) /\ x <= p /\ g[s] = x - 1 /\ p \in Nat
    BY Zenon, <1>5, ListedFacts DEF f
  <2> HIDE DEF x, p
  <2>2. CASE lag' = lag + 1
    BY SMTT(30), <1>2, <2>1, <2>2 DEF p
  <2>3. CASE lag' = 0 /\ daemon.at = "blocked" /\ notifying = 0
    <3>1. daemon.until # NoWait /\ x >= U - MaxLag
      BY <1>2, <2>3 DEF DaemonInv, AtBlocked, U, x
    <3>2. U \in Int /\ U >= 1
      BY Zenon, <1>7, <2>3, <3>1
    <3> QED BY SMTT(30), <1>2, <2>1, <2>3, <3>1, <3>2 DEF p
  <2> QED BY <1>3, <2>2, <2>3
<1>11. DaemonInv(daemon', timerList, g, c, notified, notifying, lag')
  <2>1. CASE wakes
    BY Zenon, <1>9, <2>1, DaemonElsewhere
  <2>2. CASE ~wakes
    <3>0. daemon' = daemon
      BY Zenon, <1>1, <2>2
    <3>1. AtLock(daemon, c, lag')
      <4> SUFFICES ASSUME daemon.at = "lock" PROVE Diff(c, daemon.now) \in 0..lag'
        BY Zenon DEF AtLock
      <4> DEFINE d == Diff(clock, daemon.now)
                 y == Diff(daemon.now, clock)
                 z == Diff(daemon.now, c)
      <4>1. d \in 0..lag /\ lag' = lag + 1 /\ lag < MaxLag
        BY Zenon, <1>2, <1>3 DEF DaemonInv, AtLock
      <4>2. y = 0 - d
        <5> HIDE DEF d
        <5>1. 2 * d > 0 - TimerTickMod
          BY <1>2, <4>1
        <5> QED BY Zenon, <1>2, <5>1, DiffOpposite DEF d
      <4>3. z = y - 1
        <5> HIDE DEF d, y
        <5>1. 2 * y - 2 >= 0 - TimerTickMod
          BY SMTT(30), <1>2, <4>1, <4>2
        <5> QED BY Zenon, <1>2, <5>1, DiffTick DEF y
      <4>4. Diff(c, daemon.now) = 0 - z
        <5> HIDE DEF d, y, z, c
        <5>1. 2 * z > 0 - TimerTickMod
          BY SMTT(30), <1>2, <4>1, <4>2, <4>3
        <5> QED BY Zenon, <1>2, <1>4, <5>1, DiffOpposite DEF z
      <4> HIDE DEF d, y, z, c
      <4> QED BY SMTT(30), <1>2, <4>1, <4>2, <4>3, <4>4
    <3>2. AtWait(daemon, timerList, g, notified, notifying, lag')
      <4> SUFFICES ASSUME daemon.at = "wait"
                   PROVE  /\ daemon.until = NoWait \/ (daemon.until >= 1 /\ 2 * daemon.until < TimerTickMod)
                          /\ \A s \in Range(timerList) :
                               /\ g[s] > 0 - lag'
                               /\ (daemon.until # NoWait /\ g[s] >= daemon.until - lag') \/ notifying = 1 \/ notified
        BY Zenon DEF AtWait
      <4>1. /\ daemon.until = NoWait \/ (daemon.until >= 1 /\ 2 * daemon.until < TimerTickMod)
            /\ \A s \in Range(timerList) :
                 /\ f[s] > 0 - lag
                 /\ (daemon.until # NoWait /\ f[s] >= daemon.until - lag) \/ notifying = 1 \/ notified
        BY Zenon, <1>2 DEF DaemonInv, AtWait
      <4>2. lag' = lag + 1 /\ daemon.until \in Int
        BY Zenon, <1>2, <1>3 DEF DaemonRecords
      <4>3. ASSUME NEW s \in Range(timerList)
            PROVE  /\ g[s] > 0 - lag'
                   /\ f[s] >= daemon.until - lag => g[s] >= daemon.until - lag'
        <5> DEFINE x == f[s]
                   u == daemon.until
        <5>1. x \in Int /\ g[s] = x - 1 /\ u \in Int /\ x > 0 - lag
          BY Zenon, <1>5, <4>1, <4>2
        <5> HIDE DEF x, u
        <5>2. x - 1 > 0 - (lag + 1) /\ (x >= u - lag => x - 1 >= u - (lag + 1))
          BY <1>2, <5>1
        <5> QED BY Zenon, <4>2, <5>1, <5>2 DEF x, u
      <4> QED BY Zenon, <4>1, <4>3
    <3>3. AtBlocked(daemon, timerList, g, c, notifying, lag')
      <4> SUFFICES ASSUME daemon.at = "blocked"
                   PROVE  /\ daemon.until = NoWait \/ (daemon.until \in 0..TimerTickMod - 1 /\ V >= 1)
                          /\ \A s \in Range(timerList) :
                               \/ daemon.until # NoWait /\ g[s] >= V - MaxLag
                               \/ notifying = 1 /\ g[s] > 0 - lag'
        BY Zenon DEF AtBlocked, V
      <4>1. daemon.until # NoWait => V >= 1 /\ V = U - 1 /\ U \in Int /\ daemon.until \in 0..TimerTickMod - 1
        BY <1>7, <2>2
      <4>2. \A s \in Range(timerList) :
              \/ daemon.until # NoWait /\ f[s] >= U - MaxLag
              \/ notifying = 1 /\ f[s] > 0 - lag
        BY Zenon, <1>2 DEF DaemonInv, AtBlocked, U
      <4>3. ASSUME NEW s \in Range(timerList)
            PROVE  \/ daemon.until # NoWait /\ g[s] >= V - MaxLag
                   \/ notifying = 1 /\ g[s] > 0 - lag'
        <5> DEFINE x == f[s]
        <5>1. x \in Int /\ g[s] = x - 1
          BY Zenon, <1>5
        <5>2. \/ daemon.until # NoWait /\ x >= U - MaxLag
              \/ notifying = 1 /\ x > 0 - lag
          BY Zenon, <4>2
        <5> HIDE DEF x
        <5>3. CASE daemon.until # NoWait /\ x >= U - MaxLag
          BY <1>2, <4>1, <5>1, <5>3
        <5>4. CASE notifying = 1 /\ x > 0 - lag
          <6>1. lag' = lag + 1
            BY <1>3, <5>4
          <6> QED BY <1>2, <5>1, <5>4, <6>1
        <5> QED BY Zenon, <5>2, <5>3, <5>4
      <4> QED BY Zenon, <4>1, <4>3
    <3> QED BY Zenon, <3>0, <3>1, <3>2, <3>3 DEF DaemonInv
  <2> QED BY Zenon, <2>1, <2>2
<1>12. TimerTypeOK'
  BY Zenon, <1>1, <1>3, <1>4, <1>8 DEF TimerInv, TimerTypeOK
<1>13. SlotsInv(freeSlots, timer, timerList, doomed)
  BY DEF TimerInv
<1> QED BY <1>1, <1>6, <1>10, <1>11, <1>12, <1>13 DEF TimerInv, g

(* Every step keeps the invariant.                                         *)
LEMMA TimerNextStep == TimerInv /\ [TimerNext]_timerVars => TimerInv'
<1> SUFFICES ASSUME TimerInv, [TimerNext]_timerVars PROVE TimerInv'
  OBVIOUS
<1>1. CASE TimerCreate
  BY Zenon, <1>1, TimerCreateStep
<1>2. ASSUME NEW s \in Timers, TimerStart(s) PROVE TimerInv'
  BY Zenon, <1>2, TimerStartStep
<1>3. CASE TimerNotify
  BY <1>3, TimerNotifyStep
<1>4. ASSUME NEW s \in Timers, TimerStop(s) PROVE TimerInv'
  BY Zenon, <1>4, StoppedStep DEF TimerStop
<1>5. ASSUME NEW s \in Timers, TimerDelete(s) PROVE TimerInv'
  BY Zenon, <1>5, StoppedStep DEF TimerDelete
<1>6. ASSUME NEW s \in Timers, MempoolFree(s) PROVE TimerInv'
  BY <1>6, MempoolFreeStep
<1>7. CASE TimerDaemon
  BY Zenon, <1>7, DaemonMovesStep, TimerExpiresStep, NextWakeStep, DaemonWaitsStep DEF TimerDaemon
<1>8. CASE TimerTick
  BY <1>8, TimerTickStep
<1>9. CASE UNCHANGED timerVars
  BY Zenon, <1>9 DEF timerVars, TimerInv, TimerTypeOK
<1> QED BY <1>1, <1>2, <1>3, <1>4, <1>5, <1>6, <1>7, <1>8, <1>9, Zenon DEF TimerNext

(* The invariant gives the properties.                                     *)
LEMMA TimerInvMeans == TimerInv => TimersExact /\ TimerOnTime
<1> SUFFICES ASSUME TimerInv PROVE TimersExact /\ TimerOnTime
  BY Zenon
<1> DEFINE f == Lefts(timer, clock)
<1>1. /\ timer \in [Timers -> TimerRecords] /\ clock \in 0..TimerTickMod - 1
      /\ timerList \in Seq(Timers) /\ Sorted(timerList, f)
      /\ SlotsInv(freeSlots, timer, timerList, doomed)
  BY Zenon DEF TimerInv, TimerTypeOK
<1>2. ASSUME NEW i \in 1..Len(timerList), NEW j \in 1..Len(timerList), i < j
      PROVE  Diff(timer[timerList[i]].expiry, timer[timerList[j]].expiry) <= 0
  <2> DEFINE s == timerList[i]
             t == timerList[j]
  <2>1. s \in Range(timerList) /\ t \in Range(timerList) /\ f[s] <= f[t]
    BY Zenon, <1>1, <1>2, RangeOf DEF Sorted
  <2> HIDE DEF s, t
  <2>2. s \in Timers /\ timer[s].period \in Periods /\ f[s] \in Int /\ f[s] >= 0 - 2 * MaxLag /\ f[s] <= timer[s].period
    BY Zenon, <2>1, ListedFacts
  <2>3. t \in Timers /\ timer[t].period \in Periods /\ f[t] \in Int /\ f[t] >= 0 - 2 * MaxLag /\ f[t] <= timer[t].period
    BY Zenon, <2>1, ListedFacts
  <2>4. Diff(timer[s].expiry, timer[t].expiry) = f[s] - f[t]
    BY Zenon, <1>1, <2>2, <2>3, LeftsOrder
  <2> HIDE DEF f
  <2>5. f[s] - f[t] <= 0
    BY SMTT(30), <2>1, <2>2, <2>3
  <2> QED BY Zenon, <2>4, <2>5 DEF s, t
<1>3. TimersExact
  BY Zenon, <1>1, <1>2 DEF TimersExact, SlotsInv, Owned
<1>4. ASSUME NEW s \in Range(timerList) PROVE Diff(clock, timer[s].expiry) <= 2 * MaxLag
  <2> DEFINE e == timer[s].expiry
             x == Diff(e, clock)
  <2>1. s \in Timers /\ x \in Int /\ x >= 0 - 2 * MaxLag
    BY Zenon, ListedFacts
  <2>2. e \in 0..TimerTickMod - 1
    BY Zenon, <1>1, <2>1, LeftsFacts
  <2>3. 4 * MaxLag + 2 < TimerTickMod /\ MaxLag \in Nat /\ TimerTickMod \in Nat
    BY TickModFacts
  <2>4. 2 * x > 0 - TimerTickMod
    <3> HIDE DEF x
    <3> QED BY <2>1, <2>3
  <2>5. Diff(clock, e) = 0 - x
    BY Zenon, <1>1, <2>2, <2>4, DiffOpposite
  <2> HIDE DEF x, e
  <2>6. 0 - x <= 2 * MaxLag
    BY <2>1, <2>3
  <2> QED BY Zenon, <2>5, <2>6 DEF e
<1> QED BY Zenon, <1>3, <1>4 DEF TimerOnTime

(* The list of active timers is exact: the timers in it are the active     *)
(* ones, each once and in the order of their expiries; no slot that was    *)
(* given back, or is about to be, is in it; however calls, the daemon and  *)
(* ticks interleave, and across the overflow of the tick counter.          *)
THEOREM TimersAlwaysExact == TimerSpec => []TimersExact
<1>1. TimerInv => TimersExact
  BY Zenon, TimerInvMeans
<1> QED BY TimerInitHolds, TimerNextStep, <1>1, PTL DEF TimerSpec

(* No timer is overlooked: a timer of the list is never overdue by more    *)
(* than twice the lag of the daemon, whatever timer_start and timer_stop   *)
(* do between its reading of the clock and its wait, and across the        *)
(* overflow of the tick counter.                                           *)
THEOREM TimersServedOnTime == TimerSpec => []TimerOnTime
<1>1. TimerInv => TimerOnTime
  BY TimerInvMeans
<1> QED BY TimerInitHolds, TimerNextStep, <1>1, PTL DEF TimerSpec
==============================================================================
