----------------------------- MODULE UnitProofs ------------------------------
(***************************************************************************)
(* Proofs about the parts that stand on their own: the rings of the UART,  *)
(* the FIFOs of the SPI, the transfers and timing of the I2C driver, the   *)
(* switching of the system clock, and the log history.                     *)
(***************************************************************************)
EXTENDS Uart, Spi, I2c, SystemClock, Logger, TLAPS

------------------------------------------------------------------------------
(* Uart: the rings *)

RingTypes(buf, i, j, size, held) ==
  /\ size \in Nat \ {0, 1}
  /\ i \in 0..size - 1 /\ j \in 0..size - 1
  /\ buf \in [0..size - 1 -> Nat]
  /\ held \in Seq(Nat)

\* A ring whose bytes are held.
Ring(buf, i, j, size, held) == RingTypes(buf, i, j, size, held) /\ Holds(buf, i, j, size, held)

(* An index of a ring stays in the ring.                                   *)
LEMMA AtSlot ==
    ASSUME NEW size \in Nat \ {0, 1}, NEW i \in 0..size - 1, NEW n \in 0..size
    PROVE  /\ At(i, n, size) \in 0..size - 1
           /\ At(i, 0, size) = i
           /\ Step(i, size) = At(i, 1, size)
  BY DEF At, Step

(* Moving on twice is moving on by the sum.                                *)
LEMMA AtAt ==
    ASSUME NEW size \in Nat \ {0, 1}, NEW i \in 0..size - 1, NEW n \in 0..size, NEW k \in 0..size - n
    PROVE  At(At(i, n, size), k, size) = At(i, n + k, size)
  BY DEF At

(* Fewer moves than the ring has slots never meet.                         *)
LEMMA AtApart ==
    ASSUME NEW size \in Nat \ {0, 1}, NEW i \in 0..size - 1,
           NEW n \in 0..size - 1, NEW k \in 0..size - 1, n # k
    PROVE  At(i, n, size) # At(i, k, size)
  BY DEF At

(* What a ring consists of.                                                *)
LEMMA RingIs ==
    ASSUME NEW buf, NEW i, NEW j, NEW size, NEW held, Ring(buf, i, j, size, held)
    PROVE  /\ size \in Nat \ {0, 1} /\ i \in 0..size - 1 /\ j \in 0..size - 1
           /\ Len(held) \in 0..size - 1 /\ At(i, Len(held), size) = j
           /\ buf \in [0..size - 1 -> Nat] /\ held \in Seq(Nat)
  BY SMTT(30) DEF Ring, RingTypes, Holds

(* When a ring is empty or full, and when a reader meets the head.         *)
LEMMA RingEnds ==
    ASSUME NEW buf, NEW i, NEW j, NEW size, NEW held, Ring(buf, i, j, size, held)
    PROVE  /\ Len(held) \in 0..size - 1
           /\ j = i <=> Len(held) = 0
           /\ Step(j, size) = i <=> Len(held) = size - 1
           /\ \A n \in 0..size - 1 : At(i, n, size) = j <=> n = Len(held)
           /\ (IF j >= i THEN j - i ELSE size + j - i) = Len(held)
<1> DEFINE L == Len(held)
<1>1. size \in Nat \ {0, 1} /\ i \in 0..size - 1 /\ j \in 0..size - 1 /\ L \in 0..size - 1 /\ At(i, L, size) = j
  BY DEF Ring, RingTypes, Holds
<1> HIDE DEF L
<1>2. j = IF i + L >= size THEN (i + L) - size ELSE i + L
  BY <1>1 DEF At
<1>3. \A n \in 0..size - 1 : At(i, n, size) = j <=> n = L
  BY <1>1, AtApart
<1>4. j = i <=> L = 0
  BY <1>1, <1>2
<1>5. Step(j, size) = i <=> L = size - 1
  BY <1>1, <1>2 DEF Step
<1>6. (IF j >= i THEN j - i ELSE size + j - i) = L
  BY <1>1, <1>2
<1> QED BY <1>1, <1>3, <1>4, <1>5, <1>6 DEF L

(* A sequence without its first n elements.                                *)
LEMMA RestAt ==
    ASSUME NEW q \in Seq(Nat), NEW n \in 0..Len(q)
    PROVE  /\ SubSeq(q, n + 1, Len(q)) \in Seq(Nat)
           /\ Len(SubSeq(q, n + 1, Len(q))) = Len(q) - n
           /\ \A k \in 1..Len(q) - n : SubSeq(q, n + 1, Len(q))[k] = q[n + k]
  OBVIOUS

(* Two sequences joined.                                                   *)
LEMMA ConcatIs ==
    ASSUME NEW q \in Seq(Nat), NEW r \in Seq(Nat)
    PROVE  q \o r \in Seq(Nat) /\ Len(q \o r) = Len(q) + Len(r)
  OBVIOUS

(* A sequence followed by the first n elements of another.                 *)
LEMMA JoinAt ==
    ASSUME NEW q \in Seq(Nat), NEW s \in Seq(Nat), NEW n \in 0..Len(s)
    PROVE  /\ q \o SubSeq(s, 1, n) \in Seq(Nat)
           /\ Len(q \o SubSeq(s, 1, n)) = Len(q) + n
           /\ \A k \in 1..Len(q) : (q \o SubSeq(s, 1, n))[k] = q[k]
           /\ \A k \in 1..n : (q \o SubSeq(s, 1, n))[Len(q) + k] = s[k]
<1> DEFINE r == SubSeq(s, 1, n)
<1>1. r \in Seq(Nat) /\ Len(r) = n /\ \A k \in 1..n : r[k] = s[k]
  OBVIOUS
<1> HIDE DEF r
<1>2. /\ q \o r \in Seq(Nat) /\ Len(q \o r) = Len(q) + n
      /\ \A k \in 1..Len(q) : (q \o r)[k] = q[k]
      /\ \A k \in 1..n : (q \o r)[Len(q) + k] = r[k]
  <2>1. Len(q) \in Nat /\ n \in Nat
    OBVIOUS
  <2>2. q \o r \in Seq(Nat) /\ Len(q \o r) = Len(q) + n
    BY Zenon, <1>1, ConcatIs
  <2>3. \A k \in 1..Len(q) + n : (q \o r)[k] = IF k <= Len(q) THEN q[k] ELSE r[k - Len(q)]
    BY <1>1
  <2>4. ASSUME NEW k \in 1..n PROVE (q \o r)[Len(q) + k] = r[k]
    <3>1. Len(q) + k \in 1..Len(q) + n /\ ~(Len(q) + k <= Len(q)) /\ (Len(q) + k) - Len(q) = k
      BY <2>1
    <3> QED BY Zenon, <2>3, <3>1
  <2>5. ASSUME NEW k \in 1..Len(q) PROVE (q \o r)[k] = q[k]
    <3>1. k \in 1..Len(q) + n /\ k <= Len(q)
      BY <2>1
    <3> QED BY <2>3, <3>1
  <2> QED BY <2>2, <2>4, <2>5
<1> QED BY Zenon, <1>1, <1>2 DEF r

(* What a reader takes from the tail leaves the rest.                      *)
LEMMA RingRead ==
    ASSUME NEW buf, NEW i, NEW j, NEW size, NEW held, Ring(buf, i, j, size, held),
           NEW n \in 0..Len(held)
    PROVE  Ring([x \in DOMAIN buf |-> IF x \in Passed(i, n, size) THEN Junk ELSE buf[x]],
                At(i, n, size), j, size, SubSeq(held, n + 1, Len(held)))
<1> DEFINE L == Len(held)
           h == SubSeq(held, n + 1, L)
           b == [x \in DOMAIN buf |-> IF x \in Passed(i, n, size) THEN Junk ELSE buf[x]]
           t == At(i, n, size)
<1>1. /\ size \in Nat \ {0, 1} /\ i \in 0..size - 1 /\ j \in 0..size - 1 /\ L \in 0..size - 1
      /\ At(i, L, size) = j /\ buf \in [0..size - 1 -> Nat] /\ held \in Seq(Nat)
  BY RingIs
<1>l. n \in 0..L
  OBVIOUS
<1>n. n \in 0..size /\ \A k \in 0..L - n : k \in 0..size - n
  BY <1>1
<1>2. h \in Seq(Nat) /\ Len(h) = L - n /\ \A k \in 1..L - n : h[k] = held[n + k]
  BY Zenon, <1>1, RestAt
<1>3. b \in [0..size - 1 -> Nat]
  BY <1>1 DEF Junk
<1>4. t \in 0..size - 1
  BY <1>1, <1>n, AtSlot
<1>5. ASSUME NEW k \in 0..L - n PROVE At(t, k, size) = At(i, n + k, size)
  BY Zenon, <1>1, <1>n, AtAt
<1>6. ASSUME NEW k \in 1..L - n PROVE b[At(t, k - 1, size)] = h[k]
  <2> DEFINE m == n + k - 1
             s == At(i, m, size)
  <2>1. At(t, k - 1, size) = s
    <3>1. k - 1 \in 0..L - n /\ n + (k - 1) = m
      BY <1>1
    <3> QED BY <1>5, <3>1
  <2>2. m \in 0..L - 1 /\ m \in 0..size - 1 /\ m \in 0..size /\ m + 1 \in 1..L /\ m + 1 - 1 = m /\ m + 1 = n + k /\ m >= n
    <3> HIDE DEF L
    <3> QED BY <1>1, <1>l
  <2> HIDE DEF m
  <2>3. s \in 0..size - 1
    BY Zenon, <1>1, <2>2, AtSlot
  <2>4. s \notin Passed(i, n, size)
    <3> SUFFICES ASSUME NEW q \in 0..n - 1, At(i, q, size) = s PROVE FALSE
      BY DEF Passed
    <3>1. q \in 0..size - 1 /\ q # m
      BY <1>1, <2>2
    <3> QED BY Zenon, <1>1, <2>2, <3>1, AtApart
  <2>5. buf[s] = held[n + k]
    <3>1. buf[At(i, m + 1 - 1, size)] = held[m + 1]
      BY <2>2 DEF Ring, Holds
    <3> QED BY <3>1, <2>2
  <2> HIDE DEF s
  <2>6. b[s] = buf[s]
    BY <1>1, <2>3, <2>4
  <2> QED BY Zenon, <2>1, <2>5, <2>6, <1>2
<1>7. At(t, L - n, size) = j
  <2>1. L - n \in 0..L - n /\ n + (L - n) = L
    BY <1>1
  <2> QED BY <1>1, <1>5, <2>1
<1> HIDE DEF h, b, t
<1>8. L - n < size
  BY <1>1
<1>9. Holds(b, t, j, size, h)
  BY Zenon, <1>2, <1>6, <1>7, <1>8 DEF Holds
<1> QED BY Zenon, <1>1, <1>2, <1>3, <1>4, <1>9 DEF Ring, RingTypes, h, b, t

(* What a writer puts behind the head follows what is held.                *)
LEMMA RingWrite ==
    ASSUME NEW buf, NEW i, NEW j, NEW size, NEW held, Ring(buf, i, j, size, held),
           NEW s \in Seq(Nat), NEW n \in 0..Len(s), Len(held) + n < size
    PROVE  Ring([x \in DOMAIN buf |->
                   IF x \in Passed(j, n, size)
                   THEN s[1 + (IF x >= j THEN x - j ELSE x + size - j)] ELSE buf[x]],
                i, At(j, n, size), size, held \o SubSeq(s, 1, n))
<1> DEFINE L == Len(held)
           q == held \o SubSeq(s, 1, n)
           b == [x \in DOMAIN buf |->
                   IF x \in Passed(j, n, size)
                   THEN s[1 + (IF x >= j THEN x - j ELSE x + size - j)] ELSE buf[x]]
           t == At(j, n, size)
<1>1. /\ size \in Nat \ {0, 1} /\ i \in 0..size - 1 /\ j \in 0..size - 1 /\ L \in 0..size - 1
      /\ At(i, L, size) = j /\ buf \in [0..size - 1 -> Nat] /\ held \in Seq(Nat)
  BY RingIs
<1>l. L + n < size /\ n \in Nat /\ Len(s) \in Nat /\ n <= Len(s)
  OBVIOUS
<1>2. /\ q \in Seq(Nat) /\ Len(q) = L + n
      /\ \A k \in 1..L : q[k] = held[k]
      /\ \A k \in 1..n : q[L + k] = s[k]
  BY Zenon, <1>1, JoinAt
<1> HIDE DEF q
<1>3. ASSUME NEW k \in 0..n - 1
      PROVE  /\ At(j, k, size) = At(i, L + k, size) /\ At(j, k, size) \in 0..size - 1
             /\ (IF At(j, k, size) >= j THEN At(j, k, size) - j ELSE At(j, k, size) + size - j) = k
  <2> HIDE DEF L
  <2>1. L \in 0..size /\ k \in 0..size - L /\ k \in 0..size
    BY <1>1, <1>l
  <2>2. At(j, k, size) = At(i, L + k, size) /\ At(j, k, size) \in 0..size - 1
    <3>1. At(j, k, size) \in 0..size - 1
      BY Zenon, <2>1, <1>1, AtSlot
    <3>2. At(At(i, L, size), k, size) = At(i, L + k, size)
      BY Zenon, <2>1, <1>1, AtAt
    <3> QED BY <3>1, <3>2, <1>1
  <2>3. k < size
    BY <1>1, <1>l
  <2>4. (IF At(j, k, size) >= j THEN At(j, k, size) - j ELSE At(j, k, size) + size - j) = k
    BY <1>1, <2>1, <2>3 DEF At
  <2> QED BY <2>2, <2>4
<1>4. b \in [0..size - 1 -> Nat]
  <2> SUFFICES ASSUME NEW x \in 0..size - 1 PROVE b[x] \in Nat
    BY <1>1
  <2>1. CASE x \notin Passed(j, n, size)
    BY <2>1, <1>1
  <2>2. ASSUME NEW k \in 0..n - 1, x = At(j, k, size) PROVE b[x] \in Nat
    <3>1. b[x] = s[1 + k]
      BY Zenon, <2>2, <1>1, <1>3 DEF Passed
    <3>2. 1 + k \in 1..Len(s)
      BY <1>l
    <3> HIDE DEF b
    <3> QED BY <3>1, <3>2
  <2> QED BY Zenon, <2>1, <2>2 DEF Passed
<1>5. t \in 0..size - 1 /\ At(i, L + n, size) = t
  <2> HIDE DEF L
  <2>1. L \in 0..size /\ n \in 0..size - L /\ n \in 0..size
    BY <1>1, <1>l
  <2> QED BY SMTT(30), <2>1, <1>1, AtAt, AtSlot
<1>6. ASSUME NEW k \in 1..L PROVE b[At(i, k - 1, size)] = held[k]
  <2> DEFINE y == At(i, k - 1, size)
  <2>1. k - 1 \in 0..size - 1 /\ k - 1 \in 0..size /\ k - 1 < L
    <3> HIDE DEF L
    <3> QED BY <1>1
  <2>2. y \in 0..size - 1
    BY Zenon, <1>1, <2>1, AtSlot
  <2>3. y \notin Passed(j, n, size)
    <3> SUFFICES ASSUME NEW m \in 0..n - 1, At(j, m, size) = y PROVE FALSE
      BY DEF Passed
    <3>1. L + m \in 0..size - 1 /\ L + m # k - 1
      <4> HIDE DEF L
      <4> QED BY <1>1, <1>l, <2>1
    <3>2. At(i, L + m, size) = At(i, k - 1, size)
      BY <1>3
    <3> QED BY Zenon, <1>1, <2>1, <3>1, <3>2, AtApart
  <2>4. buf[y] = held[k]
    BY DEF Ring, Holds
  <2> HIDE DEF y
  <2> QED BY <1>1, <2>2, <2>3, <2>4 DEF y
<1>7. ASSUME NEW k \in 1..n PROVE b[At(i, L + k - 1, size)] = s[k]
  <2> DEFINE m == k - 1
  <2>1. m \in 0..n - 1 /\ L + k - 1 = L + m /\ 1 + m = k
    BY <1>1, <1>l
  <2> HIDE DEF m
  <2>2. At(i, L + k - 1, size) = At(j, m, size)
    BY Zenon, <1>3, <2>1
  <2>3. b[At(j, m, size)] = s[1 + m]
    BY Zenon, <1>1, <1>3, <2>1 DEF Passed
  <2> QED BY Zenon, <2>1, <2>2, <2>3
<1> HIDE DEF b, t
<1>8. ASSUME NEW k \in 1..L + n PROVE b[At(i, k - 1, size)] = q[k]
  <2>1. CASE k \in 1..L
    BY Zenon, <2>1, <1>2, <1>6
  <2>2. CASE k \notin 1..L
    <3> DEFINE m == k - L
    <3> HIDE DEF L
    <3>1. m \in 1..n /\ L + m = k /\ L + m - 1 = k - 1
      BY <2>2, <1>1, <1>l
    <3> HIDE DEF m
    <3> QED BY Zenon, <3>1, <1>2, <1>7
  <2> QED BY <2>1, <2>2
<1>9. Holds(b, i, t, size, q)
  <2>1. Len(q) < size /\ At(i, Len(q), size) = t
    BY <1>2, <1>l, <1>5
  <2>2. \A k \in 1..Len(q) : b[At(i, k - 1, size)] = q[k]
    BY <1>2, <1>8
  <2> QED BY <2>1, <2>2 DEF Holds
<1> QED BY Zenon, <1>1, <1>2, <1>4, <1>5, <1>9 DEF Ring, RingTypes, q, b, t

(* One move passes one slot.                                               *)
LEMMA PassedOne ==
    ASSUME NEW size \in Nat \ {0, 1}, NEW i \in 0..size - 1
    PROVE  Passed(i, 1, size) = {i}
<1>1. 0..1 - 1 = {0} /\ At(i, 0, size) = i
  BY AtSlot
<1> QED BY <1>1 DEF Passed

(* Sequences with the same elements are equal.                             *)
LEMMA SameSeq ==
    ASSUME NEW p \in Seq(Nat), NEW q \in Seq(Nat), Len(p) = Len(q),
           \A k \in 1..Len(p) : p[k] = q[k]
    PROVE  p = q
  BY SMTT(30)

(* One byte is written behind the head.                                    *)
LEMMA RingPush ==
    ASSUME NEW buf, NEW i, NEW j, NEW size, NEW held, Ring(buf, i, j, size, held),
           NEW e \in Nat, Step(j, size) # i
    PROVE  Ring([buf EXCEPT ![j] = e], i, Step(j, size), size, Append(held, e))
<1> DEFINE s == <<e>>
           f == [x \in DOMAIN buf |->
                   IF x \in Passed(j, 1, size)
                   THEN s[1 + (IF x >= j THEN x - j ELSE x + size - j)] ELSE buf[x]]
<1>1. size \in Nat \ {0, 1} /\ j \in 0..size - 1 /\ buf \in [0..size - 1 -> Nat] /\ held \in Seq(Nat)
  BY RingIs
<1>2. s \in Seq(Nat) /\ Len(s) = 1 /\ s[1] = e
  OBVIOUS
<1> HIDE DEF s
<1>3. Len(held) + 1 < size
  BY <1>1, RingEnds
<1>4. Ring(f, i, At(j, 1, size), size, held \o SubSeq(s, 1, 1))
  <2>1. 1 \in 0..Len(s)
    BY <1>2
  <2> QED BY <1>2, <1>3, <2>1, RingWrite
<1>5. f = [buf EXCEPT ![j] = e]
  <2>1. ASSUME NEW x \in 0..size - 1 PROVE f[x] = [buf EXCEPT ![j] = e][x]
    <3>1. CASE x = j
      <4>1. 1 + (IF x >= j THEN x - j ELSE x + size - j) = 1
        BY <3>1, <1>1
      <4>2. f[x] = s[1 + (IF x >= j THEN x - j ELSE x + size - j)]
        BY <3>1, <1>1, PassedOne
      <4>3. f[x] = e
        BY <4>1, <4>2, <1>2
      <4> QED BY <4>3, <3>1, <1>1
    <3>2. CASE x # j
      BY <3>2, <1>1, PassedOne
    <3> QED BY <3>1, <3>2
  <2> QED BY Zenon, <1>1, <2>1
<1>6. held \o SubSeq(s, 1, 1) = Append(held, e)
  <2> DEFINE p == held \o SubSeq(s, 1, 1)
             q == Append(held, e)
  <2>1. 1 \in 0..Len(s) /\ 1 \in 1..1
    BY <1>2
  <2>2. /\ p \in Seq(Nat) /\ Len(p) = Len(held) + 1 /\ Len(held) \in Nat
        /\ \A k \in 1..Len(held) : p[k] = held[k]
        /\ p[Len(held) + 1] = e
    BY <1>1, <1>2, <2>1, JoinAt
  <2>3. /\ q \in Seq(Nat) /\ Len(q) = Len(held) + 1
        /\ \A k \in 1..Len(held) : q[k] = held[k]
        /\ q[Len(held) + 1] = e
    BY <1>1
  <2> HIDE DEF p, q
  <2>4. ASSUME NEW k \in 1..Len(p) PROVE p[k] = q[k]
    <3>1. CASE k \in 1..Len(held)
      BY <2>2, <2>3, <3>1
    <3>2. CASE k = Len(held) + 1
      BY <2>2, <2>3, <3>2
    <3>3. k \in 1..Len(held) \/ k = Len(held) + 1
      BY <2>2
    <3> QED BY <3>1, <3>2, <3>3
  <2>5. p = q
    BY Zenon, <2>2, <2>3, <2>4, SameSeq
  <2> QED BY <2>5 DEF p, q
<1>7. At(j, 1, size) = Step(j, size)
  BY <1>1, AtSlot
<1> HIDE DEF f
<1> QED BY Zenon, <1>4, <1>5, <1>6, <1>7

(* One byte is taken from the tail.                                        *)
LEMMA RingPop ==
    ASSUME NEW buf, NEW i, NEW j, NEW size, NEW held, Ring(buf, i, j, size, held), j # i
    PROVE  /\ Ring([buf EXCEPT ![i] = Junk], Step(i, size), j, size, Tail(held))
           /\ buf[i] \in Nat
<1> DEFINE f == [x \in DOMAIN buf |-> IF x \in Passed(i, 1, size) THEN Junk ELSE buf[x]]
<1>1. size \in Nat \ {0, 1} /\ i \in 0..size - 1 /\ buf \in [0..size - 1 -> Nat] /\ held \in Seq(Nat)
  BY RingIs
<1>2. 1 \in 0..Len(held)
  BY <1>1, RingEnds
<1>3. Ring(f, At(i, 1, size), j, size, SubSeq(held, 1 + 1, Len(held)))
  BY <1>2, RingRead
<1>4. f = [buf EXCEPT ![i] = Junk]
  <2>1. Passed(i, 1, size) = {i}
    BY <1>1, PassedOne
  <2>2. \A x \in 0..size - 1 : f[x] = [buf EXCEPT ![i] = Junk][x]
    BY <1>1, <2>1
  <2> QED BY Zenon, <1>1, <2>2
<1>5. SubSeq(held, 1 + 1, Len(held)) = Tail(held)
  <2> DEFINE p == SubSeq(held, 1 + 1, Len(held))
             q == Tail(held)
  <2>1. p \in Seq(Nat) /\ Len(p) = Len(held) - 1 /\ \A k \in 1..Len(held) - 1 : p[k] = held[1 + k]
    BY Zenon, <1>1, <1>2, RestAt
  <2>2. q \in Seq(Nat) /\ Len(q) = Len(held) - 1 /\ \A k \in 1..Len(held) - 1 : q[k] = held[k + 1]
    <3>1. held # << >>
      BY <1>1, <1>2
    <3> QED BY <3>1, <1>1
  <2> HIDE DEF p, q
  <2>3. ASSUME NEW k \in 1..Len(p) PROVE p[k] = q[k]
    <3>1. k \in 1..Len(held) - 1 /\ 1 + k = k + 1
      BY <2>1
    <3>2. p[k] = held[1 + k]
      BY <2>1, <3>1
    <3>3. q[k] = held[k + 1]
      BY <2>2, <3>1
    <3> QED BY <3>1, <3>2, <3>3
  <2>4. p = q
    BY Zenon, <2>1, <2>2, <2>3, SameSeq
  <2> QED BY <2>4 DEF p, q
<1>6. At(i, 1, size) = Step(i, size)
  BY <1>1, AtSlot
<1> HIDE DEF f
<1> QED BY Zenon, <1>1, <1>3, <1>4, <1>5, <1>6

(* uart_read_buffer copies no more than is held, and uart_write_buffer     *)
(* takes no more than there is room for.                                   *)
LEMMA CopiedHeld ==
    ASSUME NEW u, NEW held, NEW len \in Nat, Ring(u.rxBuf, u.rxTail, u.rxHead, RxSize, held)
    PROVE  Copied(u, len) \in 0..Len(held)
<1> DEFINE Stop(n) == At(u.rxTail, n, RxSize) = u.rxHead
           P(n) == (n = len \/ Stop(n)) /\ \A m \in 0..n - 1 : ~Stop(m)
           L == Len(held)
<1>1. L \in 0..RxSize - 1 /\ RxSize \in Nat /\ \A n \in 0..RxSize - 1 : Stop(n) <=> n = L
  BY RingEnds, RingIs
<1>2. Copied(u, len) = CHOOSE n \in 0..len : P(n)
  BY Zenon DEF Copied
<1> HIDE DEF Stop, L
<1>3. \E n \in 0..len : P(n)
  <2>1. CASE len <= L
    <3>1. \A m \in 0..len - 1 : m # L /\ m \in 0..RxSize - 1
      BY <2>1, <1>1
    <3>2. len \in 0..len /\ P(len)
      BY <1>1, <3>1
    <3> QED BY <3>2, Zenon
  <2>2. CASE L < len
    <3>1. \A m \in 0..L - 1 : m # L /\ m \in 0..RxSize - 1
      BY <1>1
    <3>2. L \in 0..len /\ P(L)
      BY <1>1, <2>2, <3>1
    <3> QED BY <3>2, Zenon
  <2> QED BY <2>1, <2>2, <1>1
<1>4. Copied(u, len) \in 0..len /\ P(Copied(u, len))
  BY <1>2, <1>3, Zenon
<1> DEFINE c == Copied(u, len)
<1> HIDE DEF c
<1>5. c \in 0..len /\ P(c)
  BY <1>4, Zenon DEF c
<1>6. c <= L
  <2> SUFFICES ASSUME L < c PROVE FALSE
    BY <1>1, <1>5
  <2>1. L \in 0..c - 1
    BY <1>1, <1>5
  <2> QED BY <2>1, <1>1, <1>5
<1> QED BY <1>1, <1>5, <1>6 DEF c, L

(* uart_write_buffer takes no more than there is room for.                 *)
LEMMA SentFits ==
    ASSUME NEW u, NEW held, NEW len \in Nat, Ring(u.txBuf, u.txTail, u.txHead, TxSize, held)
    PROVE  Sent(u, len) \in 0..len /\ Len(held) + Sent(u, len) < TxSize
<1> DEFINE Stop(n) == Step(At(u.txHead, n, TxSize), TxSize) = u.txTail
           P(n) == (n = len \/ Stop(n)) /\ \A m \in 0..n - 1 : ~Stop(m)
           L == Len(held)
           room == (TxSize - 1) - L
<1>1. L \in 0..TxSize - 1 /\ TxSize \in Nat \ {0, 1} /\ u.txHead \in 0..TxSize - 1 /\ u.txTail \in 0..TxSize - 1
      /\ At(u.txTail, L, TxSize) = u.txHead
  BY RingIs
<1>2. Sent(u, len) = CHOOSE n \in 0..len : P(n)
  BY Zenon DEF Sent
<1> HIDE DEF L
<1>3. room \in Nat /\ \A n \in 0..room : Stop(n) <=> n = room
  <2>1. ASSUME NEW n \in 0..room PROVE Stop(n) <=> n = room
    BY <1>1 DEF At, Step
  <2> QED BY <1>1, <2>1
<1> HIDE DEF Stop, room
<1>4. \E n \in 0..len : P(n)
  <2>1. CASE len <= room
    <3>1. \A m \in 0..len - 1 : m # room /\ m \in 0..room
      BY <2>1, <1>3
    <3>2. len \in 0..len /\ P(len)
      BY <1>3, <3>1
    <3> QED BY <3>2, Zenon
  <2>2. CASE room < len
    <3>1. \A m \in 0..room - 1 : m # room /\ m \in 0..room
      BY <1>3
    <3>2. room \in 0..len /\ P(room)
      BY <1>3, <2>2, <3>1
    <3> QED BY <3>2, Zenon
  <2> QED BY <2>1, <2>2, <1>3
<1>5. Sent(u, len) \in 0..len /\ P(Sent(u, len))
  BY <1>2, <1>4, Zenon
<1> DEFINE c == Sent(u, len)
<1> HIDE DEF c
<1>6. c \in 0..len /\ P(c)
  BY <1>5, Zenon DEF c
<1>7. c <= room
  <2> SUFFICES ASSUME room < c PROVE FALSE
    BY <1>3, <1>6
  <2>1. room \in 0..c - 1
    BY <1>3, <1>6
  <2> QED BY <2>1, <1>3, <1>6
<1>8. L + c < TxSize
  BY <1>1, <1>6, <1>7 DEF room
<1> QED BY Zenon, <1>6, <1>8 DEF c, L

Uarts == [rxBuf : [0..RxSize - 1 -> Nat], rxHead : 0..RxSize - 1, rxTail : 0..RxSize - 1,
          txBuf : [0..TxSize - 1 -> Nat], txHead : 0..TxSize - 1, txTail : 0..TxSize - 1,
          overflow : Nat, errors : Nat]
Usarts == [rdr : Seq(Nat), tdr : Seq(Nat), txeie : BOOLEAN, error : BOOLEAN]

RxRing(u, held) == Ring(u.rxBuf, u.rxTail, u.rxHead, RxSize, held)
TxRing(u, held) == Ring(u.txBuf, u.txTail, u.txHead, TxSize, held)

UartInv ==
  /\ uart \in Uarts
  /\ usart \in Usarts
  /\ RxRing(uart, rxHeld)
  /\ TxRing(uart, txHeld)
  /\ txHeld # << >> => usart.txeie

(* uart_read_buffer keeps the rings.                                       *)
LEMMA ReadKeeps ==
    ASSUME UartInv, NEW len \in 1..RxSize, UartReadBuffer(len)
    PROVE  UartInv'
<1> DEFINE n == Copied(uart, len)
           b == [i \in DOMAIN uart.rxBuf |->
                   IF i \in Passed(uart.rxTail, n, RxSize) THEN Junk ELSE uart.rxBuf[i]]
           t == At(uart.rxTail, n, RxSize)
           h == SubSeq(rxHeld, n + 1, Len(rxHeld))
<1>1. /\ uart' = [uart EXCEPT !.rxTail = t, !.rxBuf = b] /\ rxHeld' = h
      /\ usart' = usart /\ txHeld' = txHeld
  BY DEF UartReadBuffer
<1>2. n \in 0..Len(rxHeld)
  <2>1. len \in Nat
    BY UartAssumption
  <2> QED BY <2>1, CopiedHeld DEF UartInv, RxRing
<1> HIDE DEF n
<1>3. Ring(b, t, uart.rxHead, RxSize, h)
  BY Zenon, <1>2, RingRead DEF UartInv, RxRing
<1>4. b \in [0..RxSize - 1 -> Nat] /\ t \in 0..RxSize - 1
  BY <1>3 DEF Ring, RingTypes
<1> HIDE DEF b, t, h
<1>5. uart' \in Uarts
  BY Zenon, <1>1, <1>4 DEF UartInv, Uarts
<1>6. /\ uart'.rxBuf = b /\ uart'.rxTail = t /\ uart'.rxHead = uart.rxHead
      /\ uart'.txBuf = uart.txBuf /\ uart'.txTail = uart.txTail /\ uart'.txHead = uart.txHead
  BY <1>1 DEF UartInv, Uarts
<1>7. RxRing(uart', h) /\ TxRing(uart', txHeld)
  BY <1>3, <1>6 DEF UartInv, RxRing, TxRing
<1> QED BY <1>1, <1>5, <1>7 DEF UartInv

(* uart_write_buffer keeps the rings.                                      *)
LEMMA WriteKeeps ==
    ASSUME UartInv, NEW s \in Seq(Nat), UartWriteBuffer(s)
    PROVE  UartInv'
<1> DEFINE n == Sent(uart, Len(s))
           b == [i \in DOMAIN uart.txBuf |->
                   IF i \in Passed(uart.txHead, n, TxSize)
                   THEN s[1 + (IF i >= uart.txHead THEN i - uart.txHead ELSE i + TxSize - uart.txHead)]
                   ELSE uart.txBuf[i]]
           t == At(uart.txHead, n, TxSize)
           h == txHeld \o SubSeq(s, 1, n)
<1>1. /\ uart' = [uart EXCEPT !.txHead = t, !.txBuf = b] /\ txHeld' = h
      /\ usart' = [usart EXCEPT !.txeie = TRUE] /\ rxHeld' = rxHeld
  BY DEF UartWriteBuffer
<1>2. n \in 0..Len(s) /\ Len(txHeld) + n < TxSize
  <2>1. Len(s) \in Nat
    OBVIOUS
  <2> QED BY <2>1, SentFits DEF UartInv, TxRing
<1> HIDE DEF n
<1>3. Ring(b, uart.txTail, t, TxSize, h)
  BY Zenon, <1>2, RingWrite DEF UartInv, TxRing
<1>4. b \in [0..TxSize - 1 -> Nat] /\ t \in 0..TxSize - 1
  BY <1>3 DEF Ring, RingTypes
<1> HIDE DEF b, t, h
<1>5. uart' \in Uarts
  BY Zenon, <1>1, <1>4 DEF UartInv, Uarts
<1>6. /\ uart'.txBuf = b /\ uart'.txTail = uart.txTail /\ uart'.txHead = t
      /\ uart'.rxBuf = uart.rxBuf /\ uart'.rxTail = uart.rxTail /\ uart'.rxHead = uart.rxHead
  BY <1>1 DEF UartInv, Uarts
<1>7. RxRing(uart', rxHeld) /\ TxRing(uart', h)
  BY <1>3, <1>6 DEF UartInv, RxRing, TxRing
<1>8. usart' \in Usarts /\ usart'.txeie
  BY Zenon, <1>1 DEF UartInv, Usarts
<1> QED BY <1>1, <1>5, <1>7, <1>8 DEF UartInv

(* uart_core_rx_callback keeps the rings: a byte that finds no room is     *)
(* dropped whole.                                                          *)
LEMMA IrqReceives ==
    ASSUME NEW u \in Uarts, NEW e \in Nat, NEW rh, NEW th, RxRing(u, rh), TxRing(u, th)
    PROVE  /\ RxCallback(u, e) \in Uarts
           /\ RxRing(RxCallback(u, e), IF RxFull(u) THEN rh ELSE Append(rh, e))
           /\ TxRing(RxCallback(u, e), th)
<1> DEFINE v == RxCallback(u, e)
<1>0. Capped(u.overflow) \in Nat
  BY DEF Capped, Uarts
<1>1. CASE RxFull(u)
  <2>1. v = [u EXCEPT !.overflow = Capped(u.overflow)]
    BY <1>1 DEF RxCallback
  <2> HIDE DEF v
  <2>2. v \in Uarts
    BY Zenon, <2>1, <1>0 DEF Uarts
  <2>3. /\ v.rxBuf = u.rxBuf /\ v.rxTail = u.rxTail /\ v.rxHead = u.rxHead
        /\ v.txBuf = u.txBuf /\ v.txTail = u.txTail /\ v.txHead = u.txHead
    BY <2>1 DEF Uarts
  <2> QED BY <1>1, <2>2, <2>3 DEF RxRing, TxRing, v
<1>2. CASE ~RxFull(u)
  <2> DEFINE b == [u.rxBuf EXCEPT ![u.rxHead] = e]
             g == Step(u.rxHead, RxSize)
  <2>1. v = [u EXCEPT !.rxBuf = b, !.rxHead = g]
    BY <1>2 DEF RxCallback
  <2>2. Ring(b, u.rxTail, g, RxSize, Append(rh, e))
    BY <1>2, RingPush DEF RxRing, RxFull
  <2>3. b \in [0..RxSize - 1 -> Nat] /\ g \in 0..RxSize - 1
    BY <2>2 DEF Ring, RingTypes
  <2> HIDE DEF v, b, g
  <2>4. v \in Uarts
    BY Zenon, <2>1, <2>3 DEF Uarts
  <2>5. /\ v.rxBuf = b /\ v.rxTail = u.rxTail /\ v.rxHead = g
        /\ v.txBuf = u.txBuf /\ v.txTail = u.txTail /\ v.txHead = u.txHead
    BY <2>1 DEF Uarts
  <2> QED BY <1>2, <2>2, <2>4, <2>5 DEF RxRing, TxRing, v
<1> QED BY <1>1, <1>2

(* uart_core_tx_callback keeps the rings.                                  *)
LEMMA IrqSends ==
    ASSUME NEW u \in Uarts, NEW rh, NEW th, RxRing(u, rh), TxRing(u, th), ~TxEmpty(u)
    PROVE  /\ TxCallback(u) \in Uarts
           /\ RxRing(TxCallback(u), rh)
           /\ TxRing(TxCallback(u), Tail(th))
           /\ u.txBuf[u.txTail] \in Nat
<1> DEFINE v == TxCallback(u)
           b == [u.txBuf EXCEPT ![u.txTail] = Junk]
           g == Step(u.txTail, TxSize)
<1>1. v = [u EXCEPT !.txBuf = b, !.txTail = g]
  BY DEF TxCallback
<1>2. Ring(b, g, u.txHead, TxSize, Tail(th)) /\ u.txBuf[u.txTail] \in Nat
  BY Zenon, RingPop DEF TxRing, TxEmpty
<1>3. b \in [0..TxSize - 1 -> Nat] /\ g \in 0..TxSize - 1
  BY <1>2 DEF Ring, RingTypes
<1> HIDE DEF v, b, g
<1>4. v \in Uarts
  BY Zenon, <1>1, <1>3 DEF Uarts
<1>5. /\ v.rxBuf = u.rxBuf /\ v.rxTail = u.rxTail /\ v.rxHead = u.rxHead
      /\ v.txBuf = b /\ v.txTail = g /\ v.txHead = u.txHead
  BY <1>1 DEF Uarts
<1> QED BY <1>2, <1>4, <1>5 DEF RxRing, TxRing, v

(* uart_hal_irq_handler keeps the rings.                                   *)
LEMMA IrqKeeps ==
    ASSUME UartInv, UartIrqHandler
    PROVE  UartInv'
<1> DEFINE rx == usart.rdr # << >>
           tx == usart.tdr = << >> /\ usart.txeie
           u1 == RxError(uart)
           u2 == IF rx THEN RxCallback(u1, Head(usart.rdr)) ELSE u1
           sends == tx /\ ~TxEmpty(u2)
           rh == IF rx /\ ~RxFull(u1) THEN Append(rxHeld, Head(usart.rdr)) ELSE rxHeld
           ie == usart.txeie /\ ~(tx /\ TxEmpty(u2))
<1>1. /\ uart' = IF sends THEN TxCallback(u2) ELSE u2
      /\ usart' = [rdr |-> << >>, tdr |-> IF sends THEN <<u2.txBuf[u2.txTail]>> ELSE usart.tdr,
                   txeie |-> ie, error |-> FALSE]
      /\ rxHeld' = rh
      /\ txHeld' = IF sends THEN Tail(txHeld) ELSE txHeld
  BY Zenon DEF UartIrqHandler
<1>2. u1 \in Uarts /\ RxRing(u1, rxHeld) /\ TxRing(u1, txHeld)
  <2>1. Capped(uart.errors) \in Nat
    BY DEF Capped, Uarts, UartInv
  <2>2. u1 \in Uarts
    BY Zenon, <2>1 DEF RxError, UartInv, Uarts
  <2>3. /\ u1.rxBuf = uart.rxBuf /\ u1.rxTail = uart.rxTail /\ u1.rxHead = uart.rxHead
        /\ u1.txBuf = uart.txBuf /\ u1.txTail = uart.txTail /\ u1.txHead = uart.txHead
    BY DEF RxError, UartInv, Uarts
  <2> QED BY <2>2, <2>3 DEF RxRing, TxRing, UartInv
<1>3. rx => Head(usart.rdr) \in Nat
  BY DEF UartInv, Usarts
<1> HIDE DEF u1
<1>4. u2 \in Uarts /\ RxRing(u2, rh) /\ TxRing(u2, txHeld)
  <2>1. CASE rx
    BY <2>1, <1>2, <1>3, IrqReceives
  <2>2. CASE ~rx
    BY <2>2, <1>2
  <2> QED BY <2>1, <2>2
<1>5. TxEmpty(u2) <=> txHeld = << >>
  <2>1. TxEmpty(u2) <=> Len(txHeld) = 0
    BY SMTT(30), <1>4, RingEnds DEF TxRing, TxEmpty
  <2>2. txHeld \in Seq(Nat)
    BY <1>4, RingIs DEF TxRing
  <2> QED BY <2>1, <2>2
<1>6. ie \in BOOLEAN /\ usart.tdr \in Seq(Nat)
  BY Zenon DEF UartInv, Usarts
<1> HIDE DEF u2, rh
<1>7. CASE sends
  <2>1. /\ TxCallback(u2) \in Uarts /\ RxRing(TxCallback(u2), rh)
        /\ TxRing(TxCallback(u2), Tail(txHeld)) /\ u2.txBuf[u2.txTail] \in Nat
    BY Zenon, <1>4, <1>7, IrqSends
  <2>2. uart' = TxCallback(u2) /\ txHeld' = Tail(txHeld) /\ rxHeld' = rh
    BY <1>1, <1>7
  <2>3. ie
    BY <1>7
  <2>4. usart' = [rdr |-> << >>, tdr |-> <<u2.txBuf[u2.txTail]>>, txeie |-> ie, error |-> FALSE]
    BY <1>1, <1>7, Zenon
  <2> HIDE DEF ie, sends
  <2>5. usart' \in Usarts /\ usart'.txeie
    BY <2>1, <2>3, <2>4, <1>6 DEF Usarts
  <2> QED BY Zenon, <2>1, <2>2, <2>5 DEF UartInv
<1>8. CASE ~sends
  <2>1. uart' = u2 /\ txHeld' = txHeld /\ rxHeld' = rh
    BY <1>1, <1>8
  <2>2. usart' = [rdr |-> << >>, tdr |-> usart.tdr, txeie |-> ie, error |-> FALSE]
    BY <1>1, <1>8, Zenon
  <2>3. txHeld # << >> => ie
    BY Zenon, <1>5, <1>8 DEF UartInv
  <2> HIDE DEF ie, sends
  <2>4. usart' \in Usarts /\ usart'.txeie = ie
    BY <2>2, <1>6 DEF Usarts
  <2> QED BY Zenon, <1>4, <2>1, <2>3, <2>4 DEF UartInv
<1> QED BY <1>7, <1>8

(* Every step of the driver, the peripheral and the wire keeps the rings.  *)
LEMMA UartStep ==
    ASSUME UartInv, [UartNext]_uartVars
    PROVE  UartInv'
<1>1. ASSUME NEW len \in 1..RxSize, UartReadBuffer(len) PROVE UartInv'
  BY <1>1, ReadKeeps
<1>2. ASSUME NEW n \in 1..MaxWrite, NEW s \in [1..n -> Bytes], UartWriteBuffer(s) PROVE UartInv'
  <2>0. n \in Nat /\ s \in [1..n -> Nat]
    <3>1. MaxWrite \in Nat /\ Bytes \subseteq Nat
      BY UartAssumption
    <3>2. n \in Nat
      BY <3>1
    <3>3. s \in [1..n -> Nat]
      BY Zenon, <3>1
    <3> QED BY <3>2, <3>3
  <2>1. s \in Seq(Nat)
    BY <2>0
  <2> QED BY <1>2, <2>1, WriteKeeps
<1>3. CASE UartIrqHandler
  BY <1>3, IrqKeeps
<1>4. ASSUME usart' \in Usarts, usart'.txeie = usart.txeie, UNCHANGED <<uart, rxHeld, txHeld>> PROVE UartInv'
  BY <1>4 DEF UartInv
<1>5. ASSUME NEW b \in Bytes, WireReceives(b) PROVE UartInv'
  <2>1. <<b>> \in Seq(Nat)
    BY UartAssumption
  <2>2. usart' \in Usarts /\ usart'.txeie = usart.txeie
    <3> DEFINE r == IF usart.rdr = << >> THEN <<b>> ELSE usart.rdr
               e == usart.error \/ usart.rdr # << >>
    <3>1. usart \in Usarts
      BY DEF UartInv
    <3>2. usart' = [usart EXCEPT !.rdr = r, !.error = e]
      BY <1>5, Zenon DEF WireReceives
    <3>3. r \in Seq(Nat) /\ e \in BOOLEAN
      BY <2>1, <3>1 DEF Usarts
    <3> HIDE DEF r, e
    <3> QED BY Zenon, <3>1, <3>2, <3>3 DEF Usarts
  <2> QED BY <1>4, <1>5, <2>2 DEF WireReceives
<1>6. CASE WireSends
  <2>1. usart' \in Usarts /\ usart'.txeie = usart.txeie
    <3>1. << >> \in Seq(Nat) /\ usart \in Usarts /\ usart' = [usart EXCEPT !.tdr = << >>]
      BY <1>6 DEF WireSends, UartInv
    <3> QED BY Zenon, <3>1 DEF Usarts
  <2> QED BY <1>4, <1>6, <2>1 DEF WireSends
<1>7. CASE WireErrs
  <2>1. usart' \in Usarts /\ usart'.txeie = usart.txeie
    BY Zenon, <1>7 DEF WireErrs, UartInv, Usarts
  <2> QED BY <1>4, <1>7, <2>1 DEF WireErrs
<1>8. CASE UNCHANGED uartVars
  BY <1>8 DEF uartVars, UartInv
<1> QED BY <1>1, <1>2, <1>3, <1>5, <1>6, <1>7, <1>8, Zenon DEF UartNext

(* The rings lose, double and reorder nothing, for rings of every size and *)
(* however reads, writes and interrupts alternate.                         *)
THEOREM RingsAlwaysExact == UartSpec => []RingsExact
<1>1. UartInit => UartInv
  <2> SUFFICES ASSUME UartInit PROVE UartInv
    OBVIOUS
  <2>0. RxSize \in Nat \ {0, 1} /\ TxSize \in Nat \ {0, 1}
    BY UartAssumption
  <2>1. ASSUME NEW size \in Nat \ {0, 1} PROVE Ring([i \in 0..size - 1 |-> Junk], 0, 0, size, << >>)
    BY DEF Ring, RingTypes, Holds, At, Junk
  <2>2. /\ uart.rxBuf = [i \in 0..RxSize - 1 |-> Junk] /\ uart.rxHead = 0 /\ uart.rxTail = 0
        /\ uart.txBuf = [i \in 0..TxSize - 1 |-> Junk] /\ uart.txHead = 0 /\ uart.txTail = 0
        /\ rxHeld = << >> /\ txHeld = << >>
    BY DEF UartInit
  <2>3. RxRing(uart, rxHeld) /\ TxRing(uart, txHeld)
    BY Zenon, <2>0, <2>1, <2>2 DEF RxRing, TxRing
  <2>4. uart \in Uarts
    BY SMTT(30), <2>0 DEF UartInit, Uarts, Junk
  <2>5. usart \in Usarts
    BY DEF UartInit, Usarts
  <2> QED BY <2>2, <2>3, <2>4, <2>5 DEF UartInv
<1>2. UartInv => RingsExact
  <2> SUFFICES ASSUME UartInv PROVE RingsExact
    OBVIOUS
  <2>1. Ring(uart.rxBuf, uart.rxTail, uart.rxHead, RxSize, rxHeld)
    BY DEF UartInv, RxRing
  <2>2. Ring(uart.txBuf, uart.txTail, uart.txHead, TxSize, txHeld)
    BY DEF UartInv, TxRing
  <2>3. UartAvailable = Len(rxHeld)
    BY <2>1, RingEnds DEF UartAvailable
  <2> QED BY <2>1, <2>2, <2>3 DEF UartInv, RingsExact, Ring
<1> QED BY <1>1, <1>2, UartStep, PTL DEF UartSpec

------------------------------------------------------------------------------
(* Spi: bytes on their way *)

SpiTypeOK ==
  /\ spi \in [busy : BOOLEAN, len : Nat, txCount : Nat, rxCount : Nat, rxBuf : Seq(Nat)]
  /\ spiHw \in [tx : Seq(Nat), rx : Seq(Nat), txeie : BOOLEAN, rxneie : BOOLEAN, ovr : BOOLEAN]

\* n of len bytes sent, m received, into buf: the answers in the receive FIFO
\* and then the bytes in the transmit FIFO continue what buf has got, and are
\* never more than the transmit side takes.
Flow(len, n, m, buf, tx, rx) ==
  /\ len \in Nat /\ n \in Nat /\ m \in Nat
  /\ buf \in Seq(Nat) /\ tx \in Seq(Nat) /\ rx \in Seq(Nat)
  /\ n <= len
  /\ n = m + Len(rx) + Len(tx)
  /\ Len(rx) + Len(tx) <= TxDepth
  /\ Len(buf) = m
  /\ \A i \in 1..Len(buf) : buf[i] = i
  /\ \A i \in 1..Len(rx) : rx[i] = m + i
  /\ \A i \in 1..Len(tx) : tx[i] = m + Len(rx) + i

\* The interrupts that will move the bytes are enabled.
Armed(s, h) ==
  /\ ~h.ovr
  /\ s.busy => s.rxCount < s.len /\ h.rxneie /\ (h.txeie \/ s.txCount = s.len)
  /\ ~s.busy => s.rxCount = s.len /\ ~h.txeie /\ ~h.rxneie

SpiFlow(s, h) == Flow(s.len, s.txCount, s.rxCount, s.rxBuf, h.tx, h.rx)

SpiInv == SpiTypeOK /\ SpiFlow(spi, spiHw) /\ Armed(spi, spiHw)

(* The first and the last element of a sequence. *)
LEMMA AppendAt ==
    ASSUME NEW q \in Seq(Nat), NEW e \in Nat
    PROVE  /\ Append(q, e) \in Seq(Nat) /\ Len(Append(q, e)) = Len(q) + 1 /\ Len(q) \in Nat
           /\ \A i \in 1..Len(q) : Append(q, e)[i] = q[i]
           /\ Append(q, e)[Len(q) + 1] = e
  OBVIOUS

(* A sequence without its first element.                                   *)
LEMMA TailAt ==
    ASSUME NEW q \in Seq(Nat), q # << >>
    PROVE  /\ Tail(q) \in Seq(Nat) /\ Len(Tail(q)) = Len(q) - 1 /\ Len(q) \in Nat /\ Len(q) >= 1
           /\ \A i \in 1..Len(q) - 1 : Tail(q)[i] = q[i + 1]
           /\ Head(q) = q[1] /\ Head(q) \in Nat
  OBVIOUS

(* A sequence that counts is the identity on its indices.                  *)
LEMMA Counting ==
    ASSUME NEW b \in Seq(Nat), \A i \in 1..Len(b) : b[i] = i
    PROVE  b = [i \in 1..Len(b) |-> i]
<1>1. b = [i \in 1..Len(b) |-> b[i]]
  OBVIOUS
<1>2. [i \in 1..Len(b) |-> b[i]] = [i \in 1..Len(b) |-> i]
  BY Zenon
<1> QED BY <1>1, <1>2, Zenon

(* What was sent and not received is in the FIFOs.                         *)
LEMMA FlowCount ==
    ASSUME NEW len, NEW n, NEW m, NEW buf, NEW tx, NEW rx, Flow(len, n, m, buf, tx, rx)
    PROVE  n - m = Len(tx) + Len(rx)
  BY DEF Flow

(* A byte is put into the transmit FIFO.                                   *)
LEMMA FlowSend ==
    ASSUME NEW len, NEW n, NEW m, NEW buf, NEW tx, NEW rx, Flow(len, n, m, buf, tx, rx),
           n < len, Len(rx) + Len(tx) < TxDepth
    PROVE  Flow(len, n + 1, m, buf, Append(tx, n + 1), rx)
<1> DEFINE q == Append(tx, n + 1)
<1>1. /\ q \in Seq(Nat) /\ Len(q) = Len(tx) + 1 /\ Len(tx) \in Nat /\ Len(rx) \in Nat
      /\ \A i \in 1..Len(tx) : q[i] = tx[i]
      /\ q[Len(tx) + 1] = n + 1
  BY AppendAt DEF Flow
<1> HIDE DEF q
<1>2. ASSUME NEW i \in 1..Len(q) PROVE q[i] = m + Len(rx) + i
  <2>1. CASE i \in 1..Len(tx)
    BY Zenon, <2>1, <1>1 DEF Flow
  <2>2. CASE i = Len(tx) + 1
    BY <2>2, <1>1 DEF Flow
  <2> QED BY <1>1, <2>1, <2>2
<1>3. Flow(len, n + 1, m, buf, q, rx)
  BY SMTT(30), <1>1, <1>2, SpiAssumption DEF Flow
<1> QED BY Zenon, <1>3 DEF q

(* A byte is read from the receive FIFO.                                   *)
LEMMA FlowReceive ==
    ASSUME NEW len, NEW n, NEW m, NEW buf, NEW tx, NEW rx, Flow(len, n, m, buf, tx, rx),
           rx # << >>
    PROVE  /\ Flow(len, n, m + 1, Append(buf, Head(rx)), tx, Tail(rx))
           /\ Len(Tail(rx)) = Len(rx) - 1 /\ Len(rx) \in Nat /\ Len(tx) \in Nat /\ m < len
<1> DEFINE b == Append(buf, Head(rx))
           r == Tail(rx)
<1>1. /\ r \in Seq(Nat) /\ Len(r) = Len(rx) - 1 /\ Len(rx) \in Nat /\ Len(rx) >= 1 /\ Len(tx) \in Nat
      /\ \A i \in 1..Len(rx) - 1 : r[i] = rx[i + 1]
      /\ Head(rx) = rx[1] /\ Head(rx) \in Nat
  BY TailAt DEF Flow
<1>2. Head(rx) = m + 1
  BY <1>1 DEF Flow
<1>3. /\ b \in Seq(Nat) /\ Len(b) = m + 1
      /\ \A i \in 1..Len(buf) : b[i] = buf[i]
      /\ b[Len(buf) + 1] = m + 1
  BY Zenon, <1>1, <1>2, AppendAt DEF Flow
<1> HIDE DEF b, r
<1>4. ASSUME NEW i \in 1..Len(b) PROVE b[i] = i
  <2>1. CASE i \in 1..Len(buf)
    BY <2>1, <1>3 DEF Flow
  <2>2. CASE i = Len(buf) + 1
    BY <2>2, <1>3 DEF Flow
  <2> QED BY <1>3, <2>1, <2>2 DEF Flow
<1>5. ASSUME NEW i \in 1..Len(r) PROVE r[i] = m + 1 + i
  <2>1. i + 1 \in 1..Len(rx) /\ i \in 1..Len(rx) - 1
    BY <1>1
  <2>2. rx[i + 1] = m + (i + 1)
    BY <2>1 DEF Flow
  <2> QED BY <1>1, <2>1, <2>2 DEF Flow
<1>6. \A i \in 1..Len(tx) : tx[i] = (m + 1) + Len(r) + i
  BY <1>1 DEF Flow
<1>7. Flow(len, n, m + 1, b, tx, r) /\ m < len
  BY <1>1, <1>3, <1>4, <1>5, <1>6, SpiAssumption DEF Flow
<1> QED BY <1>1, <1>7 DEF b, r

(* The wire turns a byte to send into a byte received.                     *)
LEMMA FlowShift ==
    ASSUME NEW len, NEW n, NEW m, NEW buf, NEW tx, NEW rx, Flow(len, n, m, buf, tx, rx),
           tx # << >>
    PROVE  /\ Flow(len, n, m, buf, Tail(tx), Append(rx, Head(tx)))
           /\ Len(rx) < TxDepth /\ Len(rx) \in Nat
<1> DEFINE q == Tail(tx)
           r == Append(rx, Head(tx))
<1>1. /\ q \in Seq(Nat) /\ Len(q) = Len(tx) - 1 /\ Len(tx) \in Nat /\ Len(tx) >= 1
      /\ \A i \in 1..Len(tx) - 1 : q[i] = tx[i + 1]
      /\ Head(tx) = tx[1] /\ Head(tx) \in Nat
  BY TailAt DEF Flow
<1>2. Head(tx) = m + Len(rx) + 1
  BY <1>1 DEF Flow
<1>3. /\ r \in Seq(Nat) /\ Len(r) = Len(rx) + 1 /\ Len(rx) \in Nat
      /\ \A i \in 1..Len(rx) : r[i] = rx[i]
      /\ r[Len(rx) + 1] = m + Len(rx) + 1
  BY <1>1, <1>2, AppendAt DEF Flow
<1> HIDE DEF q, r
<1>4. ASSUME NEW i \in 1..Len(r) PROVE r[i] = m + i
  <2>1. CASE i \in 1..Len(rx)
    BY <2>1, <1>3 DEF Flow
  <2>2. CASE i = Len(rx) + 1
    BY <2>2, <1>3 DEF Flow
  <2> QED BY <1>3, <2>1, <2>2 DEF Flow
<1>5. ASSUME NEW i \in 1..Len(q) PROVE q[i] = m + Len(r) + i
  <2>1. i + 1 \in 1..Len(tx) /\ i \in 1..Len(tx) - 1
    BY <1>1
  <2>2. tx[i + 1] = m + Len(rx) + (i + 1)
    BY <2>1 DEF Flow
  <2> QED BY SMTT(30), <1>1, <1>3, <2>1, <2>2 DEF Flow
<1>6. Flow(len, n, m, buf, q, r)
  BY <1>1, <1>3, <1>4, <1>5, SpiAssumption DEF Flow
<1>7. Len(rx) < TxDepth
  BY <1>1, <1>3, SpiAssumption DEF Flow
<1> QED BY Zenon, <1>3, <1>6, <1>7 DEF q, r

(* Nothing is in flight when as many bytes were received as sent. *)
LEMMA FlowDone ==
    ASSUME NEW len, NEW n, NEW m, NEW buf, NEW tx, NEW rx, Flow(len, n, m, buf, tx, rx),
           m >= len
    PROVE  m = len /\ n = len /\ tx = << >> /\ rx = << >>
<1>1. Len(tx) \in Nat /\ Len(rx) \in Nat
  BY DEF Flow
<1>2. m = len /\ n = len /\ Len(tx) = 0 /\ Len(rx) = 0
  BY <1>1 DEF Flow
<1> QED BY <1>2 DEF Flow

(* The start of a transfer, and a complete one. *)
LEMMA FlowStart ==
    ASSUME NEW len \in Nat
    PROVE  /\ Flow(len, 0, 0, << >>, << >>, << >>)
           /\ Flow(len, len, len, [i \in 1..len |-> i], << >>, << >>)
  BY SpiAssumption DEF Flow

(* The second half of the interrupt handler keeps the invariant when there *)
(* is room for one more byte in flight.                                    *)
LEMMA SendNextOK ==
    ASSUME NEW s \in [busy : BOOLEAN, len : Nat, txCount : Nat, rxCount : Nat, rxBuf : Seq(Nat)],
           NEW h \in [tx : Seq(Nat), rx : Seq(Nat), txeie : BOOLEAN, rxneie : BOOLEAN, ovr : BOOLEAN],
           SpiFlow(s, h), Armed(s, h), s.busy, SendNext(s, h),
           TxReady => Len(h.rx) + Len(h.tx) < TxDepth
    PROVE  SpiInv'
<1>1. CASE ~TxReady
  BY <1>1, Zenon DEF SendNext, SpiInv, SpiTypeOK
<1>2. CASE TxReady /\ ~(s.txCount < s.len)
  <2>1. spi' = s /\ spiHw' = [h EXCEPT !.txeie = FALSE]
    BY <1>2, Zenon DEF SendNext
  <2>2. s.txCount = s.len
    BY <1>2 DEF SpiFlow, Flow
  <2>3. /\ spiHw'.tx = h.tx /\ spiHw'.rx = h.rx /\ spiHw'.rxneie = h.rxneie /\ spiHw'.ovr = h.ovr
    BY <2>1
  <2> QED BY <2>1, <2>2, <2>3, Zenon DEF SpiInv, SpiTypeOK, SpiFlow, Armed
<1>3. CASE TxReady /\ s.txCount < s.len
  <2> DEFINE q == Append(h.tx, s.txCount + 1)
  <2>1. /\ spi' = [s EXCEPT !.txCount = s.txCount + 1]
        /\ spiHw' = [h EXCEPT !.tx = q]
    BY <1>3, Zenon DEF SendNext
  <2>2. Flow(s.len, s.txCount + 1, s.rxCount, s.rxBuf, q, h.rx)
    BY Zenon, <1>3, FlowSend DEF SpiFlow
  <2>3. q \in Seq(Nat) /\ s.txCount + 1 \in Nat
    BY <2>2 DEF Flow
  <2> HIDE DEF q
  <2>4. SpiTypeOK'
    BY Zenon, <2>1, <2>3 DEF SpiTypeOK
  <2>5. /\ spi'.len = s.len /\ spi'.txCount = s.txCount + 1 /\ spi'.rxCount = s.rxCount
        /\ spi'.rxBuf = s.rxBuf /\ spi'.busy = s.busy
        /\ spiHw'.tx = q /\ spiHw'.rx = h.rx /\ spiHw'.txeie = h.txeie
        /\ spiHw'.rxneie = h.rxneie /\ spiHw'.ovr = h.ovr
    BY Zenon, <2>1
  <2>6. h.txeie
    BY <1>3 DEF Armed
  <2> QED BY <2>2, <2>4, <2>5, <2>6, Zenon DEF SpiInv, SpiFlow, Armed
<1> QED BY <1>1, <1>2, <1>3

(* Every step of the port and of the peripheral keeps the invariant. *)
LEMMA SpiStep == SpiInv /\ [SpiNext]_spiVars => SpiInv'
<1> SUFFICES ASSUME SpiInv, [SpiNext]_spiVars PROVE SpiInv'
  BY Zenon
<1> DEFINE ST == [busy : BOOLEAN, len : Nat, txCount : Nat, rxCount : Nat, rxBuf : Seq(Nat)]
           HT == [tx : Seq(Nat), rx : Seq(Nat), txeie : BOOLEAN, rxneie : BOOLEAN, ovr : BOOLEAN]
<1>a. spi \in ST /\ spiHw \in HT /\ SpiFlow(spi, spiHw) /\ Armed(spi, spiHw)
  BY Zenon DEF SpiInv, SpiTypeOK
<1>b. ASSUME ~spi.busy PROVE spiHw.tx = << >> /\ spiHw.rx = << >>
  <2>1. spi.rxCount >= spi.len
    BY <1>a, <1>b DEF Armed
  <2> QED BY <2>1, <1>a, FlowDone DEF SpiFlow
<1>c. ASSUME NEW len \in SpiLens, NEW h \in HT, h.tx = << >>, h.rx = << >>, ~h.ovr,
             spi' = Started(len), spiHw' = [h EXCEPT !.rxneie = TRUE, !.txeie = TRUE]
      PROVE  SpiInv'
  <2>1. len \in Nat \ {0}
    BY SpiAssumption
  <2>2. SpiTypeOK'
    BY Zenon, <1>c, <2>1 DEF SpiTypeOK, Started
  <2>3. /\ spi'.len = len /\ spi'.txCount = 0 /\ spi'.rxCount = 0 /\ spi'.rxBuf = << >>
        /\ spi'.busy
        /\ spiHw'.tx = << >> /\ spiHw'.rx = << >> /\ spiHw'.txeie /\ spiHw'.rxneie
        /\ ~spiHw'.ovr
    BY <1>c DEF Started
  <2>4. SpiFlow(spi, spiHw)'
    BY Zenon, <2>1, <2>3, FlowStart DEF SpiFlow
  <2>5. Armed(spi, spiHw)'
    BY <2>1, <2>3 DEF Armed
  <2> QED BY <2>2, <2>4, <2>5 DEF SpiInv
<1>1. ASSUME NEW len \in SpiLens, SpiTransferAsync(len) PROVE SpiInv'
  <2>1. /\ spi' = Started(len) /\ spiHw' = [spiHw EXCEPT !.rxneie = TRUE, !.txeie = TRUE]
        /\ ~spi.busy
    BY <1>1 DEF SpiTransferAsync
  <2> QED BY Zenon, <2>1, <1>a, <1>b, <1>c DEF Armed
<1>2. ASSUME NEW len \in SpiLens, SpiTransfer(len) PROVE SpiInv'
  <2> DEFINE got == Exchanged(spiHw.rx, len)
             all == [i \in 1..len |-> i]
  <2>1. /\ ~spi.busy
        /\ spi' = [spi EXCEPT !.len = len, !.txCount = len, !.rxCount = len,
                              !.rxBuf = SubSeq(got, 1, len)]
        /\ spiHw' = [spiHw EXCEPT !.rx = SubSeq(got, len + 1, Len(got))]
    BY <1>2 DEF SpiTransfer
  <2>2. len \in Nat /\ spiHw.tx = << >> /\ spiHw.rx = << >>
    BY <2>1, <1>b, SpiAssumption
  <2>3. all \in Seq(Nat) /\ Len(all) = len
    BY <2>2
  <2>4. got = << >> \o all
    BY <2>2 DEF Exchanged
  <2> HIDE DEF got, all
  <2>5. got = all
    BY <2>3, <2>4
  <2>6. SubSeq(got, 1, len) = all /\ SubSeq(got, len + 1, Len(got)) = << >>
    BY <2>2, <2>3, <2>5
  <2>7. SpiTypeOK'
    BY Zenon, <2>1, <2>2, <2>3, <2>6, <1>a DEF SpiTypeOK
  <2>8. /\ spi'.len = len /\ spi'.txCount = len /\ spi'.rxCount = len /\ spi'.rxBuf = all
        /\ ~spi'.busy
        /\ spiHw'.tx = << >> /\ spiHw'.rx = << >> /\ spiHw'.txeie = spiHw.txeie
        /\ spiHw'.rxneie = spiHw.rxneie /\ spiHw'.ovr = spiHw.ovr
    BY Zenon, <2>1, <2>2, <2>6, <1>a
  <2>9. SpiFlow(spi, spiHw)'
    BY <2>2, <2>8, FlowStart DEF SpiFlow, all
  <2>10. Armed(spi, spiHw)'
    BY <2>1, <2>8, <1>a DEF Armed
  <2> QED BY <2>7, <2>9, <2>10 DEF SpiInv
<1>3. CASE SpiIrqHandler
  <2> DEFINE s == [spi EXCEPT !.rxCount = @ + 1,
                     !.rxBuf = IF spi.rxCount < spi.len THEN Append(@, Head(spiHw.rx)) ELSE @]
             h == [spiHw EXCEPT !.rx = Tail(@)]
  <2>1. spi.busy
    BY Zenon, <1>3, <1>a DEF SpiIrqHandler, Armed
  <2>2. CASE spiHw.rx = << >>
    <3>1. SendNext(spi, spiHw)
      BY <1>3, <2>2 DEF SpiIrqHandler
    <3>2. TxReady => Len(spiHw.rx) + Len(spiHw.tx) < TxDepth
      <4>1. Len(spiHw.rx) = 0 /\ Len(spiHw.tx) \in Nat
        BY <2>2, <1>a
      <4> QED BY <4>1, SpiAssumption DEF TxReady
    <3> QED BY Zenon, <3>1, <3>2, <2>1, <1>a, SendNextOK
  <2>3. CASE spiHw.rx # << >>
    <3>1. /\ Flow(spi.len, spi.txCount, spi.rxCount + 1, Append(spi.rxBuf, Head(spiHw.rx)),
                  spiHw.tx, Tail(spiHw.rx))
          /\ Len(Tail(spiHw.rx)) = Len(spiHw.rx) - 1 /\ Len(spiHw.rx) \in Nat
          /\ Len(spiHw.tx) \in Nat
          /\ spi.rxCount < spi.len
      BY <2>3, <1>a, FlowReceive DEF SpiFlow
    <3>2. s = [spi EXCEPT !.rxCount = spi.rxCount + 1, !.rxBuf = Append(spi.rxBuf, Head(spiHw.rx))]
      BY <3>1
    <3>3. /\ Append(spi.rxBuf, Head(spiHw.rx)) \in Seq(Nat) /\ Tail(spiHw.rx) \in Seq(Nat)
          /\ spi.rxCount + 1 \in Nat
      BY <3>1 DEF Flow
    <3>4. IF s.rxCount < s.len THEN SendNext(s, h)
          ELSE \/ /\ spi' = [s EXCEPT !.busy = FALSE]
                  /\ spiHw' = [h EXCEPT !.txeie = FALSE, !.rxneie = FALSE]
               \/ /\ spi' \in {Started(len) : len \in SpiLens}
                  /\ spiHw' = [h EXCEPT !.txeie = TRUE, !.rxneie = TRUE]
      BY <1>3, <2>3 DEF SpiIrqHandler
    <3>5. h = [spiHw EXCEPT !.rx = Tail(spiHw.rx)]
      OBVIOUS
    <3> HIDE DEF s, h
    <3>6. s \in ST /\ h \in HT
      BY Zenon, <3>2, <3>3, <3>5, <1>a
    <3>7. /\ s.rxCount = spi.rxCount + 1 /\ s.rxBuf = Append(spi.rxBuf, Head(spiHw.rx))
          /\ s.len = spi.len /\ s.txCount = spi.txCount /\ s.busy
          /\ h.rx = Tail(spiHw.rx) /\ h.tx = spiHw.tx /\ h.txeie = spiHw.txeie
          /\ h.rxneie = spiHw.rxneie /\ h.ovr = spiHw.ovr
      BY <3>2, <3>5, <1>a, <2>1
    <3>8. SpiFlow(s, h)
      BY <3>1, <3>7 DEF SpiFlow
    <3>9. CASE s.rxCount < s.len
      <4>1. Armed(s, h)
        BY <3>7, <3>9, <1>a, <2>1 DEF Armed
      <4>2. Len(h.rx) + Len(h.tx) < TxDepth
        BY <3>1, <3>7, <1>a, SpiAssumption DEF SpiFlow, Flow
      <4> QED BY Zenon, <3>4, <3>6, <3>7, <3>8, <3>9, <4>1, <4>2, SendNextOK
    <3>10. CASE ~(s.rxCount < s.len)
      <4>1. s.rxCount = s.len /\ s.txCount = s.len /\ h.rx = << >> /\ h.tx = << >>
        <5>1. s.rxCount >= s.len
          BY <3>6, <3>10
        <5> QED BY <5>1, <3>8, FlowDone DEF SpiFlow
      <4>2. ~h.ovr
        BY Zenon, <3>7, <1>a DEF Armed
      <4>3. CASE spi' = [s EXCEPT !.busy = FALSE] /\ spiHw' = [h EXCEPT !.txeie = FALSE, !.rxneie = FALSE]
        <5>1. SpiTypeOK'
          BY Zenon, <4>3, <3>6 DEF SpiTypeOK
        <5>2. /\ spi'.len = s.len /\ spi'.txCount = s.txCount /\ spi'.rxCount = s.rxCount
              /\ spi'.rxBuf = s.rxBuf /\ ~spi'.busy
              /\ spiHw'.tx = h.tx /\ spiHw'.rx = h.rx /\ ~spiHw'.txeie /\ ~spiHw'.rxneie
              /\ spiHw'.ovr = h.ovr
          BY <4>3, <3>6
        <5>3. SpiFlow(spi, spiHw)'
          BY <5>2, <3>8 DEF SpiFlow
        <5> QED BY <5>1, <5>2, <5>3, <4>1, <4>2 DEF SpiInv, Armed
      <4>4. ASSUME NEW len \in SpiLens, spi' = Started(len),
                   spiHw' = [h EXCEPT !.txeie = TRUE, !.rxneie = TRUE]
            PROVE  SpiInv'
        <5>1. spiHw' = [h EXCEPT !.rxneie = TRUE, !.txeie = TRUE]
          BY Zenon, <4>4, <3>6
        <5> QED BY Zenon, <4>1, <4>2, <4>4, <5>1, <3>6, <1>c
      <4> QED BY SMTT(30), <3>4, <3>10, <4>3, <4>4
    <3> QED BY <3>9, <3>10
  <2> QED BY <2>2, <2>3
<1>4. CASE SpiShift
  <2> DEFINE r == Append(spiHw.rx, Head(spiHw.tx))
             q == Tail(spiHw.tx)
  <2>1. spiHw.tx # << >> /\ spi' = spi
    BY <1>4 DEF SpiShift
  <2>2. /\ Flow(spi.len, spi.txCount, spi.rxCount, spi.rxBuf, q, r)
        /\ Len(spiHw.rx) < TxDepth /\ Len(spiHw.rx) \in Nat
    BY <2>1, <1>a, FlowShift DEF SpiFlow
  <2>3. Len(spiHw.rx) < RxDepth /\ ~(Len(spiHw.rx) >= RxDepth)
    BY <2>2, SpiAssumption
  <2>4. spiHw' = [spiHw EXCEPT !.tx = q, !.rx = r, !.ovr = spiHw.ovr \/ FALSE]
    BY Zenon, <1>4, <2>3 DEF SpiShift
  <2>5. q \in Seq(Nat) /\ r \in Seq(Nat)
    BY <2>2 DEF Flow
  <2> HIDE DEF q, r
  <2>6. ~spiHw.ovr
    BY <1>a DEF Armed
  <2>7. /\ spiHw'.tx = q /\ spiHw'.rx = r /\ ~spiHw'.ovr
        /\ spiHw'.txeie = spiHw.txeie /\ spiHw'.rxneie = spiHw.rxneie
    BY <2>4, <2>6, <1>a
  <2>8. SpiTypeOK'
    BY <2>1, <2>4, <2>5, <1>a, Zenon DEF SpiTypeOK
  <2>9. SpiFlow(spi, spiHw)' /\ Armed(spi, spiHw)'
    BY SMTT(30), <2>1, <2>2, <2>7, <1>a DEF SpiFlow, Armed
  <2> QED BY <2>8, <2>9 DEF SpiInv
<1>5. CASE UNCHANGED spiVars
  BY <1>5 DEF spiVars, SpiInv, SpiTypeOK, SpiFlow, Armed
<1> QED BY <1>1, <1>2, <1>3, <1>4, <1>5 DEF SpiNext

(* A transfer of any length is received in order and complete, by          *)
(* interrupts, for FIFOs of any depth: spi_core_irq_handler never lets     *)
(* more bytes under way than the receive FIFO can take.                    *)
THEOREM SpiTransfersExact == SpiSpec => []TransferExact
<1>1. SpiInit => SpiInv
  <2> SUFFICES ASSUME SpiInit PROVE SpiInv
    OBVIOUS
  <2>1. Flow(0, 0, 0, << >>, << >>, << >>)
    BY Zenon, FlowStart
  <2>2. /\ spi.len = 0 /\ spi.txCount = 0 /\ spi.rxCount = 0 /\ spi.rxBuf = << >> /\ ~spi.busy
        /\ spiHw.tx = << >> /\ spiHw.rx = << >> /\ ~spiHw.txeie /\ ~spiHw.rxneie /\ ~spiHw.ovr
    BY DEF SpiInit
  <2>3. SpiTypeOK
    BY DEF SpiInit, SpiTypeOK
  <2> QED BY <2>1, <2>2, <2>3 DEF SpiInv, SpiFlow, Armed
<1>2. SpiInv => TransferExact
  <2> SUFFICES ASSUME SpiInv PROVE TransferExact
    OBVIOUS
  <2>1. spi.rxBuf = [i \in 1..spi.rxCount |-> i] /\ spi.txCount - spi.rxCount = Len(spiHw.tx) + Len(spiHw.rx)
    <3>1. /\ spi.rxBuf \in Seq(Nat) /\ Len(spi.rxBuf) = spi.rxCount
          /\ \A i \in 1..Len(spi.rxBuf) : spi.rxBuf[i] = i
          /\ spi.txCount = spi.rxCount + Len(spiHw.rx) + Len(spiHw.tx)
          /\ Len(spiHw.rx) \in Nat /\ Len(spiHw.tx) \in Nat /\ spi.rxCount \in Nat
      <4>1. Flow(spi.len, spi.txCount, spi.rxCount, spi.rxBuf, spiHw.tx, spiHw.rx)
        BY Zenon DEF SpiInv, SpiFlow
      <4>2. /\ spi.rxBuf \in Seq(Nat) /\ Len(spi.rxBuf) = spi.rxCount
            /\ \A i \in 1..Len(spi.rxBuf) : spi.rxBuf[i] = i
            /\ spi.txCount = spi.rxCount + Len(spiHw.rx) + Len(spiHw.tx)
            /\ spi.rxCount \in Nat /\ spiHw.rx \in Seq(Nat) /\ spiHw.tx \in Seq(Nat)
        BY Zenon, <4>1 DEF Flow
      <4>3. Len(spiHw.rx) \in Nat /\ Len(spiHw.tx) \in Nat
        BY <4>2
      <4> QED BY Zenon, <4>2, <4>3
    <3>2. spi.rxBuf = [i \in 1..Len(spi.rxBuf) |-> i]
      BY <3>1, Counting, Zenon
    <3>3. spi.rxBuf = [i \in 1..spi.rxCount |-> i]
      BY <3>1, <3>2, Zenon
    <3>4. spi.txCount - spi.rxCount = Len(spiHw.tx) + Len(spiHw.rx)
      <4> DEFINE x == spiHw.tx
                 y == spiHw.rx
      <4>1. Flow(spi.len, spi.txCount, spi.rxCount, spi.rxBuf, x, y)
        BY DEF SpiInv, SpiFlow
      <4> HIDE DEF x, y
      <4>2. spi.txCount - spi.rxCount = Len(x) + Len(y)
        BY <4>1, FlowCount
      <4> QED BY Zenon, <4>2 DEF x, y
    <3> QED BY Zenon, <3>3, <3>4
  <2>2. spi.txCount = spi.len /\ spi.rxCount < spi.len => spi.txCount > spi.rxCount
    BY DEF SpiInv, SpiTypeOK
  <2> QED BY Zenon, <2>1, <2>2 DEF SpiInv, Armed, TransferExact
<1> QED BY <1>1, <1>2, SpiStep, PTL DEF SpiSpec

------------------------------------------------------------------------------
(* I2c: timing and transfers *)

(* The first prescaler that fits is 0 or 1 at up to 80 MHz. *)
LEMMA SomePrescalerFits ==
    ASSUME NEW fast \in BOOLEAN, NEW mhz \in 1..80
    PROVE  Fits(1, fast, mhz)
<1>1. CASE fast
  BY <1>1 DEF Fits, CeilDiv, Cycles, LowNs, HighNs, HighMinNs, SetupNs
<1>2. CASE ~fast
  BY <1>2 DEF Fits, CeilDiv, Cycles, LowNs, HighNs, HighMinNs, SetupNs
<1> QED BY <1>1, <1>2

First(p, fast, mhz) == Fits(p, fast, mhz) /\ \A r \in 0..p - 1 : ~Fits(r, fast, mhz)

(* The timing is computed with prescaler 0 or 1.                           *)
LEMMA FirstPrescaler ==
    ASSUME NEW fast \in BOOLEAN, NEW mhz \in 1..80
    PROVE  \E p \in {0, 1} :
             /\ Fits(p, fast, mhz)
             /\ Timing(fast, mhz) =
                  [presc |-> p,
                   scldel |-> CeilDiv(Cycles(SetupNs(fast), mhz), p + 1) - 1,
                   sclh |-> CeilDiv(Cycles(HighNs(fast), mhz), p + 1) - 1,
                   scll |-> CeilDiv(Cycles(LowNs(fast), mhz), p + 1) - 1]
<1> DEFINE p == CHOOSE q \in 0..15 : First(q, fast, mhz)
<1>1. \E q \in 0..15 : First(q, fast, mhz)
  <2>1. 0..0 - 1 = {} /\ 0..1 - 1 = {0} /\ {0, 1} \subseteq 0..15
    OBVIOUS
  <2>2. Fits(1, fast, mhz)
    BY SomePrescalerFits
  <2>3. CASE Fits(0, fast, mhz)
    BY <2>1, <2>3, Zenon DEF First
  <2>4. CASE ~Fits(0, fast, mhz)
    BY <2>1, <2>2, <2>4, Zenon DEF First
  <2> QED BY <2>3, <2>4
<1>2. p \in 0..15 /\ First(p, fast, mhz)
  BY <1>1, Zenon
<1>3. Timing(fast, mhz) =
                  [presc |-> p,
                   scldel |-> CeilDiv(Cycles(SetupNs(fast), mhz), p + 1) - 1,
                   sclh |-> CeilDiv(Cycles(HighNs(fast), mhz), p + 1) - 1,
                   scll |-> CeilDiv(Cycles(LowNs(fast), mhz), p + 1) - 1]
  BY Zenon DEF Timing, First
<1> HIDE DEF p
<1>4. p \in {0, 1}
  <2> SUFFICES ASSUME p > 1 PROVE FALSE
    BY <1>2
  <2>1. 1 \in 0..p - 1
    BY <1>2
  <2> QED BY <1>2, <2>1, SomePrescalerFits DEF First
<1> QED BY <1>2, <1>3, <1>4, Zenon DEF First

\* c cycles of the clock prescaled by p last ns nanoseconds.
Lasts(c, p, ns, mhz) == c \in Nat /\ c * (p + 1) * 1000 >= ns * mhz

(* Rounding up leaves no time out. *)
LEMMA RoundedUp ==
    ASSUME NEW p \in {0, 1}, NEW ns \in Nat, NEW mhz \in 1..80
    PROVE  Lasts(CeilDiv(Cycles(ns, mhz), p + 1), p, ns, mhz)
<1> DEFINE a == ns * mhz
           c == CeilDiv(a, 1000)
           d == CeilDiv(c, p + 1)
<1>1. a \in Nat
  OBVIOUS
<1> HIDE DEF a
<1>2. c \in Nat /\ c * 1000 >= a
  BY <1>1 DEF CeilDiv
<1> HIDE DEF c
<1>3. d \in Nat /\ d * (p + 1) >= c
  <2>1. CASE p = 0
    BY <1>2, <2>1 DEF CeilDiv
  <2>2. CASE p = 1
    BY <1>2, <2>2 DEF CeilDiv
  <2> QED BY <2>1, <2>2
<1> HIDE DEF d
<1>4. d * (p + 1) * 1000 >= a
  <2>1. CASE p = 0
    BY <1>1, <1>2, <1>3, <2>1
  <2>2. CASE p = 1
    BY <1>1, <1>2, <1>3, <2>2
  <2> QED BY <2>1, <2>2
<1> QED BY <1>3, <1>4 DEF a, c, d, Cycles, Lasts

(* The computed timing meets the specification.                            *)
LEMMA ComputedTiming ==
    ASSUME NEW fast \in BOOLEAN, NEW mhz \in 1..80
    PROVE  MeetsSpec(Timing(fast, mhz), fast, mhz)
<1>0. PICK p \in {0, 1} :
             /\ Fits(p, fast, mhz)
             /\ Timing(fast, mhz) =
                  [presc |-> p,
                   scldel |-> CeilDiv(Cycles(SetupNs(fast), mhz), p + 1) - 1,
                   sclh |-> CeilDiv(Cycles(HighNs(fast), mhz), p + 1) - 1,
                   scll |-> CeilDiv(Cycles(LowNs(fast), mhz), p + 1) - 1]
  BY Zenon, FirstPrescaler
<1> DEFINE l == CeilDiv(Cycles(LowNs(fast), mhz), p + 1)
           h == CeilDiv(Cycles(HighNs(fast), mhz), p + 1)
           s == CeilDiv(Cycles(SetupNs(fast), mhz), p + 1)
           r == Timing(fast, mhz)
<1>1. r.presc = p /\ r.scldel = s - 1 /\ r.sclh = h - 1 /\ r.scll = l - 1
  BY <1>0
<1>2. l \in 1..256 /\ h \in 1..256 /\ s <= 16
  BY Zenon, <1>0 DEF Fits
<1>3. /\ LowNs(fast) \in Nat /\ HighNs(fast) \in Nat /\ SetupNs(fast) \in Nat
      /\ HighNs(fast) >= HighMinNs(fast) /\ HighMinNs(fast) \in Nat
      /\ LowNs(fast) + HighNs(fast) = IF fast THEN 2500 ELSE 10000
      /\ SetupNs(fast) > 0
  BY SMTT(30) DEF LowNs, HighNs, HighMinNs, SetupNs
<1>4. /\ l * (p + 1) * 1000 >= LowNs(fast) * mhz
      /\ h * (p + 1) * 1000 >= HighNs(fast) * mhz
      /\ s * (p + 1) * 1000 >= SetupNs(fast) * mhz /\ s \in Nat
  <2>1. p \in {0, 1}
    BY Zenon, <1>0
  <2>2. /\ Lasts(l, p, LowNs(fast), mhz)
        /\ Lasts(h, p, HighNs(fast), mhz)
        /\ Lasts(s, p, SetupNs(fast), mhz)
    BY <1>3, <2>1, RoundedUp
  <2> QED BY <2>2 DEF Lasts
<1> HIDE DEF l, h, s, r
<1>5. ASSUME fast = TRUE PROVE MeetsSpec(r, fast, mhz)
  <2>1. LowNs(fast) = 1300 /\ HighNs(fast) = 1200 /\ HighMinNs(fast) = 600 /\ SetupNs(fast) = 100
    BY <1>5 DEF LowNs, HighNs, HighMinNs, SetupNs
  <2>2. CASE p = 0
    BY SMTT(30), <1>1, <1>2, <1>4, <1>5, <2>1, <2>2 DEF MeetsSpec
  <2>3. CASE p = 1
    BY <1>1, <1>2, <1>4, <1>5, <2>1, <2>3 DEF MeetsSpec
  <2> QED BY <2>2, <2>3
<1>6. ASSUME fast = FALSE PROVE MeetsSpec(r, fast, mhz)
  <2>1. LowNs(fast) = 4700 /\ HighNs(fast) = 5300 /\ HighMinNs(fast) = 4000 /\ SetupNs(fast) = 250
    BY <1>6 DEF LowNs, HighNs, HighMinNs, SetupNs
  <2>2. CASE p = 0
    BY SMTT(30), <1>1, <1>2, <1>4, <1>6, <2>1, <2>2 DEF MeetsSpec
  <2>3. CASE p = 1
    BY <1>1, <1>2, <1>4, <1>6, <2>1, <2>3 DEF MeetsSpec
  <2> QED BY <2>2, <2>3
<1> QED BY Zenon, <1>5, <1>6 DEF r

------------------------------------------------------------------------------
I2cContexts == [state : {"NONE", "IDLE", "RX", "TX"}, idx : Nat, len : Nat,
                poll : {"none", "bytes", "stop"}]
I2cRegs == [phase : {"idle", "addr", "data", "stop"}, read : BOOLEAN, left : Int,
            full : BOOLEAN, nackf : BOOLEAN, stopf : BOOLEAN, err : BOOLEAN,
            evie : BOOLEAN, errie : BOOLEAN]
I2cTypeOK == i2c \in I2cContexts /\ i2cHw \in I2cRegs /\ refused \in BOOLEAN

\* idx of len bytes were moved by the driver and all but left by the bus; one
\* of them is in the data register when it is full.
Moved(idx, len, left, full, read) ==
  /\ idx \in Nat /\ len \in Nat /\ left \in Nat /\ idx <= len /\ left <= len
  /\ full = TRUE /\ read = TRUE => idx + 1 + left = len
  /\ full = TRUE /\ read = FALSE => idx + left = len + 1
  /\ full = FALSE => idx + left = len

\* A stop is reported once every byte went over the bus.
Phase(phase, left, stopf) ==
  /\ phase \in {"addr", "data"} => left > 0 /\ ~stopf
  /\ phase = "stop" => left = 0 /\ ~stopf
  /\ phase = "idle" => left = 0 /\ stopf

\* A transfer goes on.
Busy(c) == c.state \in {"RX", "TX"} \/ c.poll # "none"

\* Between transfers nothing is left of the last; in one, the counts agree.
Transfer(c, h) ==
  /\ ~h.nackf /\ ~h.err
  /\ c.poll # "none" => c.state = "IDLE"
  /\ c.poll = "bytes" => c.idx < c.len
  /\ c.poll = "stop" => c.idx = c.len
  /\ h.evie => c.state \in {"RX", "TX"}
  /\ ~Busy(c) => h.phase = "idle" /\ ~h.stopf /\ ~h.full
  /\ Busy(c) => Moved(c.idx, c.len, h.left, h.full, h.read) /\ Phase(h.phase, h.left, h.stopf)

(* A transfer starts with nothing moved.                                   *)
LEMMA MovedStart ==
    ASSUME NEW len \in Nat, NEW read \in BOOLEAN
    PROVE  Moved(0, len, len, FALSE, read)
  BY DEF Moved

(* The driver moves a byte between memory and the data register.           *)
LEMMA MovedByDriver ==
    ASSUME NEW idx, NEW len, NEW left, NEW read \in BOOLEAN,
           Moved(idx, len, left, read, read), idx < len
    PROVE  Moved(idx + 1, len, left, ~read, read)
<1>1. CASE read = TRUE
  BY <1>1 DEF Moved
<1>2. CASE read = FALSE
  BY <1>2 DEF Moved
<1> QED BY Zenon, <1>1, <1>2

(* The bus moves a byte from or to the data register.                      *)
LEMMA MovedByBus ==
    ASSUME NEW idx, NEW len, NEW left, NEW read \in BOOLEAN,
           Moved(idx, len, left, ~read, read), left > 0
    PROVE  Moved(idx, len, left - 1, read, read)
<1>1. CASE read = TRUE
  BY <1>1 DEF Moved
<1>2. CASE read = FALSE
  BY <1>2 DEF Moved
<1> QED BY Zenon, <1>1, <1>2

(* When the bus has moved all bytes, so has the driver, except for one     *)
(* still to read.                                                          *)
LEMMA MovedAll ==
    ASSUME NEW idx, NEW len, NEW read \in BOOLEAN
    PROVE  /\ Moved(idx, len, 0, FALSE, read) => idx = len
           /\ ~Moved(idx, len, 0, TRUE, FALSE)
  BY DEF Moved

(* A reading driver finds a byte in the data register only while it has    *)
(* room for it.                                                            *)
LEMMA MovedRoom ==
    ASSUME NEW idx, NEW len, NEW left, Moved(idx, len, left, TRUE, TRUE)
    PROVE  idx < len
  BY DEF Moved

(* The updates of the context and of the registers stay in their types.    *)
LEMMA TransferTypes ==
    ASSUME NEW c \in I2cContexts, NEW h \in I2cRegs, NEW len \in Nat, NEW read \in BOOLEAN
    PROVE  /\ [c EXCEPT !.state = IF read THEN "RX" ELSE "TX", !.idx = 0, !.len = len] \in I2cContexts
           /\ [c EXCEPT !.poll = "bytes", !.idx = 0, !.len = len] \in I2cContexts
           /\ [c EXCEPT !.state = "IDLE"] \in I2cContexts
           /\ [c EXCEPT !.poll = "none"] \in I2cContexts
           /\ Begun(h, len, read) \in I2cRegs
           /\ [Begun(h, len, read) EXCEPT !.evie = TRUE, !.errie = TRUE] \in I2cRegs
           /\ [h EXCEPT !.evie = FALSE, !.errie = FALSE] \in I2cRegs
           /\ [h EXCEPT !.nackf = FALSE] \in I2cRegs
           /\ [h EXCEPT !.stopf = FALSE] \in I2cRegs
           /\ AfterByte(c, h) \in I2cContexts
           /\ HwAfterByte(c, h) \in I2cRegs
<1>1. \A d \in I2cContexts, n \in Nat :
          /\ [d EXCEPT !.idx = n] \in I2cContexts /\ d.idx \in Nat
          /\ [d EXCEPT !.len = n] \in I2cContexts
          /\ \A v \in {"IDLE", "RX", "TX"} : [d EXCEPT !.state = v] \in I2cContexts
          /\ \A v \in {"none", "bytes", "stop"} : [d EXCEPT !.poll = v] \in I2cContexts
  BY DEF I2cContexts
<1>2. \A g \in I2cRegs, b \in BOOLEAN, n \in Nat :
          /\ [g EXCEPT !.evie = b] \in I2cRegs
          /\ [g EXCEPT !.errie = b] \in I2cRegs
          /\ [g EXCEPT !.nackf = b] \in I2cRegs
          /\ [g EXCEPT !.stopf = b] \in I2cRegs
          /\ [g EXCEPT !.full = b] \in I2cRegs
          /\ [g EXCEPT !.read = b] \in I2cRegs
          /\ [g EXCEPT !.left = n] \in I2cRegs
          /\ [g EXCEPT !.phase = "addr"] \in I2cRegs
  BY DEF I2cRegs
<1>3. /\ [c EXCEPT !.state = IF read THEN "RX" ELSE "TX", !.idx = 0, !.len = len] \in I2cContexts
      /\ [c EXCEPT !.poll = "bytes", !.idx = 0, !.len = len] \in I2cContexts
  <2> DEFINE st == IF read THEN "RX" ELSE "TX"
             c1 == [c EXCEPT !.state = st]
             c2 == [c1 EXCEPT !.idx = 0]
             d1 == [c EXCEPT !.poll = "bytes"]
             d2 == [d1 EXCEPT !.idx = 0]
  <2>1. st \in {"IDLE", "RX", "TX"} /\ 0 \in Nat
    OBVIOUS
  <2> HIDE DEF st
  <2>2. c1 \in I2cContexts /\ d1 \in I2cContexts
    BY Zenon, <1>1, <2>1
  <2> HIDE DEF c1, d1
  <2>3. c2 \in I2cContexts /\ d2 \in I2cContexts
    BY Zenon, <1>1, <2>1, <2>2
  <2> HIDE DEF c2, d2
  <2>4. [c2 EXCEPT !.len = len] \in I2cContexts /\ [d2 EXCEPT !.len = len] \in I2cContexts
    BY Zenon, <1>1, <2>3
  <2> QED BY <2>4 DEF st, c1, c2, d1, d2
<1>4. AfterByte(c, h) \in I2cContexts
  <2>1. c.idx + 1 \in Nat
    BY DEF I2cContexts
  <2>2. [c EXCEPT !.idx = c.idx + 1] \in I2cContexts
    BY Zenon, <1>1, <2>1
  <2> QED BY <2>2 DEF AfterByte
<1>5. HwAfterByte(c, h) \in I2cRegs
  BY Zenon, <1>2 DEF HwAfterByte
<1>6. [h EXCEPT !.evie = FALSE, !.errie = FALSE] \in I2cRegs
  <2> DEFINE g == [h EXCEPT !.evie = FALSE]
  <2>1. g \in I2cRegs
    BY Zenon, <1>2
  <2> HIDE DEF g
  <2>2. [g EXCEPT !.errie = FALSE] \in I2cRegs
    BY Zenon, <1>2, <2>1
  <2> QED BY <2>2 DEF g
<1>7. /\ Begun(h, len, read) \in I2cRegs
      /\ [Begun(h, len, read) EXCEPT !.evie = TRUE, !.errie = TRUE] \in I2cRegs
  <2> DEFINE g1 == [h EXCEPT !.phase = "addr"]
             g2 == [g1 EXCEPT !.read = read]
             g3 == [g2 EXCEPT !.left = len]
             g4 == [g3 EXCEPT !.evie = TRUE]
  <2>1. g1 \in I2cRegs
    BY Zenon, <1>2
  <2> HIDE DEF g1
  <2>2. g2 \in I2cRegs
    BY Zenon, <1>2, <2>1
  <2> HIDE DEF g2
  <2>3. g3 \in I2cRegs
    BY Zenon, <1>2, <2>2
  <2>4. Begun(h, len, read) = g3
    BY DEF Begun, g1, g2
  <2> HIDE DEF g3
  <2>5. g4 \in I2cRegs
    BY Zenon, <1>2, <2>3
  <2> HIDE DEF g4
  <2>6. [g4 EXCEPT !.errie = TRUE] \in I2cRegs
    BY Zenon, <1>2, <2>5
  <2> QED BY <2>3, <2>4, <2>6 DEF g4
<1>8. /\ [c EXCEPT !.state = "IDLE"] \in I2cContexts
      /\ [c EXCEPT !.poll = "none"] \in I2cContexts
      /\ [h EXCEPT !.nackf = FALSE] \in I2cRegs
      /\ [h EXCEPT !.stopf = FALSE] \in I2cRegs
  BY Zenon, <1>1, <1>2
<1> QED BY <1>3, <1>4, <1>5, <1>6, <1>7, <1>8, Zenon

(* i2c_complete and the callback stay in the types.                        *)
LEMMA CompleteTypes ==
    ASSUME NEW c \in I2cContexts, NEW h \in I2cRegs, NEW status, Complete(c, h, status)
    PROVE  i2c' \in I2cContexts /\ i2cHw' \in I2cRegs
<1> DEFINE d == [c EXCEPT !.state = "IDLE"]
           g == [h EXCEPT !.evie = FALSE, !.errie = FALSE]
<1>1. d \in I2cContexts /\ g \in I2cRegs
  BY Zenon, TransferTypes
<1> HIDE DEF d, g
<1>2. CASE i2c' = d /\ i2cHw' = g
  BY Zenon, <1>1, <1>2
<1>3. ASSUME NEW len \in I2cLens, NEW read \in BOOLEAN, TransferAsync(d, g, len, read)
      PROVE  i2c' \in I2cContexts /\ i2cHw' \in I2cRegs
  BY Zenon, <1>1, <1>3, I2cAssumption, TransferTypes DEF TransferAsync
<1> QED BY <1>2, <1>3 DEF Complete, d, g

(* Every step stays in the types.                                          *)
LEMMA I2cTypesKept ==
    ASSUME I2cTypeOK, [I2cNext]_i2cVars
    PROVE  I2cTypeOK'
<1> USE DEF I2cTypeOK
<1>1. ASSUME NEW fast \in BOOLEAN, NEW mhz \in Clocks, I2cCreate(fast, mhz) PROVE I2cTypeOK'
  BY Zenon, <1>1, TransferTypes DEF I2cCreate
<1>2. ASSUME NEW len \in I2cLens, NEW read \in BOOLEAN, I2cTransferAsync(len, read) PROVE I2cTypeOK'
  BY Zenon, <1>2, I2cAssumption, TransferTypes DEF I2cTransferAsync, TransferAsync
<1>3. ASSUME NEW len \in I2cLens, NEW read \in BOOLEAN, I2cPollStart(len, read) PROVE I2cTypeOK'
  BY Zenon, <1>3, I2cAssumption, TransferTypes DEF I2cPollStart
<1>4. CASE I2cEvIrqHandler
  <2> DEFINE c == AfterByte(i2c, i2cHw)
             h == HwAfterByte(i2c, i2cHw)
  <2>1. c \in I2cContexts /\ h \in I2cRegs
    BY Zenon, TransferTypes
  <2> HIDE DEF c, h
  <2>2. [i2cHw EXCEPT !.nackf = FALSE] \in I2cRegs /\ [h EXCEPT !.stopf = FALSE] \in I2cRegs
    BY Zenon, <2>1, TransferTypes
  <2>3. refused' = refused /\ \/ Complete(i2c, [i2cHw EXCEPT !.nackf = FALSE], "NACK")
                              \/ Complete(c, [h EXCEPT !.stopf = FALSE], "OK")
                              \/ i2c' = c /\ i2cHw' = h
    BY <1>4 DEF I2cEvIrqHandler, c, h
  <2> QED BY Zenon, <2>1, <2>2, <2>3, CompleteTypes
<1>5. CASE I2cErIrqHandler
  <2>1. [i2cHw EXCEPT !.nackf = FALSE] \in I2cRegs
    BY Zenon, TransferTypes
  <2>2. refused' = refused /\ \/ Complete(i2c, [i2cHw EXCEPT !.nackf = FALSE], "NACK")
                              \/ Complete(i2c, i2cHw, "ERR")
    BY <1>5 DEF I2cErIrqHandler
  <2> QED BY Zenon, <2>1, <2>2, CompleteTypes
<1>6. CASE I2cPollByte
  <2>1. AfterByte(i2c, i2cHw) \in I2cContexts /\ HwAfterByte(i2c, i2cHw) \in I2cRegs
    BY Zenon, TransferTypes
  <2>2. \A c \in I2cContexts, v \in {"none", "bytes", "stop"} : [c EXCEPT !.poll = v] \in I2cContexts
    BY DEF I2cContexts
  <2>3. \E v \in {"stop", AfterByte(i2c, i2cHw).poll} :
           i2c' = [AfterByte(i2c, i2cHw) EXCEPT !.poll = v]
    BY <1>6 DEF I2cPollByte
  <2>4. AfterByte(i2c, i2cHw).poll \in {"none", "bytes", "stop"}
    BY <2>1 DEF I2cContexts
  <2>5. i2c' \in I2cContexts
    BY <2>1, <2>2, <2>3, <2>4, Zenon
  <2> QED BY Zenon, <1>6, <2>1, <2>5 DEF I2cPollByte
<1>7. CASE I2cPollNack
  BY Zenon, <1>7, TransferTypes DEF I2cPollNack
<1>8. CASE I2cPollStop
  BY Zenon, <1>8, TransferTypes DEF I2cPollStop
<1>9. CASE BusAddress
  BY Zenon, <1>9 DEF BusAddress, I2cRegs
<1>10. CASE BusByte
  <2> DEFINE ph == IF i2cHw.left = 1 THEN "stop" ELSE i2cHw.phase
  <2>1. i2cHw' = [i2cHw EXCEPT !.full = i2cHw.read, !.left = i2cHw.left - 1, !.phase = ph]
    BY <1>10, Zenon DEF BusByte
  <2>2. ASSUME NEW n \in Int, NEW v \in {"idle", "addr", "data", "stop"}
        PROVE  [i2cHw EXCEPT !.full = i2cHw.read, !.left = n, !.phase = v] \in I2cRegs
    BY Zenon DEF I2cRegs
  <2>3. ph \in {"idle", "addr", "data", "stop"} /\ i2cHw.left - 1 \in Int
    BY DEF I2cRegs
  <2>4. i2cHw' \in I2cRegs
    BY <2>1, <2>2, <2>3, Zenon
  <2> QED BY <1>10, <2>4 DEF BusByte
<1>11. CASE BusNack
  BY Zenon, <1>11 DEF BusNack, I2cRegs
<1>12. CASE BusStop
  BY Zenon, <1>12 DEF BusStop, I2cRegs
<1>13. CASE BusError
  BY Zenon, <1>13 DEF BusError, I2cRegs
<1>14. CASE UNCHANGED i2cVars
  BY <1>14 DEF i2cVars
<1> QED BY <1>1, <1>2, <1>3, <1>4, <1>5, <1>6, <1>7, <1>8, <1>9, <1>10, <1>11, <1>12, <1>13, <1>14, Zenon
        DEF I2cNext

\* Nothing is left of the last transfer.
Quiet(c, h) ==
  /\ c.state = "IDLE" /\ c.poll = "none"
  /\ ~h.nackf /\ ~h.err /\ ~h.stopf /\ ~h.full /\ h.phase = "idle"

(* A transfer that begins with nothing left of the last.                   *)
LEMMA BeginsWell ==
    ASSUME NEW c \in I2cContexts, NEW h \in I2cRegs, NEW len \in I2cLens, NEW read \in BOOLEAN,
           Quiet(c, h), TransferAsync(c, h, len, read)
    PROVE  Transfer(i2c', i2cHw')
<1>0. len \in Nat \ {0}
  BY I2cAssumption
<1> DEFINE st == IF read THEN "RX" ELSE "TX"
<1>s. st \in {"RX", "TX"}
  OBVIOUS
<1>1. i2c' = [c EXCEPT !.state = st, !.idx = 0, !.len = len]
  BY DEF TransferAsync
<1> HIDE DEF st
<1>2. i2c'.state = st /\ i2c'.idx = 0 /\ i2c'.len = len /\ i2c'.poll = "none"
  BY <1>1 DEF I2cContexts, Quiet
<1>3. /\ i2cHw'.phase = "addr" /\ i2cHw'.read = read /\ i2cHw'.left = len /\ i2cHw'.full = FALSE
      /\ ~i2cHw'.nackf /\ ~i2cHw'.err /\ ~i2cHw'.stopf
  BY Zenon DEF TransferAsync, Begun, I2cRegs, Quiet
<1>4. Moved(0, len, len, FALSE, read)
  BY Zenon, <1>0, MovedStart
<1>5. Phase("addr", len, i2cHw'.stopf)
  BY <1>0, <1>3 DEF Phase
<1>6. Busy(i2c')
  BY <1>s, <1>2 DEF Busy
<1> QED BY Zenon, <1>s, <1>2, <1>3, <1>4, <1>5, <1>6 DEF Transfer

(* A transfer completed whole leaves nothing behind, whether or not the    *)
(* callback starts the next.                                               *)
LEMMA CompletesWell ==
    ASSUME NEW c \in I2cContexts, NEW h \in I2cRegs, c.poll = "none",
           ~h.nackf, ~h.err, ~h.stopf, ~h.full, h.phase = "idle", Whole(c, h),
           Complete(c, h, "OK")
    PROVE  Transfer(i2c', i2cHw') /\ i2cLast'.whole
<1> DEFINE d == [c EXCEPT !.state = "IDLE"]
           g == [h EXCEPT !.evie = FALSE, !.errie = FALSE]
<1>1. d \in I2cContexts /\ g \in I2cRegs
  BY Zenon, TransferTypes
<1>2. Quiet(d, g) /\ ~g.evie
  BY Zenon DEF Quiet, I2cContexts, I2cRegs
<1> HIDE DEF d, g
<1>3. ASSUME i2c' = d, i2cHw' = g PROVE Transfer(i2c', i2cHw')
  <2>1. Transfer(d, g)
    BY Zenon, <1>2 DEF Quiet, Transfer, Busy
  <2> QED BY Zenon, <2>1, <1>3
<1>4. ASSUME NEW len \in I2cLens, NEW read \in BOOLEAN, TransferAsync(d, g, len, read)
      PROVE  Transfer(i2c', i2cHw')
  BY <1>1, <1>2, <1>4, BeginsWell
<1>5. Transfer(i2c', i2cHw')
  BY <1>3, <1>4 DEF Complete, d, g
<1>6. i2cLast'.whole
  BY Zenon DEF Complete
<1> QED BY <1>5, <1>6

(* A stop ends an asynchronous transfer after its last byte is stored.     *)
LEMMA EventWell ==
    ASSUME I2cTypeOK, Transfer(i2c, i2cHw), I2cEvIrqHandler
    PROVE  /\ Transfer(i2c', i2cHw')
           /\ i2cLast' = i2cLast \/ i2cLast'.whole
<1> DEFINE c == AfterByte(i2c, i2cHw)
           h == HwAfterByte(i2c, i2cHw)
           x == i2c.idx
           n == i2c.len
           l == i2cHw.left
           f == i2cHw.full
           r == i2cHw.read
<1>1. /\ i2c.state \in {"RX", "TX"} /\ i2c.poll = "none" /\ Busy(i2c) /\ ~i2cHw.nackf /\ ~i2cHw.err
      /\ Moved(x, n, l, f, r) /\ Phase(i2cHw.phase, l, i2cHw.stopf)
  BY Zenon DEF I2cEvIrqHandler, Transfer, Busy, I2cTypeOK, I2cRegs
<1>2. /\ c \in I2cContexts /\ h \in I2cRegs /\ f \in BOOLEAN /\ r \in BOOLEAN
      /\ i2c \in I2cContexts /\ i2cHw \in I2cRegs
  <2>1. i2c \in I2cContexts /\ i2cHw \in I2cRegs
    BY Zenon DEF I2cTypeOK
  <2>2. c \in I2cContexts /\ h \in I2cRegs
    BY Zenon, <2>1, TransferTypes
  <2>3. f \in BOOLEAN /\ r \in BOOLEAN
    BY <2>1 DEF I2cRegs
  <2> QED BY Zenon, <2>1, <2>2, <2>3
<1>3. /\ c.state = i2c.state /\ c.poll = "none" /\ c.len = n
      /\ h.phase = i2cHw.phase /\ h.left = l /\ h.read = r /\ ~h.nackf /\ ~h.err
      /\ h.stopf = i2cHw.stopf
  BY Zenon, <1>1, <1>2 DEF AfterByte, HwAfterByte, I2cContexts, I2cRegs
<1>4. Moved(c.idx, n, l, h.full, r)
  <2>1. CASE Moves(i2c, i2cHw)
    <3>1. f = r /\ x < n
      BY <2>1 DEF Moves
    <3>2. c.idx = x + 1
      BY Zenon, <2>1, <1>2 DEF AfterByte, I2cContexts
    <3>3. h.full = ~r
      <4>1. CASE r = TRUE
        BY Zenon, <2>1, <1>2, <4>1 DEF HwAfterByte, I2cRegs
      <4>2. CASE r = FALSE
        BY Zenon, <2>1, <1>2, <4>2 DEF HwAfterByte, I2cRegs
      <4> QED BY Zenon, <1>2, <4>1, <4>2
    <3> HIDE DEF x, n, l, f, r, c, h
    <3>4. Moved(x + 1, n, l, ~r, r)
      BY <1>1, <1>2, <3>1, MovedByDriver
    <3> QED BY Zenon, <3>2, <3>3, <3>4
  <2>2. CASE ~Moves(i2c, i2cHw)
    <3>1. c.idx = x
      BY Zenon, <2>2, <1>2 DEF AfterByte, I2cContexts
    <3>2. f = FALSE \/ r = FALSE
      <4> SUFFICES ASSUME f = TRUE, r = TRUE PROVE FALSE
        BY Zenon, <1>2
      <4>1. x < n
        <5> HIDE DEF x, n, l, f, r
        <5> QED BY Zenon, <1>1, MovedRoom
      <4> QED BY Zenon, <4>1, <2>2 DEF Moves
    <3>3. h.full = f
      <4>1. CASE r = FALSE
        BY <2>2, <4>1, <1>2 DEF HwAfterByte, I2cRegs
      <4>2. CASE r = TRUE
        BY Zenon, <3>2, <4>2, <1>2 DEF HwAfterByte, I2cRegs
      <4> QED BY Zenon, <1>2, <4>1, <4>2
    <3> QED BY Zenon, <3>1, <3>3, <1>1
  <2> QED BY Zenon, <2>1, <2>2
<1> HIDE DEF c, h
<1>5. CASE ~i2cHw.stopf
  <2>1. i2c' = c /\ i2cHw' = h /\ i2cLast' = i2cLast
    BY <1>1, <1>5 DEF I2cEvIrqHandler, c, h
  <2>2. Transfer(c, h)
    BY Zenon, <1>1, <1>3, <1>4 DEF Transfer, Busy
  <2> QED BY <2>1, <2>2
<1>6. CASE i2cHw.stopf
  <2> DEFINE g == [h EXCEPT !.stopf = FALSE]
  <2>1. Complete(c, g, "OK")
    BY Zenon, <1>1, <1>6 DEF I2cEvIrqHandler, c, h
  <2>2. i2cHw.phase = "idle" /\ l = 0
    BY Zenon, <1>1, <1>2, <1>6 DEF Phase, I2cRegs
  <2>3. ~h.full /\ c.idx = n
    <3>1. h.full \in BOOLEAN
      BY Zenon, <1>2 DEF I2cRegs
    <3>2. h.full = FALSE
      <4>1. i2cHw.read = TRUE => h.full = FALSE
        BY Zenon, <1>2 DEF h, HwAfterByte, I2cRegs
      <4>2. Moved(c.idx, n, 0, h.full, r)
        BY Zenon, <1>4, <2>2
      <4>3. ~(h.full = TRUE /\ r = FALSE)
        BY Zenon, <4>2, MovedAll
      <4> QED BY Zenon, <3>1, <4>1, <4>3, <1>2
    <3>3. c.idx = n
      <4>1. Moved(c.idx, n, 0, FALSE, r)
        BY Zenon, <1>4, <2>2, <3>2
      <4> HIDE DEF n, r
      <4> QED BY Zenon, <4>1, <1>2, MovedAll
    <3> QED BY Zenon, <3>2, <3>3
  <2>4. /\ g \in I2cRegs /\ ~g.nackf /\ ~g.err /\ ~g.stopf /\ ~g.full /\ g.phase = "idle"
        /\ g.left = 0
    BY Zenon, <1>2, <1>3, <2>2, <2>3 DEF I2cRegs
  <2>5. Whole(c, g)
    BY <2>3, <2>4, <1>3 DEF Whole
  <2> HIDE DEF g
  <2> QED BY Zenon, <2>1, <2>4, <2>5, <1>2, <1>3, CompletesWell
<1> QED BY <1>5, <1>6

(* A polling transfer begins.                                              *)
LEMMA PollStartWell ==
    ASSUME I2cTypeOK, Transfer(i2c, i2cHw), NEW len \in I2cLens, NEW read \in BOOLEAN,
           I2cPollStart(len, read)
    PROVE  Transfer(i2c', i2cHw')
<1>0. len \in Nat \ {0}
  BY I2cAssumption
<1>1. i2c.state = "IDLE" /\ i2c.poll = "none" /\ ~Busy(i2c)
  BY Zenon DEF I2cPollStart, Busy
<1>2. /\ ~i2cHw.nackf /\ ~i2cHw.err /\ ~i2cHw.evie /\ ~i2cHw.stopf /\ i2cHw.full = FALSE
  BY <1>1 DEF Transfer, I2cTypeOK, I2cRegs
<1>3. i2c'.state = "IDLE" /\ i2c'.poll = "bytes" /\ i2c'.idx = 0 /\ i2c'.len = len
  BY <1>1 DEF I2cPollStart, I2cTypeOK, I2cContexts
<1>4. /\ i2cHw'.phase = "addr" /\ i2cHw'.read = read /\ i2cHw'.left = len /\ i2cHw'.full = FALSE
      /\ ~i2cHw'.nackf /\ ~i2cHw'.err /\ ~i2cHw'.evie /\ ~i2cHw'.stopf
  BY <1>2 DEF I2cPollStart, I2cTypeOK, I2cRegs, Begun
<1>5. Moved(0, len, len, FALSE, read) /\ 0 < len
  BY <1>0 DEF Moved
<1>6. Phase("addr", len, i2cHw'.stopf)
  BY SMTT(30), <1>0, <1>4 DEF Phase
<1> QED BY Zenon, <1>3, <1>4, <1>5, <1>6 DEF Transfer, Busy

(* A polling transfer moves a byte.                                        *)
LEMMA PollByteWell ==
    ASSUME I2cTypeOK, Transfer(i2c, i2cHw), I2cPollByte
    PROVE  Transfer(i2c', i2cHw')
<1> DEFINE x == i2c.idx
           n == i2c.len
           l == i2cHw.left
           r == i2cHw.read
           p == IF x + 1 = n THEN "stop" ELSE "bytes"
<1>0. i2c \in I2cContexts /\ i2cHw \in I2cRegs /\ r \in BOOLEAN /\ x \in Nat /\ n \in Nat
  BY DEF I2cTypeOK, I2cContexts, I2cRegs
<1>1. /\ i2c.poll = "bytes" /\ i2cHw.full = r /\ x < n /\ Busy(i2c) /\ i2c.state = "IDLE"
      /\ ~i2cHw.nackf /\ ~i2cHw.err /\ ~i2cHw.evie
      /\ Moved(x, n, l, r, r) /\ Phase(i2cHw.phase, l, i2cHw.stopf)
  BY DEF I2cPollByte, Moves, Busy, Transfer
<1>2. i2c'.state = "IDLE" /\ i2c'.poll = p /\ i2c'.idx = x + 1 /\ i2c'.len = n
  BY Zenon, <1>0, <1>1 DEF I2cPollByte, AfterByte, I2cContexts
<1>3. /\ i2cHw'.phase = i2cHw.phase /\ i2cHw'.read = r /\ i2cHw'.left = l /\ i2cHw'.full = ~r
      /\ ~i2cHw'.nackf /\ ~i2cHw'.err /\ ~i2cHw'.evie /\ i2cHw'.stopf = i2cHw.stopf
  <2>1. CASE r = TRUE
    BY Zenon, <1>0, <1>1, <2>1 DEF I2cPollByte, HwAfterByte, I2cRegs
  <2>2. CASE r = FALSE
    BY Zenon, <1>0, <1>1, <2>2 DEF I2cPollByte, HwAfterByte, I2cRegs
  <2> QED BY Zenon, <1>0, <2>1, <2>2
<1>4. p \in {"bytes", "stop"} /\ (p = "bytes" => x + 1 < n) /\ (p = "stop" => x + 1 = n)
  BY <1>0, <1>1
<1>5. Moved(x + 1, n, l, ~r, r)
  <2> HIDE DEF x, n, l, r
  <2> QED BY <1>0, <1>1, MovedByDriver
<1> HIDE DEF p, x, n, l, r
<1>6. Phase(i2cHw'.phase, i2cHw'.left, i2cHw'.stopf)
  BY Zenon, <1>1, <1>3
<1> QED BY Zenon, <1>2, <1>3, <1>4, <1>5, <1>6 DEF Transfer, Busy

(* A polling transfer ends with every byte moved.                          *)
LEMMA PollStopWell ==
    ASSUME I2cTypeOK, Transfer(i2c, i2cHw), I2cPollStop
    PROVE  Transfer(i2c', i2cHw') /\ i2cLast'.whole
<1>0. i2c \in I2cContexts /\ i2cHw \in I2cRegs /\ i2cHw.read \in BOOLEAN /\ i2cHw.full \in BOOLEAN
  BY DEF I2cTypeOK, I2cRegs
<1>1. /\ i2c.poll = "stop" /\ i2cHw.stopf /\ Busy(i2c) /\ i2c.state = "IDLE" /\ i2c.idx = i2c.len
      /\ ~i2cHw.nackf /\ ~i2cHw.err /\ ~i2cHw.evie
      /\ Moved(i2c.idx, i2c.len, i2cHw.left, i2cHw.full, i2cHw.read)
      /\ Phase(i2cHw.phase, i2cHw.left, i2cHw.stopf)
  BY Zenon DEF I2cPollStop, Busy, Transfer
<1>2. i2cHw.phase = "idle" /\ i2cHw.left = 0
  BY <1>0, <1>1 DEF Phase, I2cRegs
<1>3. i2cHw.full = FALSE
  BY <1>0, <1>1, <1>2 DEF Moved
<1>4. i2c'.state = "IDLE" /\ i2c'.poll = "none"
  BY <1>0, <1>1 DEF I2cPollStop, I2cContexts
<1>5. /\ i2cHw'.phase = "idle" /\ ~i2cHw'.full /\ ~i2cHw'.nackf /\ ~i2cHw'.err /\ ~i2cHw'.evie
      /\ ~i2cHw'.stopf
  BY Zenon, <1>0, <1>1, <1>2, <1>3 DEF I2cPollStop, I2cRegs
<1>6. i2cLast'.whole
  BY Zenon, <1>1, <1>2 DEF I2cPollStop, Whole
<1> QED BY Zenon, <1>4, <1>5, <1>6 DEF Transfer, Busy

(* The bus moves a byte, or reports the end of the transfer.               *)
LEMMA BusWell ==
    ASSUME I2cTypeOK, Transfer(i2c, i2cHw), BusAddress \/ BusByte \/ BusStop, ~refused'
    PROVE  Transfer(i2c', i2cHw')
<1>0. /\ i2c \in I2cContexts /\ i2cHw \in I2cRegs /\ i2cHw.read \in BOOLEAN
      /\ i2cHw.full \in BOOLEAN /\ i2c' = i2c
  BY DEF I2cTypeOK, I2cRegs, BusAddress, BusByte, BusStop
<1>1. i2cHw.phase # "idle"
  BY DEF BusAddress, BusByte, BusStop
<1>2. /\ Busy(i2c) /\ ~i2cHw.nackf /\ ~i2cHw.err
      /\ Moved(i2c.idx, i2c.len, i2cHw.left, i2cHw.full, i2cHw.read)
      /\ Phase(i2cHw.phase, i2cHw.left, i2cHw.stopf)
  BY <1>1 DEF Transfer
<1>3. ASSUME ~i2cHw'.nackf, ~i2cHw'.err, i2cHw'.evie = i2cHw.evie,
             Moved(i2c.idx, i2c.len, i2cHw'.left, i2cHw'.full, i2cHw'.read),
             Phase(i2cHw'.phase, i2cHw'.left, i2cHw'.stopf)
      PROVE  Transfer(i2c', i2cHw')
  BY Zenon, <1>0, <1>2, <1>3 DEF Transfer
<1>4. CASE BusAddress
  <2>1. i2cHw.phase = "addr" /\ i2cHw' = [i2cHw EXCEPT !.phase = "data"]
    BY <1>4 DEF BusAddress
  <2>2. /\ i2cHw'.phase = "data" /\ i2cHw'.read = i2cHw.read /\ i2cHw'.left = i2cHw.left
        /\ i2cHw'.full = i2cHw.full /\ i2cHw'.nackf = i2cHw.nackf /\ i2cHw'.err = i2cHw.err
        /\ i2cHw'.evie = i2cHw.evie /\ i2cHw'.stopf = i2cHw.stopf
    BY <2>1, <1>0 DEF I2cRegs
  <2>3. Phase("data", i2cHw.left, i2cHw.stopf)
    BY Zenon, <1>2, <2>1 DEF Phase
  <2> QED BY Zenon, <1>2, <1>3, <2>2, <2>3
<1>5. CASE BusStop
  <2>1. i2cHw.phase = "stop" /\ i2cHw' = [i2cHw EXCEPT !.phase = "idle", !.stopf = TRUE]
    BY <1>5 DEF BusStop
  <2>2. /\ i2cHw'.phase = "idle" /\ i2cHw'.read = i2cHw.read /\ i2cHw'.left = i2cHw.left
        /\ i2cHw'.full = i2cHw.full /\ i2cHw'.nackf = i2cHw.nackf /\ i2cHw'.err = i2cHw.err
        /\ i2cHw'.evie = i2cHw.evie /\ i2cHw'.stopf = TRUE
    BY <2>1, <1>0 DEF I2cRegs
  <2>3. Phase("idle", i2cHw.left, TRUE)
    BY <1>2, <2>1 DEF Phase
  <2> QED BY Zenon, <1>2, <1>3, <2>2, <2>3
<1>6. CASE BusByte
  <2> DEFINE l == i2cHw.left
             r == i2cHw.read
             ph == IF l = 1 THEN "stop" ELSE i2cHw.phase
  <2>1. /\ i2cHw.phase = "data" /\ i2cHw.full # r
        /\ i2cHw' = [i2cHw EXCEPT !.full = r, !.left = l - 1, !.phase = ph]
    BY <1>6, Zenon DEF BusByte
  <2>2. l \in Nat /\ l > 0 /\ ~i2cHw.stopf
    BY <1>2, <2>1 DEF Phase, Moved
  <2>3. Phase(ph, l - 1, i2cHw.stopf)
    BY <2>1, <2>2 DEF Phase
  <2>4. i2cHw.full = ~r
    BY <2>1, <1>0
  <2> HIDE DEF ph
  <2>5. /\ i2cHw'.phase = ph /\ i2cHw'.read = r /\ i2cHw'.left = l - 1
        /\ i2cHw'.full = r /\ i2cHw'.nackf = i2cHw.nackf /\ i2cHw'.err = i2cHw.err
        /\ i2cHw'.evie = i2cHw.evie /\ i2cHw'.stopf = i2cHw.stopf
    BY Zenon, <2>1, <1>0 DEF I2cRegs
  <2>6. Moved(i2c.idx, i2c.len, l - 1, r, r)
    <3>1. Moved(i2c.idx, i2c.len, l, ~r, r) /\ r \in BOOLEAN
      BY <1>0, <1>2, <2>4
    <3> HIDE DEF l, r
    <3> QED BY Zenon, <3>1, <2>2, MovedByBus
  <2> QED BY Zenon, <1>2, <1>3, <2>3, <2>5, <2>6
<1> QED BY <1>4, <1>5, <1>6

\* The part of the invariant that holds until a transfer is refused.
Unrefused == ~refused => Transfer(i2c, i2cHw) /\ (i2cLast.status = "OK" => i2cLast.whole)

(* Every step keeps the counts until a transfer is refused.                *)
LEMMA UnrefusedKept ==
    ASSUME I2cTypeOK, Unrefused, [I2cNext]_i2cVars
    PROVE  Unrefused'
<1> SUFFICES ASSUME ~refused' PROVE Transfer(i2c', i2cHw') /\ (i2cLast'.status = "OK" => i2cLast'.whole)
  BY Zenon DEF Unrefused
<1>0. ~refused
  BY Zenon DEF I2cTypeOK, I2cNext, i2cVars, I2cCreate, I2cTransferAsync, I2cPollStart, I2cEvIrqHandler,
         I2cErIrqHandler, I2cPollByte, I2cPollNack, I2cPollStop, BusAddress, BusByte, BusNack,
         BusStop, BusError
<1>t. Transfer(i2c, i2cHw) /\ (i2cLast.status = "OK" => i2cLast.whole)
  BY Zenon, <1>0 DEF Unrefused
<1>n. i2cHw.nackf = FALSE /\ i2cHw.err = FALSE
  BY <1>t DEF Transfer, I2cTypeOK, I2cRegs
<1>1. ASSUME NEW fast \in BOOLEAN, NEW mhz \in Clocks, I2cCreate(fast, mhz)
      PROVE  Transfer(i2c', i2cHw') /\ i2cLast' = i2cLast
  <2>1. i2c.state = "NONE" /\ i2cHw' = i2cHw /\ i2cLast' = i2cLast /\ i2c' = [i2c EXCEPT !.state = "IDLE"]
    BY <1>1 DEF I2cCreate
  <2>2. i2c'.state = "IDLE" /\ i2c'.idx = i2c.idx /\ i2c'.len = i2c.len /\ i2c'.poll = i2c.poll
    BY <2>1 DEF I2cTypeOK, I2cContexts
  <2>3. ~Busy(i2c)
    BY <2>1, <1>t DEF Busy, Transfer
  <2>4. ~Busy(i2c') /\ ~i2cHw.evie
    BY Zenon, <2>1, <2>2, <2>3, <1>t DEF Busy, Transfer
  <2> QED BY <2>1, <2>2, <2>3, <2>4, <1>t DEF Transfer
<1>2. ASSUME NEW len \in I2cLens, NEW read \in BOOLEAN, I2cTransferAsync(len, read)
      PROVE  Transfer(i2c', i2cHw') /\ i2cLast' = i2cLast
  <2>1. i2c.state = "IDLE" /\ i2c.poll = "none" /\ TransferAsync(i2c, i2cHw, len, read) /\ i2cLast' = i2cLast
    BY Zenon, <1>2 DEF I2cTransferAsync
  <2>2. Quiet(i2c, i2cHw)
    BY Zenon, <2>1, <1>t DEF Quiet, Transfer, Busy
  <2> QED BY Zenon, <2>1, <2>2, BeginsWell DEF I2cTypeOK
<1>3. ASSUME NEW len \in I2cLens, NEW read \in BOOLEAN, I2cPollStart(len, read)
      PROVE  Transfer(i2c', i2cHw') /\ i2cLast' = i2cLast
  BY Zenon, <1>3, <1>t, PollStartWell DEF I2cPollStart
<1>4. CASE I2cEvIrqHandler
  BY <1>4, <1>t, EventWell
<1>5. CASE I2cErIrqHandler
  BY <1>5, <1>n DEF I2cErIrqHandler
<1>6. CASE I2cPollByte
  BY <1>6, <1>t, PollByteWell DEF I2cPollByte
<1>7. CASE I2cPollNack
  BY Zenon, <1>7, <1>n DEF I2cPollNack
<1>8. CASE I2cPollStop
  BY Zenon, <1>8, <1>t, PollStopWell
<1>9. CASE BusAddress \/ BusByte \/ BusStop
  <2>1. i2cLast' = i2cLast
    BY <1>9 DEF BusAddress, BusByte, BusStop
  <2> QED BY Zenon, <1>9, <1>t, <2>1, BusWell
<1>10. CASE BusNack \/ BusError
  BY Zenon, <1>10 DEF BusNack, BusError
<1>11. CASE UNCHANGED i2cVars
  BY Zenon, <1>11, <1>t DEF i2cVars
<1>12. ASSUME Transfer(i2c', i2cHw'), i2cLast' = i2cLast
       PROVE  Transfer(i2c', i2cHw') /\ (i2cLast'.status = "OK" => i2cLast'.whole)
  BY Zenon, <1>12, <1>t
<1> QED BY <1>1, <1>2, <1>3, <1>4, <1>5, <1>6, <1>7, <1>8, <1>9, <1>10, <1>11, <1>12, Zenon DEF I2cNext

(* The initial state is in the types.                                      *)
LEMMA I2cInitTypes ==
    ASSUME I2cInit PROVE I2cTypeOK
<1>1. i2c \in I2cContexts
  BY DEF I2cInit, I2cContexts
<1>2. i2cHw \in I2cRegs
  BY DEF I2cInit, I2cRegs
<1> QED BY Zenon, <1>1, <1>2 DEF I2cInit, I2cTypeOK

(* Until a transfer is refused, one that is reported as complete has moved *)
(* and stored every byte and leaves no event behind for the next, for      *)
(* transfers of every length, by interrupts or by polling.                 *)
THEOREM TransfersComplete == I2cSpec => []CompleteMeansWhole
<1>1. I2cInit => I2cTypeOK /\ Unrefused
  <2> SUFFICES ASSUME I2cInit PROVE Unrefused
    BY Zenon, I2cInitTypes
  <2>1. /\ i2c.state = "NONE" /\ i2c.poll = "none" /\ i2cLast.status = "NONE"
        /\ ~i2cHw.nackf /\ ~i2cHw.err /\ ~i2cHw.evie /\ ~i2cHw.full /\ ~i2cHw.stopf
        /\ i2cHw.phase = "idle"
    BY Zenon DEF I2cInit
  <2> QED BY <2>1 DEF Unrefused, Transfer, Busy
<1>2. I2cTypeOK /\ Unrefused => CompleteMeansWhole
  BY DEF I2cTypeOK, I2cRegs, Unrefused, Transfer, Busy, CompleteMeansWhole
<1> QED BY <1>1, <1>2, I2cTypesKept, UnrefusedKept, PTL DEF I2cSpec

(* The timing computed for any clock up to 80 MHz keeps SCL low and high   *)
(* as long as the bus specification asks, in fields that can hold it.      *)
THEOREM TimingAlwaysMeetsSpec == I2cSpec => []TimingMeetsSpec
<1> DEFINE Off == ~i2cHw.evie /\ ~i2cHw.errie
           J == I2cTypeOK /\ TimingMeetsSpec /\ (i2c.state = "NONE" => Off)
<1>1. I2cInit => J
  <2> SUFFICES ASSUME I2cInit PROVE J
    BY SMTT(30)
  <2>1. i2c.state = "NONE" /\ Off
    BY DEF I2cInit
  <2> QED BY <2>1, I2cInitTypes DEF TimingMeetsSpec
<1>2. J /\ [I2cNext]_i2cVars => J'
  <2> SUFFICES ASSUME J, [I2cNext]_i2cVars PROVE J'
    OBVIOUS
  <2>1. I2cTypeOK'
    BY Zenon, I2cTypesKept
  <2>2. ASSUME NEW fast \in BOOLEAN, NEW mhz \in Clocks, I2cCreate(fast, mhz) PROVE J'
    <3>1. i2cTiming'.reg = Timing(fast, mhz) /\ i2cTiming'.fast = fast /\ i2cTiming'.mhz = mhz
      BY <2>2 DEF I2cCreate
    <3>2. mhz \in 1..80
      BY I2cAssumption
    <3>3. i2c'.state # "NONE"
      BY Zenon, <2>2 DEF I2cCreate, I2cTypeOK, I2cContexts
    <3> QED BY Zenon, <2>1, <3>1, <3>2, <3>3, ComputedTiming DEF TimingMeetsSpec
  <2>3. CASE i2cTiming' = i2cTiming /\ i2c.state # "NONE" /\ i2c'.state # "NONE"
    BY Zenon, <2>1, <2>3 DEF TimingMeetsSpec
  <2>4. CASE i2cTiming' = i2cTiming /\ i2c'.state = i2c.state /\ (Off => Off')
    BY Zenon, <2>1, <2>4 DEF TimingMeetsSpec
  <2>5. CASE I2cPollByte
    <3>1. i2c'.state = i2c.state /\ i2cTiming' = i2cTiming
      BY <2>5 DEF I2cPollByte, AfterByte, I2cTypeOK, I2cContexts
    <3>2. Off => Off'
      BY Zenon, <2>5 DEF I2cPollByte, HwAfterByte, I2cTypeOK, I2cRegs
    <3> QED BY <2>4, <3>1, <3>2
  <2>6. CASE I2cPollNack \/ I2cPollStop \/ BusAddress \/ BusByte \/ BusNack \/ BusStop \/ BusError
             \/ UNCHANGED i2cVars
    <3>1. i2c'.state = i2c.state /\ i2cTiming' = i2cTiming
      BY <2>6 DEF I2cPollNack, I2cPollStop, BusAddress, BusByte, BusNack, BusStop, BusError, i2cVars,
                  I2cTypeOK, I2cContexts
    <3>2. Off => Off'
      BY Zenon, <2>6 DEF I2cPollNack, I2cPollStop, BusAddress, BusByte, BusNack, BusStop, BusError, i2cVars,
                  I2cTypeOK, I2cRegs
    <3> QED BY <2>4, <3>1, <3>2
  <2>7. ASSUME NEW len \in I2cLens, NEW read \in BOOLEAN,
               I2cTransferAsync(len, read) \/ I2cPollStart(len, read)
        PROVE  J'
    <3>1. i2c.state # "NONE" /\ i2c'.state # "NONE" /\ i2cTiming' = i2cTiming
      BY Zenon, <2>7 DEF I2cTransferAsync, TransferAsync, I2cPollStart, I2cTypeOK, I2cContexts
    <3> QED BY <2>3, <3>1
  <2>8. CASE I2cErIrqHandler \/ I2cEvIrqHandler
    <3>1. i2c.state # "NONE" /\ i2cTiming' = i2cTiming
      BY Zenon, <2>8 DEF I2cErIrqHandler, I2cEvIrqHandler
    <3>2. AfterByte(i2c, i2cHw) \in I2cContexts /\ AfterByte(i2c, i2cHw).state = i2c.state
      <4>1. i2c \in I2cContexts /\ i2cHw \in I2cRegs
        BY DEF I2cTypeOK
      <4>2. AfterByte(i2c, i2cHw).state = i2c.state
        BY Zenon, <4>1 DEF AfterByte, I2cContexts
      <4> QED BY Zenon, <4>1, <4>2, TransferTypes
    <3>3. ASSUME NEW c \in I2cContexts, NEW h, NEW s, Complete(c, h, s) PROVE i2c'.state # "NONE"
      BY Zenon, <3>3 DEF Complete, TransferAsync, I2cContexts
    <3>4. i2c'.state # "NONE"
      BY Zenon, <2>8, <3>1, <3>2, <3>3 DEF I2cErIrqHandler, I2cEvIrqHandler, I2cTypeOK
    <3> QED BY <2>3, <3>1, <3>4
  <2> QED BY <2>2, <2>5, <2>6, <2>7, <2>8, Zenon DEF I2cNext
<1>3. J => TimingMeetsSpec
  OBVIOUS
<1> QED BY <1>1, <1>2, <1>3, PTL DEF I2cSpec

------------------------------------------------------------------------------
(* SystemClock: safe at every step of a switch *)

ClockTypeOK ==
  /\ config \in [pc : {"idle", "msi_ready", "msi_used", "pll_off", "hsi_off",
                       "hsi_ready", "hsi_used", "pll_config", "pll_ready", "pll_used"},
                 target : Nat, ok : BOOLEAN, val : Nat]
  /\ rcc \in [on : SUBSET Sources, ready : SUBSET Sources, sw : Sources, sws : Sources,
              vos : {1, 2}, latency : 0..4, n : {8, 12, 16, 20}, r : {2, 4}]

\* The voltage and the wait states allow the core to run from src.
SafeFor(src) ==
  /\ SourceMhz(rcc, src) <= (IF rcc.vos = 1 THEN 80 ELSE 26)
  /\ rcc.latency >= LatencyFor(SourceMhz(rcc, src), rcc.vos)

\* The source in use and the one selected are safe at every moment: whichever
\* wait a call gives up in, the hardware may still switch between them.
SourcesSafe ==
  /\ "MSI" \in rcc.on
  /\ rcc.sw \in rcc.on
  /\ rcc.sws \in rcc.on \cap rcc.ready
  /\ SafeFor(rcc.sw)
  /\ SafeFor(rcc.sws)

\* What is known at each wait: which sources are selected and in use, and
\* that voltage and wait states are already those of the target.
WaitFacts ==
  /\ config.pc = "msi_used" => rcc.sw = "MSI"
  /\ config.pc \in {"pll_off", "hsi_off", "hsi_ready"} => rcc.sw = "MSI" /\ rcc.sws = "MSI"
  /\ config.pc = "hsi_used" => rcc.sw = "HSI16"
  /\ config.pc \in {"pll_config", "pll_ready"} => rcc.sw = "HSI16" /\ rcc.sws = "HSI16"
  /\ config.pc = "pll_used" => rcc.sw = "PLL"
  /\ config.pc \in {"hsi_ready", "hsi_used", "pll_config", "pll_ready", "pll_used"} =>
       /\ config.target \in PllTargets \cup {16}
       /\ rcc.vos = VosFor(config.target)
       /\ rcc.latency = LatencyFor(config.target, rcc.vos)
       /\ "HSI16" \in rcc.on
  /\ config.pc \in {"pll_config", "pll_ready", "pll_used"} => config.target \in PllTargets
  /\ config.pc \in {"pll_ready", "pll_used"} =>
       /\ rcc.n = PllN(config.target)
       /\ rcc.r = PllR(config.target)
       /\ "PLL" \in rcc.on

\* A call that succeeded left no switch pending and told the truth.
Told ==
  config.ok =>
    /\ config.pc = "idle"
    /\ rcc.sw = rcc.sws
    /\ Sysclk = config.target
    /\ config.val = config.target

ClockInv == ClockTypeOK /\ SourcesSafe /\ WaitFacts /\ Told

------------------------------------------------------------------------------
(* Frequencies, voltages and wait states *)

(* The PLL delivers the frequency it is configured for. *)
LEMMA PllDelivers ==
    ASSUME NEW t \in PllTargets
    PROVE  /\ PllN(t) \in {8, 12, 16, 20}
           /\ PllR(t) \in {2, 4}
           /\ (8 * PllN(t)) \div PllR(t) = t
  BY DEF PllTargets, PllN, PllR

(* VosFor and LatencyFor stay within the registers. *)
LEMMA SettingsType ==
    ASSUME NEW t \in Nat
    PROVE  VosFor(t) \in {1, 2} /\ \A v \in {1, 2} : LatencyFor(t, v) \in 0..4
  BY DEF VosFor, LatencyFor

(* MSI is safe with any setting. *)
LEMMA MsiSafe == ClockTypeOK => SafeFor("MSI")
  BY DEF ClockTypeOK, SafeFor, SourceMhz, LatencyFor

(* HSI16 is safe with the settings for a target it is used for. *)
LEMMA HsiSafe ==
    ASSUME ClockTypeOK, NEW t \in PllTargets \cup {16},
           rcc.vos = VosFor(t), rcc.latency = LatencyFor(t, rcc.vos)
    PROVE  SafeFor("HSI16")
  BY DEF ClockTypeOK, SafeFor, SourceMhz, LatencyFor, VosFor, PllTargets

(* So is a PLL configured for the target. *)
LEMMA PllSafe ==
    ASSUME ClockTypeOK, NEW t \in PllTargets,
           rcc.vos = VosFor(t), rcc.latency = LatencyFor(t, rcc.vos),
           rcc.n = PllN(t), rcc.r = PllR(t)
    PROVE  SafeFor("PLL") /\ SourceMhz(rcc, "PLL") = t
<1>1. SourceMhz(rcc, "PLL") = t
  BY Zenon, PllDelivers DEF SourceMhz
<1>2. t \in Nat /\ t <= (IF VosFor(t) = 1 THEN 80 ELSE 26)
  BY DEF VosFor, PllTargets
<1>3. LatencyFor(t, rcc.vos) \in 0..4
  BY <1>2, SettingsType DEF ClockTypeOK
<1> QED BY <1>1, <1>2, <1>3 DEF SafeFor

------------------------------------------------------------------------------
(* Steps *)

(* Out of reset the core runs from MSI. *)
LEMMA ClockInitInv == ClockInit => ClockInv
<1> SUFFICES ASSUME ClockInit PROVE ClockInv
  OBVIOUS
<1>1. ClockTypeOK
  BY SMTT(30) DEF ClockInit, ClockTypeOK, Sources
<1>2. SourcesSafe
  BY Zenon, <1>1, MsiSafe DEF ClockInit, SourcesSafe
<1>3. WaitFacts /\ Told
  BY Zenon DEF ClockInit, WaitFacts, Told
<1> QED BY Zenon, <1>1, <1>2, <1>3 DEF ClockInv

(* A step that leaves voltage, wait states and PLL as they are may select a *)
(* safe source, or let the selected one take over.                         *)
LEMMA SameSettings ==
    ASSUME ClockInv, ClockTypeOK',
           rcc'.vos = rcc.vos, rcc'.latency = rcc.latency, rcc'.n = rcc.n, rcc'.r = rcc.r,
           "MSI" \in rcc'.on, rcc'.sw \in rcc'.on, rcc'.sws \in rcc'.on \cap rcc'.ready,
           SafeFor(rcc'.sw), SafeFor(rcc'.sws)
    PROVE  SourcesSafe'
  BY Zenon DEF SourcesSafe, SafeFor, SourceMhz

(* Entering system_clock_config_hz changes no clock setting. *)
LEMMA StartInv ==
    ASSUME ClockInv, NEW mhz \in Targets, ClockConfigHz(mhz)
    PROVE  ClockInv'
<1> USE DEF ClockInv
<1>1. ClockTypeOK'
  BY Zenon, ClockAssumption DEF ClockTypeOK, ClockConfigHz, Sources
<1>2. SourcesSafe'
  BY <1>1, SameSettings DEF ClockConfigHz, ClockTypeOK, SourcesSafe
<1>3. WaitFacts' /\ Told'
  BY DEF WaitFacts, Told, ClockConfigHz, ClockTypeOK
<1> QED BY <1>1, <1>2, <1>3

(* MSI is ready when it is selected. *)
LEMMA MsiReadyInv ==
    ASSUME ClockInv, MsiReady
    PROVE  ClockInv'
<1> USE DEF ClockInv, MsiReady, Goto
<1>1. ClockTypeOK'
  BY DEF ClockTypeOK, Sources
<1>2. SourcesSafe'
  BY <1>1, SameSettings, MsiSafe DEF ClockTypeOK, SourcesSafe
<1>3. WaitFacts' /\ Told'
  BY DEF WaitFacts, Told, ClockTypeOK
<1> QED BY <1>1, <1>2, <1>3

(* The PLL is stopped once MSI is seen in use. *)
LEMMA MsiUsedInv ==
    ASSUME ClockInv, MsiUsed
    PROVE  ClockInv'
<1> USE DEF ClockInv, MsiUsed, Goto
<1>1. ClockTypeOK'
  BY Zenon DEF ClockTypeOK, Sources
<1>2. SourcesSafe'
  BY <1>1, SameSettings DEF ClockTypeOK, SourcesSafe, WaitFacts
<1>3. WaitFacts' /\ Told'
  BY DEF WaitFacts, Told, ClockTypeOK
<1> QED BY <1>1, <1>2, <1>3

(* Waiting for the PLL to stop, then stopping HSI16. *)
LEMMA PllOffInv ==
    ASSUME ClockInv, PllOff
    PROVE  ClockInv'
<1> USE DEF ClockInv, PllOff, Goto
<1>1. ClockTypeOK'
  BY DEF ClockTypeOK, Sources
<1>2. SourcesSafe'
  BY <1>1, SameSettings DEF ClockTypeOK, SourcesSafe, WaitFacts
<1>3. WaitFacts' /\ Told'
  BY DEF WaitFacts, Told, ClockTypeOK
<1> QED BY <1>1, <1>2, <1>3

(* The settings change while MSI, which any of them suits, runs the core. *)
LEMMA HsiOffInv ==
    ASSUME ClockInv, HsiOff
    PROVE  ClockInv'
<1> USE DEF ClockInv, Goto, Finish
<1>1. ClockTypeOK'
  BY Zenon, SettingsType DEF ClockTypeOK, Sources, HsiOff
<1>2. /\ rcc.sw = "MSI" /\ rcc.sws = "MSI" /\ rcc'.sw = "MSI" /\ rcc'.sws = "MSI"
      /\ "MSI" \in rcc'.on /\ "MSI" \in rcc'.ready
  BY DEF HsiOff, WaitFacts, SourcesSafe, ClockTypeOK
<1>3. SafeFor("MSI")'
  BY <1>1, MsiSafe DEF ClockTypeOK, SafeFor, SourceMhz, LatencyFor
<1>4. SourcesSafe'
  BY <1>2, <1>3 DEF SourcesSafe, SafeFor
<1>5. WaitFacts'
  BY <1>2 DEF WaitFacts, HsiOff, ClockTypeOK
<1>6. Told'
  BY <1>2 DEF Told, HsiOff, ClockTypeOK, Sysclk, SourceMhz
<1> QED BY <1>1, <1>4, <1>5, <1>6

(* HSI16 is ready when it is selected. *)
LEMMA HsiReadyInv ==
    ASSUME ClockInv, HsiReady
    PROVE  ClockInv'
<1> USE DEF ClockInv, HsiReady, Goto
<1>1. ClockTypeOK'
  BY DEF ClockTypeOK, Sources
<1>2. SafeFor("HSI16")
  BY HsiSafe DEF WaitFacts
<1>3. SourcesSafe'
  BY <1>1, <1>2, SameSettings DEF ClockTypeOK, SourcesSafe, WaitFacts
<1>4. WaitFacts' /\ Told'
  BY Zenon DEF WaitFacts, Told, ClockTypeOK
<1> QED BY <1>1, <1>3, <1>4

(* With HSI16 in use the call returns, or goes on to the PLL. *)
LEMMA HsiUsedInv ==
    ASSUME ClockInv, HsiUsed
    PROVE  ClockInv'
<1> USE DEF ClockInv
<1>1. /\ config.pc = "hsi_used" /\ rcc.sws = "HSI16" /\ rcc.sw = "HSI16"
      /\ config.target \in PllTargets \cup {16}
  BY DEF HsiUsed, WaitFacts
<1>2. CASE config.target = 16
  <2>1. config' = [config EXCEPT !.pc = "idle", !.ok = TRUE, !.val = 16] /\ rcc' = rcc
    BY <1>2 DEF HsiUsed, Finish
  <2>2. ClockTypeOK'
    BY Zenon, <2>1 DEF ClockTypeOK
  <2>3. SourcesSafe' /\ WaitFacts'
    BY <2>1 DEF SourcesSafe, SafeFor, WaitFacts, ClockTypeOK
  <2>4. Told'
    BY <1>1, <1>2, <2>1 DEF Told, Sysclk, SourceMhz, ClockTypeOK
  <2> QED BY <2>2, <2>3, <2>4
<1>3. CASE config.target # 16
  <2>1. config' = [config EXCEPT !.pc = "pll_config"] /\ rcc' = [rcc EXCEPT !.on = @ \ {"PLL"}]
    BY <1>3 DEF HsiUsed, Goto
  <2>2. ClockTypeOK'
    BY <2>1 DEF ClockTypeOK
  <2>3. SourcesSafe'
    BY <1>1, <2>1, <2>2, SameSettings DEF ClockTypeOK, SourcesSafe
  <2>4. WaitFacts' /\ Told'
    BY <1>1, <1>3, <2>1 DEF WaitFacts, Told, ClockTypeOK
  <2> QED BY <2>2, <2>3, <2>4
<1> QED BY <1>2, <1>3

(* The PLL is configured while HSI16 runs the core. *)
LEMMA PllConfigInv ==
    ASSUME ClockInv, PllConfig
    PROVE  ClockInv'
<1> USE DEF ClockInv, PllConfig, Goto
<1>1. config.target \in PllTargets /\ rcc.sw = "HSI16" /\ rcc.sws = "HSI16"
  BY DEF WaitFacts
<1>2. ClockTypeOK'
  BY Zenon, <1>1, PllDelivers DEF ClockTypeOK, Sources
<1>3. SafeFor("HSI16")'
  BY <1>1 DEF SafeFor, SourceMhz, SourcesSafe, ClockTypeOK
<1>4. SourcesSafe'
  BY <1>1, <1>3 DEF ClockTypeOK, SourcesSafe, SafeFor
<1>5. WaitFacts' /\ Told'
  BY DEF WaitFacts, Told, ClockTypeOK
<1> QED BY <1>2, <1>4, <1>5

(* The PLL is locked when it is selected. *)
LEMMA PllReadyInv ==
    ASSUME ClockInv, PllReady
    PROVE  ClockInv'
<1> USE DEF ClockInv, PllReady, Goto
<1>1. ClockTypeOK'
  BY DEF ClockTypeOK, Sources
<1>2. SafeFor("PLL")
  BY PllSafe DEF WaitFacts
<1>3. SourcesSafe'
  BY <1>1, <1>2, SameSettings DEF ClockTypeOK, SourcesSafe, WaitFacts
<1>4. WaitFacts' /\ Told'
  BY DEF WaitFacts, Told, ClockTypeOK
<1> QED BY <1>1, <1>3, <1>4

(* With the PLL in use the call returns. *)
LEMMA PllUsedInv ==
    ASSUME ClockInv, PllUsed
    PROVE  ClockInv'
<1> USE DEF ClockInv, PllUsed, Finish
<1>1. ClockTypeOK'
  BY Zenon DEF ClockTypeOK
<1>2. SourcesSafe'
  BY DEF SourcesSafe, SafeFor
<1>3. WaitFacts'
  BY DEF WaitFacts, ClockTypeOK
<1>4. SourceMhz(rcc, "PLL") = config.target
  BY PllSafe DEF WaitFacts
<1>5. Told'
  BY <1>4 DEF WaitFacts, Told, ClockTypeOK, Sysclk
<1> QED BY <1>1, <1>2, <1>3, <1>5

(* A wait that times out returns an error and changes no clock setting. *)
LEMMA ClockTimeoutInv ==
    ASSUME ClockInv, ClockTimeout
    PROVE  ClockInv'
<1> USE DEF ClockInv, ClockTimeout, Goto
<1>1. ClockTypeOK'
  BY DEF ClockTypeOK
<1>2. SourcesSafe'
  BY DEF SourcesSafe, SafeFor
<1>3. WaitFacts' /\ Told'
  BY DEF WaitFacts, Told, ClockTypeOK, Sysclk
<1> QED BY <1>1, <1>2, <1>3

(* The hardware starts or stops an oscillator, or switches: the selected   *)
(* source is as safe as the one in use.                                    *)
LEMMA HardwareInv ==
    ASSUME ClockInv, OscillatorStarts \/ OscillatorStops \/ SourceSwitches
    PROVE  ClockInv'
<1> USE DEF ClockInv, OscillatorStarts, OscillatorStops, SourceSwitches
<1>1. ClockTypeOK'
  BY DEF ClockTypeOK
<1>2. SourcesSafe'
  BY <1>1, SameSettings DEF ClockTypeOK, SourcesSafe
<1>3. WaitFacts'
  BY DEF WaitFacts, ClockTypeOK
<1>4. Told'
  <2> SUFFICES ASSUME config.ok PROVE Told'
    BY DEF Told
  <2>1. rcc.sw = rcc.sws
    BY DEF Told
  <2>2. rcc'.sws = rcc.sws /\ rcc'.sw = rcc.sw /\ rcc'.n = rcc.n /\ rcc'.r = rcc.r /\ config' = config
    BY <2>1 DEF ClockTypeOK
  <2> QED BY Zenon, <2>2 DEF Told, Sysclk, SourceMhz
<1> QED BY <1>1, <1>2, <1>3, <1>4

------------------------------------------------------------------------------

(* One lemma per step. *)
LEMMA ClockNextInv == ClockInv /\ [ClockNext]_clockVars => ClockInv'
<1> SUFFICES ASSUME ClockInv, [ClockNext]_clockVars PROVE ClockInv'
  OBVIOUS
<1>1. CASE UNCHANGED clockVars
  BY Zenon, <1>1 DEF clockVars, ClockInv, ClockTypeOK, SourcesSafe, SafeFor, WaitFacts, Told, Sysclk
<1>2. CASE ClockNext
  BY <1>2, StartInv, MsiReadyInv, MsiUsedInv, PllOffInv, HsiOffInv, HsiReadyInv, HsiUsedInv,
     PllConfigInv, PllReadyInv, PllUsedInv, ClockTimeoutInv, HardwareInv DEF ClockNext
<1> QED BY <1>1, <1>2

(* Whatever frequencies system_clock_config_hz is asked for, in whatever   *)
(* order, and wherever its bounded waits give up: the core runs from a     *)
(* stable source, within voltage range and flash wait states, and a call   *)
(* that returned SYSTEM_CLOCK_OK reached its target.                       *)
THEOREM ClockAlwaysSafe == ClockSpec => []ClockSafe
<1>1. ClockInv => ClockSafe
  BY Zenon DEF ClockInv, ClockSafe, SourcesSafe, SafeFor, Told, Sysclk
<1> QED BY <1>1, ClockInitInv, ClockNextInv, PTL DEF ClockSpec

------------------------------------------------------------------------------
(* Logger: the history *)

\* The slots of the history.
Slots == 0..LOG_HISTORY_SIZE - 1

\* The slot k places behind slot h.
Behind(h, k) == IF h >= k THEN h - k ELSE h - k + LOG_HISTORY_SIZE

\* Entries of the history, counting the one whose count is still to come.
Entries ==
  IF saver = "count" /\ history.count < LOG_HISTORY_SIZE THEN history.count + 1
  ELSE history.count

LoggerTypeOK ==
  /\ logQueue \in Nat
  /\ history \in [slot : [Slots -> {"unset", "old", "new"}], head : Slots,
                  count : 0..LOG_HISTORY_SIZE, live : BOOLEAN]
  /\ saver \in {"pop", "head", "count"}
  /\ logCmd \in [pc : {"none", "dump", "clear"}, idx : Slots, i : 0..LOG_HISTORY_SIZE]

\* The entries are the slots behind the head, the one stored last included.
EntriesNew ==
  /\ \A k \in 1..Entries : history.slot[Behind(history.head, k)] = "new"
  /\ saver = "head" => history.slot[history.head] = "new"

\* A dump is at the i-th oldest entry; once the history is full every slot is
\* an entry, wherever the dump is.
DumpAt ==
  logCmd.pc = "dump" =>
    /\ logCmd.i <= history.count
    /\ history.count < LOG_HISTORY_SIZE =>
         logCmd.idx = Behind(history.head, Entries - logCmd.i)

\* The history is cleared between two saves.
ClearAlone == logCmd.pc = "clear" => saver = "pop" /\ history.count = 0

LoggerInv == LoggerTypeOK /\ EntriesNew /\ DumpAt /\ ClearAlone

(* Remainders of numbers below twice the divisor. *)
LEMMA ModBelow ==
    ASSUME NEW n \in Nat \ {0}, NEW x \in 0..2 * n - 1
    PROVE  x % n = IF x < n THEN x ELSE x - n
<1>1. CASE x < n
  BY <1>1
<1>2. CASE ~(x < n)
  <2>1. x \in n..2 * n - 1
    BY <1>2
  <2>2. x % n = x - n
    BY <2>1
  <2> QED BY <1>2, <2>2
<1> QED BY Zenon, <1>1, <1>2

(* The head of the history moves on. *)
LEMMA HeadMoves ==
    ASSUME NEW h \in Slots
    PROVE  LET g == (h + 1) % LOG_HISTORY_SIZE
           IN  /\ g \in Slots
               /\ Behind(g, 1) = h
               /\ \A k \in 1..LOG_HISTORY_SIZE - 1 : Behind(g, k + 1) = Behind(h, k)
<1> DEFINE n == LOG_HISTORY_SIZE
           g == (h + 1) % n
<1>1. n \in Nat \ {0} /\ h \in 0..n - 1
  BY LoggerAssumption DEF Slots
<1> HIDE DEF n
<1>2. h + 1 \in 0..2 * n - 1
  BY <1>1
<1>3. g = IF h + 1 < n THEN h + 1 ELSE h + 1 - n
  <2> DEFINE x == h + 1
  <2>1. x \in 0..2 * n - 1
    BY Zenon, <1>2
  <2> HIDE DEF x
  <2>2. x % n = IF x < n THEN x ELSE x - n
    BY Zenon, <1>1, <2>1, ModBelow
  <2> QED BY <2>2, <1>1 DEF x
<1> HIDE DEF g, n
<1>4. g \in 0..n - 1 /\ \A k \in 0..n - 1 : (IF g >= k + 1 THEN g - (k + 1) ELSE g - (k + 1) + n) = IF h >= k THEN h - k ELSE h - k + n
  BY <1>1, <1>3
<1>5. (IF h >= 0 THEN h - 0 ELSE h - 0 + n) = h /\ 0 \in 0..n - 1 /\ 0 + 1 = 1
  BY <1>1
<1>6. g \in Slots /\ Behind(g, 1) = h /\ \A k \in 1..n - 1 : Behind(g, k + 1) = Behind(h, k)
  <2>1. \A k \in 1..n - 1 : k \in 0..n - 1
    BY <1>1
  <2>2. Behind(g, 1) = h
    BY Zenon, <1>4, <1>5 DEF Behind, n
  <2>3. \A k \in 1..n - 1 : Behind(g, k + 1) = Behind(h, k)
    BY Zenon, <1>4, <2>1 DEF Behind, n
  <2> QED BY <1>4, <2>2, <2>3 DEF Slots, n
<1> QED BY <1>6 DEF g, n

(* Every slot is one of those behind the head. *)
LEMMA AllBehind ==
    ASSUME NEW h \in Slots, NEW s \in Slots
    PROVE  \E k \in 1..LOG_HISTORY_SIZE : Behind(h, k) = s
<1>1. LOG_HISTORY_SIZE \in Nat \ {0}
  BY Zenon, LoggerAssumption
<1>2. CASE s < h
  <2>1. h - s \in 1..LOG_HISTORY_SIZE /\ Behind(h, h - s) = s
    BY <1>1, <1>2 DEF Slots, Behind
  <2> QED BY <2>1
<1>3. CASE s >= h
  <2>1. h - s + LOG_HISTORY_SIZE \in 1..LOG_HISTORY_SIZE /\ Behind(h, h - s + LOG_HISTORY_SIZE) = s
    BY <1>1, <1>3 DEF Slots, Behind
  <2> QED BY Zenon, <2>1
<1> QED BY <1>2, <1>3 DEF Slots

(* A slot behind the head is a slot.                                       *)
LEMMA BehindSlot ==
    ASSUME NEW h \in Slots, NEW k \in 0..LOG_HISTORY_SIZE
    PROVE  Behind(h, k) \in Slots
  BY LoggerAssumption DEF Slots, Behind

(* A full history holds only entries. *)
LEMMA FullMeansNew ==
    ASSUME LoggerInv, history.count = LOG_HISTORY_SIZE
    PROVE  \A s \in Slots : history.slot[s] = "new"
<1>1. Entries = LOG_HISTORY_SIZE /\ history.head \in Slots
  BY LoggerAssumption DEF LoggerInv, LoggerTypeOK, Entries
<1> QED BY <1>1, AllBehind DEF LoggerInv, EntriesNew

(* No more entries than slots.                                             *)
LEMMA EntriesRange ==
    ASSUME LoggerTypeOK
    PROVE  Entries \in 0..LOG_HISTORY_SIZE /\ history.count <= Entries
  BY LoggerAssumption DEF LoggerTypeOK, Entries

(* Every step of the logger task and of the log command keeps the          *)
(* invariant, if a dump begins and the history is cleared between saves.   *)
LEMMA LoggerStep ==
    ASSUME HistoryRaces = FALSE, LoggerInv, [LoggerNext]_loggerVars
    PROVE  LoggerInv'
<1> DEFINE N == LOG_HISTORY_SIZE
<1>a. N \in Nat \ {0}
  BY Zenon, LoggerAssumption
<1>t. /\ logQueue \in Nat /\ saver \in {"pop", "head", "count"}
      /\ history.slot \in [Slots -> {"unset", "old", "new"}] /\ history.head \in Slots
      /\ history.count \in 0..N /\ history.live \in BOOLEAN
      /\ logCmd.pc \in {"none", "dump", "clear"} /\ logCmd.idx \in Slots /\ logCmd.i \in 0..N
      /\ history \in [slot : [Slots -> {"unset", "old", "new"}], head : Slots,
                      count : 0..N, live : BOOLEAN]
      /\ logCmd \in [pc : {"none", "dump", "clear"}, idx : Slots, i : 0..N]
  BY DEF LoggerInv, LoggerTypeOK
<1>e. Entries \in 0..N /\ history.count <= Entries
  BY Zenon, EntriesRange DEF LoggerInv
<1>1. CASE LoggerLog
  BY <1>1, <1>t DEF LoggerLog, LoggerInv, LoggerTypeOK, EntriesNew, DumpAt, ClearAlone, Entries
<1>2. CASE LoggerStore
  <2>1. /\ saver = "pop" /\ saver' = "head" /\ logQueue' = logQueue - 1 /\ logQueue > 0
        /\ history' = [history EXCEPT !.slot[history.head] = "new"]
        /\ logCmd' = logCmd /\ logCmd.pc # "clear"
    BY <1>2 DEF LoggerStore, MaySave
  <2>2. /\ history'.head = history.head /\ history'.count = history.count
        /\ history'.live = history.live
        /\ history'.slot = [history.slot EXCEPT ![history.head] = "new"]
    BY <2>1, <1>t
  <2>3. LoggerTypeOK'
    BY <2>1, <2>2, <1>t DEF LoggerTypeOK
  <2>4. Entries' = Entries /\ Entries = history.count
    BY Zenon, <2>1, <2>2 DEF Entries
  <2>5. /\ history'.slot[history.head] = "new"
        /\ \A k \in Slots : history.slot[k] = "new" => history'.slot[k] = "new"
    BY Zenon, <2>2, <1>t
  <2>6. \A k \in 1..Entries : Behind(history.head, k) \in Slots
    BY SMTT(30), <1>e, <1>a, <1>t, BehindSlot
  <2>7. EntriesNew'
    BY Zenon, <2>2, <2>4, <2>5, <2>6 DEF EntriesNew, LoggerInv
  <2>8. DumpAt' /\ ClearAlone'
    BY <2>1, <2>2, <2>4 DEF DumpAt, ClearAlone, LoggerInv
  <2> QED BY Zenon, <2>3, <2>7, <2>8 DEF LoggerInv
<1>3. CASE LoggerAdvance
  <2> DEFINE g == (history.head + 1) % N
  <2>1. /\ saver = "head" /\ saver' = "count" /\ logQueue' = logQueue
        /\ history' = [history EXCEPT !.head = g]
        /\ logCmd' = logCmd /\ logCmd.pc # "clear"
    BY Zenon, <1>3 DEF LoggerAdvance, MaySave
  <2>2. /\ g \in Slots /\ Behind(g, 1) = history.head
        /\ \A k \in 1..N - 1 : Behind(g, k + 1) = Behind(history.head, k)
    BY <1>t, HeadMoves
  <2> HIDE DEF g
  <2>3. /\ history'.head = g /\ history'.count = history.count
        /\ history'.live = history.live /\ history'.slot = history.slot
    BY <2>1, <1>t
  <2>4. LoggerTypeOK'
    BY Zenon, <2>1, <2>2, <2>3, <1>t DEF LoggerTypeOK
  <2>5. Entries = history.count
    BY <2>1 DEF Entries
  <2>6. Entries' = IF history.count < N THEN history.count + 1 ELSE history.count
    BY <2>1, <2>3 DEF Entries
  <2>7. EntriesNew'
    <3> SUFFICES ASSUME NEW k \in 1..Entries' PROVE history'.slot[Behind(history'.head, k)] = "new"
      BY Zenon, <2>1 DEF EntriesNew
    <3>1. CASE history.count = N
      <4>1. Behind(g, k) \in Slots
        BY <3>1, <2>2, <2>6, <1>a, BehindSlot
      <4> QED BY Zenon, <4>1, <3>1, <2>3, FullMeansNew
    <3>2. CASE k = 1
      BY Zenon, <3>2, <2>1, <2>2, <2>3 DEF EntriesNew, LoggerInv
    <3>3. CASE history.count # N /\ k # 1
      <4>1. k - 1 \in 1..Entries /\ k - 1 \in 1..N - 1 /\ (k - 1) + 1 = k
        BY <3>3, <2>5, <2>6, <1>a, <1>t
      <4>2. Behind(g, k) = Behind(history.head, k - 1)
        BY Zenon, <4>1, <2>2
      <4> QED BY Zenon, <4>1, <4>2, <2>3 DEF EntriesNew, LoggerInv
    <3> QED BY <3>1, <3>2, <3>3
  <2>8. DumpAt'
    <3> SUFFICES ASSUME logCmd.pc = "dump", history.count < N
                 PROVE  logCmd.idx = Behind(g, Entries' - logCmd.i)
      BY Zenon, <2>1, <2>3 DEF DumpAt, LoggerInv
    <3>1. logCmd.i <= history.count /\ logCmd.idx = Behind(history.head, history.count - logCmd.i)
      BY Zenon, <2>5 DEF DumpAt, LoggerInv
    <3>2. CASE history.count - logCmd.i = 0
      <4>1. Behind(history.head, 0) = history.head
        BY <1>t, <1>a DEF Behind, Slots
      <4>2. Entries' - logCmd.i = 1
        BY <3>2, <2>6, <1>t
      <4> QED BY Zenon, <3>1, <3>2, <4>1, <4>2, <2>2
    <3>3. CASE history.count - logCmd.i # 0
      <4> DEFINE k == history.count - logCmd.i
      <4>1. k \in 1..N - 1
        BY <3>1, <3>3, <1>t, <1>a
      <4>2. Entries' - logCmd.i = k + 1
        BY <2>6, <1>t
      <4> HIDE DEF k
      <4>3. logCmd.idx = Behind(history.head, k)
        BY <3>1 DEF k
      <4> QED BY Zenon, <4>1, <4>2, <4>3, <2>2
    <3> QED BY <3>2, <3>3
  <2> QED BY Zenon, <2>1, <2>4, <2>7, <2>8 DEF LoggerInv, ClearAlone
<1>4. CASE LoggerCount
  <2> DEFINE c == IF history.count < N THEN history.count + 1 ELSE history.count
  <2>1. /\ saver = "count" /\ saver' = "pop" /\ logQueue' = logQueue
        /\ history' = [history EXCEPT !.count = c]
        /\ logCmd' = logCmd /\ logCmd.pc # "clear"
    BY <1>4 DEF LoggerCount, MaySave
  <2>2. c \in 0..N /\ Entries = c /\ history.count <= c
    BY <2>1, <1>t, <1>a DEF Entries
  <2>3. c < N => history.count < N
    BY <1>t, <1>a
  <2> HIDE DEF c
  <2>4. /\ history'.head = history.head /\ history'.count = c
        /\ history'.live = history.live /\ history'.slot = history.slot
    BY <2>1, <1>t
  <2>5. LoggerTypeOK'
    BY Zenon, <2>1, <2>2, <2>4, <1>t DEF LoggerTypeOK
  <2>6. Entries' = Entries
    BY <2>1, <2>2, <2>4 DEF Entries
  <2>7. EntriesNew'
    BY Zenon, <2>1, <2>4, <2>6 DEF EntriesNew, LoggerInv
  <2>8. DumpAt'
    <3>1. logCmd.i <= history.count => logCmd.i <= c
      BY SMTT(30), <2>2, <1>t
    <3> QED BY Zenon, <3>1, <2>1, <2>3, <2>4, <2>6 DEF DumpAt, LoggerInv
  <2> QED BY Zenon, <2>1, <2>5, <2>7, <2>8 DEF LoggerInv, ClearAlone
<1>5. CASE DumpBegin
  <2> DEFINE o == Oldest(history)
  <2>1. /\ saver = "pop" /\ saver' = saver /\ logQueue' = logQueue /\ history' = history
        /\ logCmd' = [pc |-> "dump", idx |-> o, i |-> 0]
    BY Zenon, <1>5 DEF DumpBegin, MayBegin
  <2>2. o \in Slots /\ (history.count < N => o = Behind(history.head, history.count))
    <3> DEFINE x == history.head + N - history.count
    <3>1. x \in 0..2 * N - 1 /\ x = history.head + (N - history.count)
      BY <1>t, <1>a DEF Slots
    <3>2. o = x % N
      BY Zenon DEF Oldest
    <3> HIDE DEF x, o, N
    <3>3. x % N = IF x < N THEN x ELSE x - N
      BY Zenon, <1>a, <3>1, ModBelow
    <3>4. history.head \in 0..N - 1
      BY Zenon, <1>t DEF Slots, N
    <3>5. o \in 0..N - 1 /\ o = IF history.head >= history.count /\ history.count > 0
                                THEN history.head - history.count
                                ELSE IF history.count = 0 THEN history.head
                                ELSE history.head - history.count + N
      BY SMTT(30), <1>a, <1>t, <3>1, <3>2, <3>3, <3>4
    <3>6. history.count < N => o = Behind(history.head, history.count)
      BY SMTT(30), <3>4, <3>5, <1>a, <1>t DEF Behind, N
    <3> QED BY Zenon, <3>5, <3>6 DEF Slots, N
  <2> HIDE DEF o
  <2>3. logCmd'.pc = "dump" /\ logCmd'.idx = o /\ logCmd'.i = 0 /\ logCmd' \in [pc : {"none", "dump", "clear"}, idx : Slots, i : 0..N]
    BY SMTT(30), <2>1, <2>2, <1>a
  <2>4. Entries' = Entries /\ Entries = history.count /\ history.count - 0 = history.count /\ 0 <= history.count
    BY SMTT(30), <2>1, <1>t DEF Entries
  <2>5. LoggerTypeOK' /\ EntriesNew'
    BY Zenon, <2>1, <2>3, <2>4 DEF LoggerTypeOK, EntriesNew, LoggerInv
  <2> QED BY Zenon, <2>1, <2>2, <2>3, <2>4, <2>5 DEF LoggerInv, DumpAt, ClearAlone
<1>6. CASE DumpEntry
  <2>1. /\ saver' = saver /\ logQueue' = logQueue /\ history' = history /\ logCmd.pc = "dump"
        /\ logCmd' = IF logCmd.i < history.count
                     THEN [logCmd EXCEPT !.idx = (@ + 1) % N, !.i = @ + 1]
                     ELSE [pc |-> "none", idx |-> 0, i |-> 0]
    BY <1>6 DEF DumpEntry
  <2>2. Entries' = Entries /\ EntriesNew'
    BY Zenon, <2>1 DEF Entries, EntriesNew, LoggerInv
  <2>3. CASE ~(logCmd.i < history.count)
    <3>1. 0 \in Slots /\ 0 \in 0..N
      BY <1>a DEF Slots
    <3>2. logCmd' = [pc |-> "none", idx |-> 0, i |-> 0]
      BY <2>1, <2>3
    <3>3. LoggerTypeOK'
      BY <2>1, <3>1, <3>2, <1>t DEF LoggerTypeOK
    <3> QED BY Zenon, <3>2, <3>3, <2>2 DEF LoggerInv, DumpAt, ClearAlone
  <2>4. CASE logCmd.i < history.count
    <3> DEFINE j == (logCmd.idx + 1) % N
    <3>1. logCmd' = [logCmd EXCEPT !.idx = j, !.i = logCmd.i + 1]
      BY Zenon, <2>1, <2>4
    <3>2. j \in Slots
      BY Zenon, <1>t, HeadMoves
    <3>3. logCmd.i + 1 \in 0..N /\ logCmd.i + 1 <= history.count
      BY <2>4, <1>t, <1>a
    <3>4. history.count < N => j = Behind(history.head, Entries - (logCmd.i + 1))
      <4> SUFFICES ASSUME history.count < N PROVE j = Behind(history.head, Entries - (logCmd.i + 1))
        BY Zenon
      <4> DEFINE h == history.head
                 d == Entries - logCmd.i
                 x == logCmd.idx + 1
      <4>1. h \in 0..N - 1 /\ d \in 1..N /\ Entries - (logCmd.i + 1) = d - 1
        BY <2>4, <1>t, <1>a, <1>e DEF Slots
      <4>2. logCmd.idx = Behind(h, d)
        BY <2>1 DEF DumpAt, LoggerInv
      <4>3. j = x % N
        BY Zenon
      <4>4. x \in 0..2 * N - 1
        BY <1>t, <1>a DEF Slots
      <4> HIDE DEF j, h, d, N
      <4>5. x % N = IF x < N THEN x ELSE x - N
        <5> HIDE DEF x
        <5> QED BY Zenon, <1>a, <4>4, ModBelow
      <4>6. x = IF h >= d THEN (h - d) + 1 ELSE ((h - d) + N) + 1
        BY <4>2 DEF Behind, N
      <4> HIDE DEF x
      <4>7. j = IF h >= d - 1 THEN h - (d - 1) ELSE (h - (d - 1)) + N
        BY <1>a, <4>1, <4>3, <4>5, <4>6
      <4> QED BY Zenon, <4>1, <4>7 DEF Behind, N, h
    <3> HIDE DEF j
    <3>5. logCmd'.idx = j /\ logCmd'.i = logCmd.i + 1 /\ logCmd'.pc = "dump"
      BY Zenon, <3>1, <2>1, <1>t
    <3>6. LoggerTypeOK'
      BY Zenon, <3>1, <3>2, <3>3, <2>1, <1>t DEF LoggerTypeOK
    <3> QED BY Zenon, <3>3, <3>4, <3>5, <3>6, <2>1, <2>2 DEF LoggerInv, DumpAt, ClearAlone
  <2> QED BY <2>3, <2>4
<1>7. ASSUME NEW on \in BOOLEAN, LogLive(on) PROVE LoggerInv'
  <2>1. /\ saver' = saver /\ logQueue' = logQueue /\ logCmd' = logCmd
        /\ history' = [history EXCEPT !.live = on]
    BY <1>7 DEF LogLive
  <2>2. /\ history'.head = history.head /\ history'.count = history.count
        /\ history'.slot = history.slot
    BY <2>1, <1>t
  <2>3. LoggerTypeOK'
    BY <2>1, <1>t DEF LoggerTypeOK
  <2> QED BY <2>1, <2>2, <2>3 DEF LoggerInv, EntriesNew, DumpAt, ClearAlone, Entries
<1>8. CASE ClearCount
  <2> DEFINE f == [k \in DOMAIN history.slot |->
                     IF history.slot[k] = "new" THEN "old" ELSE history.slot[k]]
  <2>1. /\ saver = "pop" /\ saver' = saver /\ logQueue' = logQueue
        /\ history' = [history EXCEPT !.count = 0, !.slot = f]
        /\ logCmd' = [logCmd EXCEPT !.pc = "clear"]
    BY Zenon, <1>8 DEF ClearCount, MayBegin
  <2>2. f \in [Slots -> {"unset", "old", "new"}]
    BY <1>t
  <2> HIDE DEF f
  <2>3. history'.count = 0 /\ logCmd'.pc = "clear"
    BY Zenon, <2>1, <1>t
  <2>4. LoggerTypeOK'
    <3>1. history' \in [slot : [Slots -> {"unset", "old", "new"}], head : Slots,
                        count : 0..N, live : BOOLEAN]
      <4>1. history' = [slot |-> f, head |-> history.head, count |-> 0, live |-> history.live]
        BY Zenon, <2>1, <1>t
      <4>2. 0 \in 0..N
        BY <1>a
      <4> QED BY Zenon, <4>1, <4>2, <2>2, <1>t
    <3>2. logCmd' \in [pc : {"none", "dump", "clear"}, idx : Slots, i : 0..N]
      BY <2>1, <1>t
    <3> QED BY Zenon, <3>1, <3>2, <2>1, <1>t DEF LoggerTypeOK
  <2>5. Entries' = 0
    BY <2>1, <2>3 DEF Entries
  <2> QED BY <2>1, <2>3, <2>4, <2>5 DEF LoggerInv, EntriesNew, DumpAt, ClearAlone
<1>9. CASE ClearHead
  <2>1. /\ logCmd.pc = "clear" /\ saver' = saver /\ logQueue' = logQueue
        /\ history' = [history EXCEPT !.head = 0]
        /\ logCmd' = [logCmd EXCEPT !.pc = "none"]
    BY <1>9 DEF ClearHead
  <2>2. saver = "pop" /\ history.count = 0
    BY <2>1 DEF LoggerInv, ClearAlone
  <2>3. history'.count = 0 /\ logCmd'.pc = "none"
    BY <2>1, <2>2, <1>t
  <2>4. LoggerTypeOK'
    <3>0. 0 \in Slots
      BY <1>a DEF Slots
    <3>1. history' \in [slot : [Slots -> {"unset", "old", "new"}], head : Slots,
                        count : 0..N, live : BOOLEAN]
      BY Zenon, <2>1, <3>0, <1>t
    <3>2. logCmd' \in [pc : {"none", "dump", "clear"}, idx : Slots, i : 0..N]
      BY <2>1, <1>t
    <3> QED BY Zenon, <3>1, <3>2, <2>1, <1>t DEF LoggerTypeOK
  <2>5. Entries' = 0
    BY SMTT(30), <2>1, <2>2, <2>3 DEF Entries
  <2> QED BY <2>1, <2>2, <2>3, <2>4, <2>5 DEF LoggerInv, EntriesNew, DumpAt, ClearAlone
<1>10. CASE UNCHANGED loggerVars
  BY <1>10 DEF loggerVars, LoggerInv, LoggerTypeOK, EntriesNew, DumpAt, ClearAlone, Entries
<1> QED BY Zenon, <1>1, <1>2, <1>3, <1>4, <1>5, <1>6, <1>7, <1>8, <1>9, <1>10 DEF LoggerNext

(* A dump prints entries saved since the last clear and nothing else,      *)
(* while the logger task stores new ones, for every size of the history.   *)
THEOREM DumpIsExact ==
    ASSUME HistoryRaces = FALSE PROVE LoggerSpec => []DumpPrintsEntries
<1>1. LoggerInit => LoggerInv
  <2> SUFFICES ASSUME LoggerInit PROVE LoggerInv
    OBVIOUS
  <2>1. 0 \in Slots /\ 0 \in 0..LOG_HISTORY_SIZE
    BY SMTT(30), LoggerAssumption DEF Slots
  <2>2. LoggerTypeOK
    BY Zenon, <2>1 DEF LoggerInit, LoggerTypeOK, Slots
  <2>3. Entries = 0
    BY Zenon DEF LoggerInit, Entries
  <2> QED BY <2>2, <2>3 DEF LoggerInit, LoggerInv, EntriesNew, DumpAt, ClearAlone
<1>2. LoggerInv => DumpPrintsEntries
  <2> SUFFICES ASSUME LoggerInv, logCmd.pc = "dump", logCmd.i < history.count
               PROVE  history.slot[logCmd.idx] = "new"
    BY Zenon DEF DumpPrintsEntries
  <2>1. CASE history.count = LOG_HISTORY_SIZE
    BY Zenon, <2>1, FullMeansNew DEF LoggerInv, LoggerTypeOK
  <2>2. CASE history.count # LOG_HISTORY_SIZE
    <3>1. Entries - logCmd.i \in 1..Entries /\ history.count < LOG_HISTORY_SIZE
      BY <2>2, EntriesRange, LoggerAssumption DEF LoggerInv, LoggerTypeOK
    <3> QED BY Zenon, <3>1 DEF LoggerInv, EntriesNew, DumpAt
  <2> QED BY Zenon, <2>1, <2>2
<1> QED BY <1>1, <1>2, LoggerStep, PTL DEF LoggerSpec
==============================================================================
