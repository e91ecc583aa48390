----------------------------- MODULE ListLemmas ------------------------------
(***************************************************************************)
(* What the list operations of the kernel models do to the elements of a   *)
(* list, to the absence of duplicates and to the order of the elements.    *)
(***************************************************************************)
EXTENDS Lists, FiniteSetTheorems, WellFoundedInduction, TLAPS

(* Pushing an element at the head of a list. *)
LEMMA PushFacts ==
    ASSUME NEW S, NEW s \in Seq(S), NEW e \in S
    PROVE  LET p == <<e>> \o s
           IN  /\ p \in Seq(S)
               /\ Len(p) = Len(s) + 1
               /\ Range(p) = Range(s) \cup {e}
               /\ IsInjective(s) /\ e \notin Range(s) => IsInjective(p)
<1> DEFINE p == <<e>> \o s
<1>1. p \in Seq(S) /\ Len(p) = Len(s) + 1
  OBVIOUS
<1>2. \A i \in 1..Len(p) : p[i] = IF i = 1 THEN e ELSE s[i - 1]
  OBVIOUS
<1>3. DOMAIN p = 1..Len(p) /\ DOMAIN s = 1..Len(s)
  BY <1>1
<1> HIDE DEF p
<1>4. Range(p) = Range(s) \cup {e}
  <2>1. \A x \in Range(p) : x \in Range(s) \cup {e}
    BY <1>1, <1>2, <1>3 DEF Range
  <2>2. e \in Range(p)
    <3>1. p[1] = e /\ 1 \in DOMAIN p
      BY <1>1, <1>2, <1>3
    <3> QED BY <3>1 DEF Range
  <2>3. \A x \in Range(s) : x \in Range(p)
    <3> SUFFICES ASSUME NEW i \in 1..Len(s) PROVE s[i] \in Range(p)
      BY <1>3 DEF Range
    <3>1. p[i + 1] = s[i] /\ i + 1 \in DOMAIN p
      BY <1>1, <1>2, <1>3
    <3> QED BY <3>1 DEF Range
  <2> QED BY <2>1, <2>2, <2>3
<1>5. IsInjective(s) /\ e \notin Range(s) => IsInjective(p)
  <2> SUFFICES ASSUME IsInjective(s), e \notin Range(s),
                      NEW i \in 1..Len(p), NEW j \in 1..Len(p), p[i] = p[j]
               PROVE  i = j
    BY <1>3 DEF IsInjective
  <2>1. \A k \in 1..Len(s) : s[k] # e
    BY <1>3 DEF Range
  <2>2. CASE i = 1 \/ j = 1
    BY <2>1, <2>2, <1>1, <1>2
  <2>3. CASE i # 1 /\ j # 1
    <3>1. i - 1 \in 1..Len(s) /\ j - 1 \in 1..Len(s) /\ s[i - 1] = s[j - 1]
      BY <2>3, <1>1, <1>2
    <3> QED BY <3>1, <1>3 DEF IsInjective
  <2> QED BY <2>2, <2>3
<1> QED BY <1>1, <1>4, <1>5 DEF p

(* Popping the head of a list without duplicates. *)
LEMMA PopFacts ==
    ASSUME NEW S, NEW s \in Seq(S), s # <<>>
    PROVE  /\ Head(s) \in S /\ Head(s) \in Range(s)
           /\ Tail(s) \in Seq(S)
           /\ IsInjective(s) => /\ Range(Tail(s)) = Range(s) \ {Head(s)}
                               /\ IsInjective(Tail(s))
<1> DEFINE t == Tail(s)
<1>1. Len(s) >= 1 /\ Head(s) = s[1] /\ DOMAIN s = 1..Len(s) /\ Head(s) \in S
  OBVIOUS
<1>2. t \in Seq(S) /\ Len(t) = Len(s) - 1 /\ DOMAIN t = 1..Len(t)
  OBVIOUS
<1>3. \A i \in 1..Len(t) : t[i] = s[i + 1]
  OBVIOUS
<1> HIDE DEF t
<1>4. ASSUME IsInjective(s) PROVE Range(t) = Range(s) \ {Head(s)}
  <2>1. ASSUME NEW i \in 1..Len(t) PROVE t[i] \in Range(s) /\ t[i] # Head(s)
    <3>1. i + 1 \in DOMAIN s /\ 1 \in DOMAIN s /\ i + 1 # 1
      BY <1>1, <1>2
    <3>2. s[i + 1] # s[1]
      BY <3>1, <1>4 DEF IsInjective
    <3> QED BY <3>1, <3>2, <1>1, <1>3 DEF Range
  <2>2. ASSUME NEW i \in 1..Len(s), s[i] # Head(s) PROVE s[i] \in Range(t)
    <3>1. i - 1 \in 1..Len(t) /\ t[i - 1] = s[i]
      BY <2>2, <1>1, <1>2, <1>3
    <3> QED BY <3>1, <1>2 DEF Range
  <2> QED BY <2>1, <2>2, <1>1, <1>2 DEF Range
<1>5. ASSUME IsInjective(s) PROVE IsInjective(t)
  <2> SUFFICES ASSUME NEW i \in 1..Len(t), NEW j \in 1..Len(t), t[i] = t[j]
               PROVE  i = j
    BY <1>2 DEF IsInjective
  <2>1. i + 1 \in DOMAIN s /\ j + 1 \in DOMAIN s /\ s[i + 1] = s[j + 1]
    BY <1>1, <1>2, <1>3
  <2> QED BY <2>1, <1>5 DEF IsInjective
<1>6. Head(s) \in Range(s)
  BY <1>1 DEF Range
<1> QED BY <1>1, <1>2, <1>4, <1>5, <1>6 DEF t

(* Draining one list, head first, onto the head of another. *)
LEMMA DrainFacts ==
    ASSUME NEW S, NEW z \in Seq(S), NEW f \in Seq(S)
    PROVE  LET d == Drained(z) \o f
           IN  /\ d \in Seq(S)
               /\ Range(d) = Range(z) \cup Range(f)
               /\ IsInjective(z) /\ IsInjective(f) /\ Range(z) \cap Range(f) = {}
                     => IsInjective(d)
<1> DEFINE r == Drained(z)
           d == r \o f
<1>1. r \in Seq(S) /\ Len(r) = Len(z)
  <2>1. \A i \in 1..Len(z) : z[(Len(z) - i) + 1] \in S
    OBVIOUS
  <2> QED BY <2>1 DEF Drained
<1>2. \A i \in 1..Len(r) : r[i] = z[(Len(z) - i) + 1]
  BY <1>1 DEF Drained
<1> HIDE DEF r
<1>3. /\ d \in Seq(S) /\ Len(d) = Len(z) + Len(f) /\ DOMAIN d = 1..Len(d)
      /\ DOMAIN z = 1..Len(z) /\ DOMAIN f = 1..Len(f)
  BY <1>1
<1>4. \A i \in 1..Len(d) : d[i] = IF i <= Len(z) THEN z[(Len(z) - i) + 1]
                                               ELSE f[i - Len(z)]
  BY <1>1, <1>2
<1> HIDE DEF d
<1>5. Range(d) = Range(z) \cup Range(f)
  <2>1. ASSUME NEW i \in 1..Len(d) PROVE d[i] \in Range(z) \cup Range(f)
    <3>1. CASE i <= Len(z)
      <4>1. (Len(z) - i) + 1 \in DOMAIN z
        BY <3>1, <1>3
      <4> QED BY <4>1, <3>1, <1>4 DEF Range
    <3>2. CASE i > Len(z)
      <4>1. i - Len(z) \in DOMAIN f
        BY <3>2, <1>3
      <4> QED BY <4>1, <3>2, <1>4 DEF Range
    <3> QED BY <3>1, <3>2, <1>3
  <2>2. ASSUME NEW i \in 1..Len(z) PROVE z[i] \in Range(d)
    <3>1. (Len(z) - i) + 1 \in 1..Len(d) /\ d[(Len(z) - i) + 1] = z[i]
      BY <1>3, <1>4
    <3> QED BY <3>1, <1>3, Zenon DEF Range
  <2>3. ASSUME NEW i \in 1..Len(f) PROVE f[i] \in Range(d)
    <3>1. /\ Len(z) + i \in 1..Len(d) /\ ~(Len(z) + i <= Len(z))
          /\ (Len(z) + i) - Len(z) = i
      BY <1>3
    <3>2. d[Len(z) + i] = f[i]
      BY <3>1, <1>4
    <3> QED BY <3>1, <3>2, <1>3, Zenon DEF Range
  <2> QED BY <2>1, <2>2, <2>3, <1>3, Zenon DEF Range
<1>6. ASSUME IsInjective(z), IsInjective(f), Range(z) \cap Range(f) = {}
      PROVE  IsInjective(d)
  <2> SUFFICES ASSUME NEW i \in 1..Len(d), NEW j \in 1..Len(d), d[i] = d[j], i < j
               PROVE  FALSE
    BY <1>3 DEF IsInjective
  <2>1. CASE j <= Len(z)
    <3>1. /\ (Len(z) - i) + 1 \in DOMAIN z /\ (Len(z) - j) + 1 \in DOMAIN z
          /\ z[(Len(z) - i) + 1] = z[(Len(z) - j) + 1]
      BY <2>1, <1>3, <1>4
    <3>2. (Len(z) - i) + 1 = (Len(z) - j) + 1
      BY <3>1, <1>6 DEF IsInjective
    <3> QED BY <3>2, <1>3
  <2>2. CASE i > Len(z)
    <3>1. /\ i - Len(z) \in DOMAIN f /\ j - Len(z) \in DOMAIN f
          /\ f[i - Len(z)] = f[j - Len(z)]
      BY <2>2, <1>3, <1>4
    <3>2. i - Len(z) = j - Len(z)
      BY <3>1, <1>6 DEF IsInjective
    <3> QED BY <3>2, <1>3
  <2>3. CASE i <= Len(z) /\ j > Len(z)
    <3>1. (Len(z) - i) + 1 \in DOMAIN z /\ j - Len(z) \in DOMAIN f
      BY <2>3, <1>3
    <3>2. d[i] \in Range(z) /\ d[j] \in Range(f)
      BY <3>1, <2>3, <1>4 DEF Range
    <3> QED BY <3>2, <1>6
  <2> QED BY <2>1, <2>2, <2>3, <1>3
<1> QED BY <1>3, <1>5, <1>6 DEF d, r
(* Taking the element at position i out of a list without duplicates. *)
LEMMA RemoveFacts ==
    ASSUME NEW S, NEW s \in Seq(S), NEW i \in 1..Len(s), IsInjective(s)
    PROVE  LET r == Unlinked(s, i)
           IN  /\ r \in Seq(S)
               /\ Len(r) = Len(s) - 1
               /\ \A k \in 1..Len(r) : r[k] = IF k < i THEN s[k] ELSE s[k + 1]
               /\ Range(r) = Range(s) \ {s[i]}
               /\ IsInjective(r)
<1> DEFINE r == Unlinked(s, i)
           a == SubSeq(s, 1, i - 1)
           b == SubSeq(s, i + 1, Len(s))
<1>a. a \in Seq(S) /\ Len(a) = i - 1 /\ \A k \in 1..(i - 1) : a[k] = s[k]
  OBVIOUS
<1>b. b \in Seq(S) /\ Len(b) = Len(s) - i /\ \A k \in 1..(Len(s) - i) : b[k] = s[i + k]
  OBVIOUS
<1>r. r = a \o b
  BY DEF Unlinked
<1> HIDE DEF a, b, r
<1>1. r \in Seq(S) /\ Len(r) = Len(s) - 1
  BY <1>a, <1>b, <1>r
<1>2. \A k \in 1..Len(r) : r[k] = IF k < i THEN s[k] ELSE s[k + 1]
  <2> SUFFICES ASSUME NEW k \in 1..Len(r)
               PROVE  r[k] = IF k < i THEN s[k] ELSE s[k + 1]
    OBVIOUS
  <2>4. r[k] = IF k <= Len(a) THEN a[k] ELSE b[k - Len(a)]
    BY <1>a, <1>b, <1>r
  <2>5. CASE k < i
    BY <1>a, <2>4, <2>5
  <2>6. CASE k >= i
    <3>1. k - Len(a) \in 1..(Len(s) - i) /\ i + (k - Len(a)) = k + 1
      BY <1>1, <1>a, <2>6
    <3> QED BY <3>1, <1>a, <1>b, <2>4, <2>6
  <2> QED BY <2>5, <2>6
<1>3. DOMAIN r = 1..Len(r) /\ DOMAIN s = 1..Len(s)
  BY <1>1
<1>4. Range(r) = Range(s) \ {s[i]}
  <2>1. ASSUME NEW k \in 1..Len(r) PROVE r[k] \in Range(s) /\ r[k] # s[i]
    <3> DEFINE m == IF k < i THEN k ELSE k + 1
    <3>1. m \in DOMAIN s /\ i \in DOMAIN s /\ m # i /\ r[k] = s[m]
      BY <1>1, <1>2, <1>3
    <3> HIDE DEF m
    <3>2. s[m] # s[i]
      BY <3>1 DEF IsInjective
    <3> QED BY <3>1, <3>2 DEF Range
  <2>2. ASSUME NEW k \in 1..Len(s), s[k] # s[i] PROVE s[k] \in Range(r)
    <3> DEFINE m == IF k < i THEN k ELSE k - 1
    <3>1. m \in 1..Len(r) /\ r[m] = s[k]
      BY <2>2, <1>1, <1>2
    <3> QED BY <3>1, <1>3 DEF Range
  <2> QED BY <2>1, <2>2, <1>3 DEF Range
<1>5. IsInjective(r)
  <2> SUFFICES ASSUME NEW k \in 1..Len(r), NEW l \in 1..Len(r), r[k] = r[l]
               PROVE  k = l
    BY <1>3 DEF IsInjective
  <2> DEFINE m == IF k < i THEN k ELSE k + 1
             n == IF l < i THEN l ELSE l + 1
  <2>1. m \in DOMAIN s /\ n \in DOMAIN s /\ s[m] = s[n]
    BY <1>1, <1>2, <1>3
  <2>2. m = n
    BY <2>1 DEF IsInjective
  <2> QED BY <2>2
<1> QED BY <1>1, <1>2, <1>4, <1>5 DEF r

(* The concatenation of two lists. *)
LEMMA ConcatFacts ==
    ASSUME NEW S, NEW x \in Seq(S), NEW y \in Seq(S)
    PROVE  x \o y \in Seq(S) /\ Len(x \o y) = Len(x) + Len(y)
OBVIOUS

(* Putting a new element behind the first k elements of a list. *)
LEMMA InsertFacts ==
    ASSUME NEW S, NEW s \in Seq(S), NEW k \in 0..Len(s), NEW e \in S,
           IsInjective(s), e \notin Range(s), NEW q, q = LinkedIn(s, k + 1, e)
    PROVE  /\ q \in Seq(S)
           /\ Len(q) = Len(s) + 1
           /\ \A j \in 1..Len(q) : q[j] = IF j <= k THEN s[j]
                                          ELSE IF j = k + 1 THEN e ELSE s[j - 1]
           /\ Range(q) = Range(s) \cup {e}
           /\ IsInjective(q)
<1> DEFINE a == SubSeq(s, 1, k)
           b == SubSeq(s, k + 1, Len(s))
<1>1. a \in Seq(S) /\ Len(a) = k /\ \A j \in 1..k : a[j] = s[j]
  OBVIOUS
<1>2. b \in Seq(S) /\ Len(b) = Len(s) - k /\ \A j \in 1..(Len(s) - k) : b[j] = s[k + j]
  OBVIOUS
<1>3. q = (a \o <<e>>) \o b
  <2>1. (k + 1) - 1 = k
    OBVIOUS
  <2> QED BY <2>1, Zenon DEF LinkedIn
<1> HIDE DEF a, b
<1> DEFINE r == (a \o <<e>>) \o b
<1>4. q \in Seq(S) /\ Len(q) = Len(s) + 1
  <2>1. r \in Seq(S) /\ Len(r) = Len(s) + 1
    <3> DEFINE c == a \o <<e>>
    <3>1. c \in Seq(S) /\ Len(c) = k + 1
      BY <1>1
    <3> HIDE DEF c
    <3>2. c \o b \in Seq(S) /\ Len(c \o b) = Len(c) + Len(b)
      BY <3>1, <1>2, ConcatFacts, Zenon
    <3>3. Len(s) \in Nat
      OBVIOUS
    <3>4. Len(c \o b) = Len(s) + 1
      BY <3>1, <3>2, <3>3, <1>2
    <3> QED BY <3>2, <3>4, Zenon DEF c
  <2> HIDE DEF r
  <2>2. q = r
    BY <1>3, Zenon DEF r
  <2> QED BY <2>1, <2>2, Zenon
<1>5. ASSUME NEW j \in 1..Len(q)
      PROVE  q[j] = IF j <= k THEN s[j] ELSE IF j = k + 1 THEN e ELSE s[j - 1]
  <2> DEFINE c == a \o <<e>>
  <2>1. c \in Seq(S) /\ Len(c) = k + 1 /\ c[k + 1] = e /\ \A m \in 1..k : c[m] = s[m]
    BY <1>1
  <2> HIDE DEF c
  <2>2. q[j] = IF j <= k + 1 THEN c[j] ELSE b[j - (k + 1)]
    <3>1. q = c \o b
      BY <1>3, Zenon DEF c
    <3>2. j \in 1..(Len(c) + Len(b))
      BY <2>1, <1>2, <1>4
    <3>3. (c \o b)[j] = IF j <= k + 1 THEN c[j] ELSE b[j - (k + 1)]
      BY <3>2, <2>1, <1>2
    <3> QED BY <3>1, <3>3, Zenon
  <2>3. CASE j <= k + 1
    BY <2>1, <2>2, <2>3
  <2>4. CASE j > k + 1
    <3>1. j - (k + 1) \in 1..(Len(s) - k) /\ k + (j - (k + 1)) = j - 1
      BY <2>4, <1>4
    <3> QED BY <3>1, <2>2, <2>4, <1>2
  <2> QED BY <2>3, <2>4
<1>6. DOMAIN q = 1..Len(q) /\ DOMAIN s = 1..Len(s)
  BY <1>4
<1>7. \A j \in 1..Len(s) : s[j] # e
  BY <1>6 DEF Range
<1>8. Range(q) = Range(s) \cup {e}
  <2>1. ASSUME NEW j \in 1..Len(q) PROVE q[j] \in Range(s) \cup {e}
    <3> DEFINE m == IF j <= k THEN j ELSE j - 1
    <3>1. j = k + 1 \/ m \in DOMAIN s
      BY <1>4, <1>6
    <3>2. q[j] = IF j = k + 1 THEN e ELSE s[m]
      BY <1>4, <1>5
    <3> HIDE DEF m
    <3> QED BY <3>1, <3>2 DEF Range
  <2>2. ASSUME NEW j \in 1..Len(s) PROVE s[j] \in Range(q)
    <3> DEFINE m == IF j <= k THEN j ELSE j + 1
    <3>1. m \in 1..Len(q) /\ q[m] = s[j]
      BY <1>4, <1>5
    <3> QED BY <3>1, <1>6 DEF Range
  <2>3. e \in Range(q)
    <3>1. k + 1 \in 1..Len(q) /\ q[k + 1] = e
      BY <1>4, <1>5
    <3> QED BY <3>1, <1>6 DEF Range
  <2> QED BY <2>1, <2>2, <2>3, <1>6 DEF Range
<1>9. IsInjective(q)
  <2> SUFFICES ASSUME NEW j \in 1..Len(q), NEW l \in 1..Len(q), q[j] = q[l]
               PROVE  j = l
    BY <1>6 DEF IsInjective
  <2>1. CASE j = k + 1 \/ l = k + 1
    BY <2>1, <1>4, <1>5, <1>7
  <2>2. CASE j # k + 1 /\ l # k + 1
    <3> DEFINE m == IF j <= k THEN j ELSE j - 1
               n == IF l <= k THEN l ELSE l - 1
    <3>1. m \in DOMAIN s /\ n \in DOMAIN s /\ s[m] = s[n]
      BY <2>2, <1>4, <1>5, <1>6
    <3>2. m = n
      BY <3>1 DEF IsInjective
    <3> QED BY <3>2, <2>2
  <2> QED BY <2>1, <2>2
<1> QED BY <1>4, <1>5, <1>8, <1>9

(* q is s without its first k elements. *)
IsRest(q, s, k) ==
    /\ Len(q) = Len(s) - k
    /\ \A j \in 1..Len(q) : q[j] = s[j + k]

(* The rest of a list behind its first k elements. *)
LEMMA SubSeqFacts ==
    ASSUME NEW S, NEW s \in Seq(S), NEW k \in 0..Len(s)
    PROVE  /\ SubSeq(s, k + 1, Len(s)) \in Seq(S)
           /\ Len(SubSeq(s, k + 1, Len(s))) = Len(s) - k
           /\ \A j \in 1..(Len(s) - k) : SubSeq(s, k + 1, Len(s))[j] = s[j + k]
OBVIOUS

(* Dropping the first k elements of a list without duplicates. *)
LEMMA SuffixFacts ==
    ASSUME NEW S, NEW s \in Seq(S), NEW k \in 0..Len(s), IsInjective(s), NEW q \in Seq(S),
           IsRest(q, s, k)
    PROVE  /\ \A x : x \in Range(q) <=> x \in Range(s) /\ \A i \in 1..k : x # s[i]
           /\ IsInjective(q)
<1>1. /\ Len(q) = Len(s) - k /\ DOMAIN q = 1..Len(q) /\ DOMAIN s = 1..Len(s)
      /\ Len(s) \in Nat
  BY DEF IsRest
<1>2. \A j \in 1..Len(q) : q[j] = s[j + k]
  BY DEF IsRest
<1>3. \A x : x \in Range(q) <=> x \in Range(s) /\ \A i \in 1..k : x # s[i]
  <2>1. ASSUME NEW j \in 1..Len(q), NEW i \in 1..k 
        PROVE  q[j] \in Range(s) /\ q[j] # s[i]
    <3>1. j + k \in DOMAIN s /\ i \in DOMAIN s /\ j + k # i
      BY <1>1
    <3>2. s[j + k] # s[i]
      BY <3>1 DEF IsInjective
    <3> QED BY <3>1, <3>2, <1>2 DEF Range
  <2>2. ASSUME NEW j \in 1..Len(q) PROVE q[j] \in Range(s)
    <3>1. j + k \in DOMAIN s
      BY <1>1
    <3> QED BY <3>1, <1>2 DEF Range
  <2>3. ASSUME NEW j \in 1..Len(s), \A i \in 1..k : s[j] # s[i] PROVE s[j] \in Range(q)
    <3>1. j \notin 1..k
      BY <2>3
    <3>2. j - k \in 1..Len(q) /\ q[j - k] = s[j]
      BY <3>1, <1>1, <1>2
    <3> QED BY <3>2, <1>1 DEF Range
  <2> TAKE x
  <2>4. ASSUME x \in Range(q) PROVE x \in Range(s) /\ \A i \in 1..k : x # s[i]
    <3>1. PICK j \in 1..Len(q) : x = q[j]
      BY <2>4, <1>1 DEF Range
    <3> QED BY <3>1, <2>1, <2>2
  <2>5. ASSUME x \in Range(s), \A i \in 1..k : x # s[i] PROVE x \in Range(q)
    <3>1. PICK j \in 1..Len(s) : x = s[j]
      BY <2>5, <1>1 DEF Range
    <3> QED BY <3>1, <2>3, <2>5
  <2> QED BY <2>4, <2>5
<1>4. IsInjective(q)
  <2> SUFFICES ASSUME NEW j \in 1..Len(q), NEW l \in 1..Len(q), q[j] = q[l]
               PROVE  j = l
    BY <1>1 DEF IsInjective
  <2>1. j + k \in DOMAIN s /\ l + k \in DOMAIN s /\ s[j + k] = s[l + k]
    BY <1>1, <1>2
  <2>2. j + k = l + k
    BY <2>1 DEF IsInjective
  <2> QED BY <2>2, <1>1
<1> QED BY <1>3, <1>4

------------------------------------------------------------------------------
(* Wait lists *)

(* Appending to a wait list. *)
LEMMA AppendFacts ==
    ASSUME NEW S, NEW l \in Seq(S), NEW e \in S
    PROVE  /\ Append(l, e) \in Seq(S)
           /\ Append(l, e) # << >>
           /\ Members(Append(l, e)) = Members(l) \cup {e}
           /\ Once(l) /\ e \notin Members(l) => Once(Append(l, e))
<1> DEFINE q == Append(l, e)
<1>1. /\ q \in Seq(S) /\ q # << >> /\ Len(q) = Len(l) + 1 /\ Len(l) \in Nat
      /\ \A i \in 1..Len(l) : q[i] = l[i]
      /\ q[Len(l) + 1] = e
  OBVIOUS
<1> HIDE DEF q
<1>2. \A i \in 1..Len(q) : i \in 1..Len(l) \/ i = Len(l) + 1
  BY <1>1
<1>3. \A i \in 1..Len(l) : i \in 1..Len(q)
  BY <1>1
<1>4. Len(l) + 1 \in 1..Len(q)
  BY <1>1
<1>5. Members(q) = Members(l) \cup {e}
  <2>1. ASSUME NEW i \in 1..Len(q) PROVE q[i] \in Members(l) \cup {e}
    BY <1>1, <1>2 DEF Members
  <2>2. ASSUME NEW i \in 1..Len(l) PROVE l[i] \in Members(q)
    BY <1>1, <1>3 DEF Members
  <2>3. e \in Members(q)
    BY <1>1, <1>4 DEF Members
  <2> QED BY <2>1, <2>2, <2>3 DEF Members
<1>6. ASSUME Once(l), e \notin Members(l) PROVE Once(q)
  <2>1. \A i \in 1..Len(l) : l[i] # e
    BY <1>6 DEF Members
  <2> SUFFICES ASSUME NEW i \in 1..Len(q), NEW j \in 1..Len(q), q[i] = q[j] PROVE i = j
    BY DEF Once
  <2>2. CASE i \in 1..Len(l) /\ j \in 1..Len(l)
    BY <2>2, <1>1, <1>6 DEF Once
  <2>3. CASE ~(i \in 1..Len(l) /\ j \in 1..Len(l))
    BY <2>1, <2>3, <1>1, <1>2
  <2> QED BY <2>2, <2>3
<1> QED BY <1>1, <1>5, <1>6 DEF q

(* Popping the first waiter. *)
LEMMA TailFacts ==
    ASSUME NEW S, NEW l \in Seq(S), l # << >>, Once(l)
    PROVE  /\ Head(l) \in S
           /\ Head(l) \in Members(l)
           /\ Tail(l) \in Seq(S)
           /\ Members(Tail(l)) = Members(l) \ {Head(l)}
           /\ Once(Tail(l))
<1> DEFINE q == Tail(l)
<1>1. /\ q \in Seq(S) /\ Len(q) = Len(l) - 1 /\ Len(l) \in Nat /\ Len(l) >= 1
      /\ Head(l) = l[1] /\ Head(l) \in S
      /\ \A i \in 1..Len(q) : q[i] = l[i + 1]
  OBVIOUS
<1> HIDE DEF q
<1>2. 1 \in 1..Len(l) /\ \A i \in 1..Len(q) : i + 1 \in 1..Len(l) /\ i + 1 # 1
  BY <1>1
<1>3. Head(l) \in Members(l)
  BY <1>1, <1>2 DEF Members
<1>4. Members(q) = Members(l) \ {Head(l)}
  <2>1. ASSUME NEW i \in 1..Len(q) PROVE q[i] \in Members(l) /\ q[i] # Head(l)
    <3>1. l[i + 1] # l[1]
      BY <1>2 DEF Once
    <3> QED BY <3>1, <1>1, <1>2 DEF Members
  <2>2. ASSUME NEW i \in 1..Len(l), l[i] # Head(l) PROVE l[i] \in Members(q)
    <3>1. i - 1 \in 1..Len(q) /\ q[i - 1] = l[i]
      BY <2>2, <1>1
    <3> QED BY <3>1 DEF Members
  <2> QED BY <2>1, <2>2 DEF Members
<1>5. Once(q)
  <2> SUFFICES ASSUME NEW i \in 1..Len(q), NEW j \in 1..Len(q), q[i] = q[j] PROVE i = j
    BY DEF Once
  <2>1. i + 1 = j + 1
    BY <1>1, <1>2 DEF Once
  <2> QED BY <2>1
<1> QED BY <1>1, <1>3, <1>4, <1>5 DEF q

(* The empty list. *)
LEMMA EmptyFacts == Members(<< >>) = {} /\ Once(<< >>)
  BY DEF Members, Once

(* A list without members is empty. *)
LEMMA MembersEmpty ==
    ASSUME NEW S, NEW l \in Seq(S), Members(l) = {}
    PROVE  l = << >>
<1> SUFFICES ASSUME l # << >> PROVE FALSE
  OBVIOUS
<1>1. 1 \in 1..Len(l)
  OBVIOUS
<1>2. l[1] \in Members(l)
  BY <1>1 DEF Members
<1> QED BY <1>2

------------------------------------------------------------------------------
(* Numbers *)

(* A nonempty set of natural numbers has a least element. *)
LEMMA LeastElement ==
    ASSUME NEW T \in SUBSET Nat, T # {}
    PROVE  \E x \in T : \A y \in T : x <= y
<1> DEFINE R == OpToRel(<, Nat)
<1>1. IsWellFoundedOn(R, Nat)
  BY NatLessThanWellFounded, Zenon
<1>2. \A y, x \in Nat : <<y, x>> \in R <=> y < x
  BY Zenon DEF OpToRel
<1> HIDE DEF R
<1>3. PICK x \in T : \A y \in T : ~(<<y, x>> \in R)
  BY <1>1, WFMin, Zenon
<1>4. ASSUME NEW y \in T PROVE x <= y
  <2>1. ~(y < x)
    BY <1>2, <1>3
  <2> QED BY <2>1
<1> QED BY <1>4

(* A nonempty bounded set of natural numbers has a greatest element. *)
LEMMA GreatestElement ==
    ASSUME NEW m \in Nat, NEW W \in SUBSET (0..m), W # {}
    PROVE  \E x \in W : \A y \in W : y <= x
<1> DEFINE T == {n \in Nat : \E w \in W : n = m - w}
<1>1. \A w \in W : w \in 0..m /\ m - w \in Nat
  OBVIOUS
<1>2. T \in SUBSET Nat /\ T # {} /\ \A w \in W : m - w \in T
  <2>1. \A w \in W : m - w \in T
    BY <1>1
  <2> QED BY <2>1
<1>3. \A n \in T : \E w \in W : n = m - w
  OBVIOUS
<1> HIDE DEF T
<1>4. PICK n \in T : \A k \in T : n <= k
  BY <1>2, LeastElement
<1>5. PICK w \in W : n = m - w
  BY <1>3
<1>6. ASSUME NEW y \in W PROVE y <= w
  <2>1. n <= m - y
    BY <1>2, <1>4
  <2> QED BY <2>1, <1>1, <1>5
<1> QED BY <1>6

------------------------------------------------------------------------------
(* Cutting a list *)

\* p are the first k elements of l and q the rest.
IsCut(l, k, p, q) == p = SubSeq(l, 1, k) /\ q = SubSeq(l, k + 1, Len(l))

(* A sequence cut behind its first k elements. *)
LEMMA SplitFacts ==
    ASSUME NEW S, NEW l \in Seq(S), NEW k \in 0..Len(l), NEW p, NEW q, IsCut(l, k, p, q)
    PROVE  /\ p \in Seq(S) /\ Len(p) = k
           /\ q \in Seq(S) /\ Len(q) = Len(l) - k
           /\ Len(l) \in Nat
           /\ \A i \in 1..k : p[i] = l[i]
           /\ \A i \in 1..(Len(l) - k) : q[i] = l[i + k]
  BY DEF IsCut

(* The first k tasks of a wait list and the rest. *)
LEMMA CutFacts ==
    ASSUME NEW S, NEW l \in Seq(S), NEW k \in 0..Len(l), Once(l), NEW p, NEW q, IsCut(l, k, p, q)
    PROVE  /\ q \in Seq(S) /\ Once(q)
           /\ Members(p) \subseteq Members(l)
           /\ Members(q) = Members(l) \ Members(p)
           /\ k = Len(l) => q = << >>
           /\ IsFiniteSet(Members(p)) /\ Cardinality(Members(p)) = k
<1>1. /\ p \in Seq(S) /\ Len(p) = k /\ q \in Seq(S) /\ Len(q) = Len(l) - k /\ Len(l) \in Nat
      /\ \A i \in 1..k : p[i] = l[i]
      /\ \A i \in 1..(Len(l) - k) : q[i] = l[i + k]
  BY DEF IsCut
<1>2. \A i \in 1..Len(l) : i \in 1..k \/ (i - k \in 1..Len(q) /\ l[i] = q[i - k])
  BY <1>1
<1>3. \A i \in 1..Len(q) : i + k \in 1..Len(l) /\ i + k \notin 1..k
  BY <1>1
<1>4. Members(p) = {l[i] : i \in 1..k}
  BY <1>1 DEF Members
<1>5. 1..k \subseteq 1..Len(l)
  BY <1>1
<1>6. Members(p) \subseteq Members(l)
  BY <1>4, <1>5 DEF Members
<1>7. Members(q) \subseteq Members(l) \ Members(p)
  <2> SUFFICES ASSUME NEW i \in 1..Len(q) PROVE q[i] \in Members(l) /\ q[i] \notin Members(p)
    BY DEF Members
  <2>1. q[i] = l[i + k] /\ i + k \in 1..Len(l)
    BY <1>1, <1>3
  <2>2. \A j \in 1..k : l[j] # l[i + k]
    BY <1>3, <1>5, <2>1 DEF Once
  <2> QED BY <2>1, <2>2, <1>4 DEF Members
<1>8. Members(l) \ Members(p) \subseteq Members(q)
  <2> SUFFICES ASSUME NEW i \in 1..Len(l), l[i] \notin Members(p) PROVE l[i] \in Members(q)
    BY DEF Members
  <2> QED BY <1>2, <1>4 DEF Members
<1>9. Once(q)
  <2> SUFFICES ASSUME NEW i \in 1..Len(q), NEW j \in 1..Len(q), q[i] = q[j] PROVE i = j
    BY DEF Once
  <2>1. l[i + k] = l[j + k] /\ i + k \in 1..Len(l) /\ j + k \in 1..Len(l)
    BY <1>1, <1>3
  <2>2. i + k = j + k
    BY <2>1 DEF Once
  <2> QED BY <2>2
<1>10. IsFiniteSet(Members(p)) /\ Cardinality(Members(p)) = k
  <2> DEFINE f == [i \in 1..k |-> l[i]]
  <2>1. f \in Surjection(1..k, Members(p))
    BY <1>4 DEF Surjection
  <2>2. f \in Injection(1..k, Members(p))
    <3>1. \A i, j \in 1..k : f[i] = f[j] => i = j
      BY <1>5 DEF Once
    <3> QED BY <2>1, <3>1 DEF Injection, IsInjective, Surjection
  <2>3. IsFiniteSet(1..k) /\ Cardinality(1..k) = k
    BY FS_Interval
  <2> HIDE DEF f
  <2>4. IsFiniteSet(Members(p)) /\ Cardinality(Members(p)) = Cardinality(1..k)
    BY <2>1, <2>2, <2>3, FS_Surjection
  <2> QED BY <2>3, <2>4, Zenon
<1>11. k = Len(l) => q = << >>
  BY <1>1
<1> QED BY <1>1, <1>6, <1>7, <1>8, <1>9, <1>10, <1>11

(* Sequences with the same elements in the same places are equal. *)
LEMMA SameSequence ==
    ASSUME NEW S, NEW s \in Seq(S), NEW r \in Seq(S), Len(s) = Len(r),
           \A i \in 1..Len(s) : s[i] = r[i]
    PROVE  s = r
  OBVIOUS
==============================================================================
