------------------------------ MODULE SyncProofs ------------------------------
(***************************************************************************)
(* The safety properties of Sync hold for every set of tasks, all weights  *)
(* and every semaphore.                                                    *)
(***************************************************************************)
EXTENDS Sync, ListLemmas

------------------------------------------------------------------------------
(* _get_max_waiter_weight finds the largest weight of the waiters. *)
LEMMA MaxWaiterWeightFacts ==
    ASSUME NEW w \in [Task -> 1..MAX_WEIGHT], NEW l \in Seq(Task)
    PROVE  /\ MaxWaiterWeight(w, l) \in 0..MAX_WEIGHT
           /\ l = << >> => MaxWaiterWeight(w, l) = 0
           /\ l # << >> => /\ MaxWaiterWeight(w, l) \in {w[u] : u \in Members(l)}
                           /\ \A u \in Members(l) : w[u] <= MaxWaiterWeight(w, l)
<1> DEFINE W == {w[u] : u \in Members(l)}
<1>1. Members(l) \subseteq Task
  BY DEF Members
<1>2. W \in SUBSET (0..MAX_WEIGHT) /\ MAX_WEIGHT \in Nat
  <2>1. \A u \in Members(l) : w[u] \in 0..MAX_WEIGHT
    BY <1>1 DEF MAX_WEIGHT
  <2>2. MAX_WEIGHT \in Nat
    BY DEF MAX_WEIGHT
  <2> QED BY <2>1, <2>2
<1>3. CASE l = << >>
  BY <1>3, <1>2 DEF MaxWaiterWeight
<1>4. CASE l # << >>
  <2>1. Members(l) # {}
    BY <1>4, MembersEmpty
  <2>2. W # {}
    BY Zenon, <2>1
  <2>3. \A u \in Members(l) : w[u] \in W
    OBVIOUS
  <2> DEFINE Best(x) == x \in W /\ \A y \in W : y <= x
  <2>4. MaxWaiterWeight(w, l) = CHOOSE x \in W : \A y \in W : y <= x
    BY <1>4, Zenon DEF MaxWaiterWeight
  <2> HIDE DEF W
  <2>5. \E x \in W : \A y \in W : y <= x
    BY Zenon, <1>2, <2>2, GreatestElement
  <2>6. MaxWaiterWeight(w, l) \in W /\ \A y \in W : y <= MaxWaiterWeight(w, l)
    BY <2>4, <2>5, Zenon
  <2>7. \A u \in Members(l) : w[u] <= MaxWaiterWeight(w, l)
    BY <2>3, <2>6, Zenon
  <2> QED BY <2>6, <2>7, <1>2, <1>4, Zenon DEF W
<1> QED BY <1>3, <1>4

------------------------------------------------------------------------------
(* The invariant *)

(* The owner never blocks, so it is in no wait list. *)
OwnerReady == owner # NULL => state[owner] = "READY"

IInv ==
  /\ TypeOK
  /\ MutualExclusion
  /\ WaitersExact
  /\ OwnerReady
  /\ InheritanceExact
  /\ TokensCovered

(* The invariant holds initially. *)
LEMMA InitInv == Init => IInv
<1> SUFFICES ASSUME Init PROVE IInv
  OBVIOUS
<1> USE DEF Init, MutexInit, SemInit
<1>1. TypeOK
  BY WeightAssumption, CountAssumption DEF TypeOK, MutexTypeOK, SemTypeOK
<1>2. MutualExclusion
  BY DEF MutualExclusion
<1>3. WaitersExact
  BY EmptyFacts DEF WaitersExact
<1>4. OwnerReady
  BY DEF OwnerReady
<1>5. InheritanceExact
  BY TaskAssumption DEF InheritanceExact
<1>6. TokensCovered
  BY DEF TokensCovered
<1> QED BY <1>1, <1>2, <1>3, <1>4, <1>5, <1>6 DEF IInv

(* Weights are natural numbers. *)
LEMMA WeightsNat ==
    ASSUME NEW w, w \in [Task -> 1..MAX_WEIGHT]
    PROVE  \A u \in Task : w[u] \in Nat
  BY DEF MAX_WEIGHT

(* The woken tasks are finitely many. *)
LEMMA WokenFinite == IsFiniteSet(Woken) /\ Cardinality(Woken) \in Nat
  BY TaskAssumption, FS_Subset, FS_CardinalityType DEF Woken

(* Steps that change neither the semaphore nor who is woken keep tokens covered. *)
LEMMA SameWoken ==
    ASSUME TokensCovered, UNCHANGED semVars, Woken' = Woken
    PROVE  TokensCovered'
  BY DEF TokensCovered, semVars

------------------------------------------------------------------------------
(* The steps of the mutex *)

(* so_mutex_lock granting the mutex. *)
LEMMA GrantedInv ==
    ASSUME IInv, NEW t \in Task, Ready(t), pc[t] \in {"run", "lock"}, MutexGranted(t),
           UNCHANGED semVars
    PROVE  IInv'
<1> USE DEF IInv
<1>1. t \notin Members(lockWaiters) /\ t \notin Members(semWaiters)
  BY DEF WaitersExact, Ready
<1>2. TypeOK'
  BY DEF TypeOK, MutexTypeOK, SemTypeOK, MutexGranted, semVars
<1>3. MutualExclusion'
  BY TaskAssumption DEF MutualExclusion, MutexGranted, TypeOK, MutexTypeOK
<1>4. WaitersExact'
  <2>1. \A u \in Task : pc'[u] = IF u = t THEN "run" ELSE pc[u]
    BY DEF MutexGranted, TypeOK
  <2>2. UNCHANGED <<state, lockWaiters, semWaiters>> /\ owner' # NULL
    BY TaskAssumption DEF MutexGranted, semVars
  <2> QED BY <2>1, <2>2, <1>1 DEF WaitersExact, Ready
<1>5. OwnerReady'
  BY DEF OwnerReady, MutexGranted, Ready
<1>6. InheritanceExact'
  <2>1. CASE owner = t
    BY <2>1 DEF InheritanceExact, MutexGranted
  <2>2. CASE owner = NULL
    <3>1. lockWaiters = << >> /\ lockWaiters' = << >> /\ weight' = weight /\ owner' = t
      BY <2>2 DEF WaitersExact, MutexGranted
    <3>2. \A u \in Task : weight[u] = BaseWeight[u]
      BY <2>2, TaskAssumption DEF InheritanceExact
    <3>3. \A u \in Task : BaseWeight[u] >= BaseWeight[u]
      BY WeightAssumption DEF MAX_WEIGHT
    <3> QED BY <3>1, <3>2, <3>3, EmptyFacts DEF InheritanceExact
  <2> QED BY <2>1, <2>2 DEF MutexGranted
<1>7. TokensCovered'
  <2>1. \A u \in Task : pc'[u] = IF u = t THEN "run" ELSE pc[u]
    BY DEF MutexGranted, TypeOK
  <2>2. Woken' = Woken
    BY <2>1 DEF Woken, MutexGranted
  <2> QED BY <2>2, SameWoken
<1> QED BY <1>2, <1>3, <1>4, <1>5, <1>6, <1>7

(* so_mutex_lock boosting the owner and blocking the caller. *)
LEMMA BlockedInv ==
    ASSUME IInv, NEW t \in Task, Ready(t), pc[t] \in {"run", "lock"}, MutexBlocked(t),
           UNCHANGED semVars
    PROVE  IInv'
<1> USE DEF IInv
<1>1. owner \in Task /\ owner # t /\ owner # NULL
  BY DEF MutexBlocked, TypeOK, MutexTypeOK
<1>2. t \notin Members(lockWaiters) /\ t \notin Members(semWaiters)
  BY DEF WaitersExact, Ready
<1>3. owner \notin Members(lockWaiters)
  BY <1>1 DEF WaitersExact, OwnerReady
<1>4. /\ lockWaiters' \in Seq(Task)
      /\ Members(lockWaiters') = Members(lockWaiters) \cup {t}
      /\ Once(lockWaiters')
  BY <1>2, AppendFacts DEF MutexBlocked, AddToWaitList, TypeOK, MutexTypeOK, WaitersExact
<1>5. /\ \A u \in Task : pc'[u] = IF u = t THEN "lock" ELSE pc[u]
      /\ \A u \in Task : state'[u] = IF u = t THEN "BLOCKED" ELSE state[u]
  BY DEF MutexBlocked, SetBlocked, TypeOK
<1>6. /\ \A u \in Task : u # owner => weight'[u] = weight[u]
      /\ weight'[owner] = IF weight[t] > weight[owner] THEN weight[t] ELSE weight[owner]
      /\ weight' \in [Task -> 1..MAX_WEIGHT]
  BY <1>1 DEF MutexBlocked, Boost, TypeOK, MutexTypeOK
<1>7. TypeOK'
  BY Zenon, <1>4, <1>6 DEF TypeOK, MutexTypeOK, SemTypeOK, MutexBlocked, SetBlocked, semVars
<1>8. MutualExclusion'
  BY DEF MutualExclusion, MutexBlocked
<1>9. WaitersExact'
  <2>1. semWaiters' = semWaiters /\ owner' = owner
    BY DEF MutexBlocked, semVars
  <2> QED BY <2>1, <1>1, <1>2, <1>4, <1>5 DEF WaitersExact, Ready
<1>10. OwnerReady'
  BY <1>1, <1>5 DEF OwnerReady, MutexBlocked
<1>11. InheritanceExact'
  <2>1. owner' = owner /\ weight[t] = BaseWeight[t]
    BY <1>1 DEF MutexBlocked, InheritanceExact
  <2>2. \A u \in Members(lockWaiters') : u \in Task /\ weight'[u] = weight[u]
    <3>1. Members(lockWaiters) \subseteq Task
      BY DEF Members, TypeOK, MutexTypeOK
    <3> QED BY <3>1, <1>1, <1>3, <1>4, <1>6
  <2>3. ASSUME NEW u \in Task, u # owner PROVE weight'[u] = BaseWeight[u]
    BY <2>3, <1>6 DEF InheritanceExact
  <2>4. /\ weight[owner] \in {BaseWeight[owner]} \cup {weight[u] : u \in Members(lockWaiters)}
        /\ weight[owner] >= BaseWeight[owner]
        /\ \A u \in Members(lockWaiters) : weight[owner] >= weight[u]
    BY <1>1 DEF InheritanceExact
  <2>5. weight'[owner] \in {BaseWeight[owner]} \cup {weight'[u] : u \in Members(lockWaiters')}
    <3>1. \A u \in Members(lockWaiters') : weight[u] \in {weight'[v] : v \in Members(lockWaiters')}
      BY <2>2
    <3> QED BY <3>1, <2>4, <1>4, <1>6
  <2>6. weight'[owner] >= weight[owner] /\ weight'[owner] >= weight[t]
    <3>1. weight[owner] \in Nat /\ weight[t] \in Nat
      <4>1. weight \in [Task -> 1..MAX_WEIGHT]
        BY DEF TypeOK, MutexTypeOK
      <4> QED BY <4>1, <1>1, WeightsNat, Zenon
    <3> QED BY <3>1, <1>6
  <2>7. /\ weight'[owner] >= BaseWeight[owner]
        /\ \A u \in Members(lockWaiters') : weight'[owner] >= weight'[u]
    <3>1. \A u \in Task : weight[u] \in Nat /\ BaseWeight[u] \in Nat /\ weight'[u] \in Nat
      <4>1. weight \in [Task -> 1..MAX_WEIGHT]
        BY DEF TypeOK, MutexTypeOK
      <4> QED BY <4>1, <1>6, WeightAssumption, WeightsNat, Zenon
    <3> QED BY <3>1, <2>2, <2>4, <2>6, <1>1, <1>4
  <2> QED BY <2>1, <2>3, <2>5, <2>7, Zenon DEF InheritanceExact
<1>12. TokensCovered'
  <2>1. Woken' = Woken
    BY <1>5 DEF Woken
  <2> QED BY <2>1, SameWoken
<1> QED BY <1>7, <1>8, <1>9, <1>10, <1>11, <1>12

(* so_mutex_unlock handing the mutex over to the first waiter. *)
LEMMA HandOverInv ==
    ASSUME IInv, NEW t \in Task, Ready(t), owner = t, MutexHandOver(t),
           holds' = [holds EXCEPT ![t] = FALSE], UNCHANGED <<pc, semVars>>
    PROVE  IInv'
<1> USE DEF IInv
<1> DEFINE next == Head(lockWaiters)
           rest == Tail(lockWaiters)
           restored == RestoreBaseWeight(weight, t)
           most == MaxWaiterWeight(restored, rest)
<1>1. /\ next \in Task /\ next \in Members(lockWaiters)
      /\ rest \in Seq(Task)
      /\ Members(rest) = Members(lockWaiters) \ {next}
      /\ Once(rest)
  BY TailFacts DEF MutexHandOver, TypeOK, MutexTypeOK, WaitersExact
<1>2. /\ owner' = next /\ lockWaiters' = rest /\ state' = Unblock({next})
      /\ weight' = Boost(restored, next, most)
  BY DEF MutexHandOver
<1>3. pc[next] = "lock" /\ state[next] = "BLOCKED" /\ next # t
  BY <1>1 DEF WaitersExact, Ready
<1>4. \A u \in Task : state'[u] = IF u = next THEN "READY" ELSE state[u]
  BY <1>2, <1>3 DEF Unblock
<1>5. /\ restored \in [Task -> 1..MAX_WEIGHT]
      /\ \A u \in Task : restored[u] = BaseWeight[u]
  BY Zenon, WeightAssumption DEF RestoreBaseWeight, TypeOK, MutexTypeOK, InheritanceExact
<1>6. /\ most \in 0..MAX_WEIGHT
      /\ rest = << >> => most = 0
      /\ rest # << >> => /\ most \in {restored[u] : u \in Members(rest)}
                         /\ \A u \in Members(rest) : restored[u] <= most
  BY Zenon, <1>1, <1>5, MaxWaiterWeightFacts
<1>7. UNCHANGED <<pc, semWaiters, count>>
  BY DEF semVars
<1> HIDE DEF next, rest, restored, most
<1>8. /\ \A u \in Task : u # next => weight'[u] = BaseWeight[u]
      /\ weight'[next] = IF most > BaseWeight[next] THEN most ELSE BaseWeight[next]
      /\ weight' \in [Task -> 1..MAX_WEIGHT]
  <2>1. CASE most > restored[next]
    <3>1. most \in 1..MAX_WEIGHT
      <4>1. restored[next] \in Nat
        BY <1>1, <1>5, WeightsNat
      <4>2. most \in 0..MAX_WEIGHT /\ MAX_WEIGHT \in Nat
        BY <1>6 DEF MAX_WEIGHT
      <4> QED BY <4>1, <4>2, <2>1
    <3> QED BY <2>1, <3>1, <1>1, <1>2, <1>5 DEF Boost
  <2>2. CASE ~(most > restored[next])
    BY <2>2, <1>1, <1>2, <1>5 DEF Boost
  <2> QED BY <2>1, <2>2
<1>9. TypeOK'
  <2>1. state' \in [Task -> {"READY", "BLOCKED"}]
    BY <1>2 DEF TypeOK, Unblock
  <2> QED BY Zenon, <2>1, <1>1, <1>2, <1>7, <1>8 DEF TypeOK, MutexTypeOK, SemTypeOK
<1>10. MutualExclusion'
  BY DEF MutualExclusion, TypeOK, MutexTypeOK
<1>11. WaitersExact'
  <2>1. owner' # NULL
    BY <1>1, <1>2, TaskAssumption
  <2> QED BY Zenon, <2>1, <1>1, <1>2, <1>3, <1>4, <1>7 DEF WaitersExact
<1>12. OwnerReady'
  BY Zenon, <1>1, <1>2, <1>4 DEF OwnerReady
<1>13. InheritanceExact'
  <2>1. \A u \in Members(rest) : u \in Task /\ u # next /\ weight'[u] = BaseWeight[u] /\ restored[u] = BaseWeight[u]
    <3>1. Members(rest) \subseteq Task
      BY <1>1 DEF Members
    <3> QED BY <3>1, <1>1, <1>5, <1>8
  <2>2. \A u \in Task : BaseWeight[u] \in Nat
    BY WeightAssumption, WeightsNat, Zenon
  <2>3. weight'[next] \in {BaseWeight[next]} \cup {weight'[u] : u \in Members(rest)}
    <3>1. CASE rest = << >>
      BY <3>1, <1>1, <1>6, <1>8, <2>2
    <3>2. CASE rest # << >>
      <4>1. PICK u \in Members(rest) : most = restored[u]
        BY <3>2, <1>6, Zenon
      <4>2. most = weight'[u]
        BY <4>1, <2>1
      <4> QED BY <4>2, <1>8
    <3> QED BY <3>1, <3>2
  <2>4. weight'[next] >= BaseWeight[next] /\ weight'[next] >= most
    <3>1. BaseWeight[next] \in Nat
      BY <1>1, <2>2
    <3>2. most \in 0..MAX_WEIGHT /\ MAX_WEIGHT \in Nat
      BY <1>6 DEF MAX_WEIGHT
    <3>3. weight'[next] = IF most > BaseWeight[next] THEN most ELSE BaseWeight[next]
      BY <1>8
    <3> HIDE DEF IInv
    <3> QED BY <3>1, <3>2, <3>3
  <2>5. ASSUME NEW u \in Members(rest) PROVE weight'[next] >= weight'[u]
    <3>1. rest # << >>
      BY EmptyFacts
    <3>2. weight'[u] <= most /\ weight'[u] \in Nat /\ most \in Nat
      BY Zenon, <3>1, <2>1, <2>2, <1>6 DEF MAX_WEIGHT
    <3>3. weight'[next] \in Nat
      BY <1>1, <1>8, WeightsNat
    <3> QED BY <3>2, <3>3, <2>4
  <2> QED BY <2>3, <2>4, <2>5, <1>1, <1>2, <1>8, Zenon DEF InheritanceExact
<1>14. TokensCovered'
  <2>1. Woken' = Woken
    BY <1>3, <1>4, <1>7 DEF Woken
  <2> QED BY <2>1, SameWoken
<1> QED BY <1>9, <1>10, <1>11, <1>12, <1>13, <1>14

(* so_mutex_unlock without waiters. *)
LEMMA FreeInv ==
    ASSUME IInv, NEW t \in Task, Ready(t), owner = t, MutexFree(t),
           holds' = [holds EXCEPT ![t] = FALSE], UNCHANGED <<pc, semVars>>
    PROVE  IInv'
<1> USE DEF IInv
<1>1. /\ weight' \in [Task -> 1..MAX_WEIGHT]
      /\ \A u \in Task : weight'[u] = BaseWeight[u]
  BY Zenon, WeightAssumption DEF MutexFree, RestoreBaseWeight, TypeOK, MutexTypeOK, InheritanceExact
<1>2. TypeOK'
  BY Zenon, <1>1 DEF TypeOK, MutexTypeOK, SemTypeOK, MutexFree, semVars
<1>3. MutualExclusion'
  BY DEF MutualExclusion, TypeOK, MutexTypeOK
<1>4. WaitersExact'
  BY DEF WaitersExact, MutexFree, semVars
<1>5. OwnerReady'
  BY DEF OwnerReady, MutexFree
<1>6. InheritanceExact'
  BY <1>1, TaskAssumption DEF InheritanceExact, MutexFree
<1>7. TokensCovered'
  <2>1. Woken' = Woken
    BY DEF Woken, MutexFree
  <2> QED BY <2>1, SameWoken
<1> QED BY <1>2, <1>3, <1>4, <1>5, <1>6, <1>7

------------------------------------------------------------------------------
(* The steps of the semaphore *)

(* What a step that leaves the mutex alone has to keep of it. *)
LEMMA MutexKept ==
    ASSUME IInv, UNCHANGED mutexVars, owner # NULL => state'[owner] = "READY"
    PROVE  MutexTypeOK' /\ MutualExclusion' /\ OwnerReady' /\ InheritanceExact'
  BY DEF IInv, TypeOK, mutexVars, MutexTypeOK, MutualExclusion, OwnerReady, InheritanceExact

(* so_sem_wait taking a token: the taker may be a woken task. *)
LEMMA SemTakenInv ==
    ASSUME IInv, NEW t \in Task, Ready(t), pc[t] \in {"run", "wait"}, SemTaken(t),
           UNCHANGED mutexVars
    PROVE  IInv'
<1>1. MutexTypeOK' /\ MutualExclusion' /\ OwnerReady' /\ InheritanceExact'
  BY MutexKept DEF IInv, OwnerReady, SemTaken
<1> USE DEF IInv
<1>2. count \in Nat /\ count' \in Nat /\ count' = count - 1 /\ count' \in 0..MaxCount
  BY CountAssumption DEF SemTaken, TypeOK, SemTypeOK
<1>3. TypeOK'
  BY <1>1, <1>2 DEF SemTaken, TypeOK, SemTypeOK
<1>4. t \notin Members(lockWaiters) /\ t \notin Members(semWaiters)
  BY DEF WaitersExact, Ready
<1>5. WaitersExact'
  <2>1. \A u \in Task : pc'[u] = IF u = t THEN "run" ELSE pc[u]
    BY DEF SemTaken, TypeOK
  <2> QED BY <2>1, <1>4 DEF WaitersExact, SemTaken, mutexVars, Ready
<1>6. TokensCovered'
  <2> SUFFICES ASSUME semWaiters # << >> PROVE count' <= Cardinality(Woken')
    BY DEF TokensCovered, SemTaken
  <2>1. Woken' = Woken \ {t}
    BY DEF Woken, SemTaken, TypeOK, Ready
  <2>2. Cardinality(Woken \ {t}) = IF t \in Woken THEN Cardinality(Woken) - 1 ELSE Cardinality(Woken)
    BY Zenon, WokenFinite, FS_RemoveElement
  <2>3. count <= Cardinality(Woken)
    BY DEF TokensCovered
  <2> HIDE DEF IInv
  <2> QED BY <2>1, <2>2, <2>3, <1>2, WokenFinite
<1> QED BY <1>1, <1>3, <1>5, <1>6

(* so_sem_wait blocking: the count is zero, so no token is left behind. *)
LEMMA SemBlockedInv ==
    ASSUME IInv, NEW t \in Task, Ready(t), pc[t] \in {"run", "wait"}, owner # t, SemBlocked(t),
           UNCHANGED mutexVars
    PROVE  IInv'
<1> USE DEF IInv
<1>1. \A u \in Task : /\ pc'[u] = IF u = t THEN "wait" ELSE pc[u]
                      /\ state'[u] = IF u = t THEN "BLOCKED" ELSE state[u]
  BY DEF SemBlocked, SetBlocked, TypeOK
<1>2. MutexTypeOK' /\ MutualExclusion' /\ OwnerReady' /\ InheritanceExact'
  <2>1. owner # NULL => state'[owner] = "READY"
    BY <1>1 DEF OwnerReady, TypeOK, MutexTypeOK
  <2> QED BY <2>1, MutexKept
<1>3. t \notin Members(lockWaiters) /\ t \notin Members(semWaiters)
  BY DEF WaitersExact, Ready
<1>4. /\ semWaiters' \in Seq(Task) /\ Once(semWaiters')
      /\ Members(semWaiters') = Members(semWaiters) \cup {t}
  BY <1>3, AppendFacts DEF SemBlocked, TypeOK, SemTypeOK, WaitersExact
<1>5. TypeOK'
  BY <1>2, <1>4 DEF SemBlocked, SetBlocked, TypeOK, SemTypeOK
<1>6. WaitersExact'
  BY <1>1, <1>3, <1>4 DEF WaitersExact, SemBlocked, mutexVars
<1>7. TokensCovered'
  <2>1. Woken' \subseteq Woken /\ count' = 0
    BY <1>1 DEF Woken, SemBlocked
  <2>2. Cardinality(Woken') \in Nat
    BY <2>1, WokenFinite, FS_Subset, FS_CardinalityType
  <2> QED BY <2>1, <2>2 DEF TokensCovered
<1> QED BY <1>2, <1>5, <1>6, <1>7

(* Adding tokens adds at most as many, and keeps the type of the count. *)
LEMMA AddTokensFacts ==
    ASSUME count \in 0..MaxCount, NEW n \in Nat
    PROVE  AddTokens(n) \in 0..MaxCount /\ AddTokens(n) <= count + n
  BY CountAssumption DEF AddTokens

(* so_sem_signal: the token it adds is covered by the task it wakes. *)
LEMMA SemSignalInv ==
    ASSUME IInv, SemSignal, UNCHANGED mutexVars
    PROVE  IInv'
<1> USE DEF IInv
<1>1. count \in 0..MaxCount /\ count' \in 0..MaxCount /\ count' <= count + 1
  BY AddTokensFacts DEF SemSignal, TypeOK, SemTypeOK
<1>2. CASE semWaiters = << >>
  <2>1. UNCHANGED <<state, pc, semWaiters>>
    BY <1>2 DEF SemSignal, PopFromWaitList
  <2>2. MutexTypeOK' /\ MutualExclusion' /\ OwnerReady' /\ InheritanceExact'
    BY <2>1, MutexKept DEF OwnerReady
  <2>3. TypeOK'
    BY <2>1, <2>2, <1>1 DEF TypeOK, SemTypeOK
  <2>4. WaitersExact' /\ TokensCovered'
    BY <2>1, <1>2 DEF WaitersExact, TokensCovered, mutexVars
  <2> QED BY <2>2, <2>3, <2>4
<1>3. CASE semWaiters # << >>
  <2> DEFINE next == Head(semWaiters)
  <2>1. /\ next \in Task /\ next \in Members(semWaiters)
        /\ semWaiters' \in Seq(Task) /\ Once(semWaiters')
        /\ Members(semWaiters') = Members(semWaiters) \ {next}
        /\ state' = Unblock({next}) /\ UNCHANGED pc
    BY <1>3, TailFacts DEF SemSignal, PopFromWaitList, TypeOK, SemTypeOK, WaitersExact
  <2> HIDE DEF next
  <2>2. pc[next] = "wait" /\ state[next] = "BLOCKED"
    BY <2>1 DEF WaitersExact
  <2>3. \A u \in Task : state'[u] = IF u = next THEN "READY" ELSE state[u]
    BY <2>1, <2>2 DEF Unblock
  <2>4. MutexTypeOK' /\ MutualExclusion' /\ OwnerReady' /\ InheritanceExact'
    <3>1. owner # NULL => state'[owner] = "READY"
      BY <2>3 DEF OwnerReady, TypeOK, MutexTypeOK
    <3> QED BY <3>1, MutexKept
  <2>5. TypeOK'
    BY <2>1, <2>4, <1>1 DEF TypeOK, SemTypeOK, Unblock
  <2>6. WaitersExact'
    BY Zenon, <2>1, <2>2, <2>3 DEF WaitersExact, mutexVars
  <2>7. TokensCovered'
    <3>1. Woken' = Woken \cup {next} /\ next \notin Woken
      BY Zenon, <2>1, <2>2, <2>3 DEF Woken
    <3>2. Cardinality(Woken \cup {next}) = Cardinality(Woken) + 1
      BY <3>1, WokenFinite, FS_AddElement
    <3>3. count <= Cardinality(Woken)
      BY <1>3 DEF TokensCovered
    <3>4. count' <= Cardinality(Woken')
      <4> HIDE DEF IInv
      <4> QED BY <3>1, <3>2, <3>3, <1>1, WokenFinite, CountAssumption
    <3> QED BY <3>4 DEF TokensCovered
  <2> QED BY <2>4, <2>5, <2>6, <2>7
<1> QED BY <1>2, <1>3

(* so_sem_broadcast empties the list. *)
LEMMA SemBroadcastInv ==
    ASSUME IInv, SemBroadcast, UNCHANGED mutexVars
    PROVE  IInv'
<1> USE DEF IInv
<1>1. count' \in 0..MaxCount
  BY AddTokensFacts DEF SemBroadcast, TypeOK, SemTypeOK
<1>2. \A u \in Task : state'[u] = IF u \in Members(semWaiters) THEN "READY" ELSE state[u]
  BY DEF SemBroadcast, Unblock, WaitersExact, TypeOK
<1>3. MutexTypeOK' /\ MutualExclusion' /\ OwnerReady' /\ InheritanceExact'
  <2>1. owner # NULL => state'[owner] = "READY"
    BY <1>2 DEF OwnerReady, TypeOK, MutexTypeOK
  <2> QED BY <2>1, MutexKept
<1>4. TypeOK'
  BY <1>1, <1>3 DEF TypeOK, SemTypeOK, SemBroadcast, Unblock
<1>5. WaitersExact'
  BY <1>2, EmptyFacts DEF WaitersExact, SemBroadcast, mutexVars
<1>6. TokensCovered'
  BY DEF TokensCovered, SemBroadcast
<1> QED BY <1>3, <1>4, <1>5, <1>6

------------------------------------------------------------------------------
(* The invariant and the theorems *)

(* Every step of Sync keeps the invariant: one lemma per branch of each    *)
(* call.                                                                   *)
LEMMA NextInv == IInv /\ [Next]_vars => IInv'
<1> SUFFICES ASSUME IInv, [Next]_vars PROVE IInv'
  OBVIOUS
<1>1. ASSUME NEW t \in Task, MutexLock(t), UNCHANGED semVars PROVE IInv'
  BY <1>1, GrantedInv, BlockedInv DEF MutexLock
<1>2. ASSUME NEW t \in Task, MutexUnlock(t), UNCHANGED semVars PROVE IInv'
  BY Zenon, <1>2, HandOverInv, FreeInv DEF MutexUnlock
<1>3. ASSUME UNCHANGED vars PROVE IInv'
  BY <1>3 DEF IInv, vars, mutexVars, semVars, TypeOK, MutexTypeOK, SemTypeOK,
     MutualExclusion, WaitersExact, OwnerReady, InheritanceExact, TokensCovered, Woken
<1>4. ASSUME NEW t \in Task, MutexUnlockRefused(t), UNCHANGED semVars PROVE IInv'
  BY <1>3, <1>4 DEF MutexUnlockRefused, vars
<1>5. ASSUME NEW t \in Task, owner # t, SemWait(t), UNCHANGED mutexVars PROVE IInv'
  BY <1>5, SemTakenInv, SemBlockedInv DEF SemWait
<1>6. ASSUME SemSignal, UNCHANGED mutexVars PROVE IInv'
  BY <1>6, SemSignalInv
<1>7. ASSUME SemBroadcast, UNCHANGED mutexVars PROVE IInv'
  BY <1>7, SemBroadcastInv
<1> QED BY <1>1, <1>2, <1>3, <1>4, <1>5, <1>6, <1>7 DEF Next

(* The invariant holds of every behaviour. *)
LEMMA Invariance == Spec => []IInv
  BY InitInv, NextInv, PTL DEF Spec

(* Mutual exclusion of so_mutex_lock and so_mutex_unlock: however many     *)
(* tasks compete, one that returned from so_mutex_lock owns the mutex.     *)
THEOREM MutexExcludes == Spec => []MutualExclusion
<1>1. IInv => MutualExclusion
  BY DEF IInv
<1> QED BY <1>1, Invariance, PTL

(* Weight inheritance of mutex.c is exact for all base weights: the owner  *)
(* never runs below a waiter, and no boost outlives its cause.             *)
THEOREM InheritanceCorrect == Spec => []InheritanceExact
<1>1. IInv => InheritanceExact
  BY DEF IInv
<1> QED BY <1>1, Invariance, PTL

(* The wait lists of mutex.c and semaphore.c hold exactly the tasks blocked *)
(* in them, each once, though both link the same wait_node.                *)
THEOREM WaitListsCorrect == Spec => []WaitersExact
<1>1. IInv => WaitersExact
  BY DEF IInv
<1> QED BY <1>1, Invariance, PTL

(* No token of so_sem_signal or so_sem_broadcast lies idle while a task    *)
(* sleeps for it, for every initial and maximal count.                     *)
THEOREM NoTokenLost == Spec => []TokensCovered
<1>1. IInv => TokensCovered
  BY DEF IInv
<1> QED BY <1>1, Invariance, PTL
==============================================================================
