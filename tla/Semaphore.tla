------------------------------ MODULE Semaphore ------------------------------
(***************************************************************************)
(* kernel/src/semaphore.c: a counting semaphore.  A signal wakes the first *)
(* waiter and adds a token; the woken task has to take the token itself,   *)
(* so another task may take it first, and the woken one then queues again  *)
(* at the tail.  Signals and broadcasts come from tasks and interrupts.    *)
(***************************************************************************)
EXTENDS Tasks

CONSTANTS InitialCount, MaxCount

ASSUME CountAssumption ==
  /\ InitialCount \in Nat
  /\ MaxCount \in Nat
  /\ InitialCount <= MaxCount

VARIABLES count, semWaiters

semVars == <<count, semWaiters>>

SemTypeOK ==
  /\ count \in 0..MaxCount
  /\ semWaiters \in Seq(Task)

SemInit ==
  /\ count = InitialCount
  /\ semWaiters = << >>

\* so_sem_wait takes a token and returns.
SemTaken(t) ==
  /\ count > 0
  /\ count' = count - 1
  /\ pc' = [pc EXCEPT ![t] = "run"]
  /\ UNCHANGED <<state, semWaiters>>

\* so_sem_wait queues the caller and blocks it.
SemBlocked(t) ==
  /\ count = 0
  /\ semWaiters' = Append(semWaiters, t)
  /\ state' = SetBlocked(t)
  /\ pc' = [pc EXCEPT ![t] = "wait"]
  /\ UNCHANGED count

\* One locked section of so_sem_wait, on the call or after a wake-up.
SemWait(t) ==
  /\ Ready(t)
  /\ pc[t] \in {"run", "wait"}
  /\ SemTaken(t) \/ SemBlocked(t)

\* _pop_from_wait_list
PopFromWaitList(l) == IF l = << >> THEN l ELSE Tail(l)

\* n more tokens, capped at max_count.
AddTokens(n) == IF count + n <= MaxCount THEN count + n ELSE MaxCount

\* Variant: the waiter is woken by a signal only when the count was zero.
SemSignalOnEdge ==
  /\ semWaiters' = IF count = 0 THEN PopFromWaitList(semWaiters) ELSE semWaiters
  /\ state' = IF semWaiters = << >> \/ count > 0 THEN state ELSE Unblock({Head(semWaiters)})
  /\ count' = AddTokens(1)
  /\ UNCHANGED pc

\* so_sem_signal.
SemSignal ==
  /\ semWaiters' = PopFromWaitList(semWaiters)
  /\ state' = IF semWaiters = << >> THEN state ELSE Unblock({Head(semWaiters)})
  /\ count' = AddTokens(1)
  /\ UNCHANGED pc

\* so_sem_broadcast: one token for each task woken.
SemBroadcast ==
  /\ semWaiters' = << >>
  /\ state' = Unblock(Members(semWaiters))
  /\ count' = AddTokens(Len(semWaiters))
  /\ UNCHANGED pc

------------------------------------------------------------------------------
\* Tasks woken by a signal that have not yet tried to take a token.
Woken == {t \in Task : pc[t] = "wait" /\ state[t] = "READY"}

(* No token lies idle while a task sleeps for it: if tasks are queued, each *)
(* token left has a woken task on its way to take it.  A signal that came   *)
(* between a wake-up and the retry must not be absorbed.                    *)
TokensCovered == semWaiters # << >> => count <= Cardinality(Woken)

(* A token that is free while tasks wait is taken, or the list drains.      *)
TokenUsed == (count > 0 /\ semWaiters # << >>) ~> (count = 0 \/ semWaiters = << >>)
==============================================================================
