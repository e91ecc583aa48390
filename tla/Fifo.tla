-------------------------------- MODULE Fifo ---------------------------------
(***************************************************************************)
(* What a queue promises its users, whatever its buffer and wait lists     *)
(* look like: items leave in the order they entered, none is lost, doubled *)
(* or altered, an array is entered in order, as much of it at a time as    *)
(* fits, and at most Capacity items are held.                              *)
(***************************************************************************)
EXTENDS Naturals, Sequences

CONSTANTS Task, Item, Capacity, Arrays

VARIABLES
    items,      \* the contents, oldest first
    todo,       \* what each task still has to enter
    last        \* the item that was handed out last

fifoVars == <<items, todo, last>>

Init ==
  /\ items = << >>
  /\ todo = [t \in Task |-> << >>]
  /\ last \in Item

Space == Capacity - Len(items)

Least(m, n) == IF m < n THEN m ELSE n

Request(t) ==
  /\ todo[t] = << >>
  /\ \E s \in Arrays : todo' = [todo EXCEPT ![t] = s]
  /\ UNCHANGED <<items, last>>

Enter(t) ==
  LET n == Least(Space, Len(todo[t]))
  IN  /\ n > 0
      /\ items' = items \o SubSeq(todo[t], 1, n)
      /\ todo' = [todo EXCEPT ![t] = SubSeq(@, n + 1, Len(@))]
      /\ UNCHANGED last

EnterOne ==
  /\ Space > 0
  /\ \E x \in Item : items' = Append(items, x)
  /\ UNCHANGED <<todo, last>>

Leave ==
  /\ items # << >>
  /\ last' = Head(items)
  /\ items' = Tail(items)
  /\ UNCHANGED todo

Look ==
  /\ items # << >>
  /\ last' = Head(items)
  /\ UNCHANGED <<items, todo>>

Clear ==
  /\ items' = << >>
  /\ UNCHANGED <<todo, last>>

Next ==
  \/ \E t \in Task : Request(t) \/ Enter(t)
  \/ EnterOne \/ Leave \/ Look \/ Clear

Spec == Init /\ [][Next]_fifoVars
==============================================================================
