-------------------------------- MODULE Lists --------------------------------
(***************************************************************************)
(* The linked lists of the kernel as sequences: taking a node out, linking *)
(* a node in, and the order in which a list that is emptied node by node   *)
(* comes back as the head of another.                                      *)
(***************************************************************************)
EXTENDS Integers, Sequences, Functions

\* The list s without its node i.
Unlinked(s, i) == SubSeq(s, 1, i - 1) \o SubSeq(s, i + 1, Len(s))

\* The list s with e linked in as its node i.
LinkedIn(s, i, e) == SubSeq(s, 1, i - 1) \o <<e>> \o SubSeq(s, i, Len(s))

\* The list s, each node of which was pushed at the head of an empty list.
Drained(s) == [i \in 1..Len(s) |-> s[(Len(s) - i) + 1]]

\* The tasks of a wait list.
Members(l) == {l[i] : i \in 1..Len(l)}

\* No task is linked twice into a wait list.
Once(l) == \A i, j \in 1..Len(l) : l[i] = l[j] => i = j
==============================================================================
