------------------------------- MODULE MCQueue -------------------------------
(* Three tasks, a queue of two items, arrays of one and of three items. *)
EXTENDS Queue

CONSTANTS a, b

MCArrays == {<<a>>, <<b, a, b>>}
==============================================================================
