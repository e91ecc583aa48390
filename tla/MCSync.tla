------------------------------- MODULE MCSync --------------------------------
(* Four tasks of three weights, one mutex, one semaphore of two tokens. *)
EXTENDS Sync, TLC

CONSTANTS low, mid, high, top

Weights == (low :> 1) @@ (mid :> 2) @@ (high :> 3) @@ (top :> 3)
==============================================================================
