--------------------------- MODULE MCFairScheduling ---------------------------
(* Three tasks, one of them heavier. *)
EXTENDS FairScheduling

MCBaseWeight == <<1, 2, 1>>
==============================================================================
