---------------------------- MODULE MCEventGroup -----------------------------
(* Two event bits and the waits that tell the paths apart. *)
EXTENDS EventGroup

W(b, all, clear, timeout) ==
  [bits |-> b, all |-> all, clear |-> clear, timeout |-> timeout]

\* Waits for one bit, for any and for all of two, timed and untimed.
BlockingWaits ==
  {W({1}, FALSE, TRUE, "ticks"), W({1, 2}, FALSE, FALSE, "max"),
   W({1, 2}, TRUE, TRUE, "ticks")}

TimedWaits == {W({1}, FALSE, TRUE, "ticks")}
ClearingWaits == {W({1}, FALSE, TRUE, "max")}
==============================================================================
