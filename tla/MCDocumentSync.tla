---------------------------- MODULE MCDocumentSync ----------------------------
(* Instances of DocumentSync for TLC; the timers are interchangeable.      *)
EXTENDS DocumentSync, TLC

TimerSymmetry == Permutations(Timers)
==============================================================================
