----------------------------- MODULE SingleServer -----------------------------
(***************************************************************************)
(* What the supervisor of a language server promises to the rest of the    *)
(* program: at most one server process lives at a time, servers come in    *)
(* generations, and the one in use is only ever replaced by a younger one  *)
(* after it has stopped.                                                   *)
(***************************************************************************)
EXTENDS Naturals

CONSTANT MaxGen

VARIABLES current, live

Init == current = 0 /\ live = {}

Launch(g) ==
  /\ live = {}
  /\ g > current
  /\ live' = {g}
  /\ current' \in {current, g}

Stop ==
  /\ live' = {}
  /\ UNCHANGED current

(* The new server takes over; it may have died in the meantime.            *)
TakeOver(g) ==
  /\ live \subseteq {g}
  /\ g > current
  /\ current' = g
  /\ UNCHANGED live

Next == \E g \in 1..MaxGen : Launch(g) \/ Stop \/ TakeOver(g)

Spec == Init /\ [][Next]_<<current, live>>
==============================================================================
