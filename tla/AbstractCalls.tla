---------------------------- MODULE AbstractCalls ----------------------------
(***************************************************************************)
(* What Client.Call promises: a call that has begun ends once, with the    *)
(* server's answer to this very request, or with an error whose cause is   *)
(* real: the caller's context is done; the server has died or has sent     *)
(* what cannot be read; or, for a request that was not written, the server *)
(* has died or the client is being closed.                                 *)
(***************************************************************************)
CONSTANT Calls

VARIABLES outcome,   \* "none", then how the call has ended
          begun,     \* calls whose request has an id
          served,    \* calls whose request the server has answered
          stopped,   \* calls whose context is done
          down,      \* the server process has exited
          garbled,   \* it has sent a message that cannot be read
          shut       \* the client has closed the server's stdin

causes == <<stopped, down, garbled, shut>>
vars == <<outcome, begun, served, causes>>

Init ==
  /\ outcome = [c \in Calls |-> "none"]
  /\ begun = {} /\ served = {} /\ stopped = {}
  /\ down = FALSE /\ garbled = FALSE /\ shut = FALSE

Begin(c) ==
  /\ begun' = begun \cup {c}
  /\ UNCHANGED <<outcome, served, causes>>

Serve(c) ==
  /\ c \in begun
  /\ served' = served \cup {c}
  /\ UNCHANGED <<outcome, begun, causes>>

StopCaller(c) ==
  /\ stopped' = stopped \cup {c}
  /\ UNCHANGED <<outcome, begun, served, down, garbled, shut>>

GoDown ==
  /\ down' = TRUE
  /\ UNCHANGED <<outcome, begun, served, stopped, garbled, shut>>

Garble ==
  /\ garbled' = TRUE
  /\ UNCHANGED <<outcome, begun, served, stopped, down, shut>>

Shut ==
  /\ shut' = TRUE
  /\ UNCHANGED <<outcome, begun, served, stopped, down, garbled>>

Ends(c, o) ==
  /\ c \in begun
  /\ outcome[c] = "none"
  /\ o = "answer" => c \in served
  /\ o = "dead" => down \/ garbled
  /\ o = "unsent" => down \/ shut
  /\ o = "cancelled" => c \in stopped
  /\ outcome' = [outcome EXCEPT ![c] = o]
  /\ UNCHANGED <<begun, served, causes>>

Next ==
  \/ \E c \in Calls : Begin(c) \/ Serve(c) \/ StopCaller(c)
  \/ GoDown \/ Garble \/ Shut
  \/ \E c \in Calls, o \in {"answer", "dead", "unsent", "cancelled"} : Ends(c, o)

Spec == Init /\ [][Next]_vars
==============================================================================
