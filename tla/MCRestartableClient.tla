------------------------- MODULE MCRestartableClient -------------------------
(* Instances of RestartableClient for TLC; the goroutines are model values. *)
EXTENDS RestartableClient, TLC
==============================================================================
