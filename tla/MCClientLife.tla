----------------------------- MODULE MCClientLife -----------------------------
(* Instances of ClientLife for TLC.                                        *)
EXTENDS ClientLife
==============================================================================
