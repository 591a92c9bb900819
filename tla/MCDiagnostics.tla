---------------------------- MODULE MCDiagnostics ----------------------------
(* Instances of Diagnostics for TLC.                                        *)
EXTENDS Diagnostics, TLC
==============================================================================
