-------------------------------- MODULE MCRpc --------------------------------
(* Instances of Rpc for TLC; the calls are interchangeable.                *)
EXTENDS Rpc, TLC

CallSymmetry == Permutations(Calls)
==============================================================================
