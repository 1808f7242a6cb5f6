-------------------------------- MODULE MCTo --------------------------------
(***************************************************************************)
(* To on small instances.                                                  *)
(***************************************************************************)
EXTENDS To, TLC

ThreadSymmetry == Permutations(Thread)
=============================================================================
