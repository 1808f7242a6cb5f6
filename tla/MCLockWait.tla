----------------------------- MODULE MCLockWait -----------------------------
(***************************************************************************)
(* LockWait on small instances.                                            *)
(***************************************************************************)
EXTENDS LockWait

ThreadSymmetry == Permutations(Thread)
=============================================================================
