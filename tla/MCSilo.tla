------------------------------- MODULE MCSilo -------------------------------
(***************************************************************************)
(* Silo on small instances.                                                *)
(***************************************************************************)
EXTENDS Silo, TLC

\* Threads and columns are interchangeable.
Symmetry == Permutations(Thread) \cup Permutations(Column)
=============================================================================
