------------------------------- MODULE MCOcc -------------------------------
(***************************************************************************)
(* Occ on small instances.                                                 *)
(***************************************************************************)
EXTENDS Occ, TLC

\* Threads and columns are interchangeable.
Symmetry == Permutations(Thread) \cup Permutations(Column)
=============================================================================
