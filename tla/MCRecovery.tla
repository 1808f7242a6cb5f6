----------------------------- MODULE MCRecovery -----------------------------
(***************************************************************************)
(* Recovery on small instances: a procedure that reads what another one    *)
(* updates, and one that updates both records.                             *)
(***************************************************************************)
EXTENDS Recovery

SmallProcedures ==
  {[reads |-> {1}, writes |-> {1}], [reads |-> {1, 2}, writes |-> {2}],
   [reads |-> {1, 2}, writes |-> {1, 2}]}
=============================================================================
