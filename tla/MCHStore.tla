------------------------------ MODULE MCHStore ------------------------------
(***************************************************************************)
(* HStore on small instances.  TPC-C with three warehouses, for a supply   *)
(* from another partition above and below one's own.  A second transaction *)
(* of the first thread is a delivery that finds no new order, and sets the *)
(* pointer back.  Where rows are hashed the first procedure dies, and      *)
(* there is one.  Smallbank on two partitions.                             *)
(***************************************************************************)
EXTENDS HStore

TpccTypes == {"NEW_ORDER", "PAYMENT", "DELIVERY"}
SmallbankTypes == S!SingleTypes \union S!PairTypes

SmallSettings ==
  [workload : {"TPCC"}, drawn : {TpccTypes}, placement : {"override"},
   threads : {3}, txns : {3}]
  \union
  [workload : {"TPCC"}, drawn : {{"DELIVERY"}}, placement : {"override"},
   threads : {3}, txns : {4}]
  \union
  [workload : {"TPCC"}, drawn : {TpccTypes}, placement : {"hash"}, threads : {3},
   txns : {1}]
  \union
  [workload : {"SMALLBANK"}, drawn : {SmallbankTypes}, placement : {"override"},
   threads : {2}, txns : {2}]
  \union
  [workload : {"SMALLBANK"}, drawn : {SmallbankTypes}, placement : {"hash"},
   threads : {2}, txns : {1}]
=============================================================================
