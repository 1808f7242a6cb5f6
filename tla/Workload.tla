------------------------------ MODULE Workload ------------------------------
(***************************************************************************)
(* What the executor runs, in the benchmark it was started for: the setting *)
(* picks TPC-C or Smallbank, and the operators here are those of that      *)
(* module.                                                                 *)
(***************************************************************************)
EXTENDS Integers, FiniteSetsExt, SequencesExt

CONSTANTS
  Null,
  Warehouses, Districts, Customers, NewOrders, Items, Quantity, OlCnt,
  DrawnCustomers, DrawnQtys, DrawnAmounts, \* see Tpcc
  Accounts, Balance, DrawnAccounts         \* see Smallbank

VARIABLE
  setting \* [workload, drawn, placement, threads, txns], see HStore

T == INSTANCE Tpcc
S == INSTANCE Smallbank

IsTpcc == setting.workload = "TPCC"
n == setting.threads

Thread == 0..(n - 1)
Partition == Thread

Population       == IF IsTpcc THEN T!Population ELSE S!Population
Source(t)        ==
  {p \in IF IsTpcc THEN T!Source(t, n) ELSE S!Source(t, n) : p.type \in setting.drawn}
Procedure(db, p) == IF IsTpcc THEN T!Procedure(db, p) ELSE S!Procedure(db, p)
ReplyTo(db, p)   == IF IsTpcc THEN T!ReplyTo(db, p) ELSE S!ReplyTo(db, p)
Select(p, seen)  == IF IsTpcc THEN T!Select(p, seen) ELSE S!Select(p, seen)
Store(p, seen)   == IF IsTpcc THEN T!Store(p, seen) ELSE S!Store(p, seen)
Reply(p, seen)   == IF IsTpcc THEN T!Reply(p, seen) ELSE S!Reply(p, seen)
MayMiss(row)     == IF IsTpcc THEN T!MayMiss(row) ELSE S!MayMiss(row)
IsReplication(row) ==
  IF IsTpcc THEN T!IsReplication(row) ELSE S!IsReplication(row)
GetPartitionId(row) ==
  IF IsTpcc THEN T!GetPartitionId(row, n) ELSE S!GetPartitionId(row, n)
GetPartitionHashcode(row) ==
  IF IsTpcc THEN T!GetPartitionHashcode(row) ELSE S!GetPartitionHashcode(row)
StatementPartition(p, row) ==
  IF IsTpcc THEN T!StatementPartition(p, row, n) ELSE S!StatementPartition(p, row, n)
GetPartitionIds(p) ==
  IF IsTpcc THEN T!GetPartitionIds(p, n) ELSE S!GetPartitionIds(p, n)
=============================================================================
