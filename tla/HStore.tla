------------------------------- MODULE HStore -------------------------------
(***************************************************************************)
(* The partitioned executor: HStoreExecutor.h with HStoreContent.h, over   *)
(* the partitions of ShardTable.h and the transaction manager without      *)
(* concurrency control (TransactionManagerST.tpp).                         *)
(*                                                                         *)
(* Every thread owns a partition and a spin lock.  It locks the partitions *)
(* that a procedure's parameters name, in ascending order, runs the        *)
(* procedure statement by statement on the records in place, and unlocks   *)
(* them.  The thread that ends its parameters first sets is_finish_, and   *)
(* every other one stops after the procedure it is in.                     *)
(*                                                                         *)
(* Where a row is stored is decided when the tables are loaded.  The       *)
(* benchmarks' tables say it by functions that hide those of ShardTable,   *)
(* which are not virtual: "override" is what they say, "hash" what the     *)
(* call in ShardTable does.  A procedure follows the record of a row it    *)
(* has not found, and the program dies of it.                              *)
(***************************************************************************)
EXTENDS Workload

CONSTANT
  Settings \* [workload, drawn, placement, threads, txns]: the runs of the
           \* program; drawn bounds the procedures that the source draws, and a
           \* batch of parameters holds one transaction (gParamBatchSize)

ASSUME HStoreConstants ==
  /\ Districts \in Nat \ {0} /\ OlCnt \in 1..Items
  /\ NewOrders \in 1..(Customers - 1) /\ DrawnCustomers \subseteq 1..Customers
  /\ Quantity \in 10..100 /\ DrawnQtys \subseteq 1..10
  /\ DrawnAccounts \subseteq 1..Accounts
  /\ \A s \in Settings :
       /\ s.workload \in {"TPCC", "SMALLBANK"}
       /\ s.placement \in {"override", "hash"}
       /\ s.threads \in Nat \ {0, 1} /\ s.txns \in Nat
       \* TpccBenchmarkMain.cpp asserts it.
       /\ s.workload = "TPCC" => s.threads = Warehouses

VARIABLES
  db,       \* the record of every row
  isBegin,  \* is_begin_
  isFinish, \* is_finish_
  crashed,  \* the program has died
  pc,       \* where each thread is: "load", "ready", "next", "lock", "run",
            \* "unlock", "check" or "done"
  left,     \* the transactions that are left in the thread's batches
  param,    \* the parameters of the procedure it runs, or Null
  held,     \* held[i]: the thread that holds partition i's lock, or Null
  seen,     \* the records that the procedure has selected
  before,   \* history: the rows it has written, as they were
  reply     \* what its last procedure answered

local == <<pc, left, param, seen>>
vars  == <<setting, db, isBegin, isFinish, crashed, local, held, before, reply>>

-----------------------------------------------------------------------------
\* The partitions that hold a row.
StoredIn(row) ==
  IF setting.placement = "hash" THEN {GetPartitionHashcode(row) % n}
  ELSE IF IsReplication(row) THEN Partition
  ELSE {GetPartitionId(row)}

SelectKeyRecord(p, row) ==
  IF row \in DOMAIN db /\ StatementPartition(p, row) \in StoredIn(row)
  THEN db[row] ELSE Null

\* PushParameterBatch deals the batches out in turn.
Dealt(t) == Cardinality({i \in 0..(setting.txns - 1) : i % n = t})

Init ==
  /\ setting \in Settings
  /\ db = Population
  /\ isBegin = FALSE /\ isFinish = FALSE /\ crashed = FALSE
  /\ pc = [t \in Thread |-> "load"]
  /\ left = [t \in Thread |-> Dealt(t)]
  /\ param = [t \in Thread |-> Null]
  /\ held = [i \in Partition |-> Null]
  /\ seen = [t \in Thread |-> <<>>]
  /\ before = [t \in Thread |-> <<>>]
  /\ reply = [t \in Thread |-> <<>>]

-----------------------------------------------------------------------------
\* The thread has copied its parameters and made its procedures.
Ready(t) ==
  /\ pc[t] = "load"
  /\ pc' = [pc EXCEPT ![t] = "ready"]
  /\ UNCHANGED <<setting, db, isBegin, isFinish, crashed, left, param, held,
                 seen, before, reply>>

\* The main thread has found every is_ready_ set.
Begin ==
  /\ ~isBegin /\ \A t \in Thread : pc[t] = "ready"
  /\ isBegin' = TRUE
  /\ UNCHANGED <<setting, db, isFinish, crashed, local, held, before, reply>>

Fetch(t) ==
  /\ isBegin /\ pc[t] \in {"ready", "next"} /\ left[t] > 0
  /\ \E p \in Source(t) : param' = [param EXCEPT ![t] = p]
  /\ left' = [left EXCEPT ![t] = @ - 1]
  /\ pc' = [pc EXCEPT ![t] = "lock"]
  /\ UNCHANGED <<setting, db, isBegin, isFinish, crashed, held, seen, before, reply>>

Held(t) == {i \in Partition : held[i] = t}

\* Mutant: the last partition of several is not locked.
PartIdsButLast(t) ==
  LET ids == GetPartitionIds(param[t]) IN
  IF Cardinality(ids) > 1 THEN ids \ {Max(ids)} ELSE ids

PartIds(t) == GetPartitionIds(param[t])

\* Mutant: a thread locks its own partition first.
NextToLockOwnFirst(t) ==
  LET rest == PartIds(t) \ Held(t) IN IF t \in rest THEN t ELSE Min(rest)

NextToLock(t)   == Min(PartIds(t) \ Held(t))
NextToUnlock(t) == Min(Held(t))

\* One round of LockPartitions; the procedure begins after the last.
LockPartition(t) ==
  /\ pc[t] = "lock"
  /\ held[NextToLock(t)] = Null
  /\ held' = [held EXCEPT ![NextToLock(t)] = t]
  /\ IF PartIds(t) \ Held(t) = {NextToLock(t)}
     THEN pc' = [pc EXCEPT ![t] = "run"] ELSE UNCHANGED pc
  /\ UNCHANGED <<setting, db, isBegin, isFinish, crashed, left, param, seen,
                 before, reply>>

\* What the procedure writes after its last selection, and its next one.
Write(t) ==
  LET written == Store(param[t], seen[t]) IN
  /\ db' = written @@ db
  /\ before' = [before EXCEPT ![t] =
                  @ @@ [r \in DOMAIN written |-> db[r]]]

Statement(t) ==
  LET row == Select(param[t], seen[t])
      record == SelectKeyRecord(param[t], row)
  IN /\ pc[t] = "run" /\ row # Null
     /\ record # Null \/ MayMiss(row)
     /\ Write(t)
     /\ seen' = [seen EXCEPT ![t] = Append(@, record)]
     /\ UNCHANGED <<setting, isBegin, isFinish, crashed, pc, left, param, held, reply>>

\* The record is not in the partition, and the procedure follows its pointer.
Crash(t) ==
  LET row == Select(param[t], seen[t]) IN
  /\ pc[t] = "run" /\ row # Null
  /\ SelectKeyRecord(param[t], row) = Null /\ ~MayMiss(row)
  /\ Write(t)
  /\ crashed' = TRUE
  /\ UNCHANGED <<setting, isBegin, isFinish, local, held, reply>>

CommitTransaction(t) ==
  /\ pc[t] = "run" /\ Select(param[t], seen[t]) = Null
  /\ db' = Store(param[t], seen[t]) @@ db
  /\ before' = [before EXCEPT ![t] = <<>>]
  /\ reply' = [reply EXCEPT ![t] = Reply(param[t], seen[t])]
  /\ seen' = [seen EXCEPT ![t] = <<>>]
  /\ param' = [param EXCEPT ![t] = Null]
  /\ pc' = [pc EXCEPT ![t] = "unlock"]
  /\ UNCHANGED <<setting, isBegin, isFinish, crashed, left, held>>

UnlockPartition(t) ==
  /\ pc[t] = "unlock"
  /\ held' = [held EXCEPT ![NextToUnlock(t)] = Null]
  /\ IF Held(t) = {NextToUnlock(t)}
     THEN pc' = [pc EXCEPT ![t] = "check"] ELSE UNCHANGED pc
  /\ UNCHANGED <<setting, db, isBegin, isFinish, crashed, left, param, seen,
                 before, reply>>

\* The thread returns if it finds is_finish_ set after a procedure.
CheckFinish(t) ==
  /\ pc[t] = "check"
  /\ pc' = [pc EXCEPT ![t] = IF isFinish THEN "done" ELSE "next"]
  /\ UNCHANGED <<setting, db, isBegin, isFinish, crashed, left, param, held,
                 seen, before, reply>>

\* The thread has no parameters left.
Finish(t) ==
  /\ isBegin /\ pc[t] \in {"ready", "next"} /\ left[t] = 0
  /\ isFinish' = TRUE
  /\ pc' = [pc EXCEPT ![t] = "done"]
  /\ UNCHANGED <<setting, db, isBegin, crashed, left, param, held, seen, before,
                 reply>>

Step(t) ==
  /\ ~crashed
  /\ \/ Ready(t) \/ Fetch(t) \/ LockPartition(t)
     \/ Statement(t) \/ Crash(t) \/ CommitTransaction(t)
     \/ UnlockPartition(t) \/ CheckFinish(t) \/ Finish(t)

Joined == \A t \in Thread : pc[t] = "done"

Ended == crashed \/ Joined

Next ==
  \/ \E t \in Thread : Step(t)
  \/ Begin
  \/ Ended /\ UNCHANGED vars

Spec == Init /\ [][Next]_vars

\* A spin lock is taken in the end by a thread that tries it: no thread holds
\* one for ever, and each takes it finitely often.
FairSpec ==
  /\ Spec /\ WF_vars(Begin)
  /\ \A t \in UNION {0..(s.threads - 1) : s \in Settings} :
       WF_vars(t \in Thread /\ Step(t))

-----------------------------------------------------------------------------
\* The variables have their types; a thread holds no partition that it has no
\* use for, and all of them while it runs.
TypeOK ==
  /\ setting \in Settings
  /\ {isBegin, isFinish, crashed} \subseteq BOOLEAN
  /\ DOMAIN db = DOMAIN Population
  /\ pc \in [Thread -> {"load", "ready", "next", "lock", "run", "unlock",
                        "check", "done"}]
  /\ left \in [Thread -> 0..setting.txns]
  /\ held \in [Partition -> Thread \union {Null}]
  /\ \A t \in Thread :
       /\ pc[t] \in {"lock", "run"} <=> param[t] # Null
       /\ param[t] # Null => param[t] \in Source(t)
       /\ pc[t] = "run" => Held(t) = GetPartitionIds(param[t])
       /\ DOMAIN before[t] \subseteq DOMAIN db

\* The store with what the running procedures have written taken back.
Settled ==
  [r \in DOMAIN db |->
     IF \E t \in Thread : r \in DOMAIN before[t]
     THEN LET t == CHOOSE t \in Thread : r \in DOMAIN before[t] IN before[t][r]
     ELSE db[r]]

\* The tables of TPC-C agree after every procedure, though each of them writes
\* several, in partitions of other threads too (NewOrderShardProcedure.h,
\* PaymentShardProcedure.h, DeliveryShardProcedure.h).
BooksBalance == IsTpcc => T!BooksOf(Settled)

\* Every procedure of ShardProcedures takes effect, on all partitions at once,
\* as its namesake of AtomicProcedures does on the whole store.
Promise == INSTANCE Procedures WITH db <- Settled
ImplementsProcedures == Promise!Spec

\* The executor returns.  No two threads wait for each other's partition, and
\* where the tables are placed as the benchmark says, every record is found.
Joins == <>(Joined \/ (crashed /\ setting.placement = "hash"))
=============================================================================
