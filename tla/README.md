# Cavalia in TLA+

Cavalia is a main-memory multi-core transactional database. A benchmark registers
stored procedures; worker threads execute them on shared tables; a `TransactionManager`,
chosen when the library is compiled, implements the operations the procedures call
(`InsertRecord`, `SelectKeyRecord`, `CommitTransaction`) under one of about fifteen
concurrency-control schemes; a logger and a replayer make committed transactions
durable; a partitioned executor runs the procedures in shards without any scheme. The
modules here model all the schemes as the code has them, step by step, the log with its
replay after a crash, and the partitioned executor with two benchmarks; TLC checks them,
and TLAPS proves that OCC and wait-die locking implement the serial store, that Silo is
serializable in the order in which its transactions read the epoch, and that timestamp
ordering is serializable in the order of its timestamps.

## 1. Inventory

| Part | State | Operations | What is hard | What makes it correct |
|---|---|---|---|---|
| OCC (`TxnManagerOcc.tpp`) | access list; per record content, timestamp, read-write lock | insert, select (no lock), commit in steps: lock and validate, timestamp, install, release | reads race with a `memcpy`; a failed validation releases a prefix of the locks; deadlock | committed reads are one snapshot; locks agree with holders; commits are atomic; batches end |
| Silo (`TxnManagerSilo.tpp`) | as OCC, plus `write_list_` | as OCC, but only writes are locked | reads validated by two loads without a lock; transactions that abort each other | serializability; epochs follow the serial order |
| Wait-die locking (`TxnManagerLockWait.tpp`, `LockWaitContent.h`) | per record lists of owners and waiters, spin lock | acquire (own, wait or die), release with hand-over, update in place, undo | owners join while others wait; the releaser wakes the waiter; starvation | waits only for younger; lists agree with threads; undo invisible; batches end |
| Timestamp ordering (`TxnManagerTo.tpp`, `ToContent.h`) | read, write and commit queues per record | request read, write, commit, abort; cascaded grants | a buffered commit would outlive its transaction | reads in timestamp order; no lost wake-up |
| Multiversion timestamp ordering (`TxnManagerMvTo.tpp`, `MvToContent.h`) | version history, read history, announced writes, waiting reads | as above, with versions | the order of the lists; what the read history forgets | reads in timestamp order; announced writes are those of running transactions |
| Snapshot isolation, multiversion OCC (`TxnManagerSiLock.tpp`, `SiOcc`, `MvOcc`) | version history, read-write lock | read a version at a snapshot, lock, validate, install, recycle | snapshots taken while a commit installs; recycling | complete snapshots; no update overwritten unseen; no version needed is collected |
| Two-version and multiversion locking (`TvLock`, `MvLock`, `MvLockWait`) | read, write and certify locks; versions | acquire, upgrade, wait, grant, release | upgrades among readers; grants by the releaser | locks agree with holders; reads in commit order; waits only for younger |
| No-wait locking (`TxnManagerLock.tpp`) | read-write lock per record | try-lock, update in place, undo | undo of a partial transaction | locks agree; reads in commit order |
| HTM schemes (`Dbx`, `Rtm`, `OccRtm`, `LockRtm`) | an RTM lock, reference counts, garbage sets | access by pointer, validate and install in a hardware transaction, clean up | two lists of hot and cold accesses; when a deleted record is freed | reads in commit order; nothing freed that is in use |
| Lock and content (`RWLock.h`, `LockContent.h`) | mode, reader count, timestamp | acquire (spin), try, release | reader count at zero | exclusion; count equals holders |
| Timestamps and epochs (`GlobalTimestamp.h`, `BatchTimestamp.h`, `Epoch.h`) | a fetch-and-add counter; a timestamp published per thread; an epoch advanced every 40 ms | draw, read, advance | epoch and counter drawn in two steps; 32-bit truncation | timestamps advance and follow conflicts |
| Concurrent executor (`ConcurrentExecutor.h`) | per-thread batches, `is_finish_` | execute, retry, stop | the flag set between an abort and its retry | all threads join |
| Logging (`Logger/`) | per-thread buffers and files, cut into epochs | commit, flush, clean up | idle threads skip epochs; a crash between flushes | what was synced is there, in order |
| Replay (`Replayer/`) | per-thread logs by epoch | load, merge, replay | epochs of different threads; replay in any order | the store is that of the logged transactions |
| Partitioned executor (`HStoreExecutor.h`, `HStoreContent.h`, `ShardTable.h`) | a spin lock and a part of every table per partition | lock partitions, run the statements, unlock | deadlock; a row that is not where it is looked for | a procedure in shards is the atomic procedure; all threads join |
| Benchmarks (`TpccBenchmark/`, `SmallbankBenchmark/`) | tables, parameter sources, procedures in two forms | populate, draw, execute | the two forms must agree; books over several tables | the books balance |
| Tables and indexes (`Storage/`, `Index/`) | primary and secondary maps | insert, select | - (written at the load, by MVTO also when it inserts) | - |
| Messaging and network (`Communication/`, `Network/`) | ZeroMQ sockets | send, receive | nothing implemented above the sockets | - |

How they interact. The executor calls `StoredProcedure::Execute`, which calls the
transaction manager on pointers to shared records; the manager touches the record's
content object (`LockContent`, `LockWaitContent`, ...), draws from the global counter,
reads the epoch that a separate thread advances, and hands the committed transaction to
the logger. Under HStore the thread locks partitions instead, and the manager does
nothing. There are no messages: all interaction is through shared memory. What is hard is
therefore the interleaving of the threads inside an operation, what is read without a
lock and validated later, deadlock and livelock, retry after abort, the order of
timestamps, and, with the logger, crashes. `PROJECT.json` lists each such place under
`hazards`, with the properties that cover it.

## 2. Modules

    SerialStore            what any scheme promises: committed transactions are atomic
      ^ implemented by
    Occ    LockWait        detailed schemes
       \     |
       LockContent         timestamps and the read-write lock; also of Silo, Snapshot, Hybrid
    Silo  Snapshot  Certify  Hybrid   To  MvTo     schemes judged by their histories
    Recovery               the logs of several threads, crash and replay

    Procedures             what HStore promises: the atomic procedures, one after the other
      ^ implemented by
    HStore                 partition locks, procedures in shards
      \__ Workload         the benchmark of a run: Tpcc or Smallbank

    MCHistories     Snapshot + Certify + Hybrid + MvTo          \  the build option picks
    MCWaits         Occ + LockWait + To + MvTo + Silo           /  one at the start
    MCOcc, MCSilo, MCLockWait, MCTo, MCRecovery, MCHStore          other instances for TLC

    OccProofs <- OccSerialProofs                                   theorems about Occ
    LockWaitProofs <- LockWaitSerialProofs                         theorems about LockWait
    SiloProofs, ToProofs, SnapshotProofs, RecoveryProofs           theorems about each of these

* **SerialStore** is the abstract specification of a scheme. A thread's transaction takes
  effect in one step, which reads the present content of every column it has read and
  writes all its writes. It knows neither locks nor timestamps, and an aborted attempt is
  a stutter.
* **LockContent** holds the timestamp (epoch in the high half, counter in the low half,
  truncated to `TsSpan` values, 2^32 in the code) and the read-write lock as operators
  on one lock value.
* **Occ** models `TxnManagerOcc.tpp`. Its state is the records (`word` per column,
  `visible`, `ts`, `lock`), the clocks (`epoch`, `monotone`), the executor (`isFinish`,
  `left`) and, per thread, the place in the code (`pc`), the access list (`access`,
  `accessTs`, `seen`, `local`) and the progress of `CommitTransaction` (`held`,
  `stored`, `installed`, `currEpoch`, `commitTs`). A record is read column by column and
  installed column by column, so that a reader can see half of a `memcpy`; the timestamp
  is read before and written after. The access list is a function on addresses: the code
  sorts it by address before it uses its order. Locking a record and comparing its
  timestamp are two steps, drawing the epoch and the counter are two steps.
* **Silo** models `TxnManagerSilo.tpp` in the same way, with the access list as a
  sequence, since it validates in access order, and with the two loads of the validation
  of a read (`ExistsWriteLock`, `GetTimestamp`) as two steps. A commit is no single
  instant, so the module records what committed transactions have read and in which order
  each record was written (`committed`, `versions`), and serializability is acyclicity of
  the conflicts. The content of a record is the name of its writer.
* **LockWait** models `TxnManagerLockWait.tpp` and `LockWaitContent.h`. `AcquireLock` and
  `ReleaseLock` run under the record's spin lock and are one step each. Insertions become
  visible and updates happen in place, before the commit; `Restore` undoes them entry by
  entry, each restored before its lock goes. A retried transaction keeps `startTs`.
* **To** models `TxnManagerTo.tpp` and `ToContent.h`. The operations of `ToContent` run
  under its spin lock and are one step each; its three sorted lists are sets of start
  timestamps, with the minima that the code keeps beside them as variables of their own,
  since it is they that decide who waits. `UpdateBuffer` grants the reads up to the new
  smallest write. Its second half, which completes commits put off behind reads, is not
  translated: it runs only on a nonempty list of such commits, and `NoCommitBuffered`
  shows that the list stays empty (a commit is put off in the model, if it ever is).
* **MvTo** models `TxnManagerMvTo.tpp` and `MvToContent.h`: the write history (a
  timestamp per version), the read history with the code's rule for a smallest entry
  (`Loses`: the list becomes that entry alone; `dropped` remembers that it happened), the
  announced writes and the reads behind them. `IsReadConflict` walks the announced writes
  in the order in which `BufferWriteRequest` keeps them. Start timestamps are drawn in
  batches; a read-only transaction reads at the minimum that the threads have published.
* **Snapshot** models SILOCK, SIOCC and MVOCC, which share the read-write lock, the
  version history with `ClearHistory`, and the snapshot at `GetMaxTimestamp`. They differ
  in when they lock (`Locks`, `ToLock`), what they validate (`Valid`) and in what order
  they install. The loops of a commit run through a set of entries in the order that the
  code's sort gives them (`FirstOf`). `written` and `committed` are history variables.
* **Certify** models TVLOCK, MVLOCK and MVLOCK_WAIT: `lock` is the three fields of a
  lock, `owners` and `waiters` the lists of the third scheme. `Taken` and `Given` change
  the lock, `LockedAs` is the type under which a release finds an entry, `DebufferWaiters`
  the grants of the releaser. A certify taken directly leaves the transaction's
  WRITE_LOCK entry in the list of owners, as `MvLockWaitContent.h:118-137` does (a granted
  one removes it, 274-289).
* **Hybrid** models LOCK (no-wait), DBX, RTM, OCC_RTM and LOCK_RTM. An access goes to the
  hot list if a read-write lock protects it and to the cold list if the RTM lock does;
  the five schemes differ in which lists an access goes to and in what each loop of the
  commit does with it. Reference counts, garbage sets and the versions that were freed
  are state. The hardware transaction is the fallback lock: what it does at once is one
  of the orders of these steps. `Hot` is a constant, since at this commit the calls of
  `SetHot` are commented out (`ShareTable.h:191-192`) and no record is hot; the runs take
  one record as hot, to cover the branches the code has for them.
* **Recovery** models the logger and the replayer, with the concurrency control reduced
  to what the log depends on (`ReadLocks`: are reads locked until the commit, as in OCC
  and wait-die, or not, as in Silo). A chunk is written and synced in two steps; what a
  crash leaves of a chunk that is not synced is all, nothing or a part. The store, the
  log and the replay hold commit timestamps in place of contents, so that a replayed
  command diverges as soon as it sees a version it did not see the first time. The value
  log takes the local copy of an updated record (`ValueLogger.h:61`), and `Images` says what
  that is (`Content`): the new content under OCC and Silo, which install the copy; the old
  one under LOCK and LOCK_WAIT, which update in place and keep the copy for the undoing.
  RTM, OCC_RTM and LOCK_RTM log the new content too, but do not install it (see below);
  the model does not cover them. A record that is replayed into has a content (`recovered`)
  and a timestamp (`stamp`), which alone decides what is replayed over what. Timestamps
  are epoch and counter in one number (`CommitTs`, with `TsSpan` for 2^32). The test of the
  first commit of a thread is that of the code or the one commented out beside it (`test`,
  see the findings). The entries of a batch are replayed as a set, the smallest timestamp
  first, because the entries of each thread ascend.
* **Tpcc** and **Smallbank** hold the benchmarks as operators on a store from row keys to
  records: `Population`, `Source` (the parameters the generator can draw), `Procedure`
  and `ReplyTo` (the procedures of `AtomicProcedures`), `Select`, `Store` and `Reply`
  (those of `ShardProcedures`, statement by statement), and the placement. `Store` is
  written from the code of the shard procedures and shares no operator with `Procedure`
  beyond the rows. Amounts are in tenths. **Workload** picks one of the two.
* **Procedures** is the abstract specification of HStore: any thread may execute any
  procedure drawn for it, atomically, and gives its reply. **HStore** locks the
  partitions of a procedure one by one, executes its statements in place, and unlocks.
  A row that is missing where it is looked for makes the program dereference NULL (`Crash`).

In the schemes `Execute`, `ReturnCommitted`, `ReturnAborted` and `Joined` are the loop of
`ConcurrentExecutor::ProcessQueryThread`: a committed transaction decrements the batch,
the last one sets `is_finish_`, an aborted one is retried unless the flag is set.
`PROJECT.json` gives under `map` the lines each definition stands for.

The two union modules exist because several schemes answer the same question: a run of
`MCHistories` asks of twelve of them whether what was committed is what was promised,
a run of `MCWaits` asks of five whether every wait ends. Each starts in the initial
state of one scheme and takes only its steps.

### Assumptions

* The memory is sequentially consistent. The code orders its accesses with compiler
  fences (`COMPILER_MEMORY_FENCE`) on plain variables and runs on x86, where stores are
  not reordered with stores, nor loads with loads. Locks are atomic instructions.
* An operation on a lock or a content whose body is a critical section under a spin lock
  is one step. `GetMaxTimestamp` and `GetMinTimestamp`, which load one timestamp of each
  thread, are one step too.
* A procedure selects a record once, as those of the benchmarks do. An update rewrites
  the whole record, because `CopyFrom` copies all columns of the local copy back.
* A column is read and written atomically. More columns would add no new kind of torn
  read to two.
* `TxnManagerMvOcc.tpp` calls a `GenerateTimestamp` that is defined nowhere (line 150);
  it is read as `GenerateMonotoneTimestamp`, as in its siblings. The shard procedures are
  read with the template arguments that their build lacks.

## 3. Runs

| Run | Instance | What it shows |
|---|---|---|
| `occ` | 2 threads, 2 records of 2 columns and a new one; reads, updates and insertions; 2 epochs | `LockAgreement`: modes and reader counts of the locks are those of their holders, through every failed validation. `ReadsStillCurrent`: whatever was read without locks, in whatever order, is current once all is validated. `ConflictsInTsOrder`, `TimestampsAdvance`: commit timestamps order the conflicts although epoch and counter are drawn apart. `CommitTsAboveAccess`: the assertions in the install loop. `ImplementsSerialStore`: refinement of SerialStore |
| `silo` | 2 threads, 2 records of 2 columns and a new one, all access types, 2 epochs | `Serializable`: the conflicts of the committed transactions have no cycle, although reads are validated by two loads without a lock. `EpochsInSerialOrder`: a log cut at an epoch holds all that its transactions depend on. `DependenciesInTsOrder`: timestamps order a transaction after those it reads from or overwrites (not after those that have read what it overwrites) |
| `histories` | 2 threads, 2 records (one hot), 11 schemes; 3 threads, 1 record and a new one under MVTO | `SnapshotUnlessInFlight`: a snapshot is all commits up to it and no other, unless one of them was still installing. `NoUpdateLost`: under SILOCK always, under SIOCC if the snapshot was complete, nothing is overwritten unseen. `ReadsInCommitOrder`: MVOCC, the certify schemes, no-wait and HTM are serializable in commit order. `ReadsInTsOrder`: MVTO is serializable in the order of start timestamps as long as its read history has lost nothing. `VersionsKept`: recycling and reference counts free nothing in use. `LocksAgree`, `WaitsInOrder`: locks of the certify schemes and Hybrid, announced writes and waiting reads of MVTO |
| `to` | 3 threads, 2 records and a new one, 3 timestamps | `QueuesAgree`: the queues of a record are the announced writes and the waiting reads of the running transactions, and the minima are theirs. `NoCommitBuffered`: no commit is ever put off. `ReadsInTsOrder`: TO is serializable in the order of start timestamps |
| `waits_live` | 2 threads, 2 records, and a new one under OCC; OCC reads, inserts and deletes, Silo reads and deletes | `WaitsEnd`: a read that waits under TO or MVTO is answered; under Silo all threads stop once one has finished its batch. `Terminates` of OCC and wait-die: no deadlock, and a retried transaction finally wins. `AtomicUnderOcc`: refinement of SerialStore with insertions and deletions |
| `lockwait_serial` | 2 threads, 2 records (one of them also read without updating) and a new one, 2 epochs | `WaitsForYounger`: no wait is for an older thread. `ListsAgree`: the lists of a lock are its owners and waiters, and no wake-up is lost. `CommitTsAboveAccess`, as for OCC. Refinement of SerialStore: an update or insertion that is undone is never seen |
| `recovery` | 2 threads of 2 transactions, 2 records, 3 epochs, both logs | `LogComplete`: buffer, unsynced chunk and file hold a thread's commits in order, each once. `LastFlushedWins`: value replay ends, whatever the order of its threads, with the timestamp of the newest update on file and with what was logged of it. After an orderly end this is the store if new contents are logged, and each updated record is one update behind if old ones are. `ReplayFaithful`: a command that is replayed sees what it saw. `EpochsRecovered`: command replay ends with the store as the epochs of thread 0 have left it |
| `hstore` | TPC-C on 3 warehouses, Smallbank on 2 partitions; both placements | `ImplementsProcedures`: the shard procedures, statement by statement on locked partitions, are the atomic ones. `BooksBalance`: stock, orders, payments and balances agree. `Joins`: no deadlock, all threads stop, and nobody dies where rows are placed as the benchmarks say |
| `occ_wrap`, `mvto_lost`, `before_image`, `snapshot_lost` | smallest that show it | the findings below |

### Findings

* **Timestamps wrap** (`occ_wrap`). `GenerateMonotoneTimestamp` masks the counter with
  32 bits. If the counter passes a multiple of 2^32 within an epoch, timestamps fall, and
  the assertion `commit_ts > access_ptr->timestamp_` of OCC fails. All other runs take
  `TsSpan` larger than the number of timestamps they can draw, and the theorems about
  timestamps assume `NoWrap`.
* **The read history forgets** (`mvto_lost`). `InsertReadHistory` (`MvToContent.h:360`)
  replaces the list by its new smallest entry. A write between the version a later
  transaction has read and that transaction is then not refused.
* **The value log of the locking schemes holds old contents** (`before_image`). Under LOCK
  and LOCK_WAIT, `SelectRecordCC` returns the record itself (`TxnManagerLockWait.tpp:47`,
  `TxnManagerLock.tpp:39`), the procedure updates it in place, and `local_record_` is the
  copy taken before (`TxnManagerLockWait.tpp:91-99`, `TxnManagerLock.tpp:62-70`).
  `ValueLogger.h:61-66` logs `local_record_`, so that replay installs the old content under
  the new timestamp: after an orderly end every updated record is one update behind. OCC
  and Silo install `local_record_`, and their value log is right (`LastFlushedWins`).
* **Snapshots miss commits in flight** (`snapshot_lost`). `GetMaxTimestamp`
  (`GlobalTimestamp.h:30`) may return a timestamp above one whose transaction is still
  installing. Under SIOCC an update then overwrites one it has not seen.

Seen while modelling, with no run of their own:

* The first commit of a thread fails an assertion of the logger. `CommandLogger.h:105` (and
  `ValueLogger.h:19`) marks "no epoch yet" by -1 and compares it by `std::cmp_equal` with
  the unsigned `last_epoch_`. That function compares by value, so that the answer is never
  yes, and the assertion `last_epoch_ + 1 == epoch` (`CommandLogger.h:109`) compares 0 with
  an epoch of at least 1. Any commit shows it. The comparison commented out beside it,
  `==`, converts the -1 and would work. Recovery has both (`test`); what it says of the
  log after the first commit, in `recovery`, in `before_image` and in the theorems, is said
  of `==`.
* `TxnManagerRtm.tpp:141` (also `TxnManagerOccRtm.tpp:202`, `:229`,
  `TxnManagerLockRtm.tpp:204`) swaps a *local copy* of the record pointer, where
  `TxnManagerDbx.tpp:127` swaps the record's. The update is lost at once. Hybrid models
  it (`Swaps`); `ReadsInCommitOrder` therefore judges the timestamps under these schemes,
  and the contents where they are installed.
* Silo's commands do not replay. The counter is drawn after reads were validated without
  locks (`TxnManagerSilo.tpp:131`); a transaction that overwrites such a read may have the
  smaller timestamp, and command replay runs it first. With `ReadLocks = FALSE` TLC finds
  `ReplayFaithful` violated; `recovery` has `TRUE`. Value replay and Silo itself are not
  affected (`LastFlushedWins`, `Serializable`).
* OCC_RTM and LOCK_RTM count a reference for a deletion and never give it back;
  `DecrementCounter` returns the old value, so that its comparison with 0 never holds;
  LOCK_RTM never releases the lock of a hot deletion; under LOCK an aborted second
  deletion makes a deleted record visible again. No procedure of a benchmark deletes.
* `TpccShardTable` and `SmallbankShardTable` hide the non-virtual `GetPartitionId` and
  `IsReplication` of `ShardTable` (264, 268). Through the base class, rows are placed by
  hash code; procedures do not find them and dereference NULL. `hstore` runs both
  placements, and `Joins` allows the death under `"hash"` only.
* A command or value log needs every thread to commit in every epoch
  (`CommandLogger.h:109`, `ValueLogger.h:23`); Recovery models the failed assertion as the
  crash it is. A log of a single epoch makes the replayer index below 0. A crash during
  the clean-up, or threads that end in different epochs, can lose an epoch without notice,
  because the number of epochs is that of thread 0; `NoCleanUp` and `EndedTogether`
  state the cases in which the properties are claimed.
* `GenerateIntegerExcluding` (`TpccRandomGenerator.h:43`) can return the excluded value
  and never its successor. `WriteCheck` of Smallbank creates money. The delivery pointer
  of TPC-C restarts at 1 when it finds nothing; if every customer's initial order were a
  new order, orders would be delivered twice (excluded by `NewOrders < Customers`).
  `OrderStatusProcedure.h:43` reads one byte of an order id.

### Bounds

`Batch`, `MaxAccess`, `MaxEpoch`, `MaxTs` and the sets of records and threads are finite
in a run. Two threads with two records suffice for what the schemes must exclude: write
skew, lost update, torn reads and lock cycles need two transactions on two records (or
one record of two columns). Two epochs let one thread draw an older epoch with a newer
counter. MVTO has three threads, on one record, in `histories`, because a queue is only
interesting when there are two behind an announced write, and `to` because a commit
could only be put off behind a read that waits for a third transaction. (The lists of
wait-die are checked with two threads, in `lockwait_serial`, and proved for any number.)
`Batch = 1` does not mean one attempt: aborted transactions are retried without bound
under the schemes that keep their timestamp, and up to `MaxTs` under those that draw a
new one (a thread that finds none left stops). The snapshot schemes have batches of two
and `RecycleLength = 1`, so that versions are recycled under the eyes of a reader;
`SnapshotMaxTs` and `CertifyMaxTs` bound the commits (`histories` takes three and four
of them). The procedures of the version schemes are three: an update of both records, an
update of one that depends on the other with an insertion, and a read of both; Hybrid
adds a deletion of the cold record. Those of Occ, Silo, To, MvTo and LockWait are all
sequences of up to `MaxAccess` accesses; under wait-die, `Shared` names the records that
are also read without updating (one of the two). OCC updates and inserts in
`occ`, inserts and deletes in `waits_live`, each beside reads; Silo does all four in `silo`. `recovery`
has three epochs: one that is replayed whole, one that is cut, and one after it; its
`TsSpan` of 16 exceeds the five values that the counter takes.

`hstore` fixes the parameters that only scale TPC-C (one district, one item, one order
line, two customers of whom one has a new order) and runs, with `drawn` naming the types
of transaction that a source draws: all types, one per thread, on three warehouses (a
supply comes from a partition above and from one below); two deliveries on one thread, of
which the second finds nothing; one transaction where rows are hashed; two of any type of
Smallbank on three drawn accounts, one where rows are hashed.

The epoch thread stops at `MaxEpoch`; the counter is bounded because a transaction that
has committed draws no more. The threads are symmetric, and the runs without liveness
properties use this, but for `recovery` and `hstore`, where threads have numbers; `occ`
and `silo` also take the columns as symmetric, which no action tells apart. No run
turns the deadlock check off: what is over stutters by `Joined` or `Ended`.

### Fairness

Every thread that can take a step is scheduled: `WF_vars(Step(t))` (for HStore also the
main thread's `Begin`). The code justifies no more; the spin locks are unfair, so a
particular thread may lose a race for a lock forever. `Terminates` holds under it for
OCC, because a validation fails only if another transaction has committed. For Silo it
does not hold: two transactions may each find the other's write lock and abort each other
forever (`TxnManagerSilo.tpp:107`; the back-off is off by default). What holds is
`WaitsEnd`. For wait-die, `Terminates` is checked with two threads. With three, two
readers which are younger than a waiting writer may come and go in turn (a reader joins
unless it is older than the head of the queue), so that the lock never leaves read mode;
this follows from `LockWaitContent.h:62` and no run claims otherwise. Under timestamp
ordering two transactions can abort each other in turn by reading ahead of each other's
writes, so only `WaitsEnd` is claimed. The epoch thread needs no fairness.

### Refinement

An OCC transaction takes effect when its last access is validated: it holds all its
locks, and from then on the store of SerialStore holds the content it is about to install
(`SerialRecord`). A wait-die transaction takes effect when it draws its commit timestamp;
before that the content it has replaced in place counts. A procedure of HStore takes
effect when it has executed its last statement; before that the rows it has written count
as they were (`Settled`, from the history variable `before`). `TLC` checks the abstract
`Spec` as a property. The other schemes have no such instant that their state shows, and
are judged by their histories.

## 4. Proofs

TLAPS proves the following for all values of the constants that satisfy `OccConstants`,
`SiloConstants`, `LockWaitConstants`, `ToConstants`, `SnapshotConstants` or
`RecoveryConstants`: any finite set of threads, any records, values, procedures, batches,
epochs and timestamps. Each result is an inductive invariant, `Init => Inv` and
`Inv /\ [Next]_vars => Inv'`, with the theorem drawn from it by one temporal step; a
module cites the invariants of those before it.

| Module | Theorem | Invariant | Statement |
|---|---|---|---|
| OccProofs | `TypeCorrect`, `LocksAgree` | `LockInv` | types; every lock agrees with its holders |
| | `SnapshotReads` | `SnapshotInv` | what was read without locks is current once all is validated |
| | `CommitTsAssertions` | `SnapshotInv` | the assertions of the install loop |
| | `TimestampsOnlyAdvance`, `TimestampsNeverReused` | `SnapshotInv` | a record's timestamp never falls and is never used again |
| | `ConflictsOrdered` | `ReadersOrder` | commit timestamps order conflicting transactions |
| OccSerialProofs | `Serializes` | `InstallInv` | Occ implements SerialStore |
| LockWaitProofs | `TypeCorrect` | `TypeInv`, `TxnInv` | types; loops stay inside the access lists |
| | `WaitsForYoungerOnly` | `ListInv` | whoever waits is older than all it waits for |
| | `ListsAreParties` | `ListInv` | the lists of a lock are the threads that own it and spin for it |
| LockWaitSerialProofs | `Serializes` | `UndoInv` | LockWait implements SerialStore |
| | `CommitTsAssertions` | `StampInv` | the assertions on the commit timestamp |
| SiloProofs | `TypeCorrect` | `LockInv` | types; who holds which lock, where the loops stand |
| | `Serializes`, `EpochsOrdered` | `SerialInv` | Silo is serializable, and epochs follow the serial order |
| | `DependenciesOrdered` | `StampInv`, `SerialInv` | timestamps order reading from and overwriting |
| ToProofs | `TypeCorrect`, `QueuesCorrect` | `ToInv` | types; the queues of To are those of the running transactions |
| | `NothingPutOff` | `ToInv` | no commit is put off |
| | `SerialInTsOrder` | `ToInv` | To is serializable in the order of start timestamps |
| SnapshotProofs | `TypeCorrect` | `StateInv`, `LockInv`, `BoundInv` | types; locks; timestamps stay within the bound |
| | `SnapshotsKept` | `VersionInv`, `StartInv` | recycling takes no version that a snapshot reads |
| | `SnapshotsConsistent` | `PendingInv`, `SawInv` | a snapshot is all commits up to it, unless one was in flight |
| | `UpdatesKept` | `SawInv`, `HistoryInv` | no update is lost, under SIOCC for complete snapshots |
| | `UpdatesInCommitOrder` | `SawInv`, `HistoryInv` | the updates of MVOCC are serial |
| RecoveryProofs | `TypeCorrect` | `StateInv` | types |
| | `LogsComplete` | `RunInv` | the log of a thread holds its commits, once and in order |
| | `ValuesRecovered` | `ValueInv` | the value log recovers what was logged of the newest updates on file; after an orderly end the store, or one update behind it, by what is logged |
| | `CommandsFaithful` | `CommandInv` | a replayed command sees what it saw |
| | `CommandsRecovered` | `CommandInv` | the command log recovers the epochs of thread 0 |

**OCC, locks.** `TypeOK` and `LockAgreement` are not inductive alone. That the reader
count stays natural needs that a releaser holds the lock; that it does needs that `held`
is nonempty only while a transaction commits and lies within its access list. `LockInv`
is the conjunction of these. Each action has a step of its own, and the actions that
touch no lock share a frame lemma.

**OCC, reads.** `SnapshotInv` adds to `LockInv` that a record's timestamp is below the
next one to be drawn and never above that of its writer, that the content seen under a
timestamp is the content as long as the record still has that timestamp and no writer
has begun to install, and that what has been validated is locked. `ReadersOrder` adds,
for `ConflictsInTsOrder`, that whoever is to install a record has drawn neither an epoch
nor a timestamp below those of the transactions that read the record before it.

These results, the refinement of Occ and the results about Silo and Recovery assume
`NoWrap`: no draw of the counter has reached `TsSpan`. The code does not guarantee it, and without it they are false:
`occ_wrap` shows the violation. They therefore have the forms
`Spec => [](NoWrap => ...)` and `Spec /\ []NoWrap => ...`, and say what holds until the
32-bit counter wraps.

**OCC, refinement.** A transaction takes effect at its last validation. From then on the
mapping lets the store hold what the transaction is about to install, and the proof shows
that each step of the install loop changes only what the mapping hides: `InstallInv` says
that the records behind the loop hold what was written, that the record it is at holds it
in the columns already stored, that only updates have local copies, and that no other
record is half copied. The step that validates last is a `Commit` of SerialStore
(`ValidateCommits`), `ReturnCommitted` is its `Leave`, and every other step is a stutter.
That the content read is one of the store, column by column, is `SeenCurrent` of
`SnapshotInv`.

**Wait-die, lists.** The list of owners holds start timestamps, not threads, so that
`TxnInv` must first say that start timestamps of running transactions differ, that no
transaction has two entries of a record nor asks for one it has, and where the loops
over the access list stand. `ListInv` then says of each record who holds it (by itself,
or because the releaser has handed the lock over and the thread has not yet seen
`lock_ready`), that the two lists are the holders and the waiters, that mode and holders
agree, and that the waiters are ordered by age and older than every owner. The hard step
is the hand-over (`LockHandedOver`): a prefix of the queue moves into the list of owners,
whose youngest member must still be younger than what is left in the queue. TLC checks
this with two threads; the theorem covers queues of any length. The lemmas on
`BufferWaiter` and `GrantCount` (`Inserted`, `Buffered`, `Granting`) replace reasoning
by induction over the list by one about cardinalities of prefixes.

**Wait-die, refinement.** A transaction takes effect when it draws its commit timestamp.
Until then the mapping lets the store hold what its updates in place have replaced.
`UndoInv` says what an open entry, one that still may be undone, knows of its record: a
reader has seen what is there, an update finds its own value there and keeps the old
one, an insertion finds the record visible; the entry that is being undone finds what it
has restored. From `ListInv` follows `Alone`: a record that somebody may change has one
open entry. So the CHOOSE in the mapping has one candidate at most, no step disturbs the
entry of another transaction (`OthersUndisturbed`), the undoing brings back what the
store has held all the time (`OwnKept`), and the draw of the timestamp turns the
entries into a `Commit` (`DrawCommits`). No assumption about the counter is needed: the
order of the locks decides, not that of the timestamps. `CommitTsAssertions` is about the
timestamps themselves and does need `NoWrap`: by `StampInv` no record has an epoch or a
counter that is still to be drawn, and a record that a transaction may still stamp keeps
its timestamp, since nobody else may stamp it (`StampsAlone`).

**Silo.** `Serializable` says that no nonempty set of committed transactions has each
member preceded by another, a statement about a graph that grows with the run. Its proof
exhibits an order: `SerialInv` says that transactions can be given ranks, natural numbers
below a clock, with all conflicts between committed ones going upwards (`Conflicts`). The
rank is given when a transaction reads the epoch (`GetEpoch`): it then holds all its write
locks and has validated nothing. What it has seen or overwrites has the smaller rank
(`SawEarlier`, `WroteEarlier`), and so has any transaction that has read what it
overwrites, as far as that one has been validated (`ReadEarlier`, `TestedEarlier`); a
version that it has read and that somebody else has overtaken since belongs to a larger
rank (`OvertakenLater`): a record found unlocked and unchanged can be overwritten only by
who is still to lock it, and hence to read the epoch. `InOrder` adds that epochs never
fall along the ranks. The retry of an aborted transaction takes a new rank; no other step
changes one. Before this can be said, `HistInv` must tie the history variables to the
state: committed transactions have names of their own, `versions` lists the writers of a
record in order without repetition, a thread's view names only committed writers, and a
column lags behind the last version only while its installer is still at it. `StampInv`
says that a timestamp stands for one version, so that an unchanged one means an unchanged
record (`SeenCurrent`); it needs `NoWrap`. From ranks to acyclicity leads `LeastRank`, the
least element of a set of natural numbers, which is an instance of the library's theorem
about well-founded relations and needs no induction over the run. TLC has found
`Serializable` and the epochs right on the instance of `silo` before, and a counterexample
under each of their mutants.

**Timestamp ordering.** The three properties need each other, and `ToInv` is one
invariant. `Marks` says that nobody has read a record above an announced write, and that
its content was read by its writer: a writer announces, reads, and only then installs.
Hence whoever commits has the smallest announced write (`CommitInstalls`: a waiting read
is behind it, so that the commit is neither put off nor dropped), and what it commits is
above all reads of the older version. `WritesKept` says where the writes of committed
transactions are: in the record, overwritten by a later one, or still announced; an abort
cannot withdraw one of them, because the timestamp of a running transaction is in no
committed one unless it is installing (`Stamps`). So the version that a read is answered
with, at once or by a grant, has no committed writer between it and the reader
(`VersionInOrder`), and `ReadsInOrder` keeps this for the reads that are answered,
entered and committed: `readTs` remembers them, and no later commit falls below it
(`InOrderKept`). The minima of the queues and the last of the granted reads are CHOOSE
expressions over sets of timestamps; that they exist is by well-founded induction
(`LeastNatural`). TLC has checked `ToInv` itself on the instance of `to`.

**Snapshots.** What has been committed on a record is what has been installed there and
what is pending (`PendingInv`): the updates, not installed yet, of a transaction that has
drawn its timestamp. Pending records are write-locked (`PendingWriter`, from `LockInv`,
which counts the holders of each lock through the loops of the three schemes), and a
pending timestamp is above all that is installed there (`StampInv`). A snapshot is
`complete` if all that is pending when it is taken is above it. What is drawn later is
above it too, so that the installed versions up to it never change (`CompleteRead`,
`SawKept`), and what is read at it is final. That the version lists still hold what is
asked for is `VersionInv`: what `CollectGarbage` has taken is older than a version that
is left and that no thread's timestamp is below (`Cleared`, `VersionWrite`); a running
transaction's snapshot is no older than the timestamp of its own thread (`StartInv`). An
update that is validated under its lock has seen the newest version, and nobody else can
install a newer one while the lock is held (`HeldLatest`), so that at the draw it has
read the newest version below its own (`HeldNewest`): under SILOCK because the snapshot
is no older than the newest version when it is locked, under MVOCC because the timestamp
is unchanged since before the read, under SIOCC only if the snapshot was complete, for
otherwise the read may have missed a version that the validation then admits.
`HistoryInv` carries both facts on: later commits are above the timestamps they speak of
(`NewestGrows`). TLC has checked each part of the invariant on the instance of
`histories`. The proofs assume of a procedure what the code needs of it, that no record is
accessed twice (`IsProcedure`), and nothing of its length. The
`histories` run checks what these theorems state on a small instance, as the conjuncts of
MCHistories' properties for the snapshot schemes (`S!VersionsKept`, `S!NoUpdateLost` and
so on).

**Recovery.** `AllInv` says what the log is while the program runs, and what is left of it
while it is replayed. Running: locks exclude conflicting transactions, whoever installs
has read an epoch no smaller than those of the commits it conflicts with (`LockInv`), and
the history is ordered by timestamps, of which the epoch is the high half; `store` holds
the last update of each record, and under `ReadLocks` a transaction has seen the last
update below its timestamp (`HistInv`). The chunks of a thread carry ascending epochs, a
chunk holds exactly the commits of its thread and epoch, the buffer those of `lastEpoch`
but the one that is not logged yet, and no commit that has returned is elsewhere
(`LogInv`); `LogComplete` follows. That FlattenSeq, which strings the entries together,
appends and has the elements of its parts is proved from its definition by a recursive
function (`FlattensExists`, by well-founded induction; `FlattenAppend`, `FlattenSets`).
A crash leaves a beginning of the chunks, in which an epoch is present if a later one is
(`FileInv`). Replaying values: an update on file is on record, overtaken, or still to be
replayed, and a record holds what was logged of the update whose timestamp it has
(`ValueInv`), whichever thread comes first. So it ends with that of the last update on
file, which after an orderly end is the last of all. If old contents are logged, this is
what the last update has read (`SawInv`: it has read what it updates), and by `HistInv`
the last of all other updates, since such schemes lock what they read. Replaying commands: `Reorders` has
found the same epochs at the same places of all files, so that what has been replayed
is a beginning of the history in the order of timestamps, and the rest is in `todo`
(`CommandInv`); a record then holds the last update of that beginning, and the
transaction that is next in line sees there the last update below its timestamp, which is
what it saw. This last step, for `CommandsFaithful`, and that about old contents are the
only ones that use `ReadLocks`; for Silo the former is false, and the latter does not
arise. `NoWrap` is needed since a counter that runs into the
bits of the epoch puts a timestamp into the wrong epoch. `NoCleanUp` and `EndedTogether`
are part of the properties (see the findings). TLC has checked `AllInv` on an instance of
two epochs, and has found a counterexample under each mutant of the five properties.

From the assumptions about constants the proofs use that addresses are numbers, that the
threads are a finite set, that indexed and fresh records differ, that bounds are natural
numbers, and that `Unread`, `Kept` and `Loader` are no values of another kind.

Only model-checked:

* Liveness (`Terminates`, `WaitsEnd`, `Joins`): it rests on fairness and ENABLED, which
  the prover does not treat.
* HStore: its refinement of Procedures, `BooksBalance` and `TypeOK`. The benchmark
  procedures compute over stores, with folds that sum over them, and proofs would be
  about their arithmetic, by induction over data.
* What is said of histories in MvTo, Certify and Hybrid. Their lock and list invariants
  are of the kind proved above, and their orders of commits of the kind proved for Silo
  and Snapshot; these modules declare no recursive operator, so that proofs about them
  can be added. Where they sort or filter an access list they call `SetToSortSeq` and
  `SelectSeq` of the libraries, of which the provers know nothing: such loops have to run
  through sets of positions first, as those of Snapshot do.

## 5. Not modelled

* **Site and Island executors.** The same loop as HStore over several threads or nodes per
  partition; they are compiled only with NUMA support, do not compile at this commit
  (missing template arguments), and add nothing but placement.
* **Hardware transactions as such**: conflicts and capacity aborts of RTM. The fallback
  lock has the same orders of steps.
* **Indexes and tables.** Every scheme but MVTO has the insertion into the indexes
  commented out, so that they are filled at the load by one thread. MVTO inserts the record
  at once, invisible (`TxnManagerMvTo.tpp:26`; `InsertRecord` of MvTo), and the index
  that takes it is a library container. `TbbHashIndex::SaveCheckpoint` is empty, so
  there is no checkpoint to recover from. `ShardTable::DeleteRecord` removes the entries
  of secondary indexes under the primary key; nothing calls it.
* **Messaging and network**: wrappers over ZeroMQ, with no protocol above them.
* **OrderStatus, StockLevel** of TPC-C: they change nothing, and their frequency is 0.
* **AccessLogger, compression, entry layout, profilers, timers, allocator, NUMA.**
* Within the modelled schemes: deletions under wait-die (an assertion fails at the first
  line of the branch) and under timestamp ordering (there is no branch), an abort after an
  insertion under timestamp ordering (a null pointer is dereferenced), scalable
  timestamps, which no target enables, and a lookup of an absent key under a scheme.
* The replay of insertions and deletions is commented out in the replayer, and ad hoc
  transactions are never marked, so that Recovery has updates only.
