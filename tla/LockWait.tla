------------------------------ MODULE LockWait ------------------------------
(***************************************************************************)
(* Two-phase locking with wait-die: Content/LockWaitContent.h and          *)
(* Database/Transaction/TxnManagerLockWait.tpp, run by the worker threads  *)
(* of Executor/ConcurrentExecutor.h.                                       *)
(*                                                                         *)
(* A transaction draws its start timestamp at its first access and keeps   *)
(* it when it is tried again, so that it grows older than the others.  It  *)
(* locks each record before it accesses it.  On a conflict it waits if it  *)
(* is older than all the owners of the lock, and aborts otherwise.  It     *)
(* updates records in place and undoes this from a copy when it aborts.    *)
(* All locks are held until the end.                                       *)
(*                                                                         *)
(* AcquireLock and ReleaseLock run under the spin lock of the record and   *)
(* are one step each.  A record is one unit here: whoever accesses it      *)
(* holds its lock.  Its content is the name of the transaction that wrote  *)
(* it.  A DELETE_ONLY access fails an assertion (TxnManagerLockWait.tpp,   *)
(* line 106), so there is none.                                            *)
(***************************************************************************)
EXTENDS FiniteSets, SequencesExt, LockContent

CONSTANTS
  Thread, Unread, Kept,
  Loader,     \* the populator, which wrote the initial contents
  Indexed,    \* the records the tables hold at the start
  Fresh,      \* the records that InsertRecord may create
  Shared,     \* bound: the records that procedures also read without updating
  MaxAccess,  \* kMaxAccessNum
  Batch,      \* the number of transactions in each thread's batch
  MaxEpoch    \* bound: the epoch thread stops here

Record == Indexed \cup Fresh

Writer == (Thread \X (0..Batch)) \cup {Loader}

ASSUME LockWaitConstants ==
  /\ IsFiniteSet(Thread) /\ Indexed \cap Fresh = {} /\ Shared \subseteq Indexed
  /\ Loader \notin Thread \X Nat
  /\ Unread \notin Writer /\ Kept \notin Writer /\ Kept \notin BOOLEAN
  /\ MaxAccess \in Nat /\ Batch \in Nat \ {0}
  /\ TsSpan \in Nat \ {0} /\ MaxEpoch \in Nat \ {0}

VARIABLES
  word,      \* word[r]: the transaction that wrote SchemaRecord::data_ptr_
  visible,   \* SchemaRecord::is_visible_
  ts,        \* LockWaitContent::timestamp_
  lockType,  \* LockWaitContent::lock_type_
  owners,    \* owners_head_: the timestamps of the owners
  waiters,   \* waiters_head_: entries [ts, type, thread]
  epoch,     \* Epoch::curr_epoch_
  monotone,  \* GlobalTimestamp::monotone_timestamp_
  isFinish,  \* ConcurrentExecutor::is_finish_
  pc,        \* where each thread is
  left,      \* transactions left in the thread's batch
  isFirst,   \* TransactionManager::is_first_access_
  startTs,   \* TransactionManager::start_timestamp_
  request,   \* the arguments of the SelectRecordCC that runs
  ready,     \* its lock_ready, which the releasing thread sets
  accesses,  \* access_list_: entries [record, type, ts, seen, new]
  finished,  \* entries whose stamp, undo or release is done
  restored,  \* AbortTransaction has restored the next entry
  currEpoch, \* curr_epoch of CommitTransaction
  commitTs   \* commit_ts of CommitTransaction

content == <<word, visible, ts>>
locks   == <<lockType, owners, waiters>>
clocks  == <<epoch, monotone, isFinish>>
txn     == <<isFirst, startTs, request, accesses, finished, restored,
             currEpoch, commitTs>>
vars    == <<content, locks, clocks, pc, left, ready, txn>>

-----------------------------------------------------------------------------
Name(t) == <<t, left[t]>>

NoRequest == [record |-> 0, type |-> "NO_ACCESS"]

Entries(t) == {accesses[t][i] : i \in DOMAIN accesses[t]}

Accessed(t) == {e.record : e \in Entries(t)}

(***************************************************************************)
(* Conflict, and the order of the waiters: from large to small.            *)
(***************************************************************************)
\* Mutant: only two writers conflict.
ConflictOfWriters(a, b) == a = "WRITE_LOCK" /\ b = "WRITE_LOCK"

Conflict(a, b) ==
  a # "NO_LOCK" /\ b # "NO_LOCK" /\ ~(a = "READ_LOCK" /\ b = "READ_LOCK")

BufferWaiter(queue, entry) ==
  LET n == Cardinality({i \in DOMAIN queue : entry.ts < queue[i].ts})
  IN  InsertAt(queue, n + 1, entry)

(***************************************************************************)
(* DebufferWaiters: a writer at the head is granted alone, readers up to   *)
(* the first writer together.                                              *)
(***************************************************************************)
GrantCount(queue) ==
  Cardinality({i \in DOMAIN queue :
    \/ i = 1
    \/ \A j \in 1..i : queue[j].type = "READ_LOCK"})

LockTypeOf(type) == IF type = "READ_ONLY" THEN "READ_LOCK" ELSE "WRITE_LOCK"

Init ==
  /\ word = [r \in Record |-> Loader]
  /\ visible = [r \in Record |-> r \in Indexed]
  /\ ts = [r \in Record |-> ZeroTs]
  /\ lockType = [r \in Record |-> "NO_LOCK"]
  /\ owners = [r \in Record |-> {}]
  /\ waiters = [r \in Record |-> <<>>]
  /\ epoch = 1 /\ monotone = 1 /\ isFinish = FALSE
  /\ pc = [t \in Thread |-> "idle"]
  /\ left = [t \in Thread |-> Batch]
  /\ isFirst = [t \in Thread |-> TRUE]
  /\ startTs = [t \in Thread |-> 0]
  /\ request = [t \in Thread |-> NoRequest]
  /\ ready = [t \in Thread |-> TRUE]
  /\ accesses = [t \in Thread |-> <<>>]
  /\ finished = [t \in Thread |-> 0]
  /\ restored = [t \in Thread |-> FALSE]
  /\ currEpoch = [t \in Thread |-> 0]
  /\ commitTs = [t \in Thread |-> ZeroTs]

-----------------------------------------------------------------------------
(***************************************************************************)
(* The executor calls StoredProcedure::Execute, for the next transaction   *)
(* of its batch or again for the one that aborted.                         *)
(***************************************************************************)
Execute(t) ==
  /\ pc[t] = "idle"
  /\ pc' = [pc EXCEPT ![t] = "exec"]
  /\ UNCHANGED <<content, locks, clocks, left, ready, txn>>

(***************************************************************************)
(* The start timestamp, at the first access only.                          *)
(***************************************************************************)
DrawStartTimestamp(t) ==
  /\ isFirst' = [isFirst EXCEPT ![t] = FALSE]
  /\ IF isFirst[t]
     THEN /\ startTs' = [startTs EXCEPT ![t] = monotone]
          /\ monotone' = monotone + 1
     ELSE UNCHANGED <<startTs, monotone>>

(***************************************************************************)
(* InsertRecord takes no lock: no index knows the record.                  *)
(***************************************************************************)
InsertRecord(t, r) ==
  /\ pc[t] = "exec" /\ Len(accesses[t]) < MaxAccess
  /\ ~visible[r] /\ \A u \in Thread : r \notin Accessed(u)
  /\ DrawStartTimestamp(t)
  /\ visible' = [visible EXCEPT ![r] = TRUE]
  /\ accesses' = [accesses EXCEPT ![t] = Append(@,
       [record |-> r, type |-> "INSERT_ONLY", ts |-> ZeroTs,
        seen |-> Unread, new |-> Kept])]
  /\ UNCHANGED <<word, ts, locks, epoch, isFinish, pc, left, ready, request,
                 finished, restored, currEpoch, commitTs>>

(***************************************************************************)
(* SelectRecordCC, up to the call of AcquireLock.  A procedure selects a   *)
(* record at most once.                                                    *)
(***************************************************************************)
SelectRecordCC(t, r, type) ==
  /\ pc[t] = "exec" /\ Len(accesses[t]) < MaxAccess
  /\ r \notin Accessed(t)
  /\ DrawStartTimestamp(t)
  /\ request' = [request EXCEPT ![t] = [record |-> r, type |-> type]]
  /\ pc' = [pc EXCEPT ![t] = "acquire"]
  /\ UNCHANGED <<content, locks, epoch, isFinish, left, ready, accesses,
                 finished, restored, currEpoch, commitTs>>

(***************************************************************************)
(* AcquireLock: wait if older than all owners, or, when there is no        *)
(* conflict, if older than the waiter at the head; own the lock; or die.   *)
(***************************************************************************)
\* Mutant: whoever meets a conflict waits.
CanWaitAlways(t, r) == TRUE

CanWait(t, r) == \A o \in owners[r] : startTs[t] <= o

Yields(t, r) == waiters[r] # <<>> /\ startTs[t] < Head(waiters[r]).ts

Wait(t, r, type) ==
  /\ waiters' = [waiters EXCEPT ![r] =
       BufferWaiter(@, [ts |-> startTs[t], type |-> type, thread |-> t])]
  /\ ready' = [ready EXCEPT ![t] = FALSE]
  /\ pc' = [pc EXCEPT ![t] = "wait"]
  /\ UNCHANGED <<lockType, owners>>

Own(t, r, type) ==
  /\ owners' = [owners EXCEPT ![r] = @ \cup {startTs[t]}]
  /\ lockType' = [lockType EXCEPT ![r] = type]
  /\ ready' = [ready EXCEPT ![t] = TRUE]
  /\ pc' = [pc EXCEPT ![t] = "wait"]
  /\ UNCHANGED waiters

Die(t) ==
  /\ pc' = [pc EXCEPT ![t] = "undo"]
  /\ UNCHANGED <<locks, ready>>

AcquireLock(t) ==
  /\ pc[t] = "acquire"
  /\ LET r    == request[t].record
         type == LockTypeOf(request[t].type)
     IN  IF Conflict(type, lockType[r])
         THEN IF CanWait(t, r) THEN Wait(t, r, type) ELSE Die(t)
         ELSE IF Yields(t, r) THEN Wait(t, r, type) ELSE Own(t, r, type)
  /\ UNCHANGED <<content, clocks, left, txn>>

(***************************************************************************)
(* The thread leaves the spin loop on lock_ready and enters the access     *)
(* into its list; for an update it copies the record first.                *)
(***************************************************************************)
NewAccess(t) ==
  /\ pc[t] = "wait" /\ ready[t]
  /\ LET r == request[t].record
     IN  accesses' = [accesses EXCEPT ![t] = Append(@,
           [record |-> r, type |-> request[t].type, ts |-> ts[r], new |-> Kept,
            seen   |-> IF request[t].type = "READ_WRITE" THEN word[r]
                                                         ELSE Unread])]
  /\ request' = [request EXCEPT ![t] = NoRequest]
  /\ pc' = [pc EXCEPT ![t] = "exec"]
  /\ UNCHANGED <<content, locks, clocks, left, ready, isFirst, startTs,
                 finished, restored, currEpoch, commitTs>>

(***************************************************************************)
(* The procedure reads a record it has selected, or updates it in place.   *)
(***************************************************************************)
ReadRecord(t) ==
  /\ pc[t] = "exec"
  /\ \E i \in DOMAIN accesses[t] :
       /\ accesses[t][i].type = "READ_ONLY" /\ accesses[t][i].seen = Unread
       /\ accesses' = [accesses EXCEPT ![t][i].seen =
                                           word[accesses[t][i].record]]
  /\ UNCHANGED <<content, locks, clocks, pc, left, ready, isFirst, startTs,
                 request, finished, restored, currEpoch, commitTs>>

UpdateRecord(t) ==
  /\ pc[t] = "exec"
  /\ \E i \in DOMAIN accesses[t] :
       /\ accesses[t][i].type = "READ_WRITE" /\ accesses[t][i].new = Kept
       /\ accesses' = [accesses EXCEPT ![t][i].new = Name(t)]
       /\ word' = [word EXCEPT ![accesses[t][i].record] = Name(t)]
  /\ UNCHANGED <<visible, ts, locks, clocks, pc, left, ready, isFirst, startTs,
                 request, finished, restored, currEpoch, commitTs>>

-----------------------------------------------------------------------------
(***************************************************************************)
(* CommitTransaction cannot fail.  It draws the commit timestamp in two    *)
(* steps and stamps the records it has written...                          *)
(***************************************************************************)
CommitTransaction(t) ==
  /\ pc[t] = "exec"
  /\ currEpoch' = [currEpoch EXCEPT ![t] = epoch]
  /\ pc' = [pc EXCEPT ![t] = "timestamp"]
  /\ UNCHANGED <<content, locks, clocks, left, ready, isFirst, startTs,
                 request, accesses, finished, restored, commitTs>>

GetMonotoneTimestamp(t) ==
  /\ pc[t] = "timestamp"
  /\ commitTs' = [commitTs EXCEPT ![t] =
                    GenerateMonotoneTimestamp(currEpoch[t], monotone)]
  /\ monotone' = monotone + 1
  /\ pc' = [pc EXCEPT ![t] = "stamp"]
  /\ UNCHANGED <<content, locks, epoch, isFinish, left, ready, isFirst,
                 startTs, request, accesses, finished, restored, currEpoch>>

Current(t) == accesses[t][finished[t] + 1]

SetTimestamp(t) ==
  /\ pc[t] = "stamp" /\ finished[t] < Len(accesses[t])
  /\ ts' = IF Current(t).type = "READ_ONLY" THEN ts
           ELSE [ts EXCEPT ![Current(t).record] = commitTs[t]]
  /\ finished' = [finished EXCEPT ![t] = @ + 1]
  /\ UNCHANGED <<word, visible, locks, clocks, pc, left, ready, isFirst,
                 startTs, request, accesses, restored, currEpoch, commitTs>>

EndStamp(t) ==
  /\ pc[t] = "stamp" /\ finished[t] = Len(accesses[t])
  /\ finished' = [finished EXCEPT ![t] = 0]
  /\ pc' = [pc EXCEPT ![t] = "release"]
  /\ UNCHANGED <<content, locks, clocks, left, ready, isFirst, startTs,
                 request, accesses, restored, currEpoch, commitTs>>

(***************************************************************************)
(* ... while AbortTransaction restores each entry...                       *)
(***************************************************************************)
Restore(t) ==
  /\ pc[t] = "undo" /\ finished[t] < Len(accesses[t]) /\ ~restored[t]
  /\ LET e == Current(t)
     IN  /\ word' = IF e.type = "READ_WRITE"
                    THEN [word EXCEPT ![e.record] = e.seen] ELSE word
         /\ visible' = IF e.type = "INSERT_ONLY"
                       THEN [visible EXCEPT ![e.record] = FALSE] ELSE visible
  /\ restored' = [restored EXCEPT ![t] = TRUE]
  /\ UNCHANGED <<ts, locks, clocks, pc, left, ready, isFirst, startTs, request,
                 accesses, finished, currEpoch, commitTs>>

(***************************************************************************)
(* ... and both release the locks in access order.  The last owner hands   *)
(* the lock to the waiters.                                                *)
(***************************************************************************)
\* Mutant: the waiters become owners, and are not told.
HandOverSilent(t, r) ==
  LET queue == waiters[r]
      rest  == owners[r] \ {startTs[t]}
      n     == IF rest = {} THEN GrantCount(queue) ELSE 0
  IN  /\ owners' = [owners EXCEPT ![r] = rest \cup {queue[i].ts : i \in 1..n}]
      /\ waiters' = [waiters EXCEPT ![r] = SubSeq(queue, n + 1, Len(queue))]
      /\ lockType' = [lockType EXCEPT ![r] =
                        IF rest # {} THEN @
                        ELSE IF n = 0 THEN "NO_LOCK" ELSE queue[n].type]
      /\ ready' = ready

HandOver(t, r) ==
  LET queue == waiters[r]
      rest  == owners[r] \ {startTs[t]}
      n     == IF rest = {} THEN GrantCount(queue) ELSE 0
  IN  /\ owners' = [owners EXCEPT ![r] = rest \cup {queue[i].ts : i \in 1..n}]
      /\ waiters' = [waiters EXCEPT ![r] = SubSeq(queue, n + 1, Len(queue))]
      /\ lockType' = [lockType EXCEPT ![r] =
                        IF rest # {} THEN @
                        ELSE IF n = 0 THEN "NO_LOCK" ELSE queue[n].type]
      /\ ready' = [u \in Thread |->
                     ready[u] \/ \E i \in 1..n : queue[i].thread = u]

ReleaseLock(t) ==
  /\ pc[t] = "release" \/ (pc[t] = "undo" /\ restored[t])
  /\ finished[t] < Len(accesses[t])
  /\ IF Current(t).type = "INSERT_ONLY" THEN UNCHANGED <<locks, ready>>
                                      ELSE HandOver(t, Current(t).record)
  /\ finished' = [finished EXCEPT ![t] = @ + 1]
  /\ restored' = [restored EXCEPT ![t] = FALSE]
  /\ UNCHANGED <<content, clocks, pc, left, isFirst, startTs, request,
                 accesses, currEpoch, commitTs>>

ClearAccess(t) ==
  /\ accesses' = [accesses EXCEPT ![t] = <<>>]
  /\ finished' = [finished EXCEPT ![t] = 0]
  /\ request' = [request EXCEPT ![t] = NoRequest]
  /\ currEpoch' = [currEpoch EXCEPT ![t] = 0]
  /\ commitTs' = [commitTs EXCEPT ![t] = ZeroTs]

\* Mutant: the last transaction is missed by one.
LastOfBatchPassed(t) == left[t] = 0

LastOfBatch(t) == left[t] = 1

(***************************************************************************)
(* CommitTransaction returns; the executor counts the transaction.  The    *)
(* next one draws a new start timestamp.                                   *)
(***************************************************************************)
ReturnCommitted(t) ==
  /\ pc[t] = "release" /\ finished[t] = Len(accesses[t])
  /\ isFirst' = [isFirst EXCEPT ![t] = TRUE]
  /\ left' = [left EXCEPT ![t] = @ - 1]
  /\ pc' = [pc EXCEPT ![t] = IF isFinish \/ LastOfBatch(t) THEN "done"
                                                           ELSE "idle"]
  /\ isFinish' = (isFinish \/ LastOfBatch(t))
  /\ ClearAccess(t)
  /\ UNCHANGED <<content, locks, epoch, monotone, ready, startTs, restored>>

(***************************************************************************)
(* SelectRecordCC has called AbortTransaction and returns false, and so    *)
(* does the procedure: the executor tries the transaction again, with its  *)
(* old start timestamp, unless another thread has finished.                *)
(***************************************************************************)
ReturnAborted(t) ==
  /\ pc[t] = "undo" /\ finished[t] = Len(accesses[t])
  /\ pc' = [pc EXCEPT ![t] = IF isFinish THEN "done" ELSE "idle"]
  /\ ClearAccess(t)
  /\ UNCHANGED <<content, locks, clocks, left, ready, isFirst, startTs,
                 restored>>

(***************************************************************************)
(* The epoch thread, every 40 ms.                                          *)
(***************************************************************************)
AdvanceEpoch ==
  /\ epoch < MaxEpoch
  /\ epoch' = epoch + 1
  /\ UNCHANGED <<content, locks, monotone, isFinish, pc, left, ready, txn>>

AllDone == \A t \in Thread : pc[t] = "done"

(***************************************************************************)
(* The batch run is over: ProcessQuery has joined its threads.             *)
(***************************************************************************)
Joined == AllDone /\ UNCHANGED vars

Select(t) ==
  \/ \E r \in Fresh : InsertRecord(t, r)
  \/ \E r \in Indexed : SelectRecordCC(t, r, "READ_WRITE")
  \/ \E r \in Shared : SelectRecordCC(t, r, "READ_ONLY")
  \/ AcquireLock(t) \/ NewAccess(t) \/ ReadRecord(t) \/ UpdateRecord(t)

Step(t) ==
  \/ Execute(t) \/ Select(t) \/ CommitTransaction(t)
  \/ GetMonotoneTimestamp(t) \/ SetTimestamp(t) \/ EndStamp(t)
  \/ Restore(t) \/ ReleaseLock(t) \/ ReturnCommitted(t) \/ ReturnAborted(t)

Next == (\E t \in Thread : Step(t)) \/ AdvanceEpoch \/ Joined

(***************************************************************************)
(* The operating system runs every worker thread that can take a step.     *)
(***************************************************************************)
Fairness == \A t \in Thread : WF_vars(Step(t))

Spec     == Init /\ [][Next]_vars
FairSpec == Spec /\ Fairness

-----------------------------------------------------------------------------
Waiter  == [ts : Nat, type : {"READ_LOCK", "WRITE_LOCK"}, thread : Thread]
Request == [record : Indexed, type : {"READ_ONLY", "READ_WRITE"}]
Entry   == [record : Record, type : {"READ_ONLY", "READ_WRITE", "INSERT_ONLY"},
            ts : Timestamp, seen : Writer \cup {Unread},
            new : Writer \cup {Kept}]

\* The types of the variables of LockWait.
TypeOK ==
  /\ word \in [Record -> Writer]
  /\ visible \in [Record -> BOOLEAN]
  /\ ts \in [Record -> Timestamp]
  /\ lockType \in [Record -> {"NO_LOCK", "READ_LOCK", "WRITE_LOCK"}]
  /\ owners \in [Record -> SUBSET Nat]
  /\ waiters \in [Record -> Seq(Waiter)]
  /\ epoch \in Nat /\ monotone \in Nat /\ isFinish \in BOOLEAN
  /\ pc \in [Thread -> {"idle", "exec", "acquire", "wait", "timestamp", "stamp",
                        "release", "undo", "done"}]
  /\ left \in [Thread -> 0..Batch]
  /\ isFirst \in [Thread -> BOOLEAN] /\ startTs \in [Thread -> Nat]
  /\ request \in [Thread -> Request \cup {NoRequest}]
  /\ ready \in [Thread -> BOOLEAN]
  /\ accesses \in [Thread -> Seq(Entry)]
  /\ finished \in [Thread -> Nat] /\ restored \in [Thread -> BOOLEAN]
  /\ currEpoch \in [Thread -> Nat] /\ commitTs \in [Thread -> Timestamp]

(***************************************************************************)
(* Wait-die: a thread waits only for younger ones, for the owners of a     *)
(* lock and for the waiters before it, so threads never wait in a circle.  *)
(* New owners join while others wait (LockWaitContent.h:62-74), and        *)
(* waiters become owners, and still it holds; the list stays sorted from   *)
(* large to small (LockWaitContent.h:191).                                 *)
(***************************************************************************)
WaitersAreOldest(r) ==
  \A i \in DOMAIN waiters[r] :
    /\ \A o \in owners[r] : waiters[r][i].ts < o
    /\ \A j \in DOMAIN waiters[r] : i < j => waiters[r][j].ts < waiters[r][i].ts

WaitsForYounger == \A r \in Record : WaitersAreOldest(r)

(***************************************************************************)
(* The entries of t whose lock has not been given back.                    *)
(***************************************************************************)
Locked(t) ==
  {accesses[t][i] : i \in {j \in DOMAIN accesses[t] :
     /\ accesses[t][j].type # "INSERT_ONLY"
     /\ pc[t] \in {"release", "undo"} => j > finished[t]}}

Granted(t) == IF pc[t] = "wait" /\ ready[t] THEN {request[t]} ELSE {}

Readers(r) == {t \in Thread : \E e \in Locked(t) \cup Granted(t) :
                 e.record = r /\ e.type = "READ_ONLY"}
Writers(r) == {t \in Thread : \E e \in Locked(t) \cup Granted(t) :
                 e.record = r /\ e.type = "READ_WRITE"}
Waiting(r) == {t \in Thread : pc[t] = "wait" /\ ~ready[t]
                              /\ request[t].record = r}

(***************************************************************************)
(* The lists of a lock are the threads that own it and that spin for it,   *)
(* whoever released it last: a thread that spins is still queued, so no    *)
(* wake-up is lost, one that goes on is an owner, so ReleaseLock finds its *)
(* entry (the assertion of LockWaitContent.h:98 never runs), and a writer  *)
(* is alone.                                                               *)
(***************************************************************************)
ListsAgreeAt(r) ==
  /\ owners[r] = {startTs[t] : t \in Readers(r) \cup Writers(r)}
  /\ Cardinality(owners[r]) = Cardinality(Readers(r) \cup Writers(r))
  /\ {waiters[r][i].thread : i \in DOMAIN waiters[r]} = Waiting(r)
  /\ lockType[r] = "WRITE_LOCK" <=> Writers(r) # {}
  /\ lockType[r] = "NO_LOCK" <=> owners[r] = {}
  /\ Writers(r) # {} => Cardinality(owners[r]) = 1

ListsAgree == \A r \in Record : ListsAgreeAt(r)

(***************************************************************************)
(* The assertions on the commit timestamp (TxnManagerLockWait.tpp:148, 152 *)
(* and LockWaitContent.h:132): it is no smaller than the one the record    *)
(* had when it was accessed, nor than the one it has.                      *)
(***************************************************************************)
CommitTsAboveAccess ==
  \A t \in Thread : pc[t] = "stamp" =>
    \A i \in DOMAIN accesses[t] : i > finished[t] =>
      \/ accesses[t][i].type = "READ_ONLY"
      \/ /\ ~TsLess(commitTs[t], accesses[t][i].ts)
         /\ ~TsLess(commitTs[t], ts[accesses[t][i].record])

(***************************************************************************)
(* Every thread leaves its batch.  The oldest transaction dies for nobody, *)
(* a transaction that dies keeps its age, and with two threads no stream   *)
(* of younger readers keeps an older writer waiting.                       *)
(***************************************************************************)
Terminates == <>AllDone

-----------------------------------------------------------------------------
(***************************************************************************)
(* Refinement.  A transaction takes effect when it draws its commit        *)
(* timestamp; until then the content it has replaced in place counts.      *)
(***************************************************************************)
Committed(t) == pc[t] \in {"stamp", "release"}

(***************************************************************************)
(* The entries that would be undone, should their transactions abort.      *)
(***************************************************************************)
Undoable(t) ==
  IF Committed(t) THEN {}
  ELSE {accesses[t][i] : i \in {j \in DOMAIN accesses[t] :
                                  pc[t] = "undo" => j > finished[t]}}

Pending(r) == {e \in UNION {Undoable(t) : t \in Thread} : e.record = r}

SerialRecord(r) ==
  LET updates == {e \in Pending(r) : e.type = "READ_WRITE"}
  IN  [value |-> IF updates = {} THEN word[r]
                 ELSE (CHOOSE e \in updates : TRUE).seen,
       live  |-> visible[r] /\ \A e \in Pending(r) : e.type # "INSERT_ONLY"]

NoOutcome ==
  [seen  |-> [r \in Record |-> [c \in {"data"} |-> Unread]],
   wrote |-> [r \in Record |-> [value |-> Kept, live |-> Kept]]]

SerialOutcome(t) ==
  LET of(r) == {e \in Entries(t) : e.record = r}
  IN  IF ~Committed(t) THEN NoOutcome
      ELSE [seen  |-> [r \in Record |-> [c \in {"data"} |->
                        IF of(r) = {} THEN Unread
                        ELSE (CHOOSE e \in of(r) : TRUE).seen]],
            wrote |-> [r \in Record |->
                        [value |-> IF of(r) = {} THEN Kept
                                   ELSE (CHOOSE e \in of(r) : TRUE).new,
                         live  |-> IF \E e \in of(r) : e.type = "INSERT_ONLY"
                                   THEN TRUE ELSE Kept]]]

Serial == INSTANCE SerialStore WITH
  Column    <- {"data"},
  Value     <- Writer,
  InitValue <- Loader,
  store     <- [r \in Record |-> SerialRecord(r)],
  outcome   <- [t \in Thread |-> SerialOutcome(t)]

(***************************************************************************)
(* LockWait implements the serial store: nobody sees an update in place    *)
(* that is undone later, and the undoing restores what the transactions    *)
(* committed before have left.                                             *)
(***************************************************************************)
ImplementsSerialStore == Serial!Spec
=============================================================================
