-------------------------------- MODULE Occ --------------------------------
(***************************************************************************)
(* Optimistic concurrency control: Database/Transaction/TxnManagerOcc.tpp  *)
(* over Content/LockContent.h, run by the worker threads of                *)
(* Executor/ConcurrentExecutor.h, with the commit timestamps of            *)
(* TransactionManager::GenerateMonotoneTimestamp (the default build) and   *)
(* the epoch thread of Transaction/Epoch.h.                                *)
(*                                                                         *)
(* A transaction reads without locks, remembering the timestamp of every   *)
(* record before it reads it.  CommitTransaction sorts the access list by  *)
(* address, locks the records one by one and validates each timestamp      *)
(* under its lock; then it draws a commit timestamp, installs the local    *)
(* copies (a memcpy per record, here one column at a time, so that a       *)
(* concurrent unlocked reader may see half of it) and releases.            *)
(*                                                                         *)
(* An update rewrites every column of its record: CopyFrom copies the      *)
(* whole record back, so the value of a local copy is one element of       *)
(* Value and a record whose columns differ is one that is being installed. *)
(* A lock operation is one step (see LockContent).                         *)
(***************************************************************************)
EXTENDS FiniteSets, LockContent

CONSTANTS
  Thread, Column, Value, InitValue, Unread, Kept,
  Indexed,    \* addresses of the records the tables hold at the start
  Fresh,      \* addresses that InsertRecord may allocate
  AccessType, \* the access types the procedures use, of AnyAccess
  MaxAccess,  \* kMaxAccessNum
  Batch,      \* the number of transactions in each thread's batch
  MaxEpoch    \* bound: the epoch thread stops here

Record == Indexed \cup Fresh

AnyAccess == {"READ_ONLY", "READ_WRITE", "INSERT_ONLY", "DELETE_ONLY"}

ASSUME OccConstants ==
  /\ Record \subseteq Nat /\ Indexed \cap Fresh = {}
  /\ IsFiniteSet(Thread)
  /\ AccessType \subseteq AnyAccess
  /\ InitValue \in Value /\ Unread \notin Value
  /\ Kept \notin Value /\ Kept \notin BOOLEAN
  /\ Column # {}
  /\ MaxAccess \in Nat /\ Batch \in Nat \ {0}
  /\ TsSpan \in Nat \ {0} /\ MaxEpoch \in Nat \ {0}

VARIABLES
  word,      \* word[r][c]: column c of SchemaRecord::data_ptr_
  visible,   \* SchemaRecord::is_visible_
  ts,        \* LockContent::timestamp_
  lock,      \* LockContent::lock_: RWLock's lock_type_ and reader_count_
  epoch,     \* Epoch::curr_epoch_
  monotone,  \* GlobalTimestamp::monotone_timestamp_
  isFinish,  \* ConcurrentExecutor::is_finish_
  pc,        \* where each thread is
  left,      \* transactions left in the thread's batch
  access,    \* access[t][r]: access_type_ of the entry for r, or NoAccess
  accessTs,  \* timestamp_ of that entry
  seen,      \* the columns of r that t has read or copied
  local,     \* the updated local_record_ of a READ_WRITE entry
  held,      \* the records CommitTransaction has locked
  stored,    \* columns of the record being installed that are written
  installed, \* records whose new timestamp is set
  currEpoch, \* curr_epoch of CommitTransaction
  commitTs,  \* commit_ts of CommitTransaction
  readTs     \* history: the largest commit_ts of a committed reader of r

shared == <<word, visible, ts, lock, epoch, monotone, isFinish>>
txn    == <<access, accessTs, seen, local, held, stored, installed,
            currEpoch, commitTs>>
vars   == <<shared, pc, left, txn, readTs>>

-----------------------------------------------------------------------------
(***************************************************************************)
(* The access list.  Sort() orders it by record address, so the loops of   *)
(* CommitTransaction visit its records in increasing order.                *)
(***************************************************************************)
NoAccess == "NO_ACCESS"
NoLocal  == Kept

Accessed(t) == {r \in Record : access[t][r] # NoAccess}
Updates(t)  == {r \in Record : access[t][r] = "READ_WRITE"}
Reads(t)    == {r \in Record : access[t][r] \in {"READ_ONLY", "READ_WRITE"}}
Writes(t)   == Accessed(t) \ {r \in Record : access[t][r] = "READ_ONLY"}

IsFirst(r, S) == r \in S /\ \A q \in S : r <= q
IsLast(r, S)  == r \in S /\ \A q \in S : q <= r

\* Mutant: the access list is not sorted.
NextToLockUnsorted(t, r) == r \in Accessed(t) \ held[t]

NextToLock(t, r)    == IsFirst(r, Accessed(t) \ held[t])
NextToInstall(t, r) == IsFirst(r, Writes(t) \ installed[t])
NextToRelease(t, r) == IsFirst(r, held[t])

(***************************************************************************)
(* The READ_WRITE record whose memcpy is not finished, if any: the thread  *)
(* is then inside SelectRecordCC.                                          *)
(***************************************************************************)
Copying(t) == {r \in Updates(t) : \E c \in Column : seen[t][r][c] = Unread}

(***************************************************************************)
(* access_list_.Clear(), with the locals of CommitTransaction.             *)
(***************************************************************************)
ClearAccess(t) ==
  /\ access'    = [access EXCEPT ![t] = [r \in Record |-> NoAccess]]
  /\ accessTs'  = [accessTs EXCEPT ![t] = [r \in Record |-> ZeroTs]]
  /\ seen'      = [seen EXCEPT ![t] = [r \in Record |-> [c \in Column |-> Unread]]]
  /\ local'     = [local EXCEPT ![t] = [r \in Record |-> NoLocal]]
  /\ installed' = [installed EXCEPT ![t] = {}]
  /\ currEpoch' = [currEpoch EXCEPT ![t] = 0]
  /\ commitTs'  = [commitTs EXCEPT ![t] = ZeroTs]
  /\ UNCHANGED <<held, stored>>

Init ==
  /\ word = [r \in Record |-> [c \in Column |-> InitValue]]
  /\ visible = [r \in Record |-> r \in Indexed]
  /\ ts = [r \in Record |-> ZeroTs]
  /\ lock = [r \in Record |-> NoLock]
  /\ epoch = 1 /\ monotone = 1 /\ isFinish = FALSE
  /\ pc = [t \in Thread |-> "idle"]
  /\ left = [t \in Thread |-> Batch]
  /\ access = [t \in Thread |-> [r \in Record |-> NoAccess]]
  /\ accessTs = [t \in Thread |-> [r \in Record |-> ZeroTs]]
  /\ seen = [t \in Thread |-> [r \in Record |-> [c \in Column |-> Unread]]]
  /\ local = [t \in Thread |-> [r \in Record |-> NoLocal]]
  /\ held = [t \in Thread |-> {}]
  /\ stored = [t \in Thread |-> {}]
  /\ installed = [t \in Thread |-> {}]
  /\ currEpoch = [t \in Thread |-> 0]
  /\ commitTs = [t \in Thread |-> ZeroTs]
  /\ readTs = [r \in Record |-> ZeroTs]

-----------------------------------------------------------------------------
(***************************************************************************)
(* The executor calls StoredProcedure::Execute, for the next transaction   *)
(* of its batch or again for the one that aborted.                         *)
(***************************************************************************)
Execute(t) ==
  /\ pc[t] = "idle"
  /\ pc' = [pc EXCEPT ![t] = "exec"]
  /\ UNCHANGED <<shared, left, txn, readTs>>

(***************************************************************************)
(* SelectRecordCC: a new entry with the timestamp the record has now.  A   *)
(* procedure selects a record at most once.                                *)
(***************************************************************************)
SelectRecordCC(t, r, type) ==
  /\ type # "INSERT_ONLY"
  /\ pc[t] = "exec" /\ Copying(t) = {}
  /\ r \in Indexed /\ access[t][r] = NoAccess
  /\ Cardinality(Accessed(t)) < MaxAccess
  /\ access' = [access EXCEPT ![t][r] = type]
  /\ accessTs' = [accessTs EXCEPT ![t][r] = ts[r]]
  /\ UNCHANGED <<shared, pc, left, seen, local, held, stored, installed,
                 currEpoch, commitTs, readTs>>

(***************************************************************************)
(* One column leaves the global record: the procedure reads it through     *)
(* the pointer a READ_ONLY access returned, at any time before it commits, *)
(* or the memcpy of a READ_WRITE access reaches it.  No lock is held.      *)
(***************************************************************************)
ReadColumn(t, r, c) ==
  /\ pc[t] = "exec" /\ r \in Reads(t)
  /\ Copying(t) \subseteq {r}
  /\ seen[t][r][c] = Unread
  /\ seen' = [seen EXCEPT ![t][r][c] = word[r][c]]
  /\ UNCHANGED <<shared, pc, left, access, accessTs, local, held, stored,
                 installed, currEpoch, commitTs, readTs>>

(***************************************************************************)
(* InsertRecord: a record that no index knows, at a fresh address (the     *)
(* one an aborted insertion has leaked is as good as a new one).           *)
(***************************************************************************)
InsertRecord(t, r) ==
  /\ "INSERT_ONLY" \in AccessType
  /\ pc[t] = "exec" /\ Copying(t) = {}
  /\ r \in Fresh /\ ~visible[r]
  /\ \A u \in Thread : access[u][r] = NoAccess
  /\ Cardinality(Accessed(t)) < MaxAccess
  /\ access' = [access EXCEPT ![t][r] = "INSERT_ONLY"]
  /\ accessTs' = [accessTs EXCEPT ![t][r] = ZeroTs]
  /\ UNCHANGED <<shared, pc, left, seen, local, held, stored, installed,
                 currEpoch, commitTs, readTs>>

(***************************************************************************)
(* The procedure has updated its local copies and calls                    *)
(* CommitTransaction, which sorts the access list.                         *)
(***************************************************************************)
CommitTransaction(t) ==
  /\ pc[t] = "exec" /\ Copying(t) = {}
  /\ \E update \in [Updates(t) -> Value] :
       local' = [local EXCEPT ![t] = [r \in Record |->
                   IF r \in Updates(t) THEN update[r] ELSE NoLocal]]
  /\ pc' = [pc EXCEPT ![t] = IF Accessed(t) = {} THEN "epoch" ELSE "lock"]
  /\ UNCHANGED <<shared, left, access, accessTs, seen, held, stored,
                 installed, currEpoch, commitTs, readTs>>

(***************************************************************************)
(* Step 1 of CommitTransaction: lock the next record of the sorted list... *)
(***************************************************************************)
AcquireLock(t) ==
  /\ pc[t] = "lock"
  /\ \E r \in Record :
       /\ NextToLock(t, r)
       /\ IF access[t][r] = "READ_ONLY"
          THEN /\ CanReadLock(lock[r])
               /\ lock' = [lock EXCEPT ![r] = ReadLocked(lock[r])]
          ELSE /\ CanWriteLock(lock[r])
               /\ lock' = [lock EXCEPT ![r] = WriteLocked(lock[r])]
       /\ held' = [held EXCEPT ![t] = @ \cup {r}]
  /\ pc' = [pc EXCEPT ![t] = "validate"]
  /\ UNCHANGED <<word, visible, ts, epoch, monotone, isFinish, left, access,
                 accessTs, seen, local, stored, installed, currEpoch, commitTs,
                 readTs>>

(***************************************************************************)
(* ... and check that nobody has changed it since it was read.  Inserted   *)
(* and deleted records are not checked.                                    *)
(***************************************************************************)
\* Mutants: only the write set, or only the read set, is validated.
ValidWrites(t, r) == r \in Updates(t) => ts[r] = accessTs[t][r]
ValidReads(t, r)  == access[t][r] = "READ_ONLY" => ts[r] = accessTs[t][r]

Valid(t, r) == r \in Reads(t) => ts[r] = accessTs[t][r]

\* Mutant: lock_count does not count the record whose validation failed.
ValidateUncounted(t) ==
  /\ pc[t] = "validate"
  /\ \E r \in Record :
       /\ IsLast(r, held[t])
       /\ pc' = [pc EXCEPT ![t] = IF ~Valid(t, r) THEN "undo"
                                  ELSE IF held[t] = Accessed(t) THEN "epoch"
                                  ELSE "lock"]
       /\ held' = [held EXCEPT ![t] = IF Valid(t, r) THEN @ ELSE @ \ {r}]
  /\ UNCHANGED <<shared, left, access, accessTs, seen, local, stored, installed,
                 currEpoch, commitTs, readTs>>

Validate(t) ==
  /\ pc[t] = "validate"
  /\ \E r \in Record :
       /\ IsLast(r, held[t])
       /\ pc' = [pc EXCEPT ![t] = IF ~Valid(t, r) THEN "undo"
                                  ELSE IF held[t] = Accessed(t) THEN "epoch"
                                  ELSE "lock"]
  /\ UNCHANGED <<shared, left, txn, readTs>>

(***************************************************************************)
(* Step 2: the commit timestamp is drawn in two steps.                     *)
(***************************************************************************)
GetEpoch(t) ==
  /\ pc[t] = "epoch"
  /\ currEpoch' = [currEpoch EXCEPT ![t] = epoch]
  /\ pc' = [pc EXCEPT ![t] = "timestamp"]
  /\ UNCHANGED <<shared, left, access, accessTs, seen, local, held, stored,
                 installed, commitTs, readTs>>

\* Mutant: the counter is loaded, not incremented.
GetMonotoneTimestampLoad(t) ==
  /\ pc[t] = "timestamp"
  /\ commitTs' = [commitTs EXCEPT ![t] =
                    GenerateMonotoneTimestamp(currEpoch[t], monotone)]
  /\ pc' = [pc EXCEPT ![t] = "install"]
  /\ UNCHANGED <<shared, left, access, accessTs, seen, local, held, stored,
                 installed, currEpoch, readTs>>

GetMonotoneTimestamp(t) ==
  /\ pc[t] = "timestamp"
  /\ commitTs' = [commitTs EXCEPT ![t] =
                    GenerateMonotoneTimestamp(currEpoch[t], monotone)]
  /\ monotone' = monotone + 1
  /\ readTs' = [r \in Record |->
       IF r \in Reads(t) /\ TsLess(readTs[r], commitTs'[t]) THEN commitTs'[t]
                                                           ELSE readTs[r]]
  /\ pc' = [pc EXCEPT ![t] = "install"]
  /\ UNCHANGED <<word, visible, ts, lock, epoch, isFinish, left, access,
                 accessTs, seen, local, held, stored, installed, currEpoch>>

(***************************************************************************)
(* The install loop.  CopyFrom stores the columns of an updated record, an *)
(* insertion or a deletion stores the visibility bit, and the new          *)
(* timestamp follows behind a compiler fence.                              *)
(***************************************************************************)
CopyFrom(t, r, c) ==
  /\ pc[t] = "install"
  /\ NextToInstall(t, r) /\ r \in Updates(t)
  /\ c \notin stored[t]
  /\ word' = [word EXCEPT ![r][c] = local[t][r]]
  /\ stored' = [stored EXCEPT ![t] = @ \cup {c}]
  /\ UNCHANGED <<visible, ts, lock, epoch, monotone, isFinish, pc, left, access,
                 accessTs, seen, local, held, installed, currEpoch, commitTs,
                 readTs>>

\* Mutant: a deletion sets the visibility bit as well.
SetVisibleAlways(t, r) ==
  /\ pc[t] = "install"
  /\ NextToInstall(t, r) /\ r \notin Updates(t)
  /\ stored[t] = {}
  /\ visible' = [visible EXCEPT ![r] = TRUE]
  /\ stored' = [stored EXCEPT ![t] = Column]
  /\ UNCHANGED <<word, ts, lock, epoch, monotone, isFinish, pc, left, access,
                 accessTs, seen, local, held, installed, currEpoch, commitTs,
                 readTs>>

SetVisible(t, r) ==
  /\ pc[t] = "install"
  /\ NextToInstall(t, r) /\ r \notin Updates(t)
  /\ stored[t] = {}
  /\ visible' = [visible EXCEPT ![r] = (access[t][r] = "INSERT_ONLY")]
  /\ stored' = [stored EXCEPT ![t] = Column]
  /\ UNCHANGED <<word, ts, lock, epoch, monotone, isFinish, pc, left, access,
                 accessTs, seen, local, held, installed, currEpoch, commitTs,
                 readTs>>

SetTimestamp(t, r) ==
  /\ pc[t] = "install"
  /\ NextToInstall(t, r)
  /\ stored[t] = Column
  /\ ts' = [ts EXCEPT ![r] = commitTs[t]]
  /\ installed' = [installed EXCEPT ![t] = @ \cup {r}]
  /\ stored' = [stored EXCEPT ![t] = {}]
  /\ UNCHANGED <<word, visible, lock, epoch, monotone, isFinish, pc, left,
                 access, accessTs, seen, local, held, currEpoch, commitTs,
                 readTs>>

EndInstall(t) ==
  /\ pc[t] = "install"
  /\ Writes(t) = installed[t]
  /\ pc' = [pc EXCEPT ![t] = "release"]
  /\ UNCHANGED <<shared, left, txn, readTs>>

(***************************************************************************)
(* Step 3, after a success and after a failure alike: the locks taken so   *)
(* far are released in list order (the first lock_count entries).          *)
(***************************************************************************)
ReleaseLock(t) ==
  /\ pc[t] \in {"release", "undo"}
  /\ \E r \in Record :
       /\ NextToRelease(t, r)
       /\ lock' = [lock EXCEPT ![r] = IF access[t][r] = "READ_ONLY"
                                      THEN ReadReleased(@) ELSE WriteReleased(@)]
       /\ held' = [held EXCEPT ![t] = @ \ {r}]
  /\ UNCHANGED <<word, visible, ts, epoch, monotone, isFinish, pc, left, access,
                 accessTs, seen, local, stored, installed, currEpoch, commitTs,
                 readTs>>

(***************************************************************************)
(* CommitTransaction returns true: the executor counts the transaction.    *)
(* It stops when another thread has finished; the thread that reaches the  *)
(* end of its batch sets is_finish_.                                       *)
(***************************************************************************)
ReturnCommitted(t) ==
  /\ pc[t] = "release" /\ held[t] = {}
  /\ left' = [left EXCEPT ![t] = @ - 1]
  /\ pc' = [pc EXCEPT ![t] = IF isFinish \/ left[t] = 1 THEN "done" ELSE "idle"]
  /\ isFinish' = (isFinish \/ left[t] = 1)
  /\ ClearAccess(t)
  /\ UNCHANGED <<word, visible, ts, lock, epoch, monotone, readTs>>

(***************************************************************************)
(* CommitTransaction returns false: the executor tries the same            *)
(* transaction again unless another thread has finished.                   *)
(***************************************************************************)
ReturnAborted(t) ==
  /\ pc[t] = "undo" /\ held[t] = {}
  /\ pc' = [pc EXCEPT ![t] = IF isFinish THEN "done" ELSE "idle"]
  /\ ClearAccess(t)
  /\ UNCHANGED <<shared, left, readTs>>

(***************************************************************************)
(* The epoch thread, every 40 ms.                                          *)
(***************************************************************************)
AdvanceEpoch ==
  /\ epoch < MaxEpoch
  /\ epoch' = epoch + 1
  /\ UNCHANGED <<word, visible, ts, lock, monotone, isFinish, pc, left, txn,
                 readTs>>

AllDone == \A t \in Thread : pc[t] = "done"

(***************************************************************************)
(* The batch run is over: ProcessQuery has joined its threads.             *)
(***************************************************************************)
Joined == AllDone /\ UNCHANGED vars

Select(t) ==
  \E r \in Record :
    \/ \E type \in AccessType : SelectRecordCC(t, r, type)
    \/ InsertRecord(t, r)
    \/ \E c \in Column : ReadColumn(t, r, c)

Install(t) ==
  \/ \E r \in Record :
       \/ \E c \in Column : CopyFrom(t, r, c)
       \/ SetVisible(t, r)
       \/ SetTimestamp(t, r)
  \/ EndInstall(t)

Step(t) ==
  \/ Execute(t) \/ Select(t) \/ CommitTransaction(t)
  \/ AcquireLock(t) \/ Validate(t)
  \/ GetEpoch(t) \/ GetMonotoneTimestamp(t) \/ Install(t)
  \/ ReleaseLock(t) \/ ReturnCommitted(t) \/ ReturnAborted(t)

Next == (\E t \in Thread : Step(t)) \/ AdvanceEpoch \/ Joined

(***************************************************************************)
(* The operating system runs every worker thread that can take a step.     *)
(***************************************************************************)
Fairness == \A t \in Thread : WF_vars(Step(t))

Spec     == Init /\ [][Next]_vars
FairSpec == Spec /\ Fairness

-----------------------------------------------------------------------------
\* The types of the variables of Occ.
TypeOK ==
  /\ word \in [Record -> [Column -> Value]]
  /\ visible \in [Record -> BOOLEAN]
  /\ ts \in [Record -> Timestamp]
  /\ lock \in [Record -> LockType]
  /\ epoch \in Nat /\ monotone \in Nat /\ isFinish \in BOOLEAN
  /\ pc \in [Thread -> {"idle", "exec", "lock", "validate", "epoch",
                        "timestamp", "install", "release", "undo", "done"}]
  /\ left \in [Thread -> Nat]
  /\ access \in [Thread -> [Record -> AnyAccess \cup {NoAccess}]]
  /\ accessTs \in [Thread -> [Record -> Timestamp]]
  /\ seen \in [Thread -> [Record -> [Column -> Value \cup {Unread}]]]
  /\ local \in [Thread -> [Record -> Value \cup {NoLocal}]]
  /\ held \in [Thread -> SUBSET Record]
  /\ stored \in [Thread -> SUBSET Column]
  /\ installed \in [Thread -> SUBSET Record]
  /\ currEpoch \in [Thread -> Nat]
  /\ commitTs \in [Thread -> Timestamp]
  /\ readTs \in [Record -> Timestamp]

ReadHolders(r)  == {t \in Thread : r \in held[t] /\ access[t][r] = "READ_ONLY"}
WriteHolders(r) == {t \in Thread : r \in held[t] /\ access[t][r] # "READ_ONLY"}

(***************************************************************************)
(* RWLock's counter and mode agree with the threads that hold the lock: a  *)
(* failed validation gives back exactly the locks it took, however far the *)
(* lock loop got (TxnManagerOcc.tpp:199-224), and writers exclude all.     *)
(***************************************************************************)
LockAgreementOf(r) ==
  /\ lock[r].readers = Cardinality(ReadHolders(r))
  /\ lock[r].type = "READ_LOCK" <=> ReadHolders(r) # {}
  /\ lock[r].type = "WRITE_LOCK" <=> WriteHolders(r) # {}
  /\ \A t, u \in WriteHolders(r) : t = u

LockAgreement == \A r \in Record : LockAgreementOf(r)

(***************************************************************************)
(* The assertions of the install loop (TxnManagerOcc.tpp:149, 155, 161)    *)
(* and of LockContent::SetTimestamp (LockContent.h:44): the commit         *)
(* timestamp exceeds the one each written record had when it was accessed, *)
(* and is no smaller than the one it has now.                              *)
(***************************************************************************)
CommitTsAboveAccess ==
  \A t \in Thread : pc[t] = "install" =>
    \A r \in Writes(t) \ installed[t] :
      /\ TsLess(accessTs[t][r], commitTs[t])
      /\ ~TsLess(commitTs[t], ts[r])

(***************************************************************************)
(* When a transaction draws its timestamp, all it has read, at different   *)
(* moments and without locks, still is the content of the records it read: *)
(* its unlocked reads form one consistent snapshot of the present.         *)
(***************************************************************************)
ReadsStillCurrent ==
  \A t \in Thread : pc[t] \in {"epoch", "timestamp"} =>
    \A r \in Record, c \in Column : seen[t][r][c] \in {Unread, word[r][c]}

(***************************************************************************)
(* The timestamp of a record never falls and is never reused, so an equal  *)
(* timestamp means an unchanged record (what Validate relies on).          *)
(***************************************************************************)
TimestampsAdvance ==
  [][\A r \in Record : ts'[r] # ts[r] => TsLess(ts[r], ts'[r])]_vars

(***************************************************************************)
(* Commit timestamps order the conflicting transactions the way they are   *)
(* serialized: a reader draws a timestamp above that of the version it has *)
(* read, while this version is the current one, and a version is installed *)
(* under a timestamp no smaller than that of any committed reader of the   *)
(* version before.  The command log is replayed in this order              *)
(* (SerialCommandReplayer.h).                                              *)
(***************************************************************************)
ConflictsInTsOrder ==
  [][/\ \A t \in Thread : pc[t] = "timestamp" /\ pc'[t] = "install" =>
          \A r \in Reads(t) : /\ ts[r] = accessTs[t][r]
                             /\ TsLess(ts[r], commitTs'[t])
     /\ \A r \in Record : ts'[r] # ts[r] => ~TsLess(ts'[r], readTs[r])]_vars

(***************************************************************************)
(* Every thread leaves its batch: sorted locking cannot deadlock, and a    *)
(* transaction is aborted only because another one has committed.          *)
(***************************************************************************)
Terminates == <>AllDone

-----------------------------------------------------------------------------
(***************************************************************************)
(* Refinement.  A transaction takes effect when its last access is         *)
(* validated; from then until it releases a record, the store already      *)
(* holds the content it is about to install there.                         *)
(***************************************************************************)
Committed(t) == pc[t] \in {"epoch", "timestamp", "install", "release"}

Installer(r) == {t \in WriteHolders(r) : Committed(t)}

Wrote(t, r) ==
  [value |-> local[t][r],
   live  |-> CASE access[t][r] = "INSERT_ONLY" -> TRUE
               [] access[t][r] = "DELETE_ONLY" -> FALSE
               [] OTHER -> Kept]

Stored(r) ==
  [value |-> word[r][CHOOSE c \in Column : TRUE], live |-> visible[r]]

SerialRecord(r) ==
  IF Installer(r) = {} THEN Stored(r)
  ELSE LET w == Wrote(CHOOSE t \in Installer(r) : TRUE, r)
       IN  [value |-> IF w.value = Kept THEN Stored(r).value ELSE w.value,
            live  |-> IF w.live = Kept THEN Stored(r).live ELSE w.live]

NoOutcome ==
  [seen  |-> [r \in Record |-> [c \in Column |-> Unread]],
   wrote |-> [r \in Record |-> [value |-> Kept, live |-> Kept]]]

SerialOutcome(t) ==
  IF Committed(t)
  THEN [seen |-> seen[t], wrote |-> [r \in Record |-> Wrote(t, r)]]
  ELSE NoOutcome

Serial == INSTANCE SerialStore WITH
  store   <- [r \in Record |-> SerialRecord(r)],
  outcome <- [t \in Thread |-> SerialOutcome(t)]

(***************************************************************************)
(* Occ implements the serial store: each committed transaction is atomic   *)
(* and sees and leaves no half-installed record.                           *)
(***************************************************************************)
ImplementsSerialStore == Serial!Spec
=============================================================================
