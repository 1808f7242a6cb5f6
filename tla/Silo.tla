------------------------------- MODULE Silo -------------------------------
(***************************************************************************)
(* Silo's concurrency control: Database/Transaction/TxnManagerSilo.tpp     *)
(* over Content/LockContent.h, run by the worker threads of                *)
(* Executor/ConcurrentExecutor.h.                                          *)
(*                                                                         *)
(* Unlike Occ, a transaction locks the records it writes only.  It then    *)
(* reads the epoch and validates its reads in the order in which it made   *)
(* them: a record it has only read must not be write-locked and must have  *)
(* the timestamp it had, two loads that other threads may come between.    *)
(* So a committed transaction is no atomic step: a record it has validated *)
(* may change before it has validated the next one.  What the scheme       *)
(* promises is that some order explains all committed transactions, and    *)
(* the history variables record what this is judged by.                    *)
(*                                                                         *)
(* The content of a record is the name of the transaction that wrote it.   *)
(***************************************************************************)
EXTENDS FiniteSets, Sequences, LockContent

CONSTANTS
  Thread, Column, Unread,
  Loader,     \* the populator, which wrote the initial contents
  Indexed,    \* addresses of the records the tables hold at the start
  Fresh,      \* addresses that InsertRecord may allocate
  AccessType, \* the access types the procedures use
  MaxAccess,  \* kMaxAccessNum
  Batch,      \* the number of transactions in each thread's batch
  MaxEpoch    \* bound: the epoch thread stops here

Record == Indexed \cup Fresh

AnyAccess == {"READ_ONLY", "READ_WRITE", "INSERT_ONLY", "DELETE_ONLY"}

ASSUME SiloConstants ==
  /\ Record \subseteq Nat /\ Indexed \cap Fresh = {}
  /\ IsFiniteSet(Thread) /\ Column # {}
  /\ Loader \notin Thread \X Nat
  /\ Unread \notin Thread \X Nat /\ Unread # Loader
  /\ AccessType \subseteq AnyAccess
  /\ MaxAccess \in Nat /\ Batch \in Nat \ {0}
  /\ TsSpan \in Nat \ {0} /\ MaxEpoch \in Nat \ {0}

VARIABLES
  word,      \* word[r][c]: the transaction that wrote column c of record r
  visible,   \* SchemaRecord::is_visible_
  ts,        \* LockContent::timestamp_
  lock,      \* LockContent::lock_
  epoch,     \* Epoch::curr_epoch_
  monotone,  \* GlobalTimestamp::monotone_timestamp_
  isFinish,  \* ConcurrentExecutor::is_finish_
  pc,        \* where each thread is
  left,      \* transactions left in the thread's batch
  accesses,  \* access_list_: entries [record, type, ts] in access order
  seen,      \* seen[t][r][c]: what t has read or copied of r
  held,      \* the records of write_list_ that t has locked
  checked,   \* the number of entries of access_list_ validated
  stored,    \* columns of the record being installed that are written
  installed, \* records whose new timestamp is set
  currEpoch, \* curr_epoch of CommitTransaction
  commitTs,  \* commit_ts of CommitTransaction
  committed, \* history: the committed transactions and what they have read
  versions   \* history: the committed writers of each record, in order

shared  == <<word, visible, ts, lock, epoch, monotone, isFinish>>
txn     == <<accesses, seen, held, checked, stored, installed, currEpoch,
             commitTs>>
history == <<committed, versions>>
vars    == <<shared, pc, left, txn, history>>

-----------------------------------------------------------------------------
Name(t) == <<t, left[t]>>

Entries(t) == {accesses[t][i] : i \in DOMAIN accesses[t]}

Accessed(t) == {e.record : e \in Entries(t)}
Updates(t)  == {e.record : e \in {x \in Entries(t) : x.type = "READ_WRITE"}}
Reads(t)    == {e.record : e \in
                 {x \in Entries(t) : x.type \in {"READ_ONLY", "READ_WRITE"}}}

(***************************************************************************)
(* write_list_, which CommitTransaction sorts by address.                  *)
(***************************************************************************)
Writes(t) == {e.record : e \in {x \in Entries(t) : x.type # "READ_ONLY"}}

IsFirst(r, S) == r \in S /\ \A q \in S : r <= q

NextToLock(t, r)    == IsFirst(r, Writes(t) \ held[t])
NextToInstall(t, r) == IsFirst(r, Writes(t) \ installed[t])
NextToRelease(t, r) == IsFirst(r, held[t])

AllUnread == [r \in Record |-> [c \in Column |-> Unread]]

(***************************************************************************)
(* The records whose columns t has not all read.  While one of them is an  *)
(* update, the thread is inside SelectRecordCC.                            *)
(***************************************************************************)
Unfinished(t) == {r \in Reads(t) : \E c \in Column : seen[t][r][c] = Unread}
Copying(t)    == Unfinished(t) \cap Updates(t)

(***************************************************************************)
(* write_list_.Clear() and access_list_.Clear(), with the locals of        *)
(* CommitTransaction.                                                      *)
(***************************************************************************)
ClearLists(t) ==
  /\ accesses'  = [accesses EXCEPT ![t] = <<>>]
  /\ seen'      = [seen EXCEPT ![t] = AllUnread]
  /\ checked'   = [checked EXCEPT ![t] = 0]
  /\ installed' = [installed EXCEPT ![t] = {}]
  /\ currEpoch' = [currEpoch EXCEPT ![t] = 0]
  /\ commitTs'  = [commitTs EXCEPT ![t] = ZeroTs]
  /\ UNCHANGED <<held, stored>>

Init ==
  /\ word = [r \in Record |-> [c \in Column |-> Loader]]
  /\ visible = [r \in Record |-> r \in Indexed]
  /\ ts = [r \in Record |-> ZeroTs]
  /\ lock = [r \in Record |-> NoLock]
  /\ epoch = 1 /\ monotone = 1 /\ isFinish = FALSE
  /\ pc = [t \in Thread |-> "idle"]
  /\ left = [t \in Thread |-> Batch]
  /\ accesses = [t \in Thread |-> <<>>]
  /\ seen = [t \in Thread |-> AllUnread]
  /\ held = [t \in Thread |-> {}]
  /\ checked = [t \in Thread |-> 0]
  /\ stored = [t \in Thread |-> {}]
  /\ installed = [t \in Thread |-> {}]
  /\ currEpoch = [t \in Thread |-> 0]
  /\ commitTs = [t \in Thread |-> ZeroTs]
  /\ committed = {}
  /\ versions = [r \in Record |-> <<>>]

-----------------------------------------------------------------------------
(***************************************************************************)
(* The executor calls StoredProcedure::Execute, for the next transaction   *)
(* of its batch or again for the one that aborted.                         *)
(***************************************************************************)
Execute(t) ==
  /\ pc[t] = "idle"
  /\ pc' = [pc EXCEPT ![t] = "exec"]
  /\ UNCHANGED <<shared, left, txn, history>>

NewAccess(t, r, type, stamp) ==
  /\ pc[t] = "exec" /\ Copying(t) = {}
  /\ r \notin Accessed(t) /\ Len(accesses[t]) < MaxAccess
  /\ accesses' = [accesses EXCEPT ![t] =
                    Append(@, [record |-> r, type |-> type, ts |-> stamp])]
  /\ UNCHANGED <<shared, pc, left, seen, held, checked, stored, installed,
                 currEpoch, commitTs, history>>

(***************************************************************************)
(* SelectRecordCC: a new entry with the timestamp the record has now.  A   *)
(* procedure selects a record at most once.                                *)
(***************************************************************************)
SelectRecordCC(t, r, type) ==
  /\ type \in AccessType \ {"INSERT_ONLY"} /\ r \in Indexed
  /\ NewAccess(t, r, type, ts[r])

(***************************************************************************)
(* InsertRecord: a record that no index knows, at a fresh address.         *)
(***************************************************************************)
InsertRecord(t, r) ==
  /\ "INSERT_ONLY" \in AccessType
  /\ r \in Fresh /\ ~visible[r]
  /\ \A u \in Thread : r \notin Accessed(u)
  /\ NewAccess(t, r, "INSERT_ONLY", ZeroTs)

(***************************************************************************)
(* One column leaves the global record, without a lock: the procedure      *)
(* reads it through the pointer of a READ_ONLY access, or the memcpy of a  *)
(* READ_WRITE access reaches it.                                           *)
(***************************************************************************)
ReadColumn(t, r, c) ==
  /\ pc[t] = "exec" /\ r \in Reads(t)
  /\ Copying(t) \subseteq {r}
  /\ seen[t][r][c] = Unread
  /\ seen' = [seen EXCEPT ![t][r][c] = word[r][c]]
  /\ UNCHANGED <<shared, pc, left, accesses, held, checked, stored, installed,
                 currEpoch, commitTs, history>>

(***************************************************************************)
(* The procedure calls CommitTransaction.  It has read all the columns of  *)
(* its records: one that reads fewer depends on fewer transactions.        *)
(***************************************************************************)
CommitTransaction(t) ==
  /\ pc[t] = "exec" /\ Unfinished(t) = {}
  /\ pc' = [pc EXCEPT ![t] = IF Writes(t) = {} THEN "epoch" ELSE "lock"]
  /\ UNCHANGED <<shared, left, txn, history>>

(***************************************************************************)
(* Step 1: lock the write list in address order.                           *)
(***************************************************************************)
AcquireWriteLock(t) ==
  /\ pc[t] = "lock"
  /\ \E r \in Record :
       /\ NextToLock(t, r) /\ CanWriteLock(lock[r])
       /\ lock' = [lock EXCEPT ![r] = WriteLocked(@)]
       /\ held' = [held EXCEPT ![t] = @ \cup {r}]
       /\ pc' = [pc EXCEPT ![t] = IF Writes(t) \subseteq held'[t] THEN "epoch"
                                                              ELSE "lock"]
  /\ UNCHANGED <<word, visible, ts, epoch, monotone, isFinish, left, accesses,
                 seen, checked, stored, installed, currEpoch, commitTs,
                 history>>

GetEpoch(t) ==
  /\ pc[t] = "epoch"
  /\ currEpoch' = [currEpoch EXCEPT ![t] = epoch]
  /\ pc' = [pc EXCEPT ![t] = "validate"]
  /\ UNCHANGED <<shared, left, accesses, seen, held, checked, stored,
                 installed, commitTs, history>>

-----------------------------------------------------------------------------
(***************************************************************************)
(* Step 2: validate the entries of access_list_ in turn.                   *)
(***************************************************************************)
Entry(t) == accesses[t][checked[t] + 1]

Validating(t) == pc[t] = "validate" /\ checked[t] < Len(accesses[t])

SameTimestamp(t) == ts[Entry(t).record] = Entry(t).ts

(***************************************************************************)
(* The entry is found valid, or the validation fails.                      *)
(***************************************************************************)
Passed(t) ==
  /\ checked' = [checked EXCEPT ![t] = @ + 1]
  /\ pc' = [pc EXCEPT ![t] = "validate"]

Failed(t) ==
  /\ pc' = [pc EXCEPT ![t] = "undo"]
  /\ UNCHANGED checked

ValidationFrame(t) ==
  UNCHANGED <<shared, left, accesses, seen, held, stored, installed,
              currEpoch, commitTs, history>>

ValidateUpdate(t) ==
  /\ Validating(t) /\ Entry(t).type = "READ_WRITE"
  /\ IF SameTimestamp(t) THEN Passed(t) ELSE Failed(t)
  /\ ValidationFrame(t)

\* Mutant: a record that another transaction is installing passes.
ExistsWriteLockIgnored(t) ==
  /\ Validating(t) /\ Entry(t).type = "READ_ONLY"
  /\ pc' = [pc EXCEPT ![t] = "compare"]
  /\ UNCHANGED checked
  /\ ValidationFrame(t)

ExistsWriteLock(t) ==
  /\ Validating(t) /\ Entry(t).type = "READ_ONLY"
  /\ pc' = [pc EXCEPT ![t] =
              IF lock[Entry(t).record].type = "WRITE_LOCK" THEN "undo"
                                                           ELSE "compare"]
  /\ UNCHANGED checked
  /\ ValidationFrame(t)

GetTimestamp(t) ==
  /\ pc[t] = "compare"
  /\ IF SameTimestamp(t) THEN Passed(t) ELSE Failed(t)
  /\ ValidationFrame(t)

(***************************************************************************)
(* Insertions and deletions are not validated.                             *)
(***************************************************************************)
SkipEntry(t) ==
  /\ Validating(t) /\ Entry(t).type \in {"INSERT_ONLY", "DELETE_ONLY"}
  /\ Passed(t)
  /\ ValidationFrame(t)

-----------------------------------------------------------------------------
(***************************************************************************)
(* Step 3: everything is validated; draw the commit timestamp.  From here  *)
(* the transaction is part of the history.                                 *)
(***************************************************************************)
CommittedAt(t, stamp) ==
  /\ commitTs' = [commitTs EXCEPT ![t] = stamp]
  /\ committed' = committed \cup
       {[name    |-> Name(t), ts |-> stamp,
         updates |-> Updates(t),
         saw     |-> {<<r, seen[t][r][c]>> : r \in Reads(t), c \in Column}]}
  /\ versions' = [r \in Record |->
                    IF r \in Writes(t) THEN Append(versions[r], Name(t))
                                       ELSE versions[r]]

\* Mutant: the epoch is read when the timestamp is drawn.
GetLateEpochTimestamp(t) ==
  /\ pc[t] = "validate" /\ checked[t] = Len(accesses[t])
  /\ CommittedAt(t, GenerateMonotoneTimestamp(epoch, monotone))
  /\ monotone' = monotone + 1
  /\ pc' = [pc EXCEPT ![t] = "install"]
  /\ UNCHANGED <<word, visible, ts, lock, epoch, isFinish, left, accesses,
                 seen, held, checked, stored, installed, currEpoch>>

GetMonotoneTimestamp(t) ==
  /\ pc[t] = "validate" /\ checked[t] = Len(accesses[t])
  /\ CommittedAt(t, GenerateMonotoneTimestamp(currEpoch[t], monotone))
  /\ monotone' = monotone + 1
  /\ pc' = [pc EXCEPT ![t] = "install"]
  /\ UNCHANGED <<word, visible, ts, lock, epoch, isFinish, left, accesses,
                 seen, held, checked, stored, installed, currEpoch>>

(***************************************************************************)
(* Install the write list in address order: CopyFrom, or the visibility    *)
(* bit, then the timestamp behind a compiler fence.                        *)
(***************************************************************************)
CopyFrom(t, r, c) ==
  /\ pc[t] = "install"
  /\ NextToInstall(t, r) /\ r \in Updates(t)
  /\ c \notin stored[t]
  /\ word' = [word EXCEPT ![r][c] = Name(t)]
  /\ stored' = [stored EXCEPT ![t] = @ \cup {c}]
  /\ UNCHANGED <<visible, ts, lock, epoch, monotone, isFinish, pc, left,
                 accesses, seen, held, checked, installed, currEpoch,
                 commitTs, history>>

SetVisible(t, r) ==
  /\ pc[t] = "install"
  /\ NextToInstall(t, r) /\ r \notin Updates(t)
  /\ stored[t] = {}
  /\ visible' = [visible EXCEPT ![r] = (r \in Fresh)]
  /\ stored' = [stored EXCEPT ![t] = Column]
  /\ UNCHANGED <<word, ts, lock, epoch, monotone, isFinish, pc, left,
                 accesses, seen, held, checked, installed, currEpoch,
                 commitTs, history>>

SetTimestamp(t, r) ==
  /\ pc[t] = "install"
  /\ NextToInstall(t, r)
  /\ stored[t] = Column
  /\ ts' = [ts EXCEPT ![r] = commitTs[t]]
  /\ installed' = [installed EXCEPT ![t] = @ \cup {r}]
  /\ stored' = [stored EXCEPT ![t] = {}]
  /\ UNCHANGED <<word, visible, lock, epoch, monotone, isFinish, pc, left,
                 accesses, seen, held, checked, currEpoch, commitTs,
                 history>>

EndInstall(t) ==
  /\ pc[t] = "install" /\ Writes(t) = installed[t]
  /\ pc' = [pc EXCEPT ![t] = "release"]
  /\ UNCHANGED <<shared, left, txn, history>>

(***************************************************************************)
(* Step 4, after a success and after a failure alike: all the locks of the *)
(* write list are released, in its order.                                  *)
(***************************************************************************)
ReleaseWriteLock(t) ==
  /\ pc[t] \in {"release", "undo"}
  /\ \E r \in Record :
       /\ NextToRelease(t, r)
       /\ lock' = [lock EXCEPT ![r] = WriteReleased(@)]
       /\ held' = [held EXCEPT ![t] = @ \ {r}]
  /\ UNCHANGED <<word, visible, ts, epoch, monotone, isFinish, pc, left,
                 accesses, seen, checked, stored, installed, currEpoch,
                 commitTs, history>>

(***************************************************************************)
(* CommitTransaction returns true: the executor counts the transaction.    *)
(* It stops when another thread has finished; the thread that reaches the  *)
(* end of its batch sets is_finish_.                                       *)
(***************************************************************************)
ReturnCommitted(t) ==
  /\ pc[t] = "release" /\ held[t] = {}
  /\ left' = [left EXCEPT ![t] = @ - 1]
  /\ pc' = [pc EXCEPT ![t] = IF isFinish \/ left[t] = 1 THEN "done" ELSE "idle"]
  /\ isFinish' = (isFinish \/ left[t] = 1)
  /\ ClearLists(t)
  /\ UNCHANGED <<word, visible, ts, lock, epoch, monotone, history>>

(***************************************************************************)
(* CommitTransaction returns false: the executor tries the same            *)
(* transaction again unless another thread has finished.                   *)
(***************************************************************************)
ReturnAborted(t) ==
  /\ pc[t] = "undo" /\ held[t] = {}
  /\ pc' = [pc EXCEPT ![t] = IF isFinish THEN "done" ELSE "idle"]
  /\ ClearLists(t)
  /\ UNCHANGED <<shared, left, history>>

(***************************************************************************)
(* The epoch thread, every 40 ms.                                          *)
(***************************************************************************)
AdvanceEpoch ==
  /\ epoch < MaxEpoch
  /\ epoch' = epoch + 1
  /\ UNCHANGED <<word, visible, ts, lock, monotone, isFinish, pc, left, txn,
                 history>>

AllDone == \A t \in Thread : pc[t] = "done"

(***************************************************************************)
(* The batch run is over: ProcessQuery has joined its threads.             *)
(***************************************************************************)
Joined == AllDone /\ UNCHANGED vars

Select(t) ==
  \E r \in Record :
    \/ \E type \in AccessType : SelectRecordCC(t, r, type)
    \/ InsertRecord(t, r)
    \/ \E c \in Column : ReadColumn(t, r, c)

Validate(t) ==
  ValidateUpdate(t) \/ ExistsWriteLock(t) \/ GetTimestamp(t) \/ SkipEntry(t)

Install(t) ==
  \/ \E r \in Record :
       \/ \E c \in Column : CopyFrom(t, r, c)
       \/ SetVisible(t, r)
       \/ SetTimestamp(t, r)
  \/ EndInstall(t)

Step(t) ==
  \/ Execute(t) \/ Select(t) \/ CommitTransaction(t)
  \/ AcquireWriteLock(t) \/ GetEpoch(t) \/ Validate(t)
  \/ GetMonotoneTimestamp(t) \/ Install(t)
  \/ ReleaseWriteLock(t) \/ ReturnCommitted(t) \/ ReturnAborted(t)

Next == (\E t \in Thread : Step(t)) \/ AdvanceEpoch \/ Joined

Spec == Init /\ [][Next]_vars

-----------------------------------------------------------------------------
Writer == (Thread \X Nat) \cup {Loader}

\* The types of the variables of Silo.
TypeOK ==
  /\ word \in [Record -> [Column -> Writer]]
  /\ visible \in [Record -> BOOLEAN]
  /\ ts \in [Record -> Timestamp]
  /\ lock \in [Record -> LockType]
  /\ epoch \in Nat /\ monotone \in Nat /\ isFinish \in BOOLEAN
  /\ pc \in [Thread -> {"idle", "exec", "lock", "epoch", "validate", "compare",
                        "install", "release", "undo", "done"}]
  /\ left \in [Thread -> Nat]
  /\ accesses \in
        [Thread -> Seq([record : Record, type : AnyAccess, ts : Timestamp])]
  /\ seen \in [Thread -> [Record -> [Column -> Writer \cup {Unread}]]]
  /\ held \in [Thread -> SUBSET Record]
  /\ checked \in [Thread -> 0..MaxAccess]
  /\ stored \in [Thread -> SUBSET Column]
  /\ installed \in [Thread -> SUBSET Record]
  /\ currEpoch \in [Thread -> Nat]
  /\ commitTs \in [Thread -> Timestamp]
  /\ \A x \in committed :
        /\ x.name \in Thread \X Nat /\ x.ts \in Timestamp
        /\ x.updates \subseteq Record /\ x.saw \subseteq Record \X Writer
  /\ versions \in [Record -> Seq(Thread \X Nat)]

(***************************************************************************)
(* The position of the version that w has written of record r; the         *)
(* populator's is version 0.                                               *)
(***************************************************************************)
Version(r, w) ==
  IF w = Loader THEN 0
  ELSE CHOOSE i \in DOMAIN versions[r] : versions[r][i] = w

Wrote(a, r) == \E i \in DOMAIN versions[r] : versions[r][i] = a.name

(***************************************************************************)
(* The conflicts between committed transactions: b has read what a wrote,  *)
(* b has overwritten what a wrote, or b has updated what a read.  (A       *)
(* deletion sets is_visible_, which nothing reads, and leaves the record   *)
(* to its readers as it was.)                                              *)
(***************************************************************************)
ReadsFrom(a, b)  == \E s \in b.saw : s[2] = a.name

Overwrites(a, b) ==
  \E r \in Record : /\ Wrote(a, r) /\ Wrote(b, r)
                    /\ Version(r, a.name) < Version(r, b.name)

Overtaken(r, w, b) == r \in b.updates /\ Version(r, w) < Version(r, b.name)

AntiDepends(a, b) == \E s \in a.saw : Overtaken(s[1], s[2], b)

Precedes(a, b) ==
  a # b /\ (ReadsFrom(a, b) \/ Overwrites(a, b) \/ AntiDepends(a, b))

(***************************************************************************)
(* Some serial order explains all the committed transactions: in every set *)
(* of them there is one that no other must precede.  This is what the two  *)
(* unlocked loads of the validation and the order of its steps are for     *)
(* (TxnManagerSilo.tpp:84-113); a torn read shows as a cycle too.          *)
(***************************************************************************)
Serializable ==
  \A S \in (SUBSET committed) \ {{}} :
    \E b \in S : \A a \in S : ~Precedes(a, b)

(***************************************************************************)
(* Epochs never contradict the serial order, not even across               *)
(* anti-dependencies, because the epoch is read between the locking and    *)
(* the validation (TxnManagerSilo.tpp:92).  The loggers cut the log into   *)
(* epochs, so a recovered prefix is closed under dependencies.             *)
(***************************************************************************)
EpochsInSerialOrder ==
  \A a, b \in committed : Precedes(a, b) => a.ts.epoch <= b.ts.epoch

(***************************************************************************)
(* Commit timestamps order a transaction after the ones it has read from   *)
(* or overwritten.  (Anti-dependencies are not ordered so: a reader draws  *)
(* its timestamp after its validation, without a lock on what it read.)    *)
(***************************************************************************)
DependenciesInTsOrder ==
  \A a, b \in committed :
    a # b /\ (ReadsFrom(a, b) \/ Overwrites(a, b)) => TsLess(a.ts, b.ts)
=============================================================================
