------------------------------ MODULE Snapshot ------------------------------
(***************************************************************************)
(* The schemes that keep versions under read-write locks: snapshot         *)
(* isolation with locks taken at the access (-DSILOCK) or at the commit    *)
(* (-DSIOCC), both over SiLockContent.h, and multiversion OCC (-DMVOCC)    *)
(* over MvOccContent.h.                                                    *)
(*                                                                         *)
(* A transaction under snapshot isolation, and a read-only one under       *)
(* MVOCC, reads at the largest timestamp that a thread has left behind,    *)
(* GlobalTimestamp::GetMaxTimestamp.  An update transaction under MVOCC    *)
(* reads the newest versions and validates them under locks.  Commits draw *)
(* their timestamps from one counter, install version by version, release  *)
(* their locks, and leave their timestamp behind.                          *)
(*                                                                         *)
(* One action is one critical section of a record's latch, or one          *)
(* operation of a lock or an atomic variable; GetMaxTimestamp and          *)
(* GetMinTimestamp, which load one timestamp of each thread, are one step. *)
(* MVOCC draws its commit timestamp from GenerateTimestamp, which is       *)
(* defined nowhere: the model takes GetMonotoneTimestamp, as the others do.*)
(***************************************************************************)
EXTENDS LockContent, FiniteSets, SequencesExt

CONSTANTS
  Scheme,        \* the build options: a subset of {"SILOCK", "SIOCC", "MVOCC"}
  Thread,
  Record,        \* the records the tables hold
  Procedures,    \* the procedures: sequences of [record, type]
  Batch,         \* the number of transactions in each thread's batch
  RecycleLength, \* kRecycleLength
  MaxTs          \* bound: the commit timestamps drawn

(***************************************************************************)
(* A procedure inserts new records, which have no number, and accesses no  *)
(* other record twice: the second access would wait for the lock of the    *)
(* first (MVOCC, SIOCC) or abort for good (SILOCK).                        *)
(***************************************************************************)
AccessType == {"READ_ONLY", "READ_WRITE", "INSERT_ONLY"}

IsProcedure(p) ==
  /\ p \in Seq([record : Record \cup {0}, type : AccessType])
  /\ \A i \in DOMAIN p : p[i].record = 0 <=> p[i].type = "INSERT_ONLY"
  /\ \A i, j \in DOMAIN p :
       p[i].record = p[j].record => i = j \/ p[i].record = 0

SnapshotConstants ==
  /\ Scheme \subseteq {"SILOCK", "SIOCC", "MVOCC"} /\ IsFiniteSet(Thread)
  /\ Record \subseteq Nat \ {0} /\ \A p \in Procedures : IsProcedure(p)
  /\ Batch \in Nat \ {0} /\ RecycleLength \in Nat /\ MaxTs \in Nat

VARIABLES
  scheme,
  lock,      \* lock_ of SiLockContent, wait_lock_ of MvOccContent
  latest,    \* timestamp_: of the newest version
  history,   \* history_head_ to history_tail_: timestamps of the versions
  monotone,  \* GlobalTimestamp::monotone_timestamp_
  threadTs,  \* GlobalTimestamp::thread_timestamp_
  isFinish,  \* ConcurrentExecutor::is_finish_
  pc,        \* where each thread is
  left,      \* transactions left in the thread's batch
  txn,       \* the running transaction, see NoTxn
  written,   \* history: all versions ever installed, collected ones included
  committed  \* history: the transactions [ts, start, complete, saw, wrote]

content == <<lock, latest, history, written>>
rest    == <<scheme, threadTs, isFinish, left>>
vars    == <<content, rest, monotone, pc, txn, committed>>

-----------------------------------------------------------------------------
Unread == -1

NoTxn == [procedure |-> <<>>, \* the accesses of the procedure that runs
          start    |-> Unread, \* start_timestamp_, Unread if is_first_access_
          complete |-> FALSE,  \* history: all commits up to start are installed
          ts       |-> Unread, \* timestamp_ of the access that is under way
          accesses |-> <<>>,   \* access_list_: entries [record, type, ts, saw]
          locked   |-> {},     \* the entries locked, as many as lock_count
          done     |-> {},     \* the entries that are installed, or released
          commitTs |-> 0]      \* commit_timestamp

MaxOf(S) == CHOOSE x \in S : \A y \in S : x >= y
MinOf(S) == CHOOSE x \in S : \A y \in S : x <= y

GetMaxTimestamp == MaxOf({threadTs[t] : t \in Thread})

GetMinTimestamp == MinOf({threadTs[t] : t \in Thread})

Init ==
  /\ scheme \in Scheme
  /\ lock = [r \in Record |-> NoLock]
  /\ latest = [r \in Record |-> 0]
  /\ history = [r \in Record |-> <<>>]
  /\ monotone = 1 /\ isFinish = FALSE
  /\ threadTs = [t \in Thread |-> 0]
  /\ pc = [t \in Thread |-> "idle"]
  /\ left = [t \in Thread |-> Batch]
  /\ txn = [t \in Thread |-> NoTxn]
  /\ written = [r \in Record |-> {}] /\ committed = {}

-----------------------------------------------------------------------------
(***************************************************************************)
(* ReadAccess: the first version of the list that is not newer, or the     *)
(* content the populator has loaded, 0.                                    *)
(***************************************************************************)
\* Mutant: a version at the timestamp itself is passed over.
VersionAtBelow(h, ts) ==
  IF \E i \in DOMAIN h : h[i] < ts
  THEN h[CHOOSE i \in DOMAIN h : h[i] < ts /\ \A j \in 1..(i - 1) : h[j] >= ts]
  ELSE 0

VersionAt(h, ts) ==
  IF \E i \in DOMAIN h : h[i] <= ts
  THEN h[CHOOSE i \in DOMAIN h : h[i] <= ts /\ \A j \in 1..(i - 1) : h[j] > ts]
  ELSE 0

Newest(h) == IF h = <<>> THEN 0 ELSE Head(h)

(***************************************************************************)
(* CollectGarbage, once the list is long: ClearHistory takes versions from *)
(* the tail while the one before is older than all thread timestamps.      *)
(* MVOCC has the call commented out.                                       *)
(***************************************************************************)
NewerThan(h, ts) == Cardinality({i \in 1..(Len(h) - 1) : h[i] >= ts})

\* Mutant: a version goes when it is older itself.
ClearHistoryEarly(h, ts) ==
  SubSeq(h, 1, 1 + Cardinality({i \in 2..Len(h) : h[i] >= ts}))

ClearHistory(h, ts) == SubSeq(h, 1, 1 + NewerThan(h, ts))

CollectGarbage(h) ==
  IF scheme # "MVOCC" /\ Len(h) > RecycleLength
  THEN ClearHistory(h, GetMinTimestamp) ELSE h

-----------------------------------------------------------------------------
(***************************************************************************)
(* The executor calls StoredProcedure::Execute.  The snapshot is drawn at  *)
(* the first access; no step of the thread comes between.  An update       *)
(* transaction under MVOCC has none.                                       *)
(***************************************************************************)
IsReadOnly(p) == \A i \in DOMAIN p : p[i].type = "READ_ONLY"

HasSnapshot(t) == scheme # "MVOCC" \/ IsReadOnly(txn[t].procedure)

Installing(t) == pc[t] = "install"

Execute(t) ==
  /\ pc[t] = "idle" /\ monotone <= MaxTs
  /\ \E p \in Procedures :
       txn' = [txn EXCEPT ![t] =
         [NoTxn EXCEPT
           !.procedure = p,
           !.start = IF scheme = "MVOCC" /\ ~IsReadOnly(p) THEN Unread
                     ELSE GetMaxTimestamp,
           !.complete = \A u \in Thread : Installing(u) =>
                          txn[u].commitTs > GetMaxTimestamp]]
  /\ pc' = [pc EXCEPT ![t] = "exec"]
  /\ UNCHANGED <<content, rest, monotone, committed>>

Access(t) == txn[t].procedure[Len(txn[t].accesses) + 1]

Accessing(t) == pc[t] = "exec" /\ Len(txn[t].accesses) < Len(txn[t].procedure)

NewAccess(t, ts, saw) ==
  txn' = [txn EXCEPT ![t].accesses = Append(@,
            [record |-> Access(t).record, type |-> Access(t).type,
             ts |-> ts, saw |-> saw])]

(***************************************************************************)
(* InsertRecord: the new record and its lock are out of reach of all other *)
(* transactions, for the insertion into the table is commented out.        *)
(***************************************************************************)
InsertRecord(t) ==
  /\ Accessing(t) /\ Access(t).type = "INSERT_ONLY"
  /\ NewAccess(t, 0, Unread)
  /\ UNCHANGED <<content, rest, monotone, pc, committed>>

(***************************************************************************)
(* SelectRecordCC at a snapshot.  Reads "never abort or block".            *)
(***************************************************************************)
SelectSnapshot(t) ==
  /\ Accessing(t) /\ HasSnapshot(t)
  /\ \/ Access(t).type = "READ_ONLY"
     \/ scheme = "SIOCC" /\ Access(t).type = "READ_WRITE"
  /\ NewAccess(t, 0, VersionAt(history[Access(t).record], txn[t].start))
  /\ UNCHANGED <<content, rest, monotone, pc, committed>>

(***************************************************************************)
(* SelectRecordCC under SILOCK, for an update: the lock, or abort; and     *)
(* first-committer-wins, or release it again and abort.                    *)
(***************************************************************************)
\* Mutant: the newest version is compared with nothing.
ValidAlways(t, r) == TRUE

Validate(t, r) == txn[t].start >= latest[r]

SelectLocked(t) ==
  /\ scheme = "SILOCK" /\ Accessing(t) /\ Access(t).type = "READ_WRITE"
  /\ LET r == Access(t).record
     IN  IF CanWriteLock(lock[r]) /\ Validate(t, r)
         THEN /\ lock' = [lock EXCEPT ![r] = WriteLocked(@)]
              /\ NewAccess(t, 0, VersionAt(history[r], txn[t].start))
              /\ UNCHANGED pc
         ELSE /\ pc' = [pc EXCEPT ![t] = "undo"]
              /\ UNCHANGED <<lock, txn>>
  /\ UNCHANGED <<latest, history, written, rest, monotone, committed>>

(***************************************************************************)
(* SelectRecordCC of an update transaction under MVOCC: the timestamp is   *)
(* loaded before the newest version is read.                               *)
(***************************************************************************)
SelectNewest(t) ==
  /\ scheme = "MVOCC" /\ Accessing(t) /\ ~HasSnapshot(t)
  /\ Access(t).type # "INSERT_ONLY"
  /\ txn' = [txn EXCEPT ![t].ts = latest[Access(t).record]]
  /\ pc' = [pc EXCEPT ![t] = "read"]
  /\ UNCHANGED <<content, rest, monotone, committed>>

ReadAccess(t) ==
  /\ pc[t] = "read"
  /\ NewAccess(t, txn[t].ts, Newest(history[Access(t).record]))
  /\ pc' = [pc EXCEPT ![t] = "exec"]
  /\ UNCHANGED <<content, rest, monotone, committed>>

-----------------------------------------------------------------------------
(***************************************************************************)
(* CommitTransaction.  Its loops run through the access list, which Sort   *)
(* has put in the order of the record addresses; under SILOCK it is in the *)
(* order of the accesses, and the locks are held since then.               *)
(***************************************************************************)
FirstOf(t, entries) ==
  CHOOSE i \in entries : \A j \in entries :
    IF scheme = "SILOCK" THEN i <= j
    ELSE txn[t].accesses[i].record <= txn[t].accesses[j].record

Locks(e) == e.type = "READ_WRITE" \/ (scheme = "MVOCC" /\ e.type = "READ_ONLY")

ToLock(t)    == {i \in DOMAIN txn[t].accesses : Locks(txn[t].accesses[i])}
ToInstall(t) == {i \in DOMAIN txn[t].accesses :
                   txn[t].accesses[i].type = "READ_WRITE"}

CommitTransaction(t) ==
  /\ pc[t] = "exec" /\ Len(txn[t].accesses) = Len(txn[t].procedure)
  /\ scheme = "MVOCC" => ~IsReadOnly(txn[t].procedure)
  /\ IF scheme = "SILOCK"
     THEN /\ pc' = [pc EXCEPT ![t] = "draw"]
          /\ txn' = [txn EXCEPT ![t].locked = ToLock(t)]
     ELSE pc' = [pc EXCEPT ![t] = "lock"] /\ UNCHANGED txn
  /\ UNCHANGED <<content, rest, monotone, committed>>

(***************************************************************************)
(* The next lock, and the validation of its entry: first-committer-wins    *)
(* under SIOCC, an unchanged timestamp under MVOCC.                        *)
(***************************************************************************)
CanLock(e) ==
  IF e.type = "READ_ONLY" THEN CanReadLock(lock[e.record])
  ELSE CanWriteLock(lock[e.record])

Valid(t, e) ==
  IF scheme = "SIOCC" THEN Validate(t, e.record) ELSE latest[e.record] = e.ts

AcquireLock(t) ==
  /\ pc[t] = "lock" /\ txn[t].locked # ToLock(t)
  /\ LET i == FirstOf(t, ToLock(t) \ txn[t].locked)
         e == txn[t].accesses[i]
     IN  /\ CanLock(e)
         /\ lock' = [lock EXCEPT ![e.record] =
              IF e.type = "READ_ONLY" THEN ReadLocked(@) ELSE WriteLocked(@)]
         /\ pc' = [pc EXCEPT ![t] = IF Valid(t, e) THEN "lock" ELSE "release"]
         /\ txn' = [txn EXCEPT ![t].locked = @ \cup {i}]
  /\ UNCHANGED <<latest, history, written, rest, monotone, committed>>

(***************************************************************************)
(* The commit timestamp.  From here on the transaction cannot fail.        *)
(***************************************************************************)
Entries(t) == Range(txn[t].accesses)

Saw(t) == {<<e.record, e.saw>> : e \in {x \in Entries(t) : x.type # "INSERT_ONLY"}}

Wrote(t) == {txn[t].accesses[i].record : i \in ToInstall(t)}

Commit(t, ts) ==
  committed' = committed \cup
    {[ts |-> ts, start |-> txn[t].start, complete |-> txn[t].complete,
      saw |-> Saw(t), wrote |-> Wrote(t)]}

GetMonotoneTimestamp(t) ==
  /\ \/ pc[t] = "lock" /\ txn[t].locked = ToLock(t)
     \/ pc[t] = "draw"
  /\ txn' = [txn EXCEPT ![t].commitTs = monotone]
  /\ monotone' = monotone + 1
  /\ Commit(t, monotone)
  /\ pc' = [pc EXCEPT ![t] = "install"]
  /\ UNCHANGED <<content, rest>>

(***************************************************************************)
(* WriteAccess of the next update: a new head of the list, under the latch.*)
(***************************************************************************)
WriteAccess(t) ==
  /\ pc[t] = "install" /\ txn[t].done # ToInstall(t)
  /\ LET i == FirstOf(t, ToInstall(t) \ txn[t].done)
         r == txn[t].accesses[i].record
     IN  /\ latest' = [latest EXCEPT ![r] = txn[t].commitTs]
         /\ history' = [history EXCEPT ![r] =
              CollectGarbage(<<txn[t].commitTs>> \o @)]
         /\ written' = [written EXCEPT ![r] = @ \cup {txn[t].commitTs}]
         /\ txn' = [txn EXCEPT ![t].done = @ \cup {i}]
  /\ UNCHANGED <<lock, rest, monotone, pc, committed>>

EndInstall(t) ==
  /\ pc[t] = "install" /\ txn[t].done = ToInstall(t)
  /\ txn' = [txn EXCEPT ![t].done = {}]
  /\ pc' = [pc EXCEPT ![t] = "release"]
  /\ UNCHANGED <<content, rest, monotone, committed>>

(***************************************************************************)
(* The locks are released, as many as lock_count says.                     *)
(***************************************************************************)
Released(e) ==
  lock' = [lock EXCEPT ![e.record] =
    IF e.type = "READ_ONLY" THEN ReadReleased(@) ELSE WriteReleased(@)]

ReleaseNext(t, entries) ==
  LET i == FirstOf(t, entries)
  IN  /\ Released(txn[t].accesses[i])
      /\ txn' = [txn EXCEPT ![t].done = @ \cup {i}]

ReleaseLock(t) ==
  /\ pc[t] = "release" /\ txn[t].done # txn[t].locked
  /\ ReleaseNext(t, txn[t].locked \ txn[t].done)
  /\ UNCHANGED <<latest, history, written, rest, monotone, pc, committed>>

\* AbortTransaction under SILOCK: the locks of the entries.
ReleaseAborted(t) ==
  /\ pc[t] = "undo" /\ txn[t].done # ToLock(t)
  /\ ReleaseNext(t, ToLock(t) \ txn[t].done)
  /\ UNCHANGED <<latest, history, written, rest, monotone, pc, committed>>

(***************************************************************************)
(* SetThreadTimestamp, and the executor counts the transaction.  Or it     *)
(* tries an aborted one again.  It stops once another thread has finished. *)
(***************************************************************************)
SetThreadTimestamp(t) ==
  /\ pc[t] = "release" /\ txn[t].done = txn[t].locked /\ txn[t].commitTs # 0
  /\ threadTs' = [threadTs EXCEPT ![t] = txn[t].commitTs]
  /\ left' = [left EXCEPT ![t] = @ - 1]
  /\ isFinish' = (isFinish \/ left[t] = 1)
  /\ txn' = [txn EXCEPT ![t] = NoTxn]
  /\ pc' = [pc EXCEPT ![t] = IF isFinish' THEN "done" ELSE "idle"]
  /\ UNCHANGED <<content, scheme, monotone, committed>>

\* A read-only transaction under MVOCC leaves no timestamp behind.
CommitReadOnly(t) ==
  /\ pc[t] = "exec" /\ Len(txn[t].accesses) = Len(txn[t].procedure)
  /\ scheme = "MVOCC" /\ IsReadOnly(txn[t].procedure)
  /\ Commit(t, 0)
  /\ left' = [left EXCEPT ![t] = @ - 1]
  /\ isFinish' = (isFinish \/ left[t] = 1)
  /\ txn' = [txn EXCEPT ![t] = NoTxn]
  /\ pc' = [pc EXCEPT ![t] = IF isFinish' THEN "done" ELSE "idle"]
  /\ UNCHANGED <<content, scheme, threadTs, monotone>>

ReturnAborted(t) ==
  /\ \/ pc[t] = "release" /\ txn[t].done = txn[t].locked /\ txn[t].commitTs = 0
     \/ pc[t] = "undo" /\ txn[t].done = ToLock(t)
  /\ txn' = [txn EXCEPT ![t] = NoTxn]
  /\ pc' = [pc EXCEPT ![t] = IF isFinish THEN "done" ELSE "idle"]
  /\ UNCHANGED <<content, rest, monotone, committed>>

-----------------------------------------------------------------------------
Step(t) ==
  \/ Execute(t) \/ InsertRecord(t)
  \/ SelectSnapshot(t) \/ SelectLocked(t) \/ SelectNewest(t) \/ ReadAccess(t)
  \/ CommitTransaction(t) \/ AcquireLock(t) \/ GetMonotoneTimestamp(t)
  \/ WriteAccess(t) \/ EndInstall(t) \/ ReleaseLock(t) \/ ReleaseAborted(t)
  \/ SetThreadTimestamp(t) \/ CommitReadOnly(t) \/ ReturnAborted(t)

\* The batches are over, or the bound MaxTs is reached.
Stopped(t) == pc[t] = "done" \/ (pc[t] = "idle" /\ monotone > MaxTs)

Joined == (\A t \in Thread : Stopped(t)) /\ UNCHANGED vars

Next == (\E t \in Thread : Step(t)) \/ Joined

Spec == Init /\ [][Next]_vars

-----------------------------------------------------------------------------
Ts == 0..(MaxTs + Cardinality(Thread))

\* The types of the variables of Snapshot.
TypeOK ==
  /\ scheme \in Scheme
  /\ lock \in [Record -> LockType] /\ latest \in [Record -> Ts]
  /\ \A r \in Record : Range(history[r]) \subseteq written[r]
  /\ written \in [Record -> SUBSET Ts]
  /\ monotone \in Ts \cup {MaxTs + Cardinality(Thread) + 1}
  /\ threadTs \in [Thread -> Ts] /\ isFinish \in BOOLEAN
  /\ pc \in [Thread -> {"idle", "exec", "read", "lock", "draw", "install",
                        "release", "undo", "done"}]
  /\ left \in [Thread -> 0..Batch]
  /\ \A t \in Thread :
       /\ txn[t].procedure \in Procedures \cup {<<>>}
       /\ txn[t].locked \subseteq ToLock(t)

(***************************************************************************)
(* Garbage collection takes no version that a running transaction can      *)
(* still ask for: a read at a snapshot finds what it would find if nothing *)
(* had ever been collected.  The minimum of the thread timestamps is       *)
(* enough because a thread leaves none behind while it runs, and starts    *)
(* from the maximum.                                                       *)
(***************************************************************************)
NewestUpTo(S, ts) == MaxOf({0} \cup {v \in S : v <= ts})

VersionsKept ==
  \A t \in Thread : txn[t].start # Unread =>
    \A r \in Record :
      VersionAt(history[r], txn[t].start) = NewestUpTo(written[r], txn[t].start)

Versions(r) == {c.ts : c \in {d \in committed : r \in d.wrote}}

(***************************************************************************)
(* A snapshot is consistent -- a transaction sees all the updates of the   *)
(* transactions up to its start timestamp and none of the others -- unless *)
(* one of those was still installing when the snapshot was taken.          *)
(***************************************************************************)
SnapshotUnlessInFlight ==
  \A c \in committed : (c.start # Unread /\ c.complete) =>
    \A x \in c.saw : x[2] = NewestUpTo(Versions(x[1]), c.start)

(***************************************************************************)
(* No update is lost: what a committed transaction overwrites is the       *)
(* version that it has read.  Under SILOCK always, whatever its snapshot;  *)
(* under SIOCC if its snapshot was complete.                               *)
(***************************************************************************)
Overwrites(c) == \A x \in c.saw : x[1] \in c.wrote =>
  x[2] = NewestUpTo(Versions(x[1]), c.ts - 1)

NoUpdateLost ==
  \A c \in committed : (scheme = "SIOCC" => c.complete) => Overwrites(c)

(***************************************************************************)
(* Update transactions under MVOCC read, in the serial order of their      *)
(* commit timestamps, what they have read in fact.                         *)
(***************************************************************************)
UpdatesSerial ==
  scheme = "MVOCC" => \A c \in committed : c.start = Unread =>
    \A x \in c.saw : x[2] = NewestUpTo(Versions(x[1]), c.ts - 1)

(***************************************************************************)
(* First-committer-wins: what SIOCC's name, "optimistic snapshot           *)
(* isolation", promises with no condition.                                 *)
(***************************************************************************)
NoLostUpdate == \A c \in committed : Overwrites(c)
=============================================================================
