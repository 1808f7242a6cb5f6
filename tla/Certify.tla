------------------------------- MODULE Certify -------------------------------
(***************************************************************************)
(* The schemes with certify locks: two-version locking (-DTVLOCK) over     *)
(* TvLockContent.h, and multiversion locking, with refusal (-DMVLOCK) over *)
(* MvLockContent.h and with wait-die (-DMVLOCK_WAIT) over                  *)
(* MvLockWaitContent.h.                                                    *)
(*                                                                         *)
(* A writer prepares a new version beside the readers of the old one; at   *)
(* the commit it turns each write lock into a certify lock, which goes     *)
(* with no reader.  TVLOCK then overwrites the record, the others add a    *)
(* version.  Read-only transactions of the latter read a snapshot and take *)
(* no lock.                                                                *)
(*                                                                         *)
(* One action is one critical section of wait_lock_ or rw_lock_, or one    *)
(* atomic operation.  GetMaxTimestamp and GetMinTimestamp are one step.    *)
(* TVLOCK draws no commit timestamp; the one it has here only names the    *)
(* content that it writes.  The record of an insertion is out of reach of  *)
(* all others, for the insertion into the table is commented out.          *)
(***************************************************************************)
EXTENDS Integers, FiniteSets, SequencesExt

CONSTANTS
  Scheme,        \* build options: within {"TVLOCK", "MVLOCK", "MVLOCK_WAIT"}
  Thread,
  Record,        \* the records the tables hold
  Procedures,    \* the procedures: sequences of [record, type]
  Batch,         \* the number of transactions in each thread's batch
  RecycleLength, \* kRecycleLength
  MaxTs          \* bound: no transaction starts beyond this timestamp

CertifyConstants ==
  /\ Scheme \subseteq {"TVLOCK", "MVLOCK", "MVLOCK_WAIT"} /\ IsFiniteSet(Thread)
  /\ Record \subseteq Nat \ {0} /\ Batch \in Nat \ {0}
  /\ RecycleLength \in Nat /\ MaxTs \in Nat

VARIABLES
  scheme,
  lock,      \* [readers, writing, certifying]: the three fields of the locks
  owners,    \* owners_: entries [ts, type], the last to join first
  waiters,   \* waiters_: entries [ts, type, thread]
  history,   \* history_head_ to history_tail_: timestamps of the versions
  monotone,  \* GlobalTimestamp::monotone_timestamp_
  threadTs,  \* GlobalTimestamp::thread_timestamp_
  isFinish,  \* ConcurrentExecutor::is_finish_
  pc,        \* where each thread is
  left,      \* transactions left in the thread's batch
  txn,       \* the running transaction, see NoTxn
  written,   \* history: all versions ever installed
  committed  \* history: transactions [ts, start, snapshot, complete, saw, wrote]

locks    == <<lock, owners, waiters>>
versions == <<history, written>>
rest     == <<scheme, threadTs, isFinish, left>>
vars     == <<locks, versions, rest, monotone, pc, txn, committed>>

-----------------------------------------------------------------------------
Unread == -1

NoRequest == [record |-> 0, type |-> "NO_LOCK"]

NoTxn == [procedure |-> <<>>,   \* the accesses of the procedure that runs
          start     |-> Unread, \* start_timestamp_, Unread if is_first_access_
          complete  |-> FALSE,  \* history: all commits up to start are installed
          request   |-> NoRequest, \* the lock that is being acquired
          ready     |-> TRUE,   \* lock_ready
          accesses  |-> <<>>,   \* access_list_: entries [record, type, saw]
          certified |-> 0,      \* certify_count
          done      |-> 0,      \* entries that are installed, or released
          commitTs  |-> 0]      \* commit_timestamp, 0 before it is drawn

MaxOf(S) == CHOOSE x \in S : \A y \in S : x >= y
MinOf(S) == CHOOSE x \in S : \A y \in S : x <= y

GetMaxTimestamp == MaxOf({threadTs[t] : t \in Thread})
GetMinTimestamp == MinOf({threadTs[t] : t \in Thread})

Waits == scheme = "MVLOCK_WAIT"

Init ==
  /\ scheme \in Scheme
  /\ lock = [r \in Record |-> [readers |-> 0, writing |-> FALSE,
                               certifying |-> FALSE]]
  /\ owners = [r \in Record |-> <<>>] /\ waiters = [r \in Record |-> <<>>]
  /\ history = [r \in Record |-> <<>>] /\ written = [r \in Record |-> {}]
  /\ monotone = 1 /\ isFinish = FALSE
  /\ threadTs = [t \in Thread |-> 0]
  /\ pc = [t \in Thread |-> "idle"]
  /\ left = [t \in Thread |-> Batch]
  /\ txn = [t \in Thread |-> NoTxn]
  /\ committed = {}

-----------------------------------------------------------------------------
(***************************************************************************)
(* The lock: what goes with what, and what taking and giving back changes. *)
(***************************************************************************)
IsConflict(l, type) ==
  CASE type = "READ_LOCK"    -> l.certifying
    [] type = "WRITE_LOCK"   -> l.writing \/ l.certifying
    [] type = "CERTIFY_LOCK" -> l.readers # 0

Taken(l, type) ==
  CASE type = "READ_LOCK"    -> [l EXCEPT !.readers = @ + 1]
    [] type = "WRITE_LOCK"   -> [l EXCEPT !.writing = TRUE]
    [] type = "CERTIFY_LOCK" -> [l EXCEPT !.writing = FALSE, !.certifying = TRUE]

Given(l, type) ==
  CASE type = "READ_LOCK"    -> [l EXCEPT !.readers = @ - 1]
    [] type = "WRITE_LOCK"   -> [l EXCEPT !.writing = FALSE]
    [] type = "CERTIFY_LOCK" -> [l EXCEPT !.certifying = FALSE]

(***************************************************************************)
(* The version lists.  CollectGarbage is called by MVLOCK only; TVLOCK     *)
(* overwrites its one version.                                             *)
(***************************************************************************)
VersionAt(h, ts) ==
  IF \E i \in DOMAIN h : h[i] <= ts
  THEN h[CHOOSE i \in DOMAIN h : h[i] <= ts /\ \A j \in 1..(i - 1) : h[j] > ts]
  ELSE 0

Newest(h) == IF h = <<>> THEN 0 ELSE Head(h)

ClearHistory(h, ts) ==
  SubSeq(h, 1, 1 + Cardinality({i \in 1..(Len(h) - 1) : h[i] >= ts}))

Installed(h, ts) ==
  CASE scheme = "TVLOCK" -> <<ts>>
    [] scheme = "MVLOCK" /\ Len(h) >= RecycleLength ->
         ClearHistory(<<ts>> \o h, GetMinTimestamp)
    [] OTHER -> <<ts>> \o h

-----------------------------------------------------------------------------
(***************************************************************************)
(* StoredProcedure::Execute, up to the first access, which draws the       *)
(* timestamp: a snapshot of a read-only transaction, or the age under      *)
(* wait-die, unless an aborted try has left it behind.                     *)
(***************************************************************************)
IsReadOnly(p) == \A i \in DOMAIN p : p[i].type = "READ_ONLY"

IsSnapshot(t) == scheme # "TVLOCK" /\ IsReadOnly(txn[t].procedure)

Begin(t, p) ==
  IF scheme # "TVLOCK" /\ IsReadOnly(p)
  THEN /\ txn' = [txn EXCEPT ![t].procedure = p, ![t].start = GetMaxTimestamp,
                    ![t].complete = \A u \in Thread : pc[u] = "install" =>
                                      txn[u].commitTs > GetMaxTimestamp]
       /\ UNCHANGED monotone
  ELSE IF Waits /\ txn[t].start = Unread
  THEN /\ txn' = [txn EXCEPT ![t].procedure = p, ![t].start = monotone]
       /\ monotone' = monotone + 1
  ELSE /\ txn' = [txn EXCEPT ![t].procedure = p]
       /\ UNCHANGED monotone

\* The bound MaxTs leaves a thread without a timestamp.
OutOfTimestamps(t) ==
  /\ monotone > MaxTs
  /\ txn[t].procedure = <<>> \/ (Waits /\ txn[t].start = Unread)

Execute(t) ==
  /\ pc[t] = "idle" /\ ~OutOfTimestamps(t)
  /\ \E p \in Procedures :
       /\ txn[t].procedure \in {<<>>, p}
       /\ Begin(t, p)
  /\ pc' = [pc EXCEPT ![t] = "exec"]
  /\ UNCHANGED <<locks, versions, rest, committed>>

Access(t) == txn[t].procedure[Len(txn[t].accesses) + 1]

Accessing(t) == pc[t] = "exec" /\ Len(txn[t].accesses) < Len(txn[t].procedure)

AccessedAll(t) == pc[t] = "exec" /\ Len(txn[t].accesses) = Len(txn[t].procedure)

NewAccess(t, saw) ==
  Append(txn[t].accesses,
         [record |-> Access(t).record, type |-> Access(t).type, saw |-> saw])

InsertRecord(t) ==
  /\ Accessing(t) /\ Access(t).type = "INSERT_ONLY"
  /\ txn' = [txn EXCEPT ![t].accesses = NewAccess(t, Unread)]
  /\ UNCHANGED <<locks, versions, rest, monotone, pc, committed>>

\* SelectRecordCC of a read-only transaction.
SelectSnapshot(t) ==
  /\ Accessing(t) /\ IsSnapshot(t)
  /\ txn' = [txn EXCEPT ![t].accesses =
       NewAccess(t, VersionAt(history[Access(t).record], txn[t].start))]
  /\ UNCHANGED <<locks, versions, rest, monotone, pc, committed>>

-----------------------------------------------------------------------------
(***************************************************************************)
(* AcquireLock under wait-die, and AcquireReadLock, AcquireWriteLock and   *)
(* AcquireCertifyLock without.  On a conflict, a transaction waits if no   *)
(* owner in the list is older; without one, it still waits if it is older  *)
(* than the youngest waiter.                                               *)
(***************************************************************************)
\* Mutant: whoever meets a conflict waits.
CanWaitAlways(t, r) == Waits

CanWait(t, r) == Waits /\ \A i \in DOMAIN owners[r] : txn[t].start <= owners[r][i].ts

Yields(t, r) == Waits /\ waiters[r] # <<>> /\ txn[t].start < Head(waiters[r]).ts

BufferWaiter(queue, entry) ==
  InsertAt(queue, 1 + Cardinality({i \in DOMAIN queue : entry.ts < queue[i].ts}),
           entry)

Wait(t, r, type) ==
  /\ waiters' = [waiters EXCEPT ![r] =
       BufferWaiter(@, [ts |-> txn[t].start, type |-> type, thread |-> t])]
  /\ txn' = [txn EXCEPT ![t].ready = FALSE,
                        ![t].request = [record |-> r, type |-> type]]
  /\ pc' = [pc EXCEPT ![t] = "wait"]
  /\ UNCHANGED <<lock, owners>>

Own(t, r, type) ==
  /\ lock' = [lock EXCEPT ![r] = Taken(@, type)]
  /\ owners' = IF ~Waits THEN owners
               ELSE [owners EXCEPT ![r] =
                       <<[ts |-> txn[t].start, type |-> type]>> \o @]
  /\ txn' = [txn EXCEPT ![t].request = [record |-> r, type |-> type]]
  /\ pc' = [pc EXCEPT ![t] = "wait"]
  /\ UNCHANGED waiters

Refused(t, type) ==
  /\ pc' = [pc EXCEPT ![t] = IF type = "CERTIFY_LOCK" THEN "release" ELSE "undo"]
  /\ UNCHANGED <<locks, txn>>

AcquireLock(t, r, type) ==
  LET conflict == IsConflict(lock[r], type)
  IN  CASE conflict /\ CanWait(t, r)   -> Wait(t, r, type)
        [] conflict /\ ~CanWait(t, r)  -> Refused(t, type)
        [] ~conflict /\ Yields(t, r)   -> Wait(t, r, type)
        [] ~conflict /\ ~Yields(t, r)  -> Own(t, r, type)

\* SelectRecordCC, for a record with a lock.
SelectRecordCC(t) ==
  /\ Accessing(t) /\ ~IsSnapshot(t) /\ Access(t).type # "INSERT_ONLY"
  /\ AcquireLock(t, Access(t).record,
                 IF Access(t).type = "READ_ONLY" THEN "READ_LOCK" ELSE "WRITE_LOCK")
  /\ UNCHANGED <<versions, rest, monotone, committed>>

\* ReadAccess of the newest version, once the lock is there.
ReadAccess(t) ==
  /\ pc[t] = "wait" /\ txn[t].ready /\ txn[t].request.type # "CERTIFY_LOCK"
  /\ txn' = [txn EXCEPT ![t].request = NoRequest,
               ![t].accesses = NewAccess(t, Newest(history[Access(t).record]))]
  /\ pc' = [pc EXCEPT ![t] = "exec"]
  /\ UNCHANGED <<locks, versions, rest, monotone, committed>>

-----------------------------------------------------------------------------
(***************************************************************************)
(* CommitTransaction: the write locks become certify locks, in the order   *)
(* of the accesses, up to the first that is refused.                       *)
(***************************************************************************)
Updates(t) == SelectSeq(txn[t].accesses, LAMBDA e : e.type = "READ_WRITE")

Locked(t) == SelectSeq(txn[t].accesses, LAMBDA e : e.type # "INSERT_ONLY")

AcquireCertifyLock(t) ==
  /\ AccessedAll(t) /\ ~IsSnapshot(t) /\ txn[t].certified < Len(Updates(t))
  /\ AcquireLock(t, Updates(t)[txn[t].certified + 1].record, "CERTIFY_LOCK")
  /\ UNCHANGED <<versions, rest, monotone, committed>>

Certified(t) ==
  /\ pc[t] = "wait" /\ txn[t].ready /\ txn[t].request.type = "CERTIFY_LOCK"
  /\ txn' = [txn EXCEPT ![t].request = NoRequest, ![t].certified = @ + 1]
  /\ pc' = [pc EXCEPT ![t] = "exec"]
  /\ UNCHANGED <<locks, versions, rest, monotone, committed>>

Commit(t, ts) ==
  committed' = committed \cup
    {[ts |-> ts, start |-> txn[t].start, snapshot |-> IsSnapshot(t),
      complete |-> txn[t].complete,
      saw |-> {<<e.record, e.saw>> : e \in Range(Locked(t))},
      wrote |-> {e.record : e \in Range(Updates(t))}]}

GetMonotoneTimestamp(t) ==
  /\ AccessedAll(t) /\ ~IsSnapshot(t) /\ txn[t].certified = Len(Updates(t))
  /\ txn' = [txn EXCEPT ![t].commitTs = monotone]
  /\ monotone' = monotone + 1
  /\ Commit(t, monotone)
  /\ pc' = [pc EXCEPT ![t] = "install"]
  /\ UNCHANGED <<locks, versions, rest>>

WriteAccess(t) ==
  /\ pc[t] = "install" /\ txn[t].done < Len(Updates(t))
  /\ LET r == Updates(t)[txn[t].done + 1].record
     IN  /\ history' = [history EXCEPT ![r] = Installed(@, txn[t].commitTs)]
         /\ written' = [written EXCEPT ![r] = @ \cup {txn[t].commitTs}]
  /\ txn' = [txn EXCEPT ![t].done = @ + 1]
  /\ UNCHANGED <<locks, rest, monotone, pc, committed>>

EndInstall(t) ==
  /\ pc[t] = "install" /\ txn[t].done = Len(Updates(t))
  /\ txn' = [txn EXCEPT ![t].done = 0]
  /\ pc' = [pc EXCEPT ![t] = "release"]
  /\ UNCHANGED <<locks, versions, rest, monotone, committed>>

-----------------------------------------------------------------------------
(***************************************************************************)
(* DebufferWaiters, as a fold over the waiters: each is granted until one  *)
(* conflicts.  A certify lock replaces the entry of the write lock.        *)
(***************************************************************************)
Without(list, ts) ==
  LET i == CHOOSE i \in DOMAIN list :
             list[i].ts = ts /\ \A j \in 1..(i - 1) : list[j].ts # ts
  IN  RemoveAt(list, i)

Grant(acc, w) ==
  IF acc.stop \/ IsConflict(acc.lock, w.type) THEN [acc EXCEPT !.stop = TRUE]
  ELSE [lock   |-> Taken(acc.lock, w.type),
        owners |-> <<[ts |-> w.ts, type |-> w.type]>> \o
                   (IF w.type = "CERTIFY_LOCK" THEN Without(acc.owners, w.ts)
                    ELSE acc.owners),
        woken  |-> acc.woken \cup {w.thread},
        stop   |-> FALSE]

\* Mutant: nobody is granted.
DebufferNobody(l, list, queue) ==
  [lock |-> l, owners |-> list, woken |-> {}, stop |-> FALSE]

DebufferWaiters(l, list, queue) ==
  FoldLeft(Grant, [lock |-> l, owners |-> list, woken |-> {}, stop |-> FALSE],
           queue)

(***************************************************************************)
(* ReleaseLock gives back the lock of the first entry with the timestamp.  *)
(* Certifying leaves the entry of the write lock in the list, behind the   *)
(* new one, unless the transaction had to wait.                            *)
(***************************************************************************)
OwnedAs(list, ts) ==
  list[CHOOSE i \in DOMAIN list :
         list[i].ts = ts /\ \A j \in 1..(i - 1) : list[j].ts # ts].type

ReleaseWaiting(t, r) ==
  LET ts   == txn[t].start
      next == DebufferWaiters(Given(lock[r], OwnedAs(owners[r], ts)),
                              Without(owners[r], ts), waiters[r])
  IN  /\ lock' = [lock EXCEPT ![r] = next.lock]
      /\ owners' = [owners EXCEPT ![r] = next.owners]
      /\ waiters' = [waiters EXCEPT ![r] =
           SubSeq(@, 1 + Cardinality(next.woken), Len(@))]
      /\ txn' = [u \in Thread |->
           CASE u = t -> [txn[u] EXCEPT !.done = @ + 1]
             [] u \in next.woken -> [txn[u] EXCEPT !.ready = TRUE]
             [] OTHER -> txn[u]]

\* Without waiting: the first certify_count updates have a certify lock.
LockedAs(t, n) ==
  LET updates == Cardinality({i \in 1..n : Locked(t)[i].type = "READ_WRITE"})
  IN  CASE Locked(t)[n].type = "READ_ONLY" -> "READ_LOCK"
        [] Locked(t)[n].type = "READ_WRITE" /\ updates <= txn[t].certified ->
             "CERTIFY_LOCK"
        [] OTHER -> "WRITE_LOCK"

ReleaseLock(t) ==
  /\ pc[t] \in {"release", "undo"} /\ txn[t].done < Len(Locked(t))
  /\ LET n == txn[t].done + 1
         r == Locked(t)[n].record
     IN  IF Waits THEN ReleaseWaiting(t, r)
         ELSE /\ lock' = [lock EXCEPT ![r] = Given(@, LockedAs(t, n))]
              /\ txn' = [txn EXCEPT ![t].done = @ + 1]
              /\ UNCHANGED <<owners, waiters>>
  /\ UNCHANGED <<versions, rest, monotone, pc, committed>>

(***************************************************************************)
(* The last lines of CommitTransaction, and the executor counts the        *)
(* transaction or tries it again.  A read-only one has left no trace.  A   *)
(* failed commit gives up its age, an abort in between does not.           *)
(***************************************************************************)
Counted(t) ==
  /\ left' = [left EXCEPT ![t] = @ - 1]
  /\ isFinish' = (isFinish \/ left[t] = 1)
  /\ txn' = [txn EXCEPT ![t] = NoTxn]
  /\ pc' = [pc EXCEPT ![t] = IF isFinish' THEN "done" ELSE "idle"]

Returning(t) ==
  pc[t] \in {"release", "undo"} /\ txn[t].done = Len(Locked(t))

ReturnCommitted(t) ==
  /\ Returning(t) /\ txn[t].commitTs # 0
  /\ threadTs' = IF scheme = "TVLOCK" THEN threadTs
                 ELSE [threadTs EXCEPT ![t] = txn[t].commitTs]
  /\ Counted(t)
  /\ UNCHANGED <<locks, versions, scheme, monotone, committed>>

CommitReadOnly(t) ==
  /\ AccessedAll(t) /\ IsSnapshot(t)
  /\ Commit(t, 0)
  /\ Counted(t)
  /\ UNCHANGED <<locks, versions, scheme, threadTs, monotone>>

ReturnAborted(t) ==
  /\ Returning(t) /\ txn[t].commitTs = 0
  /\ txn' = [txn EXCEPT ![t] =
       [NoTxn EXCEPT !.procedure = txn[t].procedure,
                     !.start = IF pc[t] = "undo" THEN txn[t].start ELSE Unread]]
  /\ pc' = [pc EXCEPT ![t] = IF isFinish THEN "done" ELSE "idle"]
  /\ UNCHANGED <<locks, versions, rest, monotone, committed>>

-----------------------------------------------------------------------------
Step(t) ==
  \/ Execute(t) \/ InsertRecord(t)
  \/ SelectSnapshot(t) \/ SelectRecordCC(t) \/ ReadAccess(t)
  \/ AcquireCertifyLock(t) \/ Certified(t) \/ GetMonotoneTimestamp(t)
  \/ WriteAccess(t) \/ EndInstall(t) \/ ReleaseLock(t)
  \/ ReturnCommitted(t) \/ CommitReadOnly(t) \/ ReturnAborted(t)

\* The batches are over, or the bound MaxTs is reached.
Stopped(t) == pc[t] = "done" \/ (pc[t] = "idle" /\ OutOfTimestamps(t))

Joined == (\A t \in Thread : Stopped(t)) /\ UNCHANGED vars

Next == (\E t \in Thread : Step(t)) \/ Joined

Spec == Init /\ [][Next]_vars

-----------------------------------------------------------------------------
(***************************************************************************)
(* The lock that a thread has on a record, from where the thread is.       *)
(***************************************************************************)
HeldOf(t, e) ==
  LET n == CHOOSE i \in DOMAIN Locked(t) : Locked(t)[i].record = e.record
  IN  IF pc[t] \in {"release", "undo"} /\ n <= txn[t].done THEN "NO_LOCK"
      ELSE LockedAs(t, n)

Held(t, r) ==
  CASE IsSnapshot(t) -> "NO_LOCK"
    [] txn[t].request.record = r /\ txn[t].ready -> txn[t].request.type
    [] \E e \in Range(Locked(t)) : e.record = r ->
         HeldOf(t, CHOOSE e \in Range(Locked(t)) : e.record = r)
    [] OTHER -> "NO_LOCK"

Holders(r, type) == {t \in Thread : Held(t, r) = type}

(***************************************************************************)
(* The three fields of every lock agree with the threads that hold it,     *)
(* through refused upgrades, grants and releases, and a certify lock goes  *)
(* with no other lock.  A transaction that waits is in the list of its     *)
(* record, and one that has been granted is not: no wake-up is lost, and   *)
(* somebody holds a lock whose release will look at the list.              *)
(***************************************************************************)
LocksAgree ==
  \A r \in Record :
    /\ lock[r] = [readers    |-> Cardinality(Holders(r, "READ_LOCK")),
                  writing    |-> Holders(r, "WRITE_LOCK") # {},
                  certifying |-> Holders(r, "CERTIFY_LOCK") # {}]
    /\ Cardinality(Holders(r, "WRITE_LOCK") \cup Holders(r, "CERTIFY_LOCK")) <= 1
    /\ lock[r].certifying => lock[r].readers = 0
    /\ {waiters[r][i].thread : i \in DOMAIN waiters[r]} =
         {t \in Thread : ~txn[t].ready /\ txn[t].request.record = r}
    /\ waiters[r] # <<>> => \E t \in Thread :
         /\ Held(t, r) # "NO_LOCK"
         /\ ~(~txn[t].ready /\ txn[t].request.record = r)

(***************************************************************************)
(* Nobody waits behind an older transaction, "to avoid violating 'the      *)
(* small ts wait for the big ts' rule", so that no cycle of waits forms;   *)
(* the entry a certified write lock has left behind takes no part.         *)
(***************************************************************************)
WaitsForYounger ==
  \A r \in Record : \A i \in DOMAIN waiters[r] :
    /\ \A t \in Thread : Held(t, r) # "NO_LOCK" =>
         waiters[r][i].ts <= txn[t].start
    /\ \A j \in 1..(i - 1) : waiters[r][i].ts < waiters[r][j].ts

(***************************************************************************)
(* Committed update transactions have read what the serial execution in    *)
(* the order of their commits has them read.                               *)
(***************************************************************************)
NewestUpTo(S, ts) == MaxOf({0} \cup {v \in S : v <= ts})

Versions(r) == {c.ts : c \in {d \in committed : r \in d.wrote}}

ReadsInCommitOrder ==
  \A c \in committed : ~c.snapshot =>
    \A x \in c.saw : x[2] = NewestUpTo(Versions(x[1]), c.ts - 1)

(***************************************************************************)
(* A read-only transaction sees all the updates up to its snapshot and no  *)
(* others, unless one of them was still installing when it was taken.      *)
(***************************************************************************)
SnapshotUnlessInFlight ==
  \A c \in committed : (c.snapshot /\ c.complete) =>
    \A x \in c.saw : x[2] = NewestUpTo(Versions(x[1]), c.start)

(***************************************************************************)
(* Garbage collection takes no version a running snapshot can ask for.     *)
(***************************************************************************)
VersionsKept ==
  \A t \in Thread : (IsSnapshot(t) /\ txn[t].start # Unread) =>
    \A r \in Record :
      VersionAt(history[r], txn[t].start) = NewestUpTo(written[r], txn[t].start)
=============================================================================
