------------------------------- MODULE Hybrid -------------------------------
(***************************************************************************)
(* The schemes that refuse instead of waiting or validate under one big    *)
(* lock: no-wait locking with updates in place (-DLOCK), OCC inside a      *)
(* hardware transaction with exchanged record pointers (-DDBX) or with     *)
(* timestamps (-DRTM), and its combinations with OCC (-DOCC_RTM) or        *)
(* no-wait locking (-DLOCK_RTM) for the records marked as hot.             *)
(*                                                                         *)
(* An RtmLock is a hardware transaction with a spin lock to fall back on.  *)
(* It is the latter here, one lock for all threads: what a hardware        *)
(* transaction does at once is one of the orders of these steps.           *)
(*                                                                         *)
(* An access is hot if a read-write lock protects it: all of LOCK, those   *)
(* of hot records in OCC_RTM and LOCK_RTM, and the insertions of LOCK_RTM. *)
(* The record of an insertion is out of reach of all other transactions,   *)
(* for the insertion into the table is commented out.                      *)
(***************************************************************************)
EXTENDS LockContent, FiniteSets, SequencesExt

CONSTANTS
  Scheme,     \* build options: within {"LOCK", "DBX", "RTM", "OCC_RTM", "LOCK_RTM"}
  Thread,
  Record,     \* the records the tables hold
  Hot,        \* is_hot_: those that SetHot has marked
  Procedures, \* the procedures: sequences of [record, type]
  Batch,      \* the number of transactions in each thread's batch
  Loader,     \* the populator, which wrote the initial contents
  Nobody      \* no thread

HybridConstants ==
  /\ Scheme \subseteq {"LOCK", "DBX", "RTM", "OCC_RTM", "LOCK_RTM"}
  /\ IsFiniteSet(Thread) /\ Record \subseteq Nat \ {0} /\ Hot \subseteq Record
  /\ Batch \in Nat \ {0} /\ Loader \notin Thread \X Nat /\ Nobody \notin Thread

VARIABLES
  scheme,
  word,      \* word[r]: who wrote what TableRecord::record_ points to
  visible,   \* SchemaRecord::is_visible_
  ts,        \* timestamp_
  counter,   \* counter_ of DbxContent, RtmContent and LockRtmContent
  lock,      \* lock_ of LockContent and LockRtmContent
  rtmLock,   \* ConcurrentExecutor::rtm_lock_: its holder
  garbage,   \* garbage_set_ of each thread: pairs of a record and a version
  freed,     \* history: the versions given back to the allocator
  monotone,  \* GlobalTimestamp::monotone_timestamp_
  isFinish,  \* ConcurrentExecutor::is_finish_
  pc,        \* where each thread is
  left,      \* transactions left in the thread's batch
  txn,       \* the running transaction, see NoTxn
  committed  \* history: transactions [order, saw, wrote], wrote a set of
             \* pairs of a record and the timestamp it gets

content == <<word, visible, ts>>
memory  == <<counter, garbage, freed>>
rest    == <<scheme, monotone, isFinish, left, committed>>
vars    == <<content, memory, rest, lock, rtmLock, pc, txn>>

-----------------------------------------------------------------------------
NoTxn == [procedure |-> <<>>, \* the accesses of the procedure that runs
          ts        |-> 0,    \* timestamp_ of the access that is under way
          accesses  |-> <<>>, \* the access lists: entries [record, type, ts, saw]
          locked    |-> 0,    \* lock_count
          done      |-> 0,    \* entries behind the loop that runs
          commitTs  |-> 0]    \* commit_ts

\* The content that the transaction of t writes, and its local copy.
Writer(t) == <<t, left[t]>>

Init ==
  /\ scheme \in Scheme
  /\ word = [r \in Record |-> Loader] /\ visible = [r \in Record |-> TRUE]
  /\ ts = [r \in Record |-> 0] /\ counter = [r \in Record |-> 0]
  /\ lock = [r \in Record |-> NoLock] /\ rtmLock = Nobody
  /\ garbage = [t \in Thread |-> {}] /\ freed = {}
  /\ monotone = 1 /\ isFinish = FALSE
  /\ pc = [t \in Thread |-> "idle"]
  /\ left = [t \in Thread |-> Batch]
  /\ txn = [t \in Thread |-> NoTxn]
  /\ committed = {}

Goto(t, place) == pc' = [pc EXCEPT ![t] = place]

-----------------------------------------------------------------------------
(***************************************************************************)
(* The two lists of a transaction.                                         *)
(***************************************************************************)
IsHot(e) ==
  CASE scheme = "LOCK"     -> TRUE
    [] scheme = "LOCK_RTM" -> e.type = "INSERT_ONLY" \/ e.record \in Hot
    [] scheme = "OCC_RTM"  -> e.record \in Hot
    [] OTHER               -> FALSE

HotList(t)  == SelectSeq(txn[t].accesses, IsHot)
ColdList(t) == SelectSeq(txn[t].accesses, LAMBDA e : ~IsHot(e))

\* The list that Sort has put in the order of the record addresses.
Sorted(list) ==
  SetToSortSeq(Range(list), LAMBDA a, b : a.record < b.record)

Access(t) == txn[t].procedure[Len(txn[t].accesses) + 1]

Accessing(t) == pc[t] = "exec" /\ Len(txn[t].accesses) < Len(txn[t].procedure)

Entry(t, stamp, saw) ==
  [record |-> Access(t).record, type |-> Access(t).type, ts |-> stamp,
   saw |-> saw]

Execute(t) ==
  /\ pc[t] = "idle"
  /\ \E p \in Procedures : txn' = [txn EXCEPT ![t].procedure = p]
  /\ Goto(t, "exec")
  /\ UNCHANGED <<content, memory, rest, lock, rtmLock>>

InsertRecord(t) ==
  /\ Accessing(t) /\ Access(t).type = "INSERT_ONLY"
  /\ txn' = [txn EXCEPT ![t].accesses = Append(@, Entry(t, 0, Loader))]
  /\ UNCHANGED <<content, memory, rest, lock, rtmLock, pc>>

(***************************************************************************)
(* What counts as a reference to a record.  A deletion is counted by the   *)
(* combined schemes, which do not count it back.                           *)
(***************************************************************************)
Referring == {"READ_ONLY", "READ_WRITE"}

Counts(e) ==
  scheme # "LOCK" /\
  (e.type \in Referring \/ (e.type = "DELETE_ONLY" /\ scheme \in {"OCC_RTM", "LOCK_RTM"}))

Counted(e, n) ==
  counter' = IF scheme # "LOCK" /\ e.type \in Referring
             THEN [counter EXCEPT ![e.record] = @ + n] ELSE counter

(***************************************************************************)
(* SelectRecordCC with a lock: TryReadLock or TryWriteLock, or the abort.  *)
(* An update is made in place, beside a copy of the old content; a         *)
(* deletion under LOCK hides the record at once.                           *)
(***************************************************************************)
TryLock(l, type) ==
  IF type = "READ_ONLY" THEN CanReadLock(l) ELSE CanWriteLock(l)

LocksAtAccess(e) == scheme \in {"LOCK", "LOCK_RTM"} /\ IsHot(e)

SelectLocked(t) ==
  /\ Accessing(t) /\ Access(t).type # "INSERT_ONLY" /\ LocksAtAccess(Access(t))
  /\ LET a == Access(t)
         r == a.record
     IN  IF TryLock(lock[r], a.type)
         THEN /\ lock' = [lock EXCEPT ![r] =
                   IF a.type = "READ_ONLY" THEN ReadLocked(@) ELSE WriteLocked(@)]
              /\ txn' = [txn EXCEPT ![t].accesses =
                           Append(@, Entry(t, ts[r], word[r]))]
              /\ word' = [word EXCEPT ![r] =
                   IF a.type = "READ_WRITE" THEN Writer(t) ELSE @]
              /\ visible' = [visible EXCEPT ![r] =
                   @ /\ ~(a.type = "DELETE_ONLY" /\ scheme = "LOCK")]
              /\ counter' = [counter EXCEPT ![r] = IF Counts(a) THEN @ + 1 ELSE @]
              /\ UNCHANGED pc
         ELSE /\ Goto(t, "abort")
              /\ UNCHANGED <<lock, txn, word, visible, counter>>
  /\ UNCHANGED <<ts, garbage, freed, rest, rtmLock>>

(***************************************************************************)
(* SelectRecordCC without a lock: the reference is counted, the timestamp  *)
(* is read, then the content.  DBX reads the timestamp and the pointer to  *)
(* the content inside a hardware transaction, which waits for one that     *)
(* has taken the lock.                                                     *)
(***************************************************************************)
IncrementCounter(t) ==
  /\ Accessing(t) /\ Access(t).type # "INSERT_ONLY" /\ ~LocksAtAccess(Access(t))
  /\ counter' = [counter EXCEPT ![Access(t).record] =
                   IF Counts(Access(t)) THEN @ + 1 ELSE @]
  /\ Goto(t, "stamp")
  /\ UNCHANGED <<content, garbage, freed, rest, lock, rtmLock, txn>>

GetTimestamp(t) ==
  /\ pc[t] = "stamp" /\ scheme # "DBX"
  /\ txn' = [txn EXCEPT ![t].ts = ts[Access(t).record]]
  /\ Goto(t, "copy")
  /\ UNCHANGED <<content, memory, rest, lock, rtmLock>>

CopyFrom(t) ==
  /\ \/ pc[t] = "copy"
     \/ pc[t] = "stamp" /\ scheme = "DBX" /\ rtmLock = Nobody
  /\ LET stamp == IF scheme = "DBX" THEN ts[Access(t).record] ELSE txn[t].ts
     IN  txn' = [txn EXCEPT ![t].accesses =
                   Append(@, Entry(t, stamp, word[Access(t).record]))]
  /\ Goto(t, "exec")
  /\ UNCHANGED <<content, memory, rest, lock, rtmLock>>

-----------------------------------------------------------------------------
(***************************************************************************)
(* CommitTransaction.  Only OCC_RTM has locks to take, in the order of the *)
(* record addresses, and a read or an update with them to validate.        *)
(***************************************************************************)
CommitTransaction(t) ==
  /\ pc[t] = "exec" /\ Len(txn[t].accesses) = Len(txn[t].procedure)
  /\ txn' = IF scheme = "OCC_RTM"
            THEN [txn EXCEPT ![t].accesses = Sorted(HotList(t)) \o ColdList(t)]
            ELSE txn
  /\ Goto(t, IF scheme = "OCC_RTM" THEN "lock" ELSE "validate")
  /\ UNCHANGED <<content, memory, rest, lock, rtmLock>>

\* Mutant: a record that was only read is not compared.
ValidWrites(e) == e.type # "READ_WRITE" \/ ts[e.record] = e.ts

Valid(e) == e.type \notin Referring \/ ts[e.record] = e.ts

AcquireLock(t) ==
  /\ pc[t] = "lock" /\ txn[t].locked < Len(HotList(t))
  /\ LET e == HotList(t)[txn[t].locked + 1]
     IN  /\ TryLock(lock[e.record], e.type)
         /\ lock' = [lock EXCEPT ![e.record] =
              IF e.type = "READ_ONLY" THEN ReadLocked(@) ELSE WriteLocked(@)]
         /\ Goto(t, IF Valid(e) THEN "lock" ELSE "unlock")
  /\ txn' = [txn EXCEPT ![t].locked = @ + 1]
  /\ UNCHANGED <<content, memory, rest, rtmLock>>

(***************************************************************************)
(* The transaction takes effect for those that come after it: where it has *)
(* been validated under DBX, where it draws its timestamp in the others.   *)
(***************************************************************************)
Entries(t) == Range(txn[t].accesses)

Wrote(t) == {e.record : e \in {x \in Entries(t) : x.type \in {"READ_WRITE", "DELETE_ONLY"}}}

Commit(t, stamp(_)) ==
  committed' = committed \cup
    {[order |-> Cardinality(committed) + 1,
      saw   |-> {<<e.record, e.ts, e.saw>> :
                   e \in {x \in Entries(t) : x.type \in Referring}},
      by    |-> Writer(t),
      updates |-> {e.record : e \in {x \in Entries(t) : x.type = "READ_WRITE"}},
      wrote |-> {<<r, stamp(r)>> : r \in Wrote(t)}]}

(***************************************************************************)
(* The cold accesses are validated and installed under the RtmLock.        *)
(***************************************************************************)
Validate(t) ==
  /\ \/ pc[t] = "validate" /\ scheme # "LOCK"
     \/ pc[t] = "lock" /\ txn[t].locked = Len(HotList(t))
  /\ ColdList(t) # <<>>
  /\ rtmLock = Nobody /\ rtmLock' = t
  /\ LET valid == \A i \in DOMAIN ColdList(t) : Valid(ColdList(t)[i])
     IN  /\ Goto(t, IF ~valid THEN "fail" ELSE IF scheme = "DBX" THEN "cold" ELSE "draw")
         /\ IF valid /\ scheme = "DBX"
            THEN Commit(t, LAMBDA r : ts[r] + 1) ELSE UNCHANGED committed
  /\ UNCHANGED <<content, memory, scheme, monotone, isFinish, left, lock, txn>>

GetMonotoneTimestamp(t) ==
  /\ \/ pc[t] = "draw"
     \/ pc[t] = "validate" /\ (scheme = "LOCK" \/ ColdList(t) = <<>>)
     \/ pc[t] = "lock" /\ txn[t].locked = Len(HotList(t)) /\ ColdList(t) = <<>>
  /\ txn' = [txn EXCEPT ![t].commitTs = monotone]
  /\ monotone' = monotone + 1
  /\ Commit(t, LAMBDA r : monotone)
  /\ Goto(t, "cold")
  /\ UNCHANGED <<content, memory, scheme, isFinish, left, lock, rtmLock>>

(***************************************************************************)
(* One entry is installed.  DBX exchanges record_ and local_record_.  The  *)
(* schemes with timestamps exchange two variables that hold copies of the  *)
(* pointers, which changes neither the record nor the entry; under LOCK    *)
(* and for the hot records of LOCK_RTM the content is in place already,    *)
(* and a deletion changes the timestamp only.                              *)
(***************************************************************************)
Swaps == scheme = "DBX"

Hides(e) == e.type = "DELETE_ONLY" /\ ~LocksAtAccess(e)

Install(t, e) ==
  IF e.type \in {"READ_WRITE", "DELETE_ONLY"}
  THEN /\ word' = IF Swaps /\ e.type = "READ_WRITE"
                  THEN [word EXCEPT ![e.record] = Writer(t)] ELSE word
       /\ visible' = [visible EXCEPT ![e.record] = @ /\ ~Hides(e)]
       /\ ts' = [ts EXCEPT ![e.record] =
                   IF scheme = "DBX" THEN @ + 1 ELSE txn[t].commitTs]
  ELSE UNCHANGED content

InstallCold(t) ==
  /\ pc[t] = "cold" /\ txn[t].done < Len(ColdList(t))
  /\ Install(t, ColdList(t)[txn[t].done + 1])
  /\ txn' = [txn EXCEPT ![t].done = @ + 1]
  /\ UNCHANGED <<memory, rest, lock, rtmLock, pc>>

Unlock(t) ==
  /\ \/ pc[t] = "cold" /\ txn[t].done = Len(ColdList(t)) /\ Goto(t, "hot")
     \/ pc[t] = "fail" /\ Goto(t, "cleanFailed")
  /\ rtmLock' = IF ColdList(t) # <<>> THEN Nobody ELSE rtmLock
  /\ txn' = [txn EXCEPT ![t].done = 0]
  /\ UNCHANGED <<content, memory, rest, lock>>

InstallHot(t) ==
  /\ pc[t] = "hot" /\ txn[t].done < Len(HotList(t))
  /\ Install(t, HotList(t)[txn[t].done + 1])
  /\ txn' = [txn EXCEPT ![t].done = @ + 1]
  /\ UNCHANGED <<memory, rest, lock, rtmLock, pc>>

EndInstall(t) ==
  /\ pc[t] = "hot" /\ txn[t].done = Len(HotList(t))
  /\ txn' = [txn EXCEPT ![t].done = 0]
  /\ Goto(t, "release")
  /\ UNCHANGED <<content, memory, rest, lock, rtmLock>>

-----------------------------------------------------------------------------
(***************************************************************************)
(* The lock of an entry is released.  LOCK_RTM has the release of a        *)
(* deletion's lock commented out, although it took it.                     *)
(***************************************************************************)
Released(e) ==
  lock' = IF e.type = "INSERT_ONLY" \/ (scheme = "LOCK_RTM" /\ e.type = "DELETE_ONLY")
          THEN lock
          ELSE [lock EXCEPT ![e.record] =
                  IF e.type = "READ_ONLY" THEN ReadReleased(@) ELSE WriteReleased(@)]

\* LOCK_RTM counts a reference back in the same loop.
ReleaseLock(t) ==
  /\ pc[t] = "release" /\ txn[t].done < Len(HotList(t))
  /\ LET e == HotList(t)[txn[t].done + 1]
     IN  /\ Released(e)
         /\ IF scheme = "LOCK_RTM" THEN Counted(e, -1) ELSE UNCHANGED counter
  /\ txn' = [txn EXCEPT ![t].done = @ + 1]
  /\ UNCHANGED <<content, garbage, freed, rest, rtmLock, pc>>

EndRelease(t) ==
  /\ pc[t] = "release" /\ txn[t].done = Len(HotList(t))
  /\ txn' = [txn EXCEPT ![t].done = 0]
  /\ Goto(t, "clean")
  /\ UNCHANGED <<content, memory, rest, lock, rtmLock>>

(***************************************************************************)
(* The next reference is counted back.  DecrementCounter returns the value *)
(* before, which is never 0: the version an update leaves over always goes *)
(* to garbage_set_, after the versions in it whose records have no         *)
(* reference are freed.  Under DBX it is the one that was replaced, under  *)
(* the others the local copy.                                              *)
(***************************************************************************)
CleanList(t) == (IF scheme = "OCC_RTM" THEN HotList(t) ELSE <<>>) \o ColdList(t)

Collectable(t) == {g \in garbage[t] : counter'[g[1]] = 0}

CleanUp(t) ==
  /\ pc[t] = "clean" /\ txn[t].done < Len(CleanList(t))
  /\ LET e == CleanList(t)[txn[t].done + 1]
         over == <<e.record, IF Swaps THEN e.saw ELSE Writer(t)>>
     IN  /\ Counted(e, -1)
         /\ IF e.type = "READ_WRITE"
            THEN /\ freed' = freed \cup Collectable(t)
                 /\ garbage' = [garbage EXCEPT ![t] =
                                  (@ \ Collectable(t)) \cup {over}]
            ELSE UNCHANGED <<freed, garbage>>
  /\ txn' = [txn EXCEPT ![t].done = @ + 1]
  /\ UNCHANGED <<content, rest, lock, rtmLock, pc>>

ReturnCommitted(t) ==
  /\ pc[t] = "clean" /\ txn[t].done = Len(CleanList(t))
  /\ left' = [left EXCEPT ![t] = @ - 1]
  /\ isFinish' = (isFinish \/ left[t] = 1)
  /\ txn' = [txn EXCEPT ![t] = NoTxn]
  /\ Goto(t, IF isFinish' THEN "done" ELSE "idle")
  /\ UNCHANGED <<content, memory, scheme, monotone, committed, lock, rtmLock>>

-----------------------------------------------------------------------------
(***************************************************************************)
(* The validation of a hot record under OCC_RTM has failed: the locks      *)
(* taken so far are released, then the references to hot records are       *)
(* counted back.  Those to cold ones are not.                              *)
(***************************************************************************)
ReleaseFailed(t) ==
  /\ pc[t] = "unlock" /\ txn[t].done < txn[t].locked
  /\ Released(HotList(t)[txn[t].done + 1])
  /\ txn' = [txn EXCEPT ![t].done = @ + 1]
  /\ UNCHANGED <<content, memory, rest, rtmLock, pc>>

(***************************************************************************)
(* The validation of the cold records has failed, and the RtmLock is       *)
(* released, or a lock has been refused (AbortTransaction): the references *)
(* to cold records are counted back.                                       *)
(***************************************************************************)
CleanFailed(t) ==
  /\ pc[t] \in {"abort", "cleanFailed"} /\ txn[t].done < Len(ColdList(t))
  /\ Counted(ColdList(t)[txn[t].done + 1], -1)
  /\ txn' = [txn EXCEPT ![t].done = @ + 1]
  /\ UNCHANGED <<content, garbage, freed, rest, lock, rtmLock, pc>>

EndClean(t) ==
  /\ \/ pc[t] \in {"abort", "cleanFailed"} /\ txn[t].done = Len(ColdList(t))
        /\ Goto(t, "restore")
     \/ pc[t] = "unlock" /\ txn[t].done = txn[t].locked
        /\ Goto(t, "cleanHot")
  /\ txn' = [txn EXCEPT ![t].done = 0]
  /\ UNCHANGED <<content, memory, rest, lock, rtmLock>>

(***************************************************************************)
(* Each hot entry is undone and its lock released: the old content is      *)
(* copied back, and a deletion undone by making the record visible.        *)
(***************************************************************************)
Restored(t, e) ==
  IF LocksAtAccess(e) /\ e.type = "READ_WRITE"
  THEN [word EXCEPT ![e.record] = e.saw] ELSE word

Restore(t) ==
  /\ pc[t] = "restore" /\ txn[t].done < Len(HotList(t))
  /\ LET e == HotList(t)[txn[t].done + 1]
     IN  /\ word' = Restored(t, e)
         /\ visible' = IF LocksAtAccess(e) /\ e.type = "DELETE_ONLY"
                       THEN [visible EXCEPT ![e.record] = TRUE] ELSE visible
         /\ Released(e)
         /\ Counted(e, -1)
  /\ txn' = [txn EXCEPT ![t].done = @ + 1]
  /\ UNCHANGED <<ts, garbage, freed, rest, rtmLock, pc>>

CleanHot(t) ==
  /\ pc[t] = "cleanHot" /\ txn[t].done < Len(HotList(t))
  /\ Counted(HotList(t)[txn[t].done + 1], -1)
  /\ txn' = [txn EXCEPT ![t].done = @ + 1]
  /\ UNCHANGED <<content, garbage, freed, rest, lock, rtmLock, pc>>

ReturnAborted(t) ==
  /\ pc[t] \in {"restore", "cleanHot"} /\ txn[t].done = Len(HotList(t))
  /\ txn' = [txn EXCEPT ![t] = NoTxn]
  /\ Goto(t, IF isFinish THEN "done" ELSE "idle")
  /\ UNCHANGED <<content, memory, rest, lock, rtmLock>>

-----------------------------------------------------------------------------
Step(t) ==
  \/ Execute(t) \/ InsertRecord(t) \/ SelectLocked(t)
  \/ IncrementCounter(t) \/ GetTimestamp(t) \/ CopyFrom(t)
  \/ CommitTransaction(t) \/ AcquireLock(t) \/ Validate(t)
  \/ GetMonotoneTimestamp(t) \/ InstallCold(t) \/ Unlock(t)
  \/ InstallHot(t) \/ EndInstall(t) \/ ReleaseLock(t) \/ EndRelease(t)
  \/ CleanUp(t) \/ ReturnCommitted(t)
  \/ ReleaseFailed(t) \/ CleanFailed(t) \/ EndClean(t) \/ Restore(t)
  \/ CleanHot(t) \/ ReturnAborted(t)

Joined == (\A t \in Thread : pc[t] = "done") /\ UNCHANGED vars

Next == (\E t \in Thread : Step(t)) \/ Joined

Spec == Init /\ [][Next]_vars

-----------------------------------------------------------------------------
(***************************************************************************)
(* The types of what the threads share.  Freed versions belong to records, *)
(* counters are counts, and the counter of commit timestamps has not       *)
(* passed one step per transaction.                                        *)
(***************************************************************************)
TypeOK ==
  /\ scheme \in Scheme
  /\ word \in [Record -> (Thread \X (1..Batch)) \cup {Loader}]
  /\ visible \in [Record -> BOOLEAN]
  /\ ts \in [Record -> Nat] /\ counter \in [Record -> Nat]
  /\ lock \in [Record -> LockType]
  /\ rtmLock \in Thread \cup {Nobody}
  /\ \A t \in Thread : \A g \in garbage[t] : g[1] \in Record
  /\ monotone \in 1..(1 + Batch * Cardinality(Thread)) /\ isFinish \in BOOLEAN
  /\ left \in [Thread -> 0..Batch]

(***************************************************************************)
(* Mode and reader count of every lock are those of the transactions that  *)
(* hold it, through each refused lock, failed validation and undo, and a   *)
(* writer excludes all others.  Only one thread is in the RtmLock.         *)
(***************************************************************************)
Held(t) ==
  LET H == HotList(t)
      from == IF pc[t] \in {"release", "restore", "unlock"} THEN txn[t].done ELSE 0
      to == IF scheme = "OCC_RTM" THEN txn[t].locked ELSE Len(H)
  IN  IF pc[t] \in {"clean", "cleanHot"} THEN {}
      ELSE {H[i] : i \in (from + 1)..to}

Holders(r, types) ==
  {t \in Thread : \E e \in Held(t) : e.record = r /\ e.type \in types}

LocksAgree ==
  /\ \A r \in Record :
       LET readers == Holders(r, {"READ_ONLY"})
           writers == Holders(r, {"READ_WRITE", "DELETE_ONLY"})
       IN  /\ lock[r].readers = Cardinality(readers)
           /\ lock[r].type = CASE readers # {} -> "READ_LOCK"
                               [] writers # {} -> "WRITE_LOCK"
                               [] OTHER        -> "NO_LOCK"
           /\ writers # {} => readers = {} /\ Cardinality(writers) = 1
  /\ \A t \in Thread :
       pc[t] \in {"draw", "fail"} \/ (pc[t] = "cold" /\ ColdList(t) # <<>>)
         <=> rtmLock = t

(***************************************************************************)
(* DBX exchanges the content under its readers.  No version is freed that  *)
(* is a record's content, or that a running procedure has a pointer to.    *)
(***************************************************************************)
VersionsAlive ==
  /\ \A r \in Record : <<r, word[r]>> \notin freed
  /\ \A t \in Thread : pc[t] \in {"exec", "stamp", "copy"} =>
       \A e \in Entries(t) :
         e.type \in Referring => <<e.record, e.saw>> \notin freed

(***************************************************************************)
(* Committed transactions have read what the serial execution in the order *)
(* of their commits has them read: the timestamps under every scheme, and  *)
(* the contents where updates are made in place or pointers exchanged.     *)
(***************************************************************************)
Before(c, S) == {d \in committed : d.order < c.order /\ d \in S}

Latest(S) == CHOOSE d \in S : \A e \in S : e.order <= d.order

StampBefore(c, r) ==
  LET S == Before(c, {d \in committed : \E w \in d.wrote : w[1] = r})
  IN  IF S = {} THEN 0 ELSE (CHOOSE w \in Latest(S).wrote : w[1] = r)[2]

ContentBefore(c, r) ==
  LET S == Before(c, {d \in committed : r \in d.updates})
  IN  IF S = {} THEN Loader ELSE Latest(S).by

Updated(r) == scheme \in {"LOCK", "DBX"} \/ (scheme = "LOCK_RTM" /\ r \in Hot)

ReadsInCommitOrder ==
  \A c \in committed : \A x \in c.saw :
    /\ x[2] = StampBefore(c, x[1])
    /\ Updated(x[1]) => x[3] = ContentBefore(c, x[1])
=============================================================================
