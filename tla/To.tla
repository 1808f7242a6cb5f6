--------------------------------- MODULE To ---------------------------------
(***************************************************************************)
(* Timestamp ordering: Content/ToContent.h and                             *)
(* Database/Transaction/TxnManagerTo.tpp, run by the worker threads of     *)
(* Executor/ConcurrentExecutor.h.                                          *)
(*                                                                         *)
(* A transaction draws its timestamp at its first access, and all its      *)
(* accesses are to take effect in the order of timestamps.  An update      *)
(* announces a write, reads, and installs its local copy when the          *)
(* transaction commits; a read waits for the announced writes with smaller *)
(* timestamps; who comes too late aborts and draws a new timestamp.        *)
(*                                                                         *)
(* The operations of ToContent run under its spin lock and are one step    *)
(* each.  Its lists are kept sorted and used for their minimum, for the    *)
(* entries up to a timestamp and for the entry with a timestamp, so they   *)
(* are sets here.  The content of a record is the timestamp of the         *)
(* transaction that wrote it.                                              *)
(*                                                                         *)
(* AbortTransaction dereferences the missing local copy of an INSERT_ONLY  *)
(* entry (TxnManagerTo.tpp:132).  The procedures of the benchmarks select  *)
(* before they insert, so no abort meets one.                              *)
(***************************************************************************)
EXTENDS Integers, FiniteSets, Sequences

CONSTANTS
  Thread,
  Indexed,    \* the records the tables hold at the start
  Fresh,      \* the records that InsertRecord may create
  MaxAccess,  \* kMaxAccessNum
  Batch,      \* the number of transactions in each thread's batch
  MaxTs       \* bound: the start timestamps drawn

Record == Indexed \cup Fresh

ASSUME ToConstants ==
  /\ IsFiniteSet(Thread) /\ Indexed \cap Fresh = {}
  /\ MaxAccess \in Nat /\ Batch \in Nat \ {0} /\ MaxTs \in Nat

\* INT64_MAX: no request waits.
Infinity == MaxTs + 1

VARIABLES
  word,      \* ToContent::data_ptr_: the timestamp of its writer, or 0
  visible,   \* SchemaRecord::is_visible_
  readTs,    \* read_ts_
  writeTs,   \* write_ts_
  minRead,   \* min_read_ts_
  minWrite,  \* min_write_ts_
  reads,     \* read_requests_head_: the timestamps that wait
  writes,    \* write_requests_head_: the timestamps announced
  commits,   \* commit_requests_head_: the commits put off
  monotone,  \* GlobalTimestamp::monotone_timestamp_
  isFinish,  \* ConcurrentExecutor::is_finish_
  pc,        \* where each thread is
  left,      \* transactions left in the thread's batch
  startTs,   \* start_timestamp_, or 0 while is_first_access_
  request,   \* the arguments of the SelectRecordCC that runs
  local,     \* the local copy it reads into, or Unread
  ready,     \* its is_ready
  accesses,  \* access_list_: entries [record, type, seen]
  finished,  \* entries that are committed or aborted
  committed  \* history: the committed transactions [ts, saw, wrote]

content == <<word, visible, readTs, writeTs, minRead, minWrite, reads, writes,
             commits>>
txn     == <<startTs, request, accesses, finished>>
vars    == <<content, monotone, isFinish, pc, left, local, ready, txn,
             committed>>

-----------------------------------------------------------------------------
Unread    == -1
NoRequest == [record |-> 0, type |-> "NO_ACCESS"]

Entries(t)  == {accesses[t][i] : i \in DOMAIN accesses[t]}
Accessed(t) == {e.record : e \in Entries(t)}

Init ==
  /\ word = [r \in Record |-> 0]
  /\ visible = [r \in Record |-> r \in Indexed]
  /\ readTs = [r \in Record |-> 0]
  /\ writeTs = [r \in Record |-> 0]
  /\ minRead = [r \in Record |-> Infinity]
  /\ minWrite = [r \in Record |-> Infinity]
  /\ reads = [r \in Record |-> {}]
  /\ writes = [r \in Record |-> {}]
  /\ commits = [r \in Record |-> {}]
  /\ monotone = 1 /\ isFinish = FALSE
  /\ pc = [t \in Thread |-> "idle"]
  /\ left = [t \in Thread |-> Batch]
  /\ startTs = [t \in Thread |-> 0]
  /\ request = [t \in Thread |-> NoRequest]
  /\ local = [t \in Thread |-> Unread]
  /\ ready = [t \in Thread |-> FALSE]
  /\ accesses = [t \in Thread |-> <<>>]
  /\ finished = [t \in Thread |-> 0]
  /\ committed = {}

-----------------------------------------------------------------------------
(***************************************************************************)
(* The executor calls StoredProcedure::Execute, for the next transaction   *)
(* of its batch or again for the one that aborted.                         *)
(***************************************************************************)
Execute(t) ==
  /\ pc[t] = "idle" /\ monotone <= MaxTs
  /\ pc' = [pc EXCEPT ![t] = "exec"]
  /\ UNCHANGED <<content, monotone, isFinish, left, local, ready, txn,
                 committed>>

DrawStartTimestamp(t) ==
  IF startTs[t] = 0
  THEN /\ monotone <= MaxTs
       /\ startTs' = [startTs EXCEPT ![t] = monotone]
       /\ monotone' = monotone + 1
  ELSE UNCHANGED <<startTs, monotone>>

(***************************************************************************)
(* InsertRecord takes part in no ordering: no index knows the record.      *)
(***************************************************************************)
InsertRecord(t, r) ==
  /\ pc[t] = "exec" /\ Len(accesses[t]) < MaxAccess
  /\ r \in Fresh /\ ~visible[r]
  /\ DrawStartTimestamp(t)
  /\ visible' = [visible EXCEPT ![r] = TRUE]
  /\ accesses' = [accesses EXCEPT ![t] = Append(@,
       [record |-> r, type |-> "INSERT_ONLY", seen |-> Unread])]
  /\ UNCHANGED <<word, readTs, writeTs, minRead, minWrite, reads, writes,
                 commits, isFinish, pc, left, request, local, ready, finished,
                 committed>>

(***************************************************************************)
(* SelectRecordCC, up to its first call of ToContent.  A procedure selects *)
(* a record at most once, and before it inserts.                           *)
(***************************************************************************)
SelectRecordCC(t, r, type) ==
  /\ pc[t] = "exec" /\ Len(accesses[t]) < MaxAccess
  /\ r \in Indexed /\ r \notin Accessed(t)
  /\ \A e \in Entries(t) : e.type # "INSERT_ONLY"
  /\ DrawStartTimestamp(t)
  /\ request' = [request EXCEPT ![t] = [record |-> r, type |-> type]]
  /\ ready' = [ready EXCEPT ![t] = FALSE]
  /\ pc' = [pc EXCEPT ![t] = IF type = "READ_WRITE" THEN "write" ELSE "read"]
  /\ UNCHANGED <<content, isFinish, left, local, accesses, finished,
                 committed>>

(***************************************************************************)
(* RequestWriteAccess: the write is announced, unless a later transaction  *)
(* has read the record.                                                    *)
(***************************************************************************)
BufferWriteRequest(t, r) ==
  /\ writes' = [writes EXCEPT ![r] = @ \cup {startTs[t]}]
  /\ minWrite' = [minWrite EXCEPT ![r] = IF startTs[t] < @ THEN startTs[t]
                                                           ELSE @]

RequestWriteAccess(t) ==
  /\ pc[t] = "write"
  /\ LET r == request[t].record
     IN  IF startTs[t] < readTs[r]
         THEN /\ pc' = [pc EXCEPT ![t] = "undo"]
              /\ UNCHANGED <<writes, minWrite>>
         ELSE /\ pc' = [pc EXCEPT ![t] = "read"]
              /\ BufferWriteRequest(t, r)
  /\ UNCHANGED <<word, visible, readTs, writeTs, minRead, reads, commits,
                 monotone, isFinish, left, local, ready, txn, committed>>

(***************************************************************************)
(* RequestReadAccess: too late after a later write was installed; waiting  *)
(* while an earlier one is announced; else the record is copied.           *)
(***************************************************************************)
\* Mutant: the reader's timestamp is not recorded.
ReadDirectlyUnmarked(t, r) ==
  /\ local' = [local EXCEPT ![t] = word[r]]
  /\ ready' = [ready EXCEPT ![t] = TRUE]
  /\ UNCHANGED <<readTs, reads, minRead>>

ReadDirectly(t, r) ==
  /\ local' = [local EXCEPT ![t] = word[r]]
  /\ readTs' = [readTs EXCEPT ![r] = IF @ < startTs[t] THEN startTs[t] ELSE @]
  /\ ready' = [ready EXCEPT ![t] = TRUE]
  /\ UNCHANGED <<reads, minRead>>

BufferReadRequest(t, r) ==
  /\ reads' = [reads EXCEPT ![r] = @ \cup {startTs[t]}]
  /\ minRead' = [minRead EXCEPT ![r] = IF startTs[t] < @ THEN startTs[t] ELSE @]
  /\ UNCHANGED <<local, readTs, ready>>

\* Mutant: no read comes too late.
TooLateNever(t, r) == FALSE

TooLate(t, r) == startTs[t] < writeTs[r]

RequestReadAccess(t) ==
  /\ pc[t] = "read"
  /\ LET r == request[t].record
     IN  IF TooLate(t, r)
         THEN /\ pc' = [pc EXCEPT ![t] = "undo"]
              /\ UNCHANGED <<local, ready, readTs, reads, minRead>>
         ELSE /\ pc' = [pc EXCEPT ![t] = "wait"]
              /\ IF startTs[t] > minWrite[r] THEN BufferReadRequest(t, r)
                                             ELSE ReadDirectly(t, r)
  /\ UNCHANGED <<word, visible, writeTs, minWrite, writes, commits, monotone,
                 isFinish, left, txn, committed>>

(***************************************************************************)
(* The thread leaves the spin loop on is_ready and enters the access.      *)
(***************************************************************************)
NewAccess(t) ==
  /\ pc[t] = "wait" /\ ready[t]
  /\ accesses' = [accesses EXCEPT ![t] = Append(@,
       [record |-> request[t].record, type |-> request[t].type,
        seen |-> local[t]])]
  /\ request' = [request EXCEPT ![t] = NoRequest]
  /\ local' = [local EXCEPT ![t] = Unread]
  /\ ready' = [ready EXCEPT ![t] = FALSE]
  /\ pc' = [pc EXCEPT ![t] = "exec"]
  /\ UNCHANGED <<content, monotone, isFinish, left, startTs, finished,
                 committed>>

-----------------------------------------------------------------------------
(***************************************************************************)
(* DebufferWriteRequest and UpdateBuffer, after the entry of t has left    *)
(* the announced writes of r: if it was the smallest, the reads up to the  *)
(* next one get a copy of the record.  (The code then looks for commits    *)
(* that waited for these reads; there are none, see NoCommitBuffered.)     *)
(***************************************************************************)
MinTimestamp(S) ==
  IF S = {} THEN Infinity ELSE CHOOSE x \in S : \A y \in S : x <= y

\* Mutant: the write leaves the queue and nobody looks at the reads.
UpdateBufferMinimum(t, r) ==
  /\ writes' = [writes EXCEPT ![r] = @ \ {startTs[t]}]
  /\ minWrite' = [minWrite EXCEPT ![r] = MinTimestamp(writes[r] \ {startTs[t]})]
  /\ UNCHANGED <<reads, readTs, minRead, local, ready>>

UpdateBuffer(t, r) ==
  LET rest    == writes[r] \ {startTs[t]}
      newMin  == MinTimestamp(rest)
      granted == IF newMin = minWrite[r] THEN {}
                 ELSE {x \in reads[r] : x <= newMin}
      last    == CHOOSE x \in granted : \A y \in granted : y <= x
      woken   == {u \in Thread : pc[u] = "wait" /\ ~ready[u]
                    /\ request[u].record = r /\ startTs[u] \in granted}
  IN  /\ writes' = [writes EXCEPT ![r] = rest]
      /\ minWrite' = [minWrite EXCEPT ![r] = newMin]
      /\ reads' = [reads EXCEPT ![r] = @ \ granted]
      /\ IF granted = {} THEN UNCHANGED <<readTs, minRead>>
         ELSE /\ readTs' = [readTs EXCEPT ![r] = IF @ < last THEN last ELSE @]
              /\ minRead' = [minRead EXCEPT ![r] =
                               MinTimestamp(reads[r] \ granted)]
      /\ local' = [u \in Thread |-> IF u \in woken THEN word'[r] ELSE local[u]]
      /\ ready' = [u \in Thread |-> ready[u] \/ u \in woken]

Current(t) == accesses[t][finished[t] + 1]

(***************************************************************************)
(* CommitTransaction cannot fail: from here on, the transaction counts.    *)
(***************************************************************************)
CommitTransaction(t) ==
  /\ pc[t] = "exec"
  /\ pc' = [pc EXCEPT ![t] = "commit"]
  /\ committed' = committed \cup
       {[ts    |-> startTs[t],
         saw   |-> {<<e.record, e.seen>> : e \in
                      {x \in Entries(t) : x.type # "INSERT_ONLY"}},
         wrote |-> {e.record : e \in
                      {x \in Entries(t) : x.type = "READ_WRITE"}}]}
  /\ UNCHANGED <<content, monotone, isFinish, left, local, ready, txn>>

(***************************************************************************)
(* RequestCommit: the write is dropped if a later one is installed, put    *)
(* off if a read with a smaller timestamp waits, and installed otherwise.  *)
(***************************************************************************)
BufferCommitRequest(t, r) ==
  /\ commits' = [commits EXCEPT ![r] = @ \cup {startTs[t]}]
  /\ UNCHANGED <<word, readTs, writeTs, minRead, minWrite, reads, writes, local,
                 ready>>

Install(t, r) ==
  /\ word' = [word EXCEPT ![r] = startTs[t]]
  /\ writeTs' = [writeTs EXCEPT ![r] = startTs[t]]
  /\ UpdateBuffer(t, r)
  /\ UNCHANGED commits

Drop(t, r) ==
  /\ UNCHANGED <<word, writeTs, commits>>
  /\ UpdateBuffer(t, r)

RequestCommit(t) ==
  /\ pc[t] = "commit" /\ finished[t] < Len(accesses[t])
  /\ LET r == Current(t).record
     IN  IF Current(t).type # "READ_WRITE"
         THEN UNCHANGED <<content, local, ready>>
         ELSE /\ UNCHANGED visible
              /\ IF startTs[t] < writeTs[r] THEN Drop(t, r)
                 ELSE IF startTs[t] > minRead[r] THEN BufferCommitRequest(t, r)
                 ELSE Install(t, r)
  /\ finished' = [finished EXCEPT ![t] = @ + 1]
  /\ UNCHANGED <<monotone, isFinish, pc, left, startTs, request, accesses,
                 committed>>

(***************************************************************************)
(* AbortTransaction withdraws the writes that are in the access list.      *)
(***************************************************************************)
RequestAbort(t) ==
  /\ pc[t] = "undo" /\ finished[t] < Len(accesses[t])
  /\ IF Current(t).type = "READ_WRITE"
     THEN Drop(t, Current(t).record) /\ UNCHANGED visible
     ELSE UNCHANGED <<content, local, ready>>
  /\ finished' = [finished EXCEPT ![t] = @ + 1]
  /\ UNCHANGED <<monotone, isFinish, pc, left, startTs, request, accesses,
                 committed>>

ClearAccess(t) ==
  /\ accesses' = [accesses EXCEPT ![t] = <<>>]
  /\ finished' = [finished EXCEPT ![t] = 0]
  /\ request' = [request EXCEPT ![t] = NoRequest]
  /\ startTs' = [startTs EXCEPT ![t] = 0]

\* Mutant: the batch ends one transaction too late.
LastOfBatchPassed(t) == left[t] = 0

LastOfBatch(t) == left[t] = 1

(***************************************************************************)
(* CommitTransaction returns, and the executor counts the transaction...   *)
(***************************************************************************)
ReturnCommitted(t) ==
  /\ pc[t] = "commit" /\ finished[t] = Len(accesses[t])
  /\ left' = [left EXCEPT ![t] = @ - 1]
  /\ pc' = [pc EXCEPT ![t] = IF isFinish \/ LastOfBatch(t) THEN "done"
                                                           ELSE "idle"]
  /\ isFinish' = (isFinish \/ LastOfBatch(t))
  /\ ClearAccess(t)
  /\ UNCHANGED <<content, monotone, local, ready, committed>>

(***************************************************************************)
(* ... or SelectRecordCC has aborted it, and it is tried again under a new *)
(* timestamp, unless another thread has finished.                          *)
(***************************************************************************)
ReturnAborted(t) ==
  /\ pc[t] = "undo" /\ finished[t] = Len(accesses[t])
  /\ pc' = [pc EXCEPT ![t] = IF isFinish THEN "done" ELSE "idle"]
  /\ ClearAccess(t)
  /\ UNCHANGED <<content, monotone, isFinish, left, local, ready, committed>>

Stopped(t) == pc[t] = "done" \/ (pc[t] = "idle" /\ monotone > MaxTs)

(***************************************************************************)
(* The batch run is over, or MaxTs is reached.                             *)
(***************************************************************************)
Joined == (\A t \in Thread : Stopped(t)) /\ UNCHANGED vars

Select(t) ==
  \/ \E r \in Record :
       \/ InsertRecord(t, r)
       \/ \E type \in {"READ_ONLY", "READ_WRITE"} : SelectRecordCC(t, r, type)
  \/ RequestWriteAccess(t) \/ RequestReadAccess(t) \/ NewAccess(t)

Step(t) ==
  \/ Execute(t) \/ Select(t)
  \/ CommitTransaction(t) \/ RequestCommit(t) \/ RequestAbort(t)
  \/ ReturnCommitted(t) \/ ReturnAborted(t)

Next == (\E t \in Thread : Step(t)) \/ Joined

Spec == Init /\ [][Next]_vars

-----------------------------------------------------------------------------
Ts == 0..MaxTs

\* The types of the variables of To.
TypeOK ==
  /\ word \in [Record -> Ts] /\ visible \in [Record -> BOOLEAN]
  /\ readTs \in [Record -> Ts] /\ writeTs \in [Record -> Ts]
  /\ minRead \in [Record -> 1..Infinity] /\ minWrite \in [Record -> 1..Infinity]
  /\ reads \in [Record -> SUBSET Ts] /\ writes \in [Record -> SUBSET Ts]
  /\ commits \in [Record -> SUBSET Ts]
  /\ monotone \in 1..Infinity /\ isFinish \in BOOLEAN
  /\ pc \in [Thread -> {"idle", "exec", "write", "read", "wait", "commit",
                        "undo", "done"}]
  /\ left \in [Thread -> 0..Batch]
  /\ startTs \in [Thread -> Ts]
  /\ local \in [Thread -> Ts \cup {Unread}] /\ ready \in [Thread -> BOOLEAN]
  /\ finished \in [Thread -> 0..MaxAccess]

(***************************************************************************)
(* No commit is ever put off (ToContent.h:80): the entry would point to a  *)
(* variable of the committing function and to no data, and UpdateBuffer    *)
(* would use it after deleting it (ToContent.h:338-365).  It never is,     *)
(* because a transaction reads every record it writes: since then no       *)
(* earlier write can be announced, so no earlier read waits.               *)
(***************************************************************************)
NoCommitBuffered == \A r \in Record : commits[r] = {}

(***************************************************************************)
(* The announced writes are those of the running transactions, so an abort *)
(* between the announcement of a write and its read                        *)
(* (TxnManagerTo.tpp:72-79) leaves none behind; the minima that decide who *)
(* waits are those of the queues; and a read waits only for an earlier     *)
(* write that is still announced.                                          *)
(***************************************************************************)
Announces(t, r) ==
  \/ /\ pc[t] \in {"read", "wait"}
     /\ request[t] = [record |-> r, type |-> "READ_WRITE"]
  \/ \E i \in DOMAIN accesses[t] :
       /\ accesses[t][i].record = r /\ accesses[t][i].type = "READ_WRITE"
       /\ pc[t] \in {"commit", "undo"} => i > finished[t]

QueuesAgree ==
  \A r \in Record :
    /\ writes[r] = {startTs[t] : t \in {u \in Thread : Announces(u, r)}}
    /\ reads[r] = {startTs[t] : t \in {u \in Thread :
                     pc[u] = "wait" /\ ~ready[u] /\ request[u].record = r}}
    /\ minWrite[r] = MinTimestamp(writes[r])
    /\ minRead[r] = MinTimestamp(reads[r])
    /\ \A x \in reads[r] : minWrite[r] < x

(***************************************************************************)
(* Start timestamps are the serial order: what a committed transaction has *)
(* read was written by the last committed writer before it, however late   *)
(* either of them came; so nobody has read what was never committed.       *)
(***************************************************************************)
ReadsInTsOrder ==
  \A a \in committed : \A s \in a.saw :
    /\ s[2] < a.ts
    /\ s[2] = 0 \/ \E b \in committed : b.ts = s[2] /\ s[1] \in b.wrote
    /\ \A b \in committed :
         s[1] \in b.wrote => ~(s[2] < b.ts /\ b.ts < a.ts)
=============================================================================
