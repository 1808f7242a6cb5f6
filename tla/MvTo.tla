-------------------------------- MODULE MvTo --------------------------------
(***************************************************************************)
(* Multiversion timestamp ordering (-DMVTO): TxnManagerMvTo.tpp over       *)
(* MvToContent.h.                                                          *)
(*                                                                         *)
(* A transaction draws its timestamp at its first access.  A record keeps  *)
(* its committed versions (the write history), the timestamps that have    *)
(* read it (the read history), the writes that are announced and not yet   *)
(* committed, and the reads that wait for one of them.  A read sees the    *)
(* newest version below its timestamp; a write is refused when a later     *)
(* transaction has already read the version it would replace.  Read-only   *)
(* transactions read at the smallest timestamp the threads have left       *)
(* behind.                                                                 *)
(*                                                                         *)
(* One action is one critical section of MvToContent::spinlock_.  Steps    *)
(* that touch nothing shared are part of the action before them.           *)
(***************************************************************************)
EXTENDS Integers, FiniteSets, Sequences

CONSTANTS
  Thread,
  Indexed,    \* the records the tables hold at the start
  Fresh,      \* the records that InsertRecord may create
  MaxAccess,  \* kMaxAccessNum
  Batch,      \* the number of transactions in each thread's batch
  BatchTsNum, \* kBatchTsNum, or 1 without -DBATCH_TIMESTAMP
  MaxTs       \* bound: the timestamps drawn

Record == Indexed \cup Fresh

MvToConstants ==
  /\ IsFiniteSet(Thread) /\ Indexed \cap Fresh = {}
  /\ MaxAccess \in Nat /\ Batch \in Nat \ {0}
  /\ BatchTsNum \in Nat \ {0} /\ MaxTs \in Nat

VARIABLES
  visible,      \* SchemaRecord::is_visible_
  readReqs,     \* read_request_head_: entries [ts, thread]
  writeReqs,    \* write_request_head_: timestamps
  readHistory,  \* read_history_head_: timestamps
  writeHistory, \* write_history_head_: timestamps, each a version
  monotone,     \* GlobalTimestamp::monotone_timestamp_
  threadTs,     \* GlobalTimestamp::thread_timestamp_
  isFinish,     \* ConcurrentExecutor::is_finish_
  pc,           \* where each thread is
  left,         \* transactions left in the thread's batch
  stock,        \* batch_ts_: [curr, max]
  txn,          \* the running transaction, see NoTxn
  committed,    \* history: the committed transactions [ts, snapshot, saw, wrote]
  dropped       \* history: InsertReadHistory has lost an entry

content == <<readReqs, writeReqs, readHistory, writeHistory>>
rest    == <<monotone, threadTs, isFinish, left, stock>>
history == <<committed, dropped>>
vars    == <<visible, content, rest, pc, txn, history>>

-----------------------------------------------------------------------------
Unread == -1

\* saw is the timestamp of the version that a read returned.
NoTxn == [ts |-> Unread,     \* start_timestamp_, Unread if is_first_access_
          readOnly |-> FALSE, \* TxnContext::is_read_only_
          record |-> 0, type |-> "NO_ACCESS", \* arguments of SelectRecordCC
          saw |-> Unread,    \* tmp_data; is_ready once it differs from Unread
          accesses |-> <<>>, \* access_list_: entries [record, type, saw]
          finished |-> 0]    \* entries that are committed or aborted

Entries(t)  == {txn[t].accesses[i] : i \in DOMAIN txn[t].accesses}
Accessed(t) == {e.record : e \in Entries(t)}

MinOf(S) == CHOOSE x \in S : \A y \in S : x <= y
MaxOf(S) == CHOOSE x \in S : \A y \in S : x >= y

Init ==
  /\ visible = [r \in Record |-> TRUE]
  /\ readReqs = [r \in Record |-> {}] /\ writeReqs = [r \in Record |-> {}]
  /\ readHistory = [r \in Record |-> {}] /\ writeHistory = [r \in Record |-> {}]
  /\ monotone = 1 /\ isFinish = FALSE
  /\ threadTs = [t \in Thread |-> 0]
  /\ pc = [t \in Thread |-> "idle"]
  /\ left = [t \in Thread |-> Batch]
  /\ stock = [t \in Thread |-> [curr |-> 0, max |-> 0]]
  /\ txn = [t \in Thread |-> NoTxn]
  /\ committed = {} /\ dropped = FALSE

-----------------------------------------------------------------------------
(***************************************************************************)
(* The request lists and the histories of a record.                        *)
(***************************************************************************)

\* The version a reader finds: 0 is the content the populator has loaded.
Version(r, S) == IF S = {} THEN 0 ELSE MaxOf(S)

(***************************************************************************)
(* A read waits if the announced write that the scan of the list stops at  *)
(* -- the smallest -- precedes it and no committed version lies between.   *)
(***************************************************************************)
\* Mutant: the list of announced writes is not looked at.
IsReadConflictNever(r, ts) == FALSE

IsReadConflict(r, ts) ==
  /\ \E w \in writeReqs[r] : w < ts
  /\ LET wts == MinOf(writeReqs[r])
     IN  ~\E v \in writeHistory[r] : wts < v /\ v < ts

(***************************************************************************)
(* A write is refused if a later transaction has read the record and no    *)
(* committed version lies between the two.                                 *)
(***************************************************************************)
IsWriteConflict(r, ts) ==
  LET later == {x \in readHistory[r] : x > ts}
  IN  later # {} /\ ~\E v \in writeHistory[r] : ts < v /\ v < MinOf(later)

(***************************************************************************)
(* InsertReadHistory and InsertWriteHistory: an entry smaller than all of  *)
(* a list that is not empty becomes the whole list.                        *)
(***************************************************************************)
Loses(H, ts) == H # {} /\ \A x \in H : ts < x

InsertHistory(H, ts) == IF Loses(H, ts) THEN {ts} ELSE H \cup {ts}

(***************************************************************************)
(* UpdateBuffer of r, once its announced writes and its versions are what  *)
(* they become: the reads up to the smallest write left are answered, in   *)
(* ascending order.                                                        *)
(***************************************************************************)
Answered(r) ==
  {q \in readReqs[r] : \A w \in writeReqs'[r] : q.ts <= w}

UpdateBuffer(t, r) ==
  LET answered == Answered(r)
      stamps   == {q.ts : q \in answered}
      woken    == {q.thread : q \in answered}
  IN  /\ readReqs' = [readReqs EXCEPT ![r] = @ \ answered]
      /\ IF answered = {} THEN UNCHANGED <<readHistory, dropped>>
         ELSE /\ readHistory' = [readHistory EXCEPT ![r] =
                                   InsertHistory(@, MinOf(stamps)) \cup stamps]
              /\ dropped' = (dropped \/ Loses(readHistory[r], MinOf(stamps)))
      /\ txn' = [u \in Thread |->
           CASE u \in woken ->
                  [txn[u] EXCEPT !.saw =
                     Version(r, {v \in writeHistory'[r] : v < txn[u].ts})]
             [] u = t -> [txn[t] EXCEPT !.finished = @ + 1]
             [] OTHER -> txn[u]]

-----------------------------------------------------------------------------
(***************************************************************************)
(* The executor calls StoredProcedure::Execute, for the next transaction   *)
(* of its batch or again for the one that aborted.                         *)
(***************************************************************************)
Execute(t) ==
  /\ pc[t] = "idle"
  /\ \E readOnly \in BOOLEAN : txn' = [txn EXCEPT ![t].readOnly = readOnly]
  /\ pc' = [pc EXCEPT ![t] = "exec"]
  /\ UNCHANGED <<visible, content, rest, history>>

(***************************************************************************)
(* The timestamp of the first access, at .ts of the transaction.  A batch  *)
(* of BatchTsNum leaves its last timestamp unused, unless it has only one. *)
(***************************************************************************)
IsAvailable(t) == stock[t].curr < stock[t].max - 1

GetMinTimestamp == MinOf({threadTs[u] : u \in Thread})

StartTimestamp(t) ==
  CASE txn[t].ts # Unread -> txn[t].ts
    [] txn[t].ts = Unread /\ txn[t].readOnly -> GetMinTimestamp
    [] OTHER -> IF IsAvailable(t) THEN stock[t].curr ELSE monotone

DrawTimestamp(t) ==
  IF txn[t].ts # Unread \/ txn[t].readOnly THEN UNCHANGED <<monotone, stock>>
  ELSE IF IsAvailable(t)
  THEN /\ stock' = [stock EXCEPT ![t].curr = @ + 1]
       /\ UNCHANGED monotone
  ELSE /\ monotone <= MaxTs
       /\ stock' = [stock EXCEPT ![t] = [curr |-> monotone + 1,
                                         max  |-> monotone + BatchTsNum]]
       /\ monotone' = monotone + BatchTsNum

(***************************************************************************)
(* InsertRecord: the new record is in the table at once, invisible.  "We   *)
(* assume that concurrent txns will not read this insert record."          *)
(***************************************************************************)
InsertRecord(t, r) ==
  /\ pc[t] = "exec" /\ ~txn[t].readOnly
  /\ Len(txn[t].accesses) < MaxAccess
  /\ r \in Fresh /\ visible[r]
  /\ DrawTimestamp(t)
  /\ visible' = [visible EXCEPT ![r] = FALSE]
  /\ txn' = [txn EXCEPT ![t].ts = StartTimestamp(t),
               ![t].accesses = Append(@, [record |-> r, type |-> "INSERT_ONLY",
                                          saw |-> Unread])]
  /\ UNCHANGED <<content, threadTs, isFinish, left, pc, history>>

(***************************************************************************)
(* SelectRecordCC, up to its first call of MvToContent.  A procedure       *)
(* selects a record at most once.                                          *)
(***************************************************************************)
SelectRecordCC(t, r, type) ==
  /\ pc[t] = "exec" /\ Len(txn[t].accesses) < MaxAccess
  /\ r \in Indexed /\ r \notin Accessed(t)
  /\ txn[t].readOnly => type = "READ_ONLY"
  /\ DrawTimestamp(t)
  /\ txn' = [txn EXCEPT ![t].ts = StartTimestamp(t),
                        ![t].record = r, ![t].type = type]
  /\ pc' = [pc EXCEPT ![t] = IF type = "READ_WRITE" THEN "write" ELSE "read"]
  /\ UNCHANGED <<visible, content, threadTs, isFinish, left, history>>

(***************************************************************************)
(* RequestWriteAccess announces the write, or the transaction aborts.      *)
(***************************************************************************)
RequestWriteAccess(t) ==
  /\ pc[t] = "write"
  /\ LET r == txn[t].record
     IN  IF IsWriteConflict(r, txn[t].ts)
         THEN /\ pc' = [pc EXCEPT ![t] = "abort"]
              /\ UNCHANGED writeReqs
         ELSE /\ pc' = [pc EXCEPT ![t] = "read"]
              /\ writeReqs' = [writeReqs EXCEPT ![r] = @ \cup {txn[t].ts}]
  /\ UNCHANGED <<visible, readReqs, readHistory, writeHistory, rest, txn,
                 history>>

(***************************************************************************)
(* RequestReadAccess: the read waits, or gets the newest version at or     *)
(* below its timestamp.                                                    *)
(***************************************************************************)
Buffer(t, r) ==
  /\ readReqs' = [readReqs EXCEPT ![r] = @ \cup
                    {[ts |-> txn[t].ts, thread |-> t]}]
  /\ UNCHANGED <<readHistory, dropped, txn>>

ReadDirectly(t, r) ==
  /\ txn' = [txn EXCEPT ![t].saw =
               Version(r, {v \in writeHistory[r] : v <= txn[t].ts})]
  /\ readHistory' = [readHistory EXCEPT ![r] = InsertHistory(@, txn[t].ts)]
  /\ dropped' = (dropped \/ Loses(readHistory[r], txn[t].ts))
  /\ UNCHANGED readReqs

RequestReadAccess(t) ==
  /\ pc[t] = "read"
  /\ LET r == txn[t].record
     IN  IF IsReadConflict(r, txn[t].ts) THEN Buffer(t, r) ELSE ReadDirectly(t, r)
  /\ pc' = [pc EXCEPT ![t] = "wait"]
  /\ UNCHANGED <<visible, writeReqs, writeHistory, rest, committed>>

(***************************************************************************)
(* The thread leaves the spin loop on is_ready and enters the access.      *)
(***************************************************************************)
NewAccess(t) ==
  /\ pc[t] = "wait" /\ txn[t].saw # Unread
  /\ txn' = [txn EXCEPT ![t] =
       [@ EXCEPT !.accesses = Append(@, [record |-> txn[t].record,
                                         type |-> txn[t].type,
                                         saw |-> txn[t].saw]),
                 !.record = 0, !.type = "NO_ACCESS", !.saw = Unread]]
  /\ pc' = [pc EXCEPT ![t] = "exec"]
  /\ UNCHANGED <<visible, content, rest, history>>

-----------------------------------------------------------------------------
(***************************************************************************)
(* CommitTransaction cannot fail: from here on, the transaction counts.    *)
(* Every procedure accesses a record.                                      *)
(***************************************************************************)
CommitTransaction(t) ==
  /\ pc[t] = "exec" /\ txn[t].accesses # <<>>
  /\ pc' = [pc EXCEPT ![t] = "commit"]
  /\ committed' = committed \cup
       {[ts |-> txn[t].ts, snapshot |-> txn[t].readOnly,
         saw |-> {<<e.record, e.saw>> : e \in
                    {x \in Entries(t) : x.type # "INSERT_ONLY"}},
         wrote |-> {e.record : e \in
                      {x \in Entries(t) : x.type = "READ_WRITE"}}]}
  /\ UNCHANGED <<visible, content, rest, txn, dropped>>

Current(t) == txn[t].accesses[txn[t].finished + 1]

(***************************************************************************)
(* RequestCommit of the next READ_WRITE entry: DebufferWriteRequest,       *)
(* InsertWriteHistory, UpdateBuffer.                                       *)
(***************************************************************************)
RequestCommit(t) ==
  /\ pc[t] = "commit" /\ txn[t].finished < Len(txn[t].accesses)
  /\ Current(t).type = "READ_WRITE"
  /\ LET r == Current(t).record
     IN  /\ writeReqs' = [writeReqs EXCEPT ![r] = @ \ {txn[t].ts}]
         /\ writeHistory' = [writeHistory EXCEPT ![r] =
                               InsertHistory(@, txn[t].ts)]
         /\ UpdateBuffer(t, r)
  /\ UNCHANGED <<visible, rest, pc, committed>>

(***************************************************************************)
(* AbortTransaction withdraws the announced writes of the entries.         *)
(***************************************************************************)
\* Mutant: nobody looks at the reads that wait.
RequestAbortSilent(t) ==
  /\ pc[t] = "abort" /\ txn[t].finished < Len(txn[t].accesses)
  /\ Current(t).type = "READ_WRITE"
  /\ writeReqs' = [writeReqs EXCEPT ![Current(t).record] = @ \ {txn[t].ts}]
  /\ txn' = [txn EXCEPT ![t].finished = @ + 1]
  /\ UNCHANGED <<visible, readReqs, readHistory, writeHistory, rest, pc,
                 history>>

RequestAbort(t) ==
  /\ pc[t] = "abort" /\ txn[t].finished < Len(txn[t].accesses)
  /\ Current(t).type = "READ_WRITE"
  /\ LET r == Current(t).record
     IN  /\ writeReqs' = [writeReqs EXCEPT ![r] = @ \ {txn[t].ts}]
         /\ UNCHANGED writeHistory
         /\ UpdateBuffer(t, r)
  /\ UNCHANGED <<visible, rest, pc, committed>>

\* Entries that were only read or inserted are freed.
SkipEntry(t) ==
  /\ pc[t] \in {"commit", "abort"} /\ txn[t].finished < Len(txn[t].accesses)
  /\ Current(t).type # "READ_WRITE"
  /\ txn' = [txn EXCEPT ![t].finished = @ + 1]
  /\ UNCHANGED <<visible, content, rest, pc, history>>

(***************************************************************************)
(* The last lines of CommitTransaction and AbortTransaction: the thread    *)
(* leaves its timestamp behind, unless the transaction was read-only.      *)
(* Then the executor counts the transaction, or tries it again; it stops   *)
(* when another thread has finished.                                       *)
(***************************************************************************)
Done(t) == pc[t] \in {"commit", "abort"} /\ txn[t].finished = Len(txn[t].accesses)

ReturnCommitted(t) ==
  /\ Done(t) /\ pc[t] = "commit"
  /\ threadTs' = [threadTs EXCEPT ![t] =
                    IF txn[t].readOnly THEN @ ELSE txn[t].ts]
  /\ left' = [left EXCEPT ![t] = @ - 1]
  /\ isFinish' = (isFinish \/ left[t] = 1)
  /\ pc' = [pc EXCEPT ![t] = IF isFinish' THEN "done" ELSE "idle"]
  /\ txn' = [txn EXCEPT ![t] = NoTxn]
  /\ UNCHANGED <<visible, content, monotone, stock, history>>

ReturnAborted(t) ==
  /\ Done(t) /\ pc[t] = "abort"
  /\ threadTs' = [threadTs EXCEPT ![t] = txn[t].ts]
  /\ pc' = [pc EXCEPT ![t] = IF isFinish THEN "done" ELSE "idle"]
  /\ txn' = [txn EXCEPT ![t] = NoTxn]
  /\ UNCHANGED <<visible, content, monotone, isFinish, left, stock, history>>

-----------------------------------------------------------------------------
Step(t) ==
  \/ Execute(t)
  \/ \E r \in Record :
       \/ InsertRecord(t, r)
       \/ \E type \in {"READ_ONLY", "READ_WRITE"} : SelectRecordCC(t, r, type)
  \/ RequestWriteAccess(t) \/ RequestReadAccess(t) \/ NewAccess(t)
  \/ CommitTransaction(t) \/ RequestCommit(t) \/ RequestAbort(t)
  \/ SkipEntry(t) \/ ReturnCommitted(t) \/ ReturnAborted(t)

(***************************************************************************)
(* The batch run is over: ProcessQuery has joined its threads.  Or the     *)
(* bound MaxTs leaves the threads that remain without a timestamp.         *)
(***************************************************************************)
OutOfTimestamps(t) ==
  /\ pc[t] = "exec" /\ txn[t].ts = Unread
  /\ ~IsAvailable(t) /\ monotone > MaxTs

Joined ==
  /\ \A t \in Thread : pc[t] = "done" \/ OutOfTimestamps(t)
  /\ UNCHANGED vars

Next == (\E t \in Thread : Step(t)) \/ Joined

Spec == Init /\ [][Next]_vars

-----------------------------------------------------------------------------
Ts == 0..(MaxTs + BatchTsNum)

\* The types of the variables of MvTo.
TypeOK ==
  /\ visible \in [Record -> BOOLEAN]
  /\ readReqs \in [Record -> SUBSET [ts : Ts, thread : Thread]]
  /\ writeReqs \in [Record -> SUBSET Ts]
  /\ readHistory \in [Record -> SUBSET Ts]
  /\ writeHistory \in [Record -> SUBSET Ts]
  /\ monotone \in Ts /\ threadTs \in [Thread -> Ts] /\ isFinish \in BOOLEAN
  /\ pc \in [Thread -> {"idle", "exec", "write", "read", "wait", "commit",
                        "abort", "done"}]
  /\ left \in [Thread -> 0..Batch]
  /\ stock \in [Thread -> [curr : Ts, max : Ts]]
  /\ \A t \in Thread :
       /\ txn[t].ts \in Ts \cup {Unread} /\ txn[t].saw \in Ts \cup {Unread}
       /\ txn[t].finished \in 0..Len(txn[t].accesses)
  /\ dropped \in BOOLEAN

(***************************************************************************)
(* The announced writes of a record are those of the running transactions  *)
(* that have got through RequestWriteAccess there and not yet come to the  *)
(* record in CommitTransaction or AbortTransaction: no write request       *)
(* outlives its transaction, whatever it aborts for, and none is lost.     *)
(***************************************************************************)
Announcing(t, r) ==
  \/ txn[t].type = "READ_WRITE" /\ txn[t].record = r /\ pc[t] \in {"read", "wait"}
  \/ \E i \in DOMAIN txn[t].accesses :
       /\ i > txn[t].finished
       /\ txn[t].accesses[i].record = r /\ txn[t].accesses[i].type = "READ_WRITE"

WriteRequestsAgree ==
  \A r \in Record :
    writeReqs[r] = {txn[t].ts : t \in {u \in Thread : Announcing(u, r)}}

(***************************************************************************)
(* No lost wake-up: a read that waits has an announced write with a        *)
(* smaller timestamp in front of it, whose commit or abort will call       *)
(* UpdateBuffer.  As every wait is for a smaller timestamp, no cycle of    *)
(* waits can form.  A read-only transaction takes the smallest of the      *)
(* thread timestamps (GetMinTimestamp), and never waits.                   *)
(***************************************************************************)
WaitsForAnnounced ==
  \A r \in Record : \A q \in readReqs[r] :
    /\ \E w \in writeReqs[r] : w < q.ts
    /\ ~txn[q.thread].readOnly

(***************************************************************************)
(* Committed transactions read what the serial execution in the order of   *)
(* their timestamps has them read -- as long as InsertReadHistory has not  *)
(* lost an entry.  (It does, see mvto_lost; that is the only way in which  *)
(* this order breaks: IsReadConflict looks at the smallest announced write *)
(* where its comment asks for the nearest, and that alone does no harm.)   *)
(***************************************************************************)
Precedes(w, c) == w.ts < c.ts \/ (c.snapshot /\ w.ts = c.ts)

ReadsInTsOrder ==
  \A c \in committed : \A x \in c.saw :
    x[2] = Version(x[1], {w.ts : w \in {d \in committed :
                                         x[1] \in d.wrote /\ Precedes(d, c)}})

SerialUnlessDropped == ~dropped => ReadsInTsOrder

(***************************************************************************)
(* What IsWriteConflict is for ("find the smallest timestamp which is      *)
(* larger than the write timestamp"): no write is announced below a read   *)
(* that a running transaction has been answered with an older version.     *)
(***************************************************************************)
NoWriteBelowRead ==
  \A t \in Thread : \A e \in Entries(t) : e.type # "INSERT_ONLY" =>
    ~\E w \in writeReqs[e.record] : e.saw < w /\ w < txn[t].ts
=============================================================================
