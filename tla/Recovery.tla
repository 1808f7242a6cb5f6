------------------------------ MODULE Recovery ------------------------------
(***************************************************************************)
(* The log of committed transactions and its replay: Logger/BaseLogger.h,  *)
(* ValueLogger.h, CommandLogger.h and ThreadLogBuffer.h; Replayer/         *)
(* BaseCommandReplayer.h, SerialCommandReplayer.h and ValueReplayer.h.     *)
(*                                                                         *)
(* Every thread has a buffer and a file of its own.  The first commit in a *)
(* new epoch writes the buffer of the epoch before to the file, under that *)
(* epoch, and waits for the disk; a thread that ends its batch writes what *)
(* is left under the punctuation -1.  The process may die at any step, by  *)
(* a failed assertion of the logger too.  What reaches the disk of a chunk *)
(* whose fsync has not returned is all of it, nothing, or a part.  Then    *)
(* the files are read into a freshly populated store: the value log by all *)
(* threads at once, the command log merged by timestamp and run serially.  *)
(*                                                                         *)
(* The concurrency control appears as far as the log depends on it: a      *)
(* transaction locks its records, reads the epoch, draws its timestamp,    *)
(* installs, logs and releases.  No procedure is ad hoc (is_adhoc_ is      *)
(* never set), and the replay of insertions and deletions is commented     *)
(* out, so the transactions read and update.                               *)
(*                                                                         *)
(* A thread that logs for the first time is to find last_epoch_, which is  *)
(* unsigned, at -1.  It asks by std::cmp_equal, which compares the values  *)
(* and never finds them equal; the test that is left in a comment, ==,     *)
(* does.  The model has both.                                              *)
(*                                                                         *)
(* The value log takes the local copy of a record that was updated.  That  *)
(* is what is installed under OCC and SILO, which update the copy, but     *)
(* what was there before under LOCK and LOCK_WAIT, which update in place   *)
(* and keep the copy for the undoing.  The model has both.                 *)
(***************************************************************************)
EXTENDS Integers, FiniteSets, SequencesExt

CONSTANTS
  LogType,   \* {"VALUE"} for -DVALUE_LOGGING, {"COMMAND"} for -DCOMMAND_LOGGING
  FirstTest, \* {"cmp_equal"}, or {"=="} for the test in the comment
  ReadLocks, \* records read are locked (OCC, LOCK, LOCK_WAIT), or not (SILO)
  Images,    \* local_record_ at the commit: {"after"}, the new content (OCC,
             \* SILO), or {"before"}, the old one (LOCK, LOCK_WAIT)
  ThreadNum, \* thread_count_
  Record,
  Procedures, \* what the procedures read and update: [reads, writes]
  Batch,     \* the number of transactions in each thread's batch
  TsSpan,    \* 2^32, the span of the low half of a timestamp
  MaxEpoch   \* bound: the epoch thread stops here

Thread == 0..(ThreadNum - 1)

ASSUME RecoveryConstants ==
  /\ LogType \subseteq {"VALUE", "COMMAND"}
  /\ FirstTest \subseteq {"cmp_equal", "=="} /\ ReadLocks \in BOOLEAN
  /\ Images \subseteq {"after", "before"} /\ ("before" \in Images => ReadLocks)
  /\ ThreadNum \in Nat \ {0} /\ Record \subseteq Nat /\ IsFiniteSet(Record)
  /\ \A p \in Procedures : p.writes \subseteq p.reads /\ p.reads \subseteq Record
  /\ Batch \in Nat \ {0} /\ TsSpan \in Nat \ {0} /\ MaxEpoch \in Nat \ {0}

VARIABLES
  logType,   \* the option the program was built with
  test,      \* how the logger finds a first commit
  image,     \* what local_record_ holds when it is logged
  phase,     \* "run", "replay" or "failed"; replay ends when todo is empty
  exited,    \* the program has ended by itself, not by a crash
  epoch,     \* Epoch::curr_epoch_
  monotone,  \* GlobalTimestamp::monotone_timestamp_
  store,     \* store[r]: the timestamp of the transaction that wrote r, or 0
  txn,       \* the running transaction of each thread, see NoTxn
  left,      \* transactions left in the thread's batch, or Closed
  buffer,    \* buffer_ptr_ up to buffer_offset_: the timestamps logged
  lastEpoch, \* last_epoch_
  pending,   \* the chunk that is written and not yet synced, or <<>>
  file,      \* outfiles_[t]: chunks [epoch, entries, whole]
  commits,   \* history: the committed transactions, in the order of install
  todo,      \* the replay of each thread: the batches that are left of it
  recovered, \* the store that is replayed into
  stamp,     \* the timestamps of its records, by which values are replayed
  diverged   \* history: a replayed procedure saw other versions than before

log    == <<buffer, lastEpoch, pending, file>>
replay == <<todo, recovered, stamp, diverged>>
built  == <<logType, test, image>>
vars   == <<built, phase, exited, epoch, monotone, store, txn, left, log,
            commits, replay>>

-----------------------------------------------------------------------------
CleanedUp == -1  \* the punctuation of CleanUp, and last_epoch_ at first
Closed    == -1  \* CleanUp has returned

\* saw[r] is the version of r that the transaction has read.
NoTxn == [pc |-> "idle", saw |-> <<>>, writes |-> {}, epoch |-> 0, ts |-> 0]

\* (epoch << 32) | (counter & 0xffffffff)
CommitTs(e, counter) == (e * TsSpan) + (counter % TsSpan)

Commit(x) == CHOOSE c \in ToSet(commits) : c.ts = x

Init ==
  /\ logType \in LogType /\ test \in FirstTest /\ image \in Images
  /\ phase = "run" /\ exited = FALSE
  /\ epoch = 1 /\ monotone = 1
  /\ store = [r \in Record |-> 0]
  /\ txn = [t \in Thread |-> NoTxn]
  /\ left = [t \in Thread |-> Batch]
  /\ buffer = [t \in Thread |-> <<>>]
  /\ lastEpoch = [t \in Thread |-> CleanedUp]
  /\ pending = [t \in Thread |-> <<>>]
  /\ file = [t \in Thread |-> <<>>]
  /\ commits = <<>>
  /\ todo = [t \in Thread |-> <<>>]
  /\ recovered = [r \in Record |-> 0]
  /\ stamp = [r \in Record |-> 0]
  /\ diverged = FALSE

-----------------------------------------------------------------------------
(***************************************************************************)
(* CommitTransaction has its locks and reads the epoch, and its reads are  *)
(* valid: a serial execution may place it here.                            *)
(***************************************************************************)
Unlocked(t, p) ==
  \A u \in Thread \ {t} :
    /\ p.reads \cap txn[u].writes = {}
    /\ ReadLocks => p.writes \cap DOMAIN txn[u].saw = {}

GetEpoch(t, p) ==
  /\ phase = "run" /\ txn[t].pc = "idle" /\ left[t] > 0
  /\ Unlocked(t, p)
  /\ txn' = [txn EXCEPT ![t] =
       [pc |-> "install", saw |-> [r \in p.reads |-> store[r]],
        writes |-> p.writes, epoch |-> epoch, ts |-> 0]]
  /\ UNCHANGED <<built, phase, exited, epoch, monotone, store, left, log,
                 commits, replay>>

(***************************************************************************)
(* It draws the counter and installs its updates.                          *)
(***************************************************************************)
\* Mutant: the counter is loaded, not incremented.
InstallLoad(t) ==
  /\ phase = "run" /\ txn[t].pc = "install"
  /\ LET ts == CommitTs(txn[t].epoch, monotone)
     IN  /\ txn' = [txn EXCEPT ![t].pc = "log", ![t].ts = ts]
         /\ store' = [r \in Record |-> IF r \in txn[t].writes THEN ts
                                                              ELSE store[r]]
         /\ commits' = Append(commits,
              [ts |-> ts, thread |-> t, epoch |-> txn[t].epoch,
               saw |-> txn[t].saw, wrote |-> txn[t].writes])
  /\ UNCHANGED <<built, phase, exited, epoch, monotone, left, log, replay>>

Install(t) ==
  /\ phase = "run" /\ txn[t].pc = "install"
  /\ LET ts == CommitTs(txn[t].epoch, monotone)
     IN  /\ txn' = [txn EXCEPT ![t].pc = "log", ![t].ts = ts]
         /\ store' = [r \in Record |-> IF r \in txn[t].writes THEN ts
                                                              ELSE store[r]]
         /\ commits' = Append(commits,
              [ts |-> ts, thread |-> t, epoch |-> txn[t].epoch,
               saw |-> txn[t].saw, wrote |-> txn[t].writes])
  /\ monotone' = monotone + 1
  /\ UNCHANGED <<built, phase, exited, epoch, left, log, replay>>

(***************************************************************************)
(* Logger::CommitTransaction: the first commit of the thread and one of    *)
(* the epoch of the last go to the buffer...                               *)
(***************************************************************************)
Finished == \E u \in Thread : left[u] <= 0  \* is_finish_

LogAndRelease(t) ==
  /\ txn' = [txn EXCEPT ![t] = NoTxn]
  /\ left' = [left EXCEPT ![t] = IF Finished THEN 0 ELSE @ - 1]

IsFirst(t)   == test = "==" /\ lastEpoch[t] = CleanedUp
SameEpoch(t) == IsFirst(t) \/ lastEpoch[t] = txn[t].epoch

AppendEntry(t) ==
  /\ phase = "run" /\ txn[t].pc = "log" /\ SameEpoch(t)
  /\ buffer' = [buffer EXCEPT ![t] = Append(@, txn[t].ts)]
  /\ lastEpoch' = [lastEpoch EXCEPT ![t] = txn[t].epoch]
  /\ LogAndRelease(t)
  /\ UNCHANGED <<built, phase, exited, epoch, monotone, store, pending, file,
                 commits, replay>>

(***************************************************************************)
(* ... one of the next epoch first writes the buffer of the last, and one  *)
(* of a later epoch finds the assertion of the logger false (see Crash),   *)
(* as the first one does under cmp_equal.                                  *)
(***************************************************************************)
Chunk(e, entries) == [epoch |-> e, entries |-> entries, whole |-> TRUE]

NextEpoch(t) == ~SameEpoch(t) /\ txn[t].epoch = lastEpoch[t] + 1

WriteChunk(t) ==
  /\ phase = "run" /\ txn[t].pc = "log" /\ NextEpoch(t)
  /\ pending' = [pending EXCEPT ![t] = <<Chunk(lastEpoch[t], buffer[t])>>]
  /\ lastEpoch' = [lastEpoch EXCEPT ![t] = txn[t].epoch]
  /\ buffer' = [buffer EXCEPT ![t] = <<>>]
  /\ txn' = [txn EXCEPT ![t].pc = "sync"]
  /\ UNCHANGED <<built, phase, exited, epoch, monotone, store, left, file,
                 commits, replay>>

\* Mutant: the entry is copied into the buffer that is then emptied.
SyncLost(t) ==
  /\ phase = "run" /\ txn[t].pc = "sync"
  /\ file' = [file EXCEPT ![t] = @ \o pending[t]]
  /\ pending' = [pending EXCEPT ![t] = <<>>]
  /\ LogAndRelease(t)
  /\ UNCHANGED <<built, phase, exited, epoch, monotone, store, buffer,
                 lastEpoch, commits, replay>>

Sync(t) ==
  /\ phase = "run" /\ txn[t].pc = "sync"
  /\ file' = [file EXCEPT ![t] = @ \o pending[t]]
  /\ pending' = [pending EXCEPT ![t] = <<>>]
  /\ buffer' = [buffer EXCEPT ![t] = Append(@, txn[t].ts)]
  /\ LogAndRelease(t)
  /\ UNCHANGED <<built, phase, exited, epoch, monotone, store, lastEpoch,
                 commits, replay>>

(***************************************************************************)
(* BaseLogger::CleanUp, when the thread has ended its batch or finds that  *)
(* another one has.                                                        *)
(***************************************************************************)
CleanUp(t) ==
  /\ phase = "run" /\ txn[t].pc = "idle" /\ left[t] # Closed
  /\ Finished
  /\ pending' = [pending EXCEPT ![t] = <<Chunk(CleanedUp, buffer[t])>>]
  /\ txn' = [txn EXCEPT ![t].pc = "cleanup"]
  /\ UNCHANGED <<built, phase, exited, epoch, monotone, store, left, buffer,
                 lastEpoch, file, commits, replay>>

SyncCleanUp(t) ==
  /\ phase = "run" /\ txn[t].pc = "cleanup"
  /\ file' = [file EXCEPT ![t] = @ \o pending[t]]
  /\ pending' = [pending EXCEPT ![t] = <<>>]
  /\ txn' = [txn EXCEPT ![t] = NoTxn]
  /\ left' = [left EXCEPT ![t] = Closed]
  /\ UNCHANGED <<built, phase, exited, epoch, monotone, store, buffer,
                 lastEpoch, commits, replay>>

AdvanceEpoch ==
  /\ phase = "run" /\ epoch < MaxEpoch
  /\ epoch' = epoch + 1
  /\ UNCHANGED <<built, phase, exited, monotone, store, txn, left, log,
                 commits, replay>>

-----------------------------------------------------------------------------
(***************************************************************************)
(* The replayers, from the files f.  ReloadLog of the value log strings    *)
(* the entries of all chunks together.  That of the command log adds the   *)
(* chunk of CleanUp to the batch before, and fails if there is none.  Both *)
(* assert that no chunk is cut short.                                      *)
(***************************************************************************)
Reloads(f) ==
  /\ \A i \in DOMAIN f : f[i].whole
  /\ logType = "COMMAND" => f = <<>> \/ f[1].epoch # CleanedUp

Entries(f) == FlattenSeq([i \in DOMAIN f |-> f[i].entries])

BatchCount(f) == Cardinality({i \in DOMAIN f : f[i].epoch # CleanedUp})

BatchOf(f, k) ==
  f[k].entries \o
  (IF k = BatchCount(f) /\ k < Len(f) THEN f[k + 1].entries ELSE <<>>)

(***************************************************************************)
(* ReorderLog: as many batches as thread 0 has, each asserted to be of the *)
(* same epoch for all threads (at() throws if a thread has fewer), and     *)
(* merged by timestamp.  The entries of a thread ascend, so the next one   *)
(* of the merge is the smallest that is left.                              *)
(***************************************************************************)
\* Mutant: the epochs of the other threads are not looked at.
ReordersAnyway(files) ==
  \A t \in Thread : BatchCount(files[0]) <= BatchCount(files[t])

Reorders(files) ==
  \A k \in 1..BatchCount(files[0]) : \A t \in Thread :
    /\ k <= BatchCount(files[t])
    /\ files[t][k].epoch = files[0][k].epoch

\* Mutant: the entries of a batch are taken thread by thread.
MinEntryByThread(batch) ==
  LET first == Min({Commit(x).thread : x \in batch})
  IN  Min({x \in batch : Commit(x).thread = first})

MinEntry(batch) == Min(batch)

Merged(files, k) == UNION {ToSet(BatchOf(files[t], k)) : t \in Thread}

SerialLog(files) == [k \in 1..BatchCount(files[0]) |-> Merged(files, k)]

(***************************************************************************)
(* The elements of the value log entry of x: the records it updated, each  *)
(* with its local copy.  They are replayed in the order of the access      *)
(* list, which may be any.                                                 *)
(***************************************************************************)
Content(c, r) == IF image = "before" THEN c.saw[r] ELSE c.ts

Elements(x) ==
  {[ts |-> x, record |-> r, content |-> Content(Commit(x), r)] :
     r \in Commit(x).wrote}

ValueLog(f) == [i \in DOMAIN Entries(f) |-> Elements(Entries(f)[i])]

Todo(files) ==
  [t \in Thread |-> IF logType = "VALUE" THEN ValueLog(files[t])
                    ELSE IF t = 0 THEN SerialLog(files) ELSE <<>>]

StartReplay(files) ==
  /\ file' = files
  /\ IF /\ \A t \in Thread : Reloads(files[t])
        /\ logType = "COMMAND" => Reorders(files)
     THEN phase' = "replay" /\ todo' = Todo(files)
     ELSE phase' = "failed" /\ UNCHANGED todo
  /\ txn' = [t \in Thread |-> NoTxn]
  /\ pending' = [t \in Thread |-> <<>>]
  /\ UNCHANGED <<built, epoch, monotone, store, left, buffer, lastEpoch,
                 commits, recovered, stamp, diverged>>

(***************************************************************************)
(* The process dies: the machine stops, or a thread finds a failed         *)
(* assertion.  Of the chunks not synced, any part may be on the disk.      *)
(***************************************************************************)
Torn(chunk) == [chunk EXCEPT !.whole = FALSE]

OnDisk(t) ==
  IF pending[t] = <<>> THEN {<<>>}
  ELSE {<<>>, pending[t], <<Torn(pending[t][1])>>}

Crash ==
  /\ phase = "run" /\ \E t \in Thread : left[t] # Closed
  /\ \E kept \in [Thread -> UNION {OnDisk(t) : t \in Thread}] :
       /\ \A t \in Thread : kept[t] \in OnDisk(t)
       /\ StartReplay([t \in Thread |-> file[t] \o kept[t]])
  /\ UNCHANGED exited

\* All threads have cleaned up and the program ends.
Exit ==
  /\ phase = "run" /\ \A t \in Thread : left[t] = Closed
  /\ exited' = TRUE
  /\ StartReplay(file)

(***************************************************************************)
(* ValueReplayer::ProcessLog of thread t: the next element, under the      *)
(* write lock of its record.                                               *)
(***************************************************************************)
\* Mutant: the timestamp of the record is not looked at.
InstallAlways(x) ==
  /\ stamp' = [stamp EXCEPT ![x.record] = x.ts]
  /\ recovered' = [recovered EXCEPT ![x.record] = x.content]

InstallNewer(x) ==
  IF x.ts > stamp[x.record]
  THEN /\ stamp' = [stamp EXCEPT ![x.record] = x.ts]
       /\ recovered' = [recovered EXCEPT ![x.record] = x.content]
  ELSE UNCHANGED <<stamp, recovered>>

ReplayValue(t) ==
  /\ phase = "replay" /\ logType = "VALUE" /\ todo[t] # <<>>
  /\ \E x \in Head(todo[t]) :
       /\ InstallNewer(x)
       /\ todo' = [todo EXCEPT ![t][1] = @ \ {x}]
  /\ UNCHANGED <<built, phase, exited, epoch, monotone, store, txn, left, log,
                 commits, diverged>>

(***************************************************************************)
(* SerialCommandReplayer::ProcessLog: the next procedure runs again, alone *)
(* (with the manager of TransactionManagerST.tpp).                         *)
(***************************************************************************)
ReplayCommand ==
  /\ phase = "replay" /\ logType = "COMMAND" /\ todo[0] # <<>>
  /\ Head(todo[0]) # {}
  /\ LET x == MinEntry(Head(todo[0]))
         c == Commit(x)
     IN  /\ todo' = [todo EXCEPT ![0][1] = @ \ {x}]
         /\ diverged' = (diverged \/ \E r \in DOMAIN c.saw :
                                       recovered[r] # c.saw[r])
         /\ recovered' = [r \in Record |-> IF r \in c.wrote THEN c.ts
                                                            ELSE recovered[r]]
  /\ UNCHANGED <<built, phase, exited, epoch, monotone, store, txn, left, log,
                 commits, stamp>>

\* Either one goes on to the next entry, or batch.
NextBatch(t) ==
  /\ phase = "replay" /\ todo[t] # <<>> /\ Head(todo[t]) = {}
  /\ todo' = [todo EXCEPT ![t] = Tail(@)]
  /\ UNCHANGED <<built, phase, exited, epoch, monotone, store, txn, left, log,
                 commits, recovered, stamp, diverged>>

Recovered == phase = "replay" /\ \A t \in Thread : todo[t] = <<>>

Ended == (Recovered \/ phase = "failed") /\ UNCHANGED vars

-----------------------------------------------------------------------------
Run(t) ==
  \/ \E p \in Procedures : GetEpoch(t, p)
  \/ Install(t) \/ AppendEntry(t) \/ WriteChunk(t) \/ Sync(t)
  \/ CleanUp(t) \/ SyncCleanUp(t)

Next ==
  \/ \E t \in Thread : Run(t) \/ ReplayValue(t) \/ NextBatch(t)
  \/ ReplayCommand \/ AdvanceEpoch \/ Crash \/ Exit \/ Ended

Spec == Init /\ [][Next]_vars
-----------------------------------------------------------------------------
\* The types of the variables of Recovery.
TypeOK ==
  /\ logType \in LogType /\ image \in Images
  /\ phase \in {"run", "replay", "failed"}
  /\ epoch \in 1..MaxEpoch /\ monotone = Len(commits) + 1
  /\ \A t \in Thread : /\ left[t] \in Closed..Batch
                      /\ lastEpoch[t] \in {CleanedUp} \cup 1..epoch
                      /\ Len(pending[t]) <= 1
  /\ \A r \in Record : {store[r], recovered[r], stamp[r]} \subseteq
                        {0} \cup {commits[i].ts : i \in DOMAIN commits}

(***************************************************************************)
(* Every transaction that has returned is in the log exactly once, in the  *)
(* order of the timestamps, through epoch changes and clean-up; a chunk    *)
(* holds the transactions of its epoch and the buffer those of the last    *)
(* one.  So a transaction of an epoch its thread has left is on the disk.  *)
(***************************************************************************)
Returned(t) ==
  {c.ts : c \in {x \in ToSet(commits) : x.thread = t /\ x.ts # txn[t].ts}}

Ascends(s) == \A i, j \in DOMAIN s : i < j => s[i] < s[j]

Unwritten(t) ==
  IF left[t] = Closed \/ txn[t].pc = "cleanup" THEN <<>> ELSE buffer[t]

LogComplete ==
  phase = "run" => \A t \in Thread :
    LET chunks == file[t] \o pending[t]
        logged == Entries(chunks) \o Unwritten(t)
    IN  /\ ToSet(logged) = Returned(t) /\ Ascends(logged)
        /\ \A x \in ToSet(buffer[t]) : Commit(x).epoch = lastEpoch[t]
        /\ \A i \in DOMAIN chunks : chunks[i].epoch # CleanedUp =>
             \A x \in ToSet(chunks[i].entries) : Commit(x).epoch = chunks[i].epoch

(***************************************************************************)
(* However the replaying threads interleave, the value log recovers of     *)
(* every record the last update that any file holds: the timestamp of it,  *)
(* and the content that was logged.  If that is the new content, an        *)
(* orderly end leaves the store of the program; if it is the old one,      *)
(* every record that was updated is one update behind.                     *)
(***************************************************************************)
Updates(r) == {c \in ToSet(commits) : r \in c.wrote}

LastOf(C) == IF C = {} THEN 0 ELSE Max({c.ts : c \in C})

OnFile(c) == c.ts \in ToSet(Entries(file[c.thread]))

LastFlushedWins ==
  logType = "VALUE" /\ Recovered => \A r \in Record :
    LET flushed == {c \in Updates(r) : OnFile(c)}
    IN  /\ stamp[r] = LastOf(flushed)
        /\ IF flushed = {} THEN recovered[r] = 0
           ELSE recovered[r] = Content(Commit(stamp[r]), r)
        /\ exited /\ image = "after" => recovered[r] = store[r]
        /\ exited /\ image = "before" /\ Updates(r) # {} =>
             recovered[r] = LastOf(Updates(r) \ {Commit(store[r])})

(***************************************************************************)
(* What a value log is for ("VALUE_LOGGING: enable value logging"): after  *)
(* an orderly end, its replay gives the store that the program has left.   *)
(***************************************************************************)
StoreRecovered == logType = "VALUE" /\ exited /\ Recovered => recovered = store

(***************************************************************************)
(* The command log.  Unless a crash falls into the clean-up, or the        *)
(* threads have ended in different epochs: a replay that starts sees what  *)
(* the transactions saw the first time...                                  *)
(***************************************************************************)
NoCleanUp ==
  \A t \in Thread : \A i \in DOMAIN file[t] : file[t][i].epoch # CleanedUp

EndedTogether ==
  exited /\ \A t \in Thread : BatchCount(file[t]) = BatchCount(file[0])

ReplayFaithful ==
  logType = "COMMAND" /\ (NoCleanUp \/ EndedTogether) => ~diverged

(***************************************************************************)
(* ... and ends with the store as the transactions of the epochs that      *)
(* thread 0 has on the disk have left it: all of them, of all threads, and *)
(* nothing else.  After an orderly end that is the whole store.            *)
(***************************************************************************)
ReplayedEpochs == {file[0][i].epoch : i \in DOMAIN file[0]}

EpochsRecovered ==
  logType = "COMMAND" /\ Recovered => \A r \in Record :
    /\ NoCleanUp => recovered[r] =
         LastOf({c \in Updates(r) : c.epoch \in ReplayedEpochs})
    /\ EndedTogether => recovered[r] = store[r]
=============================================================================
