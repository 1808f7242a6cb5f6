------------------------ MODULE LockWaitSerialProofs ------------------------
(***************************************************************************)
(* Wait-die locking implements the serial store, for every number of       *)
(* threads and records, although it updates records in place before it     *)
(* knows whether the transaction commits; and its commit timestamps are    *)
(* above those of the records that it stamps.                              *)
(***************************************************************************)
EXTENDS LockWaitProofs

-----------------------------------------------------------------------------
(***************************************************************************)
(* An entry is open until its transaction commits or has undone it.        *)
(***************************************************************************)
Open(t, i) ==
  /\ i \in DOMAIN accesses[t] /\ ~Committed(t)
  /\ pc[t] = "undo" => finished[t] < i

Undone(t, i) == pc[t] = "undo" /\ restored[t] /\ i = finished[t] + 1

(***************************************************************************)
(* What an open entry says of its record: a reader has seen what is there, *)
(* an update is there, with the copy of what it has replaced, and an       *)
(* insertion is visible; one that is undone has left what it has found.    *)
(***************************************************************************)
EntryAgrees(t, i) ==
  LET e == accesses[t][i] IN
  /\ e.type # "READ_WRITE" => e.new = Kept
  /\ e.type = "READ_ONLY" => e.seen \in {Unread, word[e.record]}
  /\ e.type = "READ_WRITE" =>
       word[e.record] = IF Undone(t, i) \/ e.new = Kept THEN e.seen ELSE e.new
  /\ e.type = "INSERT_ONLY" =>
       e.seen = Unread /\ visible[e.record] = ~Undone(t, i)

EntriesAgree ==
  \A t \in Thread : \A i \in DOMAIN accesses[t] : Open(t, i) => EntryAgrees(t, i)

RestoredInUndo ==
  \A t \in Thread :
    restored[t] => pc[t] = "undo" /\ finished[t] < Len(accesses[t])

(***************************************************************************)
(* Insertions are of fresh records, of which no two transactions have the  *)
(* same; all other entries are of records that the indexes hold.           *)
(***************************************************************************)
Placed ==
  \A t \in Thread : \A i \in DOMAIN accesses[t] :
    accesses[t][i].record \in
      IF accesses[t][i].type = "INSERT_ONLY" THEN Fresh ELSE Indexed

FreshOnce ==
  \A t, u \in Thread : \A i \in DOMAIN accesses[t], j \in DOMAIN accesses[u] :
    accesses[t][i].record = accesses[u][j].record
      /\ accesses[t][i].type = "INSERT_ONLY" => t = u

IndexedVisible == \A r \in Indexed : visible[r]

UndoInv ==
  EntriesAgree /\ RestoredInUndo /\ Placed /\ FreshOnce /\ IndexedVisible

-----------------------------------------------------------------------------
(***************************************************************************)
(* A step of t leaves the entries of the other transactions alone.         *)
(***************************************************************************)
SameEntries(u) ==
  /\ accesses'[u] = accesses[u] /\ pc'[u] = pc[u]
  /\ finished'[u] = finished[u] /\ restored'[u] = restored[u]

(***************************************************************************)
(* Every action changes the fields of its own thread only.                 *)
(***************************************************************************)
LEMMA OthersUnmoved ==
  ASSUME TypeOK, NEW t \in Thread, Step(t), NEW u \in Thread, u # t
  PROVE  SameEntries(u)
<1>1. /\ accesses \in [Thread -> Seq(Entry)] /\ finished \in [Thread -> Nat]
      /\ restored \in [Thread -> BOOLEAN]
      /\ pc \in [Thread -> {"idle", "exec", "acquire", "wait", "timestamp",
                            "stamp", "release", "undo", "done"}]
  BY DEF TypeOK
<1>2. ASSUME Execute(t) \/ CommitTransaction(t) \/ GetMonotoneTimestamp(t)
             \/ SetTimestamp(t) \/ EndStamp(t) \/ Restore(t) \/ ReleaseLock(t)
      PROVE  SameEntries(u)
  BY <1>1, <1>2
     DEF SameEntries, Execute, CommitTransaction, GetMonotoneTimestamp,
         SetTimestamp, EndStamp, Restore, ReleaseLock, txn
<1>3. ASSUME ReturnCommitted(t) \/ ReturnAborted(t) PROVE SameEntries(u)
  BY <1>1, <1>3 DEF SameEntries, ReturnCommitted, ReturnAborted, ClearAccess
<1>4. ASSUME Select(t) PROVE SameEntries(u)
  <2>1. ASSUME NEW r, InsertRecord(t, r) PROVE SameEntries(u)
    BY <1>1, <2>1 DEF SameEntries, InsertRecord
  <2>2. ASSUME NEW r, NEW type, SelectRecordCC(t, r, type)
        PROVE  SameEntries(u)
    BY <1>1, <2>2 DEF SameEntries, SelectRecordCC
  <2>3. ASSUME AcquireLock(t) PROVE SameEntries(u)
    <3>1. pc' = [pc EXCEPT ![t] = "wait"] \/ pc' = [pc EXCEPT ![t] = "undo"]
      BY <2>3 DEF AcquireLock, Wait, Own, Die
    <3> QED
      BY <1>1, <2>3, <3>1 DEF SameEntries, AcquireLock, txn
  <2>4. ASSUME NewAccess(t) \/ ReadRecord(t) \/ UpdateRecord(t)
        PROVE  SameEntries(u)
    BY <1>1, <2>4 DEF SameEntries, NewAccess, ReadRecord, UpdateRecord
  <2> QED
    BY <1>4, <2>1, <2>2, <2>3, <2>4 DEF Select
<1> QED
  BY <1>2, <1>3, <1>4 DEF Step

(***************************************************************************)
(* What is open of them stays open.                                        *)
(***************************************************************************)
LEMMA OpenKept ==
  ASSUME NEW u \in Thread, SameEntries(u), NEW i
  PROVE  Open(u, i)' = Open(u, i) /\ Undone(u, i)' = Undone(u, i)
BY DEF SameEntries, Open, Undone, Committed

(***************************************************************************)
(* Reading a record changes one field of one entry.                        *)
(***************************************************************************)
LEMMA EntryRead ==
  ASSUME TypeOK, NEW t \in Thread, ReadRecord(t)
  PROVE  /\ DOMAIN accesses'[t] = DOMAIN accesses[t]
         /\ \A j \in DOMAIN accesses[t] :
              /\ accesses'[t][j].record = accesses[t][j].record
              /\ accesses'[t][j].type = accesses[t][j].type
              /\ accesses'[t][j].new = accesses[t][j].new
              /\ \/ accesses'[t][j].seen = accesses[t][j].seen
                 \/ /\ accesses[t][j].type = "READ_ONLY"
                    /\ accesses'[t][j].seen = word[accesses[t][j].record]
<1>1. accesses \in [Thread -> Seq(Entry)]
  BY DEF TypeOK
<1>2. PICK i \in DOMAIN accesses[t] :
        /\ accesses[t][i].type = "READ_ONLY"
        /\ accesses' = [accesses EXCEPT ![t][i].seen =
                                            word[accesses[t][i].record]]
  BY DEF ReadRecord
<1> DEFINE e == [accesses[t][i] EXCEPT !.seen = word[accesses[t][i].record]]
<1>3. /\ e.record = accesses[t][i].record /\ e.type = accesses[t][i].type
      /\ e.new = accesses[t][i].new /\ e.seen = word[accesses[t][i].record]
  BY EntryType DEF Entry
<1>4. accesses' = [accesses EXCEPT ![t] = [accesses[t] EXCEPT ![i] = e]]
  BY <1>2
<1> HIDE DEF e
<1> QED
  BY <1>1, <1>2, <1>3, <1>4

(***************************************************************************)
(* Updating a record in place changes it and one field of one entry.       *)
(***************************************************************************)
LEMMA EntryUpdated ==
  ASSUME TypeOK, NEW t \in Thread, UpdateRecord(t)
  PROVE  \E i \in DOMAIN accesses[t] :
           /\ accesses[t][i].type = "READ_WRITE"
           /\ accesses'[t][i].new = Name(t)
           /\ word' = [word EXCEPT ![accesses[t][i].record] = Name(t)]
           /\ DOMAIN accesses'[t] = DOMAIN accesses[t]
           /\ \A j \in DOMAIN accesses[t] :
                /\ accesses'[t][j].record = accesses[t][j].record
                /\ accesses'[t][j].type = accesses[t][j].type
                /\ accesses'[t][j].seen = accesses[t][j].seen
                /\ j # i => accesses'[t][j].new = accesses[t][j].new
<1>1. accesses \in [Thread -> Seq(Entry)]
  BY DEF TypeOK
<1>2. PICK i \in DOMAIN accesses[t] :
        /\ accesses[t][i].type = "READ_WRITE"
        /\ accesses' = [accesses EXCEPT ![t][i].new = Name(t)]
        /\ word' = [word EXCEPT ![accesses[t][i].record] = Name(t)]
  BY DEF UpdateRecord
<1> DEFINE e == [accesses[t][i] EXCEPT !.new = Name(t)]
<1>3. /\ e.record = accesses[t][i].record /\ e.type = accesses[t][i].type
      /\ e.seen = accesses[t][i].seen /\ e.new = Name(t)
  BY EntryType DEF Entry
<1>4. accesses' = [accesses EXCEPT ![t] = [accesses[t] EXCEPT ![i] = e]]
  BY <1>2
<1> HIDE DEF e
<1>5. /\ accesses'[t][i] = e /\ DOMAIN accesses'[t] = DOMAIN accesses[t]
      /\ \A j \in DOMAIN accesses[t] : j # i => accesses'[t][j] = accesses[t][j]
  BY <1>1, <1>4
<1> WITNESS i \in DOMAIN accesses[t]
<1> QED
  BY <1>2, <1>3, <1>5

(***************************************************************************)
(* An insertion appends an entry.                                          *)
(***************************************************************************)
LEMMA EntryInserted ==
  ASSUME TypeInv, NEW t \in Thread, NEW r \in Fresh, InsertRecord(t, r)
  PROVE  LET n == Len(accesses[t]) + 1
         IN  /\ DOMAIN accesses'[t] = DOMAIN accesses[t] \cup {n}
             /\ n \notin DOMAIN accesses[t]
             /\ accesses'[t][n] = [record |-> r, type |-> "INSERT_ONLY",
                                   ts |-> ZeroTs, seen |-> Unread, new |-> Kept]
             /\ \A i \in DOMAIN accesses[t] : accesses'[t][i] = accesses[t][i]
<1> DEFINE e == [record |-> r, type |-> "INSERT_ONLY", ts |-> ZeroTs,
                 seen |-> Unread, new |-> Kept]
<1>1. e \in Entry /\ e.type # "READ_WRITE"
  BY DEF Entry, Record, ZeroTs, Timestamp
<1>2. accesses' = [accesses EXCEPT ![t] = Append(accesses[t], e)]
  BY DEF InsertRecord
<1> HIDE DEF e
<1>3. LET n == Len(accesses[t]) + 1
      IN  /\ DOMAIN accesses'[t] = DOMAIN accesses[t] \cup {n}
          /\ n \notin DOMAIN accesses[t]
          /\ accesses'[t][n] = e
          /\ \A i \in DOMAIN accesses[t] : accesses'[t][i] = accesses[t][i]
  BY <1>1, <1>2, EntryAppended
<1> QED
  BY <1>3 DEF e

(***************************************************************************)
(* So does an access whose lock is granted; for an update it has the       *)
(* record's content.                                                       *)
(***************************************************************************)
LEMMA EntryGranted ==
  ASSUME TypeInv, NEW t \in Thread, NewAccess(t)
  PROVE  LET n == Len(accesses[t]) + 1
             r == request[t].record
         IN  /\ request[t] \in Request
             /\ DOMAIN accesses'[t] = DOMAIN accesses[t] \cup {n}
             /\ n \notin DOMAIN accesses[t]
             /\ accesses'[t][n].record = r
             /\ accesses'[t][n].type = request[t].type
             /\ accesses'[t][n].ts = ts[r] /\ accesses'[t][n].new = Kept
             /\ accesses'[t][n].seen = IF request[t].type = "READ_WRITE"
                                       THEN word[r] ELSE Unread
             /\ \A i \in DOMAIN accesses[t] : accesses'[t][i] = accesses[t][i]
<1> DEFINE r == request[t].record
           e == [record |-> r, type |-> request[t].type, ts |-> ts[r],
                 new |-> Kept,
                 seen |-> IF request[t].type = "READ_WRITE" THEN word[r]
                          ELSE Unread]
<1>1. request[t] \in Request
  BY DEF NewAccess, Requested, TypeInv
<1>2. /\ r \in Record /\ request[t].type \in {"READ_ONLY", "READ_WRITE"}
      /\ ts[r] \in Timestamp /\ word[r] \in Writer
  BY <1>1 DEF Request, Record, TypeOK, TypeInv
<1>3. e \in Entry /\ (e.type = "READ_WRITE" => e.seen \in Writer)
  BY <1>2 DEF Entry
<1>4. accesses' = [accesses EXCEPT ![t] = Append(accesses[t], e)]
  BY DEF NewAccess
<1>5. /\ e.record = r /\ e.type = request[t].type /\ e.ts = ts[r]
      /\ e.new = Kept
      /\ e.seen = IF request[t].type = "READ_WRITE" THEN word[r] ELSE Unread
  OBVIOUS
<1> HIDE DEF e
<1>6. LET n == Len(accesses[t]) + 1
      IN  /\ DOMAIN accesses'[t] = DOMAIN accesses[t] \cup {n}
          /\ n \notin DOMAIN accesses[t]
          /\ accesses'[t][n] = e
          /\ \A i \in DOMAIN accesses[t] : accesses'[t][i] = accesses[t][i]
  BY <1>3, <1>4, EntryAppended
<1> QED
  BY <1>1, <1>5, <1>6

-----------------------------------------------------------------------------
(***************************************************************************)
(* An open entry of a record in an index holds its lock.                   *)
(***************************************************************************)
LEMMA OpenHolds ==
  ASSUME NEW t \in Thread, NEW i, Open(t, i),
         NEW r, r = accesses[t][i].record
  PROVE  HoldsAs(t, r, accesses[t][i].type)
BY DEF Open, Committed, HoldsAs

(***************************************************************************)
(* Hence whoever changes a record has the only open entry of it.           *)
(***************************************************************************)
LEMMA Alone ==
  ASSUME ListInv, Placed, FreshOnce,
         NEW t \in Thread, NEW i, Open(t, i), NEW u \in Thread, NEW j, Open(u, j),
         accesses[t][i].record = accesses[u][j].record,
         accesses[u][j].type # "READ_ONLY"
  PROVE  t = u /\ i = j
<1> DEFINE r == accesses[u][j].record
<1>1. /\ TypeOK /\ AccessedOnce
      /\ \A q \in Record : RecordLists(q)
  BY DEF ListInv, TxnInv, TypeInv
<1>2. i \in DOMAIN accesses[t] /\ j \in DOMAIN accesses[u]
  BY DEF Open
<1>3. /\ accesses[t][i].type \in {"READ_ONLY", "READ_WRITE", "INSERT_ONLY"}
      /\ accesses[u][j].type \in {"READ_WRITE", "INSERT_ONLY"} /\ r \in Record
  BY <1>1, <1>2, EntryType DEF Entry
<1>4. t = u
  <2>1. CASE accesses[u][j].type = "INSERT_ONLY"
    BY <1>2, <2>1 DEF FreshOnce
  <2>2. CASE accesses[u][j].type = "READ_WRITE"
    <3>1. accesses[t][i].type # "INSERT_ONLY"
      BY <1>2, <2>2, LockWaitConstants DEF Placed, LockWaitConstants
    <3>2. HoldsAs(u, r, "READ_WRITE") /\ Holds(t, r)
      BY <1>3, <2>2, <3>1, OpenHolds DEF Holds
    <3>3. Holders(r) = {u} /\ t \in Holders(r)
      BY <1>1, <1>3, <3>2 DEF RecordLists, ModeAgrees, Holders
    <3> QED
      BY <3>3
  <2> QED
    BY <1>3, <2>1, <2>2
<1> QED
  BY <1>1, <1>2, <1>4 DEF AccessedOnce

(***************************************************************************)
(* The invariant of in-place updates.  A step of t keeps apart the records *)
(* of insertions...                                                        *)
(***************************************************************************)
LEMMA NextPlaced ==
  ASSUME ListInv, UndoInv, NEW t \in Thread, Step(t)
  PROVE  Placed' /\ FreshOnce' /\ IndexedVisible' /\ RestoredInUndo'
<1>1. /\ TypeOK /\ TypeInv /\ FinishedLater
      /\ EntriesAgree /\ RestoredInUndo /\ Placed /\ FreshOnce /\ IndexedVisible
      /\ accesses \in [Thread -> Seq(Entry)] /\ finished \in [Thread -> Nat]
      /\ restored \in [Thread -> BOOLEAN] /\ visible \in [Record -> BOOLEAN]
      /\ pc \in [Thread -> {"idle", "exec", "acquire", "wait", "timestamp",
                            "stamp", "release", "undo", "done"}]
  BY DEF ListInv, TxnInv, TypeInv, TypeOK, UndoInv
<1>2. \A u \in Thread : u # t => SameEntries(u)
  BY <1>1, OthersUnmoved
<1>3. Placed' /\ FreshOnce'
  <2>1. ASSUME NEW i \in DOMAIN accesses'[t], i \notin DOMAIN accesses[t]
        PROVE  \/ /\ accesses'[t][i].record \in Indexed
                  /\ accesses'[t][i].type # "INSERT_ONLY"
               \/ /\ accesses'[t][i].record \in Fresh
                  /\ accesses'[t][i].type = "INSERT_ONLY"
                  /\ \A u \in Thread : \A j \in DOMAIN accesses[u] :
                       accesses[u][j].record # accesses'[t][i].record
    <3>1. CASE \E r \in Fresh : InsertRecord(t, r)
      <4>1. PICK r \in Fresh : InsertRecord(t, r)
        BY <3>1
      <4>2. \A u \in Thread : \A j \in DOMAIN accesses[u] : accesses[u][j].record # r
        BY <4>1 DEF InsertRecord, Accessed, Entries
      <4>3. accesses'[t][i] = [record |-> r, type |-> "INSERT_ONLY",
                               ts |-> ZeroTs, seen |-> Unread, new |-> Kept]
        BY <1>1, <2>1, <4>1, EntryInserted
      <4>4. accesses'[t][i].record = r /\ accesses'[t][i].type = "INSERT_ONLY"
        BY <4>3
      <4> QED
        BY <4>2, <4>4
    <3>2. CASE NewAccess(t)
      <4>1. /\ request[t] \in Request
            /\ accesses'[t][i].record = request[t].record
            /\ accesses'[t][i].type = request[t].type
        BY <1>1, <2>1, <3>2, EntryGranted
      <4> QED
        BY <4>1 DEF Request
    <3>3. CASE ReadRecord(t) \/ UpdateRecord(t)
      BY <1>1, <2>1, <3>3, EntryRead, EntryUpdated
    <3>4. CASE ReturnCommitted(t) \/ ReturnAborted(t)
      <4>1. accesses'[t] = <<>>
        BY <1>1, <3>4 DEF ReturnCommitted, ReturnAborted, ClearAccess
      <4> QED
        BY <2>1, <4>1
    <3>5. CASE accesses' = accesses
      BY <2>1, <3>5
    <3> QED
      BY <3>1, <3>2, <3>3, <3>4, <3>5
         DEF Step, Select, Execute, SelectRecordCC, AcquireLock, txn,
             CommitTransaction, GetMonotoneTimestamp, SetTimestamp, EndStamp,
             Restore, ReleaseLock
  <2>2. ASSUME NEW i \in DOMAIN accesses'[t], i \in DOMAIN accesses[t]
        PROVE  /\ accesses'[t][i].record = accesses[t][i].record
               /\ accesses'[t][i].type = accesses[t][i].type
    <3>1. CASE \E r \in Fresh : InsertRecord(t, r)
      BY <1>1, <2>2, <3>1, EntryInserted
    <3>2. CASE NewAccess(t)
      BY <1>1, <2>2, <3>2, EntryGranted
    <3>3. CASE ReadRecord(t) \/ UpdateRecord(t)
      BY <1>1, <2>2, <3>3, EntryRead, EntryUpdated
    <3>4. CASE ReturnCommitted(t) \/ ReturnAborted(t)
      <4>1. accesses'[t] = <<>>
        BY <1>1, <3>4 DEF ReturnCommitted, ReturnAborted, ClearAccess
      <4> QED
        BY <2>2, <4>1
    <3>5. CASE accesses' = accesses
      BY <2>2, <3>5
    <3> QED
      BY <3>1, <3>2, <3>3, <3>4, <3>5
         DEF Step, Select, Execute, SelectRecordCC, AcquireLock, txn,
             CommitTransaction, GetMonotoneTimestamp, SetTimestamp, EndStamp,
             Restore, ReleaseLock
  <2>3. Placed'
    <3> SUFFICES ASSUME NEW u \in Thread, NEW i \in DOMAIN accesses'[u]
                 PROVE  accesses'[u][i].record \in
                          IF accesses'[u][i].type = "INSERT_ONLY" THEN Fresh
                                                                  ELSE Indexed
      BY DEF Placed
    <3>1. CASE u # t
      BY <1>1, <1>2, <3>1 DEF Placed, SameEntries
    <3>2. CASE u = t /\ i \in DOMAIN accesses[t]
      BY <1>1, <2>2, <3>2 DEF Placed
    <3>3. CASE u = t /\ i \notin DOMAIN accesses[t]
      BY <2>1, <3>3
    <3> QED
      BY <3>1, <3>2, <3>3
  <2>4. FreshOnce'
    <3> SUFFICES ASSUME NEW u \in Thread, NEW v \in Thread,
                        NEW i \in DOMAIN accesses'[u], NEW j \in DOMAIN accesses'[v],
                        accesses'[u][i].record = accesses'[v][j].record,
                        accesses'[u][i].type = "INSERT_ONLY", u # v
                 PROVE  FALSE
      BY DEF FreshOnce
    <3>1. \A w \in Thread : w # t => accesses'[w] = accesses[w]
      BY <1>2 DEF SameEntries
    <3>2. accesses'[v][j].type = "INSERT_ONLY"
      BY <2>3, LockWaitConstants DEF Placed, LockWaitConstants
    <3>3. ASSUME i \in DOMAIN accesses[u], j \in DOMAIN accesses[v] PROVE FALSE
      <4>1. /\ accesses[u][i].record = accesses[v][j].record
            /\ accesses[u][i].type = "INSERT_ONLY"
        BY <2>2, <3>1, <3>3
      <4> QED
        BY <1>1, <3>3, <4>1 DEF FreshOnce
    <3>4. ASSUME u = t, i \notin DOMAIN accesses[u] PROVE FALSE
      BY <2>1, <3>1, <3>4
    <3>5. ASSUME v = t, j \notin DOMAIN accesses[v] PROVE FALSE
      BY <2>1, <3>1, <3>2, <3>5
    <3> QED
      BY <3>1, <3>3, <3>4, <3>5
  <2> QED
    BY <2>3, <2>4
<1>4. IndexedVisible'
  <2> SUFFICES ASSUME NEW r \in Indexed PROVE visible'[r]
    BY DEF IndexedVisible
  <2>0. visible[r] /\ r \in Record /\ r \notin Fresh
    BY <1>1, LockWaitConstants DEF IndexedVisible, LockWaitConstants, Record
  <2>1. CASE \E q \in Fresh : InsertRecord(t, q)
    BY <1>1, <2>0, <2>1 DEF InsertRecord
  <2>2. CASE Restore(t)
    <3>1. /\ finished[t] + 1 \in DOMAIN accesses[t]
          /\ visible' = IF Current(t).type = "INSERT_ONLY"
                        THEN [visible EXCEPT ![Current(t).record] = FALSE]
                        ELSE visible
      <4>1. Len(accesses[t]) \in Nat /\ DOMAIN accesses[t] = 1..Len(accesses[t])
        BY <1>1, LenProperties
      <4> QED
        BY <1>1, <2>2, <4>1 DEF Restore
    <3>2. Current(t).type = "INSERT_ONLY" => Current(t).record \in Fresh
      BY <1>1, <3>1 DEF Placed, Current
    <3> QED
      BY <1>1, <2>0, <3>1, <3>2
  <2>3. CASE visible' = visible
    BY <2>0, <2>3
  <2> QED
    BY <2>1, <2>2, <2>3
       DEF Step, Select, Execute, SelectRecordCC, AcquireLock, NewAccess,
           ReadRecord, UpdateRecord, CommitTransaction, GetMonotoneTimestamp,
           SetTimestamp, EndStamp, ReleaseLock, ReturnCommitted, ReturnAborted,
           content
<1>5. RestoredInUndo'
  <2>1. restored'[t] => pc'[t] = "undo" /\ finished'[t] < Len(accesses'[t])
    <3>1. CASE Restore(t) \/ ReleaseLock(t)
      BY <1>1, <3>1 DEF Restore, ReleaseLock
    <3>2. CASE ~restored'[t]
      BY <3>2
    <3>3. CASE ReturnAborted(t)
      BY <1>1, <3>3 DEF ReturnAborted, RestoredInUndo
    <3>4. ASSUME pc[t] # "undo", restored' = restored PROVE ~restored'[t]
      BY <1>1, <3>4 DEF RestoredInUndo
    <3> QED
      BY <3>1, <3>2, <3>3, <3>4
         DEF Step, Select, Execute, InsertRecord, SelectRecordCC, AcquireLock,
             NewAccess, ReadRecord, UpdateRecord, CommitTransaction,
             GetMonotoneTimestamp, SetTimestamp, EndStamp, ReturnCommitted, txn
  <2> QED
    BY <1>1, <1>2, <2>1 DEF RestoredInUndo, SameEntries
<1> QED
  BY <1>3, <1>4, <1>5

(***************************************************************************)
(* The entry that is undone next is open.                                  *)
(***************************************************************************)
LEMMA Restoring ==
  ASSUME TypeOK, NEW t \in Thread, Restore(t)
  PROVE  LET i == finished[t] + 1
             e == accesses[t][i]
         IN  /\ Open(t, i) /\ e \in Entry /\ pc[t] = "undo" /\ ~restored[t]
             /\ word' = IF e.type = "READ_WRITE"
                        THEN [word EXCEPT ![e.record] = e.seen] ELSE word
             /\ visible' = IF e.type = "INSERT_ONLY"
                           THEN [visible EXCEPT ![e.record] = FALSE] ELSE visible
             /\ restored' = [restored EXCEPT ![t] = TRUE]
             /\ pc' = pc /\ accesses' = accesses /\ finished' = finished
<1>1. accesses \in [Thread -> Seq(Entry)] /\ finished \in [Thread -> Nat]
  BY DEF TypeOK
<1>2. Len(accesses[t]) \in Nat /\ DOMAIN accesses[t] = 1..Len(accesses[t])
  BY <1>1, LenProperties
<1>3. /\ pc[t] = "undo" /\ finished[t] + 1 \in DOMAIN accesses[t]
      /\ finished[t] < finished[t] + 1
  BY <1>1, <1>2 DEF Restore
<1>4. Open(t, finished[t] + 1)
  BY <1>3 DEF Open, Committed
<1>5. accesses[t][finished[t] + 1] \in Entry
  BY <1>3, EntryType
<1> QED
  BY <1>3, <1>4, <1>5 DEF Restore, Current

(***************************************************************************)
(* ... and the records of the open entries of other transactions...        *)
(***************************************************************************)
LEMMA OthersUndisturbed ==
  ASSUME ListInv, UndoInv, NEW t \in Thread, Step(t),
         NEW u \in Thread, u # t, NEW i, Open(u, i),
         NEW r, r = accesses[u][i].record
  PROVE  word'[r] = word[r] /\ visible'[r] = visible[r]
<1>1. /\ TypeOK /\ Placed /\ FreshOnce /\ i \in DOMAIN accesses[u]
      /\ word \in [Record -> Writer] /\ visible \in [Record -> BOOLEAN]
      /\ pc \in [Thread -> {"idle", "exec", "acquire", "wait", "timestamp",
                            "stamp", "release", "undo", "done"}]
  BY DEF ListInv, TxnInv, TypeInv, TypeOK, UndoInv, Open
<1>2. r \in Record
  BY <1>1, EntryType DEF Entry
<1>3. ASSUME NEW j, Open(t, j), accesses[t][j].record = r,
             accesses[t][j].type # "READ_ONLY"
      PROVE  FALSE
  BY <1>1, <1>3, Alone
<1>4. CASE UpdateRecord(t)
  <2>1. PICK j \in DOMAIN accesses[t] :
          /\ accesses[t][j].type = "READ_WRITE"
          /\ word' = [word EXCEPT ![accesses[t][j].record] = Name(t)]
    BY <1>1, <1>4, EntryUpdated
  <2>2. visible' = visible /\ Open(t, j)
    BY <1>4 DEF UpdateRecord, Open, Committed
  <2>3. accesses[t][j].record # r
    BY <1>3, <2>1, <2>2
  <2> QED
    BY <1>1, <1>2, <2>1, <2>2, <2>3
<1>5. CASE Restore(t)
  <2> DEFINE j == finished[t] + 1
             e == accesses[t][j]
  <2>1. /\ Open(t, j)
        /\ word' = IF e.type = "READ_WRITE"
                   THEN [word EXCEPT ![e.record] = e.seen] ELSE word
        /\ visible' = IF e.type = "INSERT_ONLY"
                      THEN [visible EXCEPT ![e.record] = FALSE] ELSE visible
    BY <1>1, <1>5, Restoring
  <2>2. e.type # "READ_ONLY" => e.record # r
    BY <1>3, <2>1
  <2> QED
    BY <1>1, <1>2, <2>1, <2>2
<1>6. ASSUME NEW q \in Fresh, InsertRecord(t, q)
      PROVE  word'[r] = word[r] /\ visible'[r] = visible[r]
  <2>1. /\ word' = word /\ visible' = [visible EXCEPT ![q] = TRUE]
        /\ q \notin Accessed(u)
    BY <1>6 DEF InsertRecord
  <2>2. q # r
    BY <1>1, <2>1 DEF Accessed, Entries
  <2> QED
    BY <1>1, <1>2, <2>1, <2>2
<1>7. CASE word' = word /\ visible' = visible
  BY <1>7
<1> QED
  BY <1>4, <1>5, <1>6, <1>7
     DEF Step, Select, Execute, SelectRecordCC, AcquireLock, NewAccess,
         ReadRecord, CommitTransaction, GetMonotoneTimestamp, SetTimestamp,
         EndStamp, ReleaseLock, ReturnCommitted, ReturnAborted, content

(***************************************************************************)
(* ... and its own entries agree with their records.                       *)
(***************************************************************************)
LEMMA OwnAgree ==
  ASSUME ListInv, UndoInv, NEW t \in Thread, Step(t), NEW i, Open(t, i)'
  PROVE  EntryAgrees(t, i)'
<1>1. /\ TypeInv /\ TypeOK /\ AccessedOnce /\ FinishedLater
      /\ EntriesAgree /\ RestoredInUndo /\ Placed /\ FreshOnce
      /\ accesses \in [Thread -> Seq(Entry)] /\ finished \in [Thread -> Nat]
      /\ restored \in [Thread -> BOOLEAN] /\ visible \in [Record -> BOOLEAN]
      /\ word \in [Record -> Writer]
      /\ pc \in [Thread -> {"idle", "exec", "acquire", "wait", "timestamp",
                            "stamp", "release", "undo", "done"}]
  BY DEF ListInv, TxnInv, TypeInv, TypeOK, UndoInv
<1>2. i \in DOMAIN accesses'[t] /\ ~Committed(t)'
  BY DEF Open
<1>3. ASSUME i \in DOMAIN accesses[t]
      PROVE  accesses[t][i] \in Entry /\ accesses[t][i].record \in Record
  BY <1>1, <1>3, EntryType DEF Entry
<1>4. CASE Execute(t) \/ CommitTransaction(t) \/ AcquireLock(t)
           \/ \E r \in Indexed : \E type \in {"READ_ONLY", "READ_WRITE"} :
                SelectRecordCC(t, r, type)
  <2>1. /\ pc[t] \in {"idle", "exec", "acquire"}
        /\ UNCHANGED <<word, visible, accesses, finished, restored>>
    BY <1>4 DEF Execute, CommitTransaction, AcquireLock, SelectRecordCC, content,
       txn
  <2>2. Open(t, i) /\ ~Undone(t, i) /\ ~Undone(t, i)'
    BY <1>1, <1>2, <2>1 DEF Open, Committed, Undone, RestoredInUndo
  <2> QED
    BY <1>1, <1>2, <2>1, <2>2 DEF EntriesAgree, EntryAgrees
<1>5. ASSUME NEW r \in Fresh, InsertRecord(t, r) PROVE EntryAgrees(t, i)'
  <2>1. /\ pc[t] = "exec" /\ pc' = pc /\ word' = word
        /\ visible' = [visible EXCEPT ![r] = TRUE] /\ r \notin Accessed(t)
    BY <1>5 DEF InsertRecord
  <2>2. ~Undone(t, i) /\ ~Undone(t, i)'
    BY <2>1 DEF Undone
  <2>3. CASE i \in DOMAIN accesses[t]
    <3>1. accesses'[t][i] = accesses[t][i] /\ accesses[t][i].record # r
      BY <1>1, <1>5, <2>1, <2>3, EntryInserted DEF Accessed, Entries
    <3>2. Open(t, i)
      BY <2>1, <2>3 DEF Open, Committed
    <3> QED
      BY <1>1, <1>3, <2>1, <2>2, <2>3, <3>1, <3>2 DEF EntriesAgree, EntryAgrees
  <2>4. CASE i \notin DOMAIN accesses[t]
    <3>1. accesses'[t][i] = [record |-> r, type |-> "INSERT_ONLY",
                             ts |-> ZeroTs, seen |-> Unread, new |-> Kept]
      BY <1>1, <1>2, <1>5, <2>4, EntryInserted
    <3>2. /\ accesses'[t][i].record = r /\ accesses'[t][i].type = "INSERT_ONLY"
          /\ accesses'[t][i].seen = Unread /\ accesses'[t][i].new = Kept
      BY <3>1
    <3>3. visible'[r] = TRUE
      BY <1>1, <2>1 DEF Record
    <3> QED
      BY <2>2, <3>2, <3>3 DEF EntryAgrees
  <2> QED
    BY <2>3, <2>4
<1>6. CASE NewAccess(t)
  <2>1. /\ pc[t] = "wait" /\ pc'[t] = "exec" /\ word' = word
        /\ visible' = visible
    BY <1>1, <1>6 DEF NewAccess, content
  <2>2. ~Undone(t, i) /\ ~Undone(t, i)'
    BY <2>1 DEF Undone
  <2>3. CASE i \in DOMAIN accesses[t]
    <3>1. accesses'[t][i] = accesses[t][i] /\ Open(t, i)
      BY <1>1, <1>6, <2>1, <2>3, EntryGranted DEF Open, Committed
    <3> QED
      BY <1>1, <2>1, <2>2, <2>3, <3>1 DEF EntriesAgree, EntryAgrees
  <2>4. CASE i \notin DOMAIN accesses[t]
    <3>1. /\ request[t] \in Request
          /\ accesses'[t][i].record = request[t].record
          /\ accesses'[t][i].type = request[t].type
          /\ accesses'[t][i].new = Kept
          /\ accesses'[t][i].seen = IF request[t].type = "READ_WRITE"
                                    THEN word[request[t].record] ELSE Unread
      BY <1>1, <1>2, <1>6, <2>4, EntryGranted
    <3>2. request[t].type \in {"READ_ONLY", "READ_WRITE"}
      BY <3>1 DEF Request
    <3> QED
      BY <2>1, <2>2, <3>1, <3>2 DEF EntryAgrees
  <2> QED
    BY <2>3, <2>4
<1>7. CASE ReadRecord(t)
  <2>1. /\ pc[t] = "exec" /\ pc' = pc /\ word' = word /\ visible' = visible
    BY <1>7 DEF ReadRecord, content
  <2>2. ~Undone(t, i) /\ ~Undone(t, i)'
    BY <2>1 DEF Undone
  <2>3. /\ i \in DOMAIN accesses[t]
        /\ accesses'[t][i].record = accesses[t][i].record
        /\ accesses'[t][i].type = accesses[t][i].type
        /\ accesses'[t][i].new = accesses[t][i].new
        /\ \/ accesses'[t][i].seen = accesses[t][i].seen
           \/ /\ accesses[t][i].type = "READ_ONLY"
              /\ accesses'[t][i].seen = word[accesses[t][i].record]
    BY <1>1, <1>2, <1>7, EntryRead
  <2>4. EntryAgrees(t, i)
    BY <1>1, <2>1, <2>3 DEF Open, Committed, EntriesAgree
  <2> QED
    BY <2>1, <2>2, <2>3, <2>4 DEF EntryAgrees
<1>8. CASE UpdateRecord(t)
  <2>1. PICK j \in DOMAIN accesses[t] :
          /\ accesses[t][j].type = "READ_WRITE"
          /\ accesses'[t][j].new = Name(t)
          /\ word' = [word EXCEPT ![accesses[t][j].record] = Name(t)]
          /\ DOMAIN accesses'[t] = DOMAIN accesses[t]
          /\ \A k \in DOMAIN accesses[t] :
               /\ accesses'[t][k].record = accesses[t][k].record
               /\ accesses'[t][k].type = accesses[t][k].type
               /\ accesses'[t][k].seen = accesses[t][k].seen
               /\ k # j => accesses'[t][k].new = accesses[t][k].new
    BY <1>1, <1>8, EntryUpdated
  <2>2. /\ pc[t] = "exec" /\ pc' = pc /\ visible' = visible
    BY <1>8 DEF UpdateRecord
  <2>3. ~Undone(t, i) /\ ~Undone(t, i)'
    BY <2>2 DEF Undone
  <2>4. i \in DOMAIN accesses[t] /\ Open(t, i) /\ EntryAgrees(t, i)
    BY <1>1, <1>2, <2>1, <2>2 DEF Open, Committed, EntriesAgree
  <2>5. CASE i = j
    <3>1. Name(t) # Kept
      BY <1>1, LockWaitConstants DEF Name, Writer, TypeOK, LockWaitConstants
    <3>2. word'[accesses[t][i].record] = Name(t)
      BY <1>1, <1>3, <2>1, <2>4, <2>5
    <3> QED
      BY <2>1, <2>3, <2>4, <2>5, <3>1, <3>2 DEF EntryAgrees
  <2>6. CASE i # j
    <3>1. accesses[t][i].record # accesses[t][j].record
      BY <1>1, <2>4, <2>6 DEF AccessedOnce
    <3>2. word'[accesses[t][i].record] = word[accesses[t][i].record]
      BY <1>1, <1>3, <2>1, <2>4, <3>1
    <3> QED
      BY <2>1, <2>2, <2>3, <2>4, <2>6, <3>2 DEF EntryAgrees
  <2> QED
    BY <2>5, <2>6
<1>9. CASE Restore(t)
  <2> DEFINE j == finished[t] + 1
             e == accesses[t][j]
  <2>1. /\ Open(t, j) /\ e \in Entry /\ pc[t] = "undo" /\ ~restored[t]
        /\ word' = IF e.type = "READ_WRITE"
                   THEN [word EXCEPT ![e.record] = e.seen] ELSE word
        /\ visible' = IF e.type = "INSERT_ONLY"
                      THEN [visible EXCEPT ![e.record] = FALSE] ELSE visible
        /\ restored' = [restored EXCEPT ![t] = TRUE]
        /\ pc' = pc /\ accesses' = accesses /\ finished' = finished
    BY <1>1, <1>9, Restoring
  <2>2. Open(t, i) /\ ~Undone(t, i) /\ (Undone(t, i)' <=> i = j)
    BY <1>1, <2>1 DEF Open, Committed, Undone
  <2>3. i \in DOMAIN accesses[t] /\ EntryAgrees(t, i)
    BY <1>1, <2>2 DEF Open, EntriesAgree
  <2>4. e.record \in Record
    BY <2>1 DEF Entry
  <2>5. CASE i = j
    <3>1. /\ e.type = "READ_WRITE" => word'[e.record] = e.seen
          /\ e.type = "INSERT_ONLY" => visible'[e.record] = FALSE
          /\ e.type = "READ_ONLY" => word' = word
      BY <1>1, <2>1, <2>4
    <3>2. accesses'[t][i] = e
      BY <2>1, <2>5
    <3> QED
      BY <2>2, <2>3, <2>5, <3>1, <3>2 DEF EntryAgrees
  <2>6. CASE i # j
    <3>1. j \in DOMAIN accesses[t]
      BY <2>1 DEF Open
    <3>2. accesses[t][i].record # e.record
      BY <1>1, <2>3, <2>6, <3>1 DEF AccessedOnce
    <3>3. /\ word'[accesses[t][i].record] = word[accesses[t][i].record]
          /\ visible'[accesses[t][i].record] = visible[accesses[t][i].record]
      BY <1>1, <1>3, <2>1, <2>3, <3>2
    <3> QED
      BY <2>1, <2>2, <2>3, <2>6, <3>3 DEF EntryAgrees
  <2> QED
    BY <2>5, <2>6
<1>10. CASE ReleaseLock(t)
  <2>1. /\ pc' = pc /\ accesses' = accesses /\ word' = word
        /\ visible' = visible /\ pc[t] \in {"release", "undo"}
        /\ finished'[t] = finished[t] + 1 /\ restored'[t] = FALSE
    BY <1>1, <1>10 DEF ReleaseLock, content
  <2>2. pc[t] = "undo" /\ finished[t] + 1 < i
    BY <2>1 DEF Open, Committed
  <2>3. i \in DOMAIN accesses[t] /\ i \in Int
    BY <1>1, <1>2, <2>1, EntryType
  <2>4. Open(t, i) /\ ~Undone(t, i) /\ ~Undone(t, i)'
    BY <1>1, <2>1, <2>2, <2>3 DEF Open, Committed, Undone
  <2> QED
    BY <1>1, <2>1, <2>3, <2>4 DEF EntriesAgree, EntryAgrees
<1>11. CASE GetMonotoneTimestamp(t) \/ SetTimestamp(t) \/ EndStamp(t)
  <2>1. pc'[t] \in {"stamp", "release"}
    BY <1>1, <1>11 DEF GetMonotoneTimestamp, SetTimestamp, EndStamp
  <2> QED
    BY <1>2, <2>1 DEF Committed
<1>12. CASE ReturnCommitted(t) \/ ReturnAborted(t)
  <2>1. accesses'[t] = <<>>
    BY <1>1, <1>12 DEF ReturnCommitted, ReturnAborted, ClearAccess
  <2> QED
    BY <1>2, <2>1
<1> QED
  BY <1>4, <1>5, <1>6, <1>7, <1>8, <1>9, <1>10, <1>11, <1>12, LockWaitConstants
     DEF Step, Select, LockWaitConstants

(***************************************************************************)
(* Initially there is no entry, and the indexed records are visible.       *)
(***************************************************************************)
LEMMA InitUndo == Init => UndoInv
<1> SUFFICES ASSUME Init PROVE UndoInv
  OBVIOUS
<1>1. \A t \in Thread : DOMAIN accesses[t] = {} /\ ~restored[t]
  BY DEF Init
<1>2. \A r \in Indexed : visible[r]
  BY DEF Init, Record
<1> QED
  BY <1>1, <1>2
     DEF UndoInv, EntriesAgree, RestoredInUndo, Placed, FreshOnce, IndexedVisible

(***************************************************************************)
(* So every step keeps the invariant.                                      *)
(***************************************************************************)
LEMMA NextUndo == ListInv /\ UndoInv /\ [Next]_vars => UndoInv'
<1> SUFFICES ASSUME ListInv, UndoInv, [Next]_vars PROVE UndoInv'
  OBVIOUS
<1>1. TypeOK /\ EntriesAgree
  BY DEF ListInv, TxnInv, TypeInv, UndoInv
<1>2. ASSUME NEW t \in Thread, Step(t) PROVE UndoInv'
  <2>1. ASSUME NEW u \in Thread, NEW i, Open(u, i)' PROVE EntryAgrees(u, i)'
    <3>1. CASE u = t
      BY <1>2, <2>1, <3>1, OwnAgree
    <3>2. CASE u # t
      <4>1. SameEntries(u)
        BY <1>1, <1>2, <3>2, OthersUnmoved
      <4>2. Open(u, i) /\ Undone(u, i)' = Undone(u, i)
        BY <2>1, <4>1, OpenKept
      <4>3. /\ word'[accesses[u][i].record] = word[accesses[u][i].record]
            /\ visible'[accesses[u][i].record] = visible[accesses[u][i].record]
        BY <1>2, <3>2, <4>2, OthersUndisturbed
      <4>4. EntryAgrees(u, i) /\ accesses'[u] = accesses[u]
        BY <1>1, <4>1, <4>2 DEF EntriesAgree, Open, SameEntries
      <4> QED
        BY <4>2, <4>3, <4>4 DEF EntryAgrees
    <3> QED
      BY <3>1, <3>2
  <2> QED
    BY <1>2, <2>1, NextPlaced DEF UndoInv, EntriesAgree
<1>3. CASE AdvanceEpoch \/ UNCHANGED vars
  <2>1. UNCHANGED <<word, visible, pc, accesses, finished, restored>>
    BY <1>3 DEF AdvanceEpoch, vars, content, txn
  <2> QED
    BY <2>1 DEF UndoInv, EntriesAgree, EntryAgrees, Open, Undone, Committed,
       RestoredInUndo, Placed, FreshOnce, IndexedVisible
<1> QED
  BY <1>2, <1>3 DEF Next, Joined

-----------------------------------------------------------------------------
(***************************************************************************)
(* The store of the serial specification.                                  *)
(***************************************************************************)
Outcome == [t \in Thread |-> SerialOutcome(t)]
Store   == [r \in Record |-> SerialRecord(r)]

Updating(t, i, r) ==
  Open(t, i) /\ accesses[t][i].record = r /\ accesses[t][i].type = "READ_WRITE"

Inserting(t, i, r) ==
  Open(t, i) /\ accesses[t][i].record = r /\ accesses[t][i].type = "INSERT_ONLY"

(***************************************************************************)
(* A record is what its open update has replaced, or what is there; it is  *)
(* live if it is visible and nobody is inserting it.                       *)
(***************************************************************************)
RecordCases(r) ==
  /\ \A t \in Thread : \A i \in DOMAIN accesses[t] :
       Updating(t, i, r) => SerialRecord(r).value = accesses[t][i].seen
  /\ (\A t \in Thread : \A i \in DOMAIN accesses[t] : ~Updating(t, i, r)) =>
       SerialRecord(r).value = word[r]
  /\ SerialRecord(r).live =
       (visible[r] /\ \A t \in Thread : \A i \in DOMAIN accesses[t] :
                        ~Inserting(t, i, r))
  /\ SerialRecord(r) = [value |-> SerialRecord(r).value,
                        live  |-> SerialRecord(r).live]

(***************************************************************************)
(* The CHOOSE of SerialRecord has one candidate at most.                   *)
(***************************************************************************)
LEMMA SerialRecordCases ==
  ListInv /\ UndoInv => \A r \in Record : RecordCases(r)
<1> SUFFICES ASSUME ListInv, UndoInv, NEW r \in Record PROVE RecordCases(r)
  OBVIOUS
<1> DEFINE updates == {e \in Pending(r) : e.type = "READ_WRITE"}
<1>1. TypeOK /\ Placed /\ FreshOnce
  BY DEF ListInv, TxnInv, TypeInv, UndoInv
<1>2. ASSUME NEW t \in Thread, NEW i \in DOMAIN accesses[t]
      PROVE  i \in Nat /\ finished[t] \in Nat
  <2>1. finished[t] \in Nat
    BY <1>1 DEF TypeOK
  <2>2. i \in 1..Len(accesses[t])
    BY <1>1, EntryType
  <2> QED
    BY <2>1, <2>2
<1>3. ASSUME NEW e
      PROVE  e \in Pending(r) <=>
               \E t \in Thread : \E i \in DOMAIN accesses[t] :
                 Open(t, i) /\ e = accesses[t][i] /\ e.record = r
  BY <1>2 DEF Pending, Undoable, Open
<1>4. ASSUME NEW t \in Thread, NEW i \in DOMAIN accesses[t], Updating(t, i, r)
      PROVE  updates = {accesses[t][i]}
  <2>1. accesses[t][i] \in updates
    BY <1>3, <1>4 DEF Updating
  <2>2. ASSUME NEW e \in updates PROVE e = accesses[t][i]
    <3>1. PICK u \in Thread : \E j \in DOMAIN accesses[u] :
            Open(u, j) /\ e = accesses[u][j] /\ e.record = r
      BY <1>3
    <3>2. PICK j \in DOMAIN accesses[u] :
            Open(u, j) /\ e = accesses[u][j] /\ e.record = r
      BY <3>1
    <3>3. u = t /\ j = i
      BY <1>1, <1>4, <3>2, Alone DEF Updating
    <3> QED
      BY <3>2, <3>3
  <2> QED
    BY <2>1, <2>2
<1>5. ASSUME \A t \in Thread : \A i \in DOMAIN accesses[t] : ~Updating(t, i, r)
      PROVE  updates = {}
  BY <1>3, <1>5 DEF Updating
<1>6. (\A e \in Pending(r) : e.type # "INSERT_ONLY") <=>
        \A t \in Thread : \A i \in DOMAIN accesses[t] : ~Inserting(t, i, r)
  BY <1>3 DEF Inserting
<1>7. /\ SerialRecord(r).value = IF updates = {} THEN word[r]
                                 ELSE (CHOOSE e \in updates : TRUE).seen
      /\ SerialRecord(r).live =
           (visible[r] /\ \A e \in Pending(r) : e.type # "INSERT_ONLY")
      /\ SerialRecord(r) = [value |-> SerialRecord(r).value,
                            live  |-> SerialRecord(r).live]
  BY DEF SerialRecord
<1> HIDE DEF updates
<1>8. ASSUME NEW t \in Thread, NEW i \in DOMAIN accesses[t], Updating(t, i, r)
      PROVE  SerialRecord(r).value = accesses[t][i].seen
  <2>1. updates = {accesses[t][i]}
    BY <1>4, <1>8
  <2>2. updates # {} /\ (CHOOSE e \in updates : TRUE) = accesses[t][i]
    BY <2>1
  <2> QED
    BY <1>7, <2>2
<1> QED
  BY <1>5, <1>6, <1>7, <1>8 DEF RecordCases

(***************************************************************************)
(* The same of the next state.                                             *)
(***************************************************************************)
LEMMA NextRecordCases ==
  ListInv' /\ UndoInv' => (\A r \in Record : RecordCases(r))'
BY SerialRecordCases, PTL

(***************************************************************************)
(* What the transaction of t alone makes of a record.                      *)
(***************************************************************************)
OwnValue(t, r, v) ==
  /\ \A i \in DOMAIN accesses[t] : Updating(t, i, r) => accesses[t][i].seen = v
  /\ (\A i \in DOMAIN accesses[t] : ~Updating(t, i, r)) => word[r] = v

OwnLive(t, r) ==
  visible[r] /\ \A i \in DOMAIN accesses[t] : ~Inserting(t, i, r)

(***************************************************************************)
(* A step of t leaves a record of the serial store alone if, as far as t   *)
(* is concerned, it does.                                                  *)
(***************************************************************************)
LEMMA RecordKept ==
  ASSUME ListInv, UndoInv, ListInv', UndoInv', NEW t \in Thread,
         \A u \in Thread : u # t => SameEntries(u), NEW r \in Record,
         \A v : OwnValue(t, r, v) => OwnValue(t, r, v)',
         OwnLive(t, r)' = OwnLive(t, r)
  PROVE  SerialRecord(r)' = SerialRecord(r)
<1>1. RecordCases(r) /\ RecordCases(r)'
  BY SerialRecordCases, NextRecordCases
<1>2. ASSUME NEW u \in Thread, u # t, NEW i
      PROVE  /\ Updating(u, i, r)' = Updating(u, i, r)
             /\ Inserting(u, i, r)' = Inserting(u, i, r)
             /\ accesses'[u] = accesses[u]
  <2>1. Open(u, i)' = Open(u, i) /\ accesses'[u] = accesses[u]
    BY <1>2, OpenKept DEF SameEntries
  <2> QED
    BY <2>1 DEF Updating, Inserting
<1>3. SerialRecord(r).live' = SerialRecord(r).live
  <2>1. SerialRecord(r).live =
          (OwnLive(t, r) /\ \A u \in Thread : u # t =>
             \A i \in DOMAIN accesses[u] : ~Inserting(u, i, r))
    BY <1>1 DEF RecordCases, OwnLive
  <2>2. SerialRecord(r).live' =
          (OwnLive(t, r)' /\ \A u \in Thread : u # t =>
             \A i \in DOMAIN accesses'[u] : ~Inserting(u, i, r)')
    BY <1>1 DEF RecordCases, OwnLive
  <2>3. (\A u \in Thread : u # t =>
           \A i \in DOMAIN accesses'[u] : ~Inserting(u, i, r)') =
        (\A u \in Thread : u # t =>
           \A i \in DOMAIN accesses[u] : ~Inserting(u, i, r))
    BY <1>2
  <2> QED
    BY <2>1, <2>2, <2>3
<1>4. SerialRecord(r).value' = SerialRecord(r).value
  <2>1. CASE \E u \in Thread : \E i \in DOMAIN accesses[u] :
               u # t /\ Updating(u, i, r)
    <3>0. PICK u \in Thread : \E i \in DOMAIN accesses[u] :
            u # t /\ Updating(u, i, r)
      BY <2>1
    <3>1. PICK i \in DOMAIN accesses[u] : u # t /\ Updating(u, i, r)
      BY <3>0
    <3>2. /\ Updating(u, i, r)' /\ i \in DOMAIN accesses'[u]
          /\ accesses'[u][i].seen = accesses[u][i].seen
      BY <1>2, <3>1
    <3> QED
      BY <1>1, <3>1, <3>2 DEF RecordCases
  <2>2. CASE \A u \in Thread : \A i \in DOMAIN accesses[u] :
               u # t => ~Updating(u, i, r)
    <3>1. \A u \in Thread : \A i \in DOMAIN accesses'[u] :
            u # t => ~Updating(u, i, r)'
      BY <1>2, <2>2
    <3>2. OwnValue(t, r, SerialRecord(r).value)
      <4>1. CASE \E i \in DOMAIN accesses[t] : Updating(t, i, r)
        BY <1>1, <4>1 DEF RecordCases, OwnValue
      <4>2. CASE \A i \in DOMAIN accesses[t] : ~Updating(t, i, r)
        BY <1>1, <2>2, <4>2 DEF RecordCases, OwnValue
      <4> QED
        BY <4>1, <4>2
    <3>3. ASSUME NEW v, v = SerialRecord(r).value
          PROVE  SerialRecord(r).value' = v
      <4>1. OwnValue(t, r, v)'
        BY <3>2, <3>3
      <4>2. CASE \E i \in DOMAIN accesses'[t] : Updating(t, i, r)'
        BY <1>1, <4>1, <4>2 DEF RecordCases, OwnValue
      <4>3. CASE \A i \in DOMAIN accesses'[t] : ~Updating(t, i, r)'
        <5>1. word'[r] = v
          BY <4>1, <4>3 DEF OwnValue
        <5>2. \A u \in Thread : \A i \in DOMAIN accesses'[u] : ~Updating(u, i, r)'
          BY <3>1, <4>3
        <5> QED
          BY <1>1, <5>1, <5>2 DEF RecordCases
      <4> QED
        BY <4>2, <4>3
    <3> QED
      BY <3>3
  <2> QED
    BY <2>1, <2>2
<1>5. /\ SerialRecord(r) = [value |-> SerialRecord(r).value,
                            live  |-> SerialRecord(r).live]
      /\ SerialRecord(r)' = [value |-> SerialRecord(r).value',
                             live  |-> SerialRecord(r).live']
  BY <1>1 DEF RecordCases
<1> QED
  BY <1>3, <1>4, <1>5

(***************************************************************************)
(* A step that leaves a record and the open entries of it alone.           *)
(***************************************************************************)
LEMMA OwnFrame ==
  ASSUME NEW t \in Thread, NEW r \in Record,
         word'[r] = word[r], visible'[r] = visible[r],
         \A i : /\ Updating(t, i, r)' <=> Updating(t, i, r)
                /\ Inserting(t, i, r)' <=> Inserting(t, i, r)
                /\ Updating(t, i, r) => accesses'[t][i].seen = accesses[t][i].seen
  PROVE  /\ \A v : OwnValue(t, r, v) => OwnValue(t, r, v)'
         /\ OwnLive(t, r)' = OwnLive(t, r)
<1>1. \A i : Updating(t, i, r) \/ Inserting(t, i, r) => i \in DOMAIN accesses[t]
  BY DEF Updating, Inserting, Open
<1>2. \A i : Updating(t, i, r)' \/ Inserting(t, i, r)' => i \in DOMAIN accesses'[t]
  BY DEF Updating, Inserting, Open
<1>3. ASSUME NEW v, OwnValue(t, r, v) PROVE OwnValue(t, r, v)'
  BY <1>1, <1>2, <1>3 DEF OwnValue
<1>4. OwnLive(t, r)' = OwnLive(t, r)
  BY <1>1, <1>2 DEF OwnLive
<1> QED
  BY <1>3, <1>4

(***************************************************************************)
(* Nobody has open entries once committed or undone to the end.            *)
(***************************************************************************)
LEMMA NoneOpen ==
  ASSUME TypeOK, NEW t \in Thread,
         Committed(t) \/ (pc[t] = "undo" /\ finished[t] = Len(accesses[t]))
  PROVE  \A i : ~Open(t, i)
<1>1. Len(accesses[t]) \in Nat /\ DOMAIN accesses[t] = 1..Len(accesses[t])
  BY LenProperties DEF TypeOK
<1> QED
  BY <1>1 DEF Open

(***************************************************************************)
(* No step of t but its commit changes a record, as far as t is concerned: *)
(* an update in place changes what is there, not what it replaces, and the *)
(* undoing brings that back.                                               *)
(***************************************************************************)
LEMMA OwnKept ==
  ASSUME ListInv, UndoInv, NEW t \in Thread, Step(t), NEW r \in Record,
         GetMonotoneTimestamp(t) => r \notin Accessed(t)
  PROVE  /\ \A v : OwnValue(t, r, v) => OwnValue(t, r, v)'
         /\ OwnLive(t, r)' = OwnLive(t, r)
<1> DEFINE Goal == /\ \A v : OwnValue(t, r, v) => OwnValue(t, r, v)'
                   /\ OwnLive(t, r)' = OwnLive(t, r)
<1>1. /\ TypeInv /\ TypeOK /\ AccessedOnce /\ RequestedOnce /\ FinishedLater
      /\ EntriesAgree /\ RestoredInUndo /\ Placed
      /\ accesses \in [Thread -> Seq(Entry)] /\ finished \in [Thread -> Nat]
      /\ restored \in [Thread -> BOOLEAN] /\ visible \in [Record -> BOOLEAN]
      /\ word \in [Record -> Writer]
      /\ pc \in [Thread -> {"idle", "exec", "acquire", "wait", "timestamp",
                            "stamp", "release", "undo", "done"}]
  BY DEF ListInv, TxnInv, TypeInv, TypeOK, UndoInv
<1>2. \A i \in DOMAIN accesses[t] : i \in Nat /\ 0 < i
  BY <1>1, EntryType
<1>3. CASE Execute(t) \/ CommitTransaction(t) \/ AcquireLock(t)
           \/ \E q \in Indexed : \E type \in {"READ_ONLY", "READ_WRITE"} :
                SelectRecordCC(t, q, type)
  <2>1. /\ pc[t] \in {"idle", "exec", "acquire"} /\ ~Committed(t)'
        /\ UNCHANGED <<word, visible, accesses, finished>>
    <3>1. CASE AcquireLock(t)
      <4>1. pc' = [pc EXCEPT ![t] = "wait"] \/ pc' = [pc EXCEPT ![t] = "undo"]
        BY <3>1 DEF AcquireLock, Wait, Own, Die
      <4> QED
        BY <1>1, <3>1, <4>1 DEF AcquireLock, Committed, content, txn
    <3>2. CASE ~AcquireLock(t)
      BY <1>1, <1>3, <3>2
         DEF Execute, CommitTransaction, SelectRecordCC, content, txn, Committed
    <3> QED
      BY <3>1, <3>2
  <2>2. finished[t] = 0 /\ ~Committed(t)
    BY <1>1, <2>1 DEF FinishedLater, Committed
  <2>3. \A i : Open(t, i)' <=> Open(t, i)
    BY <1>2, <2>1, <2>2 DEF Open
  <2>4. \A i : /\ Updating(t, i, r)' <=> Updating(t, i, r)
               /\ Inserting(t, i, r)' <=> Inserting(t, i, r)
    BY <2>1, <2>3 DEF Updating, Inserting
  <2> QED
    BY <2>1, <2>4, OwnFrame
<1>4. ASSUME word' = word, visible' = visible,
             \A i : ~Updating(t, i, r) /\ ~Inserting(t, i, r),
             \A i : ~Updating(t, i, r)' /\ ~Inserting(t, i, r)'
      PROVE  Goal
  BY <1>4, OwnFrame
<1>5. CASE SetTimestamp(t) \/ EndStamp(t) \/ ReturnCommitted(t) \/ ReturnAborted(t)
  <2>1. word' = word /\ visible' = visible
    BY <1>5 DEF SetTimestamp, EndStamp, ReturnCommitted, ReturnAborted, content
  <2>2. Committed(t) \/ (pc[t] = "undo" /\ finished[t] = Len(accesses[t]))
    BY <1>5 DEF SetTimestamp, EndStamp, ReturnCommitted, ReturnAborted, Committed
  <2>3. Committed(t)' \/ DOMAIN accesses'[t] = {}
    <3>1. CASE SetTimestamp(t) \/ EndStamp(t)
      BY <1>1, <3>1 DEF SetTimestamp, EndStamp, Committed
    <3>2. CASE ReturnCommitted(t) \/ ReturnAborted(t)
      <4>1. accesses'[t] = <<>>
        BY <1>1, <3>2 DEF ReturnCommitted, ReturnAborted, ClearAccess
      <4> QED
        BY <4>1
    <3> QED
      BY <1>5, <3>1, <3>2
  <2>4. \A i : ~Open(t, i) /\ ~Open(t, i)'
    BY <1>1, <2>2, <2>3, NoneOpen DEF Open
  <2> QED
    BY <1>4, <2>1, <2>4 DEF Updating, Inserting
<1>6. CASE GetMonotoneTimestamp(t)
  <2>1. /\ word' = word /\ visible' = visible /\ accesses' = accesses
    BY <1>6 DEF GetMonotoneTimestamp, content
  <2>2. \A i \in DOMAIN accesses[t] : accesses[t][i].record # r
    BY <1>6 DEF Accessed, Entries
  <2> QED
    BY <1>4, <2>1, <2>2 DEF Updating, Inserting, Open
<1>7. ASSUME NEW q \in Fresh, InsertRecord(t, q) PROVE Goal
  <2> DEFINE n == Len(accesses[t]) + 1
  <2>1. /\ pc[t] = "exec" /\ pc' = pc /\ word' = word /\ ~visible[q]
        /\ visible' = [visible EXCEPT ![q] = TRUE] /\ q \notin Accessed(t)
    BY <1>7 DEF InsertRecord
  <2>2. /\ DOMAIN accesses'[t] = DOMAIN accesses[t] \cup {n}
        /\ n \notin DOMAIN accesses[t]
        /\ accesses'[t][n] = [record |-> q, type |-> "INSERT_ONLY",
                              ts |-> ZeroTs, seen |-> Unread, new |-> Kept]
        /\ \A i \in DOMAIN accesses[t] : accesses'[t][i] = accesses[t][i]
    BY <1>1, <1>7, EntryInserted
  <2>3. accesses'[t][n].record = q /\ accesses'[t][n].type = "INSERT_ONLY"
    BY <2>2
  <2>4. /\ ~Committed(t) /\ ~Committed(t)' /\ pc[t] # "undo"
    BY <2>1 DEF Committed
  <2>5. \A i : Updating(t, i, r)' <=> Updating(t, i, r)
    BY <2>1, <2>2, <2>3, <2>4 DEF Updating, Open
  <2>6. \A i : Inserting(t, i, r)' <=> Inserting(t, i, r) \/ (i = n /\ r = q)
    BY <2>1, <2>2, <2>3, <2>4 DEF Inserting, Open
  <2>7. \A i : Updating(t, i, r) => accesses'[t][i] = accesses[t][i]
    BY <2>2 DEF Updating, Open
  <2>8. CASE r # q
    BY <1>1, <2>1, <2>5, <2>6, <2>7, <2>8, OwnFrame
  <2>9. CASE r = q
    <3>1. ~OwnLive(t, r)
      BY <2>1, <2>9 DEF OwnLive
    <3>2. ~OwnLive(t, r)'
      BY <2>2, <2>6, <2>9 DEF OwnLive
    <3>3. \A i : ~Updating(t, i, r)
      BY <2>1, <2>9 DEF Updating, Open, Accessed, Entries
    <3>4. ASSUME NEW v, OwnValue(t, r, v) PROVE OwnValue(t, r, v)'
      BY <2>1, <2>5, <3>3, <3>4 DEF OwnValue
    <3>5. OwnLive(t, r)' = OwnLive(t, r)
      BY <3>1, <3>2 DEF OwnLive
    <3> QED
      BY <3>4, <3>5
  <2> QED
    BY <2>8, <2>9
<1>8. CASE NewAccess(t)
  <2> DEFINE n == Len(accesses[t]) + 1
             q == request[t].record
  <2>1. /\ pc[t] = "wait" /\ pc'[t] = "exec" /\ word' = word /\ visible' = visible
    BY <1>1, <1>8 DEF NewAccess, content
  <2>2. /\ request[t] \in Request
        /\ DOMAIN accesses'[t] = DOMAIN accesses[t] \cup {n}
        /\ n \notin DOMAIN accesses[t]
        /\ accesses'[t][n].record = q /\ accesses'[t][n].type = request[t].type
        /\ accesses'[t][n].seen = IF request[t].type = "READ_WRITE"
                                  THEN word[q] ELSE Unread
        /\ \A i \in DOMAIN accesses[t] : accesses'[t][i] = accesses[t][i]
    BY <1>1, <1>8, EntryGranted
  <2>3. accesses'[t][n].type \in {"READ_ONLY", "READ_WRITE"}
    BY <2>2 DEF Request
  <2>4. ~Committed(t) /\ ~Committed(t)' /\ pc[t] # "undo" /\ pc'[t] # "undo"
    BY <2>1 DEF Committed
  <2>5. \A i : Inserting(t, i, r)' <=> Inserting(t, i, r)
    BY <2>2, <2>3, <2>4 DEF Inserting, Open
  <2>6. \A i : Updating(t, i, r)' <=>
                 \/ Updating(t, i, r)
                 \/ i = n /\ r = q /\ request[t].type = "READ_WRITE"
    BY <2>2, <2>4 DEF Updating, Open
  <2>7. \A i : Updating(t, i, r) => accesses'[t][i] = accesses[t][i]
    BY <2>2 DEF Updating, Open
  <2>8. CASE r # q \/ request[t].type # "READ_WRITE"
    BY <2>1, <2>5, <2>6, <2>7, <2>8, OwnFrame
  <2>9. CASE r = q /\ request[t].type = "READ_WRITE"
    <3>1. \A i : ~Updating(t, i, r)
      BY <1>1, <2>1, <2>9 DEF RequestedOnce, Updating, Open
    <3>2. ASSUME NEW v, OwnValue(t, r, v) PROVE OwnValue(t, r, v)'
      <4>1. word[r] = v
        BY <3>1, <3>2 DEF OwnValue
      <4>2. ASSUME NEW m, m = n PROVE m \in DOMAIN accesses'[t] /\ Updating(t, m, r)'
        BY <2>2, <2>6, <2>9, <4>2
      <4>3. accesses'[t][n].seen = v
        BY <2>2, <2>9, <4>1
      <4> QED
        BY <2>2, <2>6, <3>1, <4>2, <4>3 DEF OwnValue
    <3>3. OwnLive(t, r)' = OwnLive(t, r)
      <4>1. \A i : Inserting(t, i, r) => i \in DOMAIN accesses[t]
        BY DEF Inserting, Open
      <4> QED
        BY <2>1, <2>2, <2>5, <4>1 DEF OwnLive
    <3> QED
      BY <3>2, <3>3
  <2> QED
    BY <2>8, <2>9
<1>9. CASE ReadRecord(t)
  <2>1. /\ pc' = pc /\ finished' = finished /\ word' = word /\ visible' = visible
    BY <1>9 DEF ReadRecord, content
  <2>2. /\ DOMAIN accesses'[t] = DOMAIN accesses[t]
        /\ \A j \in DOMAIN accesses[t] :
             /\ accesses'[t][j].record = accesses[t][j].record
             /\ accesses'[t][j].type = accesses[t][j].type
             /\ \/ accesses'[t][j].seen = accesses[t][j].seen
                \/ accesses[t][j].type = "READ_ONLY"
    BY <1>1, <1>9, EntryRead
  <2>3. \A i : Open(t, i)' <=> Open(t, i)
    BY <2>1, <2>2 DEF Open, Committed
  <2>4. \A i : Open(t, i) => i \in DOMAIN accesses[t]
    BY DEF Open
  <2>5. \A i : /\ Updating(t, i, r)' <=> Updating(t, i, r)
               /\ Inserting(t, i, r)' <=> Inserting(t, i, r)
               /\ Updating(t, i, r) => accesses'[t][i].seen = accesses[t][i].seen
    BY <2>2, <2>3, <2>4 DEF Updating, Inserting
  <2> QED
    BY <2>1, <2>5, OwnFrame
<1>10. CASE UpdateRecord(t)
  <2>1. /\ pc[t] = "exec" /\ pc' = pc /\ finished' = finished
        /\ visible' = visible
    BY <1>10 DEF UpdateRecord
  <2>2. PICK j \in DOMAIN accesses[t] :
          /\ accesses[t][j].type = "READ_WRITE"
          /\ word' = [word EXCEPT ![accesses[t][j].record] = Name(t)]
          /\ DOMAIN accesses'[t] = DOMAIN accesses[t]
          /\ \A k \in DOMAIN accesses[t] :
               /\ accesses'[t][k].record = accesses[t][k].record
               /\ accesses'[t][k].type = accesses[t][k].type
               /\ accesses'[t][k].seen = accesses[t][k].seen
    BY <1>1, <1>10, EntryUpdated
  <2>3. \A i : Open(t, i)' <=> Open(t, i)
    BY <2>1, <2>2 DEF Open, Committed
  <2>4. \A i : Open(t, i) => i \in DOMAIN accesses[t]
    BY DEF Open
  <2>5. \A i : /\ Updating(t, i, r)' <=> Updating(t, i, r)
               /\ Inserting(t, i, r)' <=> Inserting(t, i, r)
               /\ Updating(t, i, r) => accesses'[t][i].seen = accesses[t][i].seen
    BY <2>2, <2>3, <2>4 DEF Updating, Inserting
  <2>6. CASE accesses[t][j].record # r
    <3>1. word'[r] = word[r]
      BY <1>1, <2>2, <2>6
    <3> QED
      BY <2>1, <2>5, <3>1, OwnFrame
  <2>7. CASE accesses[t][j].record = r
    <3>1. Updating(t, j, r)
      BY <2>1, <2>2, <2>7 DEF Updating, Open, Committed
    <3>2. ASSUME NEW v, OwnValue(t, r, v) PROVE OwnValue(t, r, v)'
      BY <2>2, <2>5, <3>1, <3>2 DEF OwnValue
    <3>3. OwnLive(t, r)' = OwnLive(t, r)
      BY <2>1, <2>2, <2>5 DEF OwnLive
    <3> QED
      BY <3>2, <3>3
  <2> QED
    BY <2>6, <2>7
<1>11. CASE Restore(t)
  <2> DEFINE j == finished[t] + 1
             e == accesses[t][j]
  <2>1. /\ Open(t, j) /\ e \in Entry
        /\ word' = IF e.type = "READ_WRITE"
                   THEN [word EXCEPT ![e.record] = e.seen] ELSE word
        /\ visible' = IF e.type = "INSERT_ONLY"
                      THEN [visible EXCEPT ![e.record] = FALSE] ELSE visible
        /\ pc' = pc /\ accesses' = accesses /\ finished' = finished
    BY <1>1, <1>11, Restoring
  <2>2. \A i : /\ Updating(t, i, r)' <=> Updating(t, i, r)
               /\ Inserting(t, i, r)' <=> Inserting(t, i, r)
               /\ accesses'[t][i].seen = accesses[t][i].seen
    BY <2>1 DEF Updating, Inserting, Open, Committed
  <2>3. CASE word'[r] = word[r] /\ visible'[r] = visible[r]
    BY <2>2, <2>3, OwnFrame
  <2>4. j \in DOMAIN accesses[t] /\ e.record \in Record
    BY <2>1 DEF Open, Entry
  <2>5. CASE e.record = r /\ e.type = "READ_WRITE"
    <3>1. Updating(t, j, r) /\ visible' = visible
      BY <2>1, <2>5 DEF Updating
    <3>2. ASSUME NEW v, OwnValue(t, r, v) PROVE OwnValue(t, r, v)'
      BY <2>1, <2>2, <2>4, <3>1, <3>2 DEF OwnValue
    <3>3. OwnLive(t, r)' = OwnLive(t, r)
      BY <2>1, <2>2, <3>1 DEF OwnLive
    <3> QED
      BY <3>2, <3>3
  <2>6. CASE e.record = r /\ e.type = "INSERT_ONLY"
    <3>1. Inserting(t, j, r) /\ word' = word
      BY <2>1, <2>6 DEF Inserting
    <3>2. ASSUME NEW v, OwnValue(t, r, v) PROVE OwnValue(t, r, v)'
      BY <2>1, <2>2, <3>1, <3>2 DEF OwnValue
    <3>3. OwnLive(t, r)' = OwnLive(t, r)
      BY <2>1, <2>2, <2>4, <3>1 DEF OwnLive
    <3> QED
      BY <3>2, <3>3
  <2>7. CASE e.record # r \/ e.type = "READ_ONLY"
    <3>1. word'[r] = word[r] /\ visible'[r] = visible[r]
      BY <1>1, <2>1, <2>4, <2>7
    <3> QED
      BY <2>3, <3>1
  <2>8. e.type \in {"READ_ONLY", "READ_WRITE", "INSERT_ONLY"}
    BY <2>1 DEF Entry
  <2> QED
    BY <2>5, <2>6, <2>7, <2>8
<1>12. CASE ReleaseLock(t)
  <2>1. /\ pc' = pc /\ accesses' = accesses /\ word' = word
        /\ visible' = visible /\ pc[t] \in {"release", "undo"}
        /\ finished'[t] = finished[t] + 1
        /\ finished[t] < Len(accesses[t]) /\ (pc[t] = "undo" => restored[t])
    BY <1>1, <1>12 DEF ReleaseLock, content
  <2>2. CASE pc[t] = "release"
    <3>1. Committed(t) /\ Committed(t)'
      BY <2>1, <2>2 DEF Committed
    <3> QED
      BY <1>4, <2>1, <3>1 DEF Updating, Inserting, Open
  <2>3. CASE pc[t] = "undo"
    <3> DEFINE j == finished[t] + 1
               e == accesses[t][j]
    <3>1. j \in DOMAIN accesses[t] /\ Undone(t, j) /\ finished[t] < j
      <4>1. Len(accesses[t]) \in Nat /\ DOMAIN accesses[t] = 1..Len(accesses[t])
        BY <1>1, LenProperties
      <4> QED
        BY <1>1, <2>1, <2>3, <4>1 DEF Undone
    <3>2. Open(t, j)
      BY <2>3, <3>1 DEF Open, Committed
    <3>3. EntryAgrees(t, j) /\ e.type \in {"READ_ONLY", "READ_WRITE", "INSERT_ONLY"}
      BY <1>1, <3>1, <3>2, EntryType DEF EntriesAgree, Entry
    <3>4. \A i : Open(t, i)' <=> Open(t, i) /\ i # j
      <4>1. ASSUME NEW i \in DOMAIN accesses[t]
            PROVE  finished[t] + 1 < i <=> finished[t] < i /\ i # finished[t] + 1
        BY <1>1, <1>2
      <4> QED
        BY <1>1, <2>1, <2>3, <4>1 DEF Open, Committed
    <3>5. \A i : /\ Updating(t, i, r)' <=> Updating(t, i, r) /\ i # j
                 /\ Inserting(t, i, r)' <=> Inserting(t, i, r) /\ i # j
                 /\ accesses'[t][i].seen = accesses[t][i].seen
      BY <2>1, <3>4 DEF Updating, Inserting
    <3>6. CASE ~Updating(t, j, r) /\ ~Inserting(t, j, r)
      BY <2>1, <3>5, <3>6, OwnFrame
    <3>7. ASSUME e.record = r, NEW i, Updating(t, i, r) \/ Inserting(t, i, r)
          PROVE  i = j
      BY <1>1, <3>1, <3>7 DEF Updating, Inserting, Open, AccessedOnce
    <3>8. CASE Updating(t, j, r)
      <4>1. e.record = r /\ e.type = "READ_WRITE"
        BY <3>8 DEF Updating
      <4>2. \A i : ~Updating(t, i, r)' /\ ~Inserting(t, i, r)
        BY <3>5, <3>7, <4>1 DEF Inserting
      <4>3. ASSUME NEW v, OwnValue(t, r, v) PROVE OwnValue(t, r, v)'
        <5>1. word[r] = v
          BY <3>1, <3>3, <3>8, <4>1, <4>3 DEF OwnValue, EntryAgrees
        <5> QED
          BY <2>1, <4>2, <5>1 DEF OwnValue
      <4>4. OwnLive(t, r)' = OwnLive(t, r)
        BY <2>1, <3>5, <4>2 DEF OwnLive
      <4> QED
        BY <4>3, <4>4
    <3>9. CASE Inserting(t, j, r)
      <4>1. e.record = r /\ e.type = "INSERT_ONLY"
        BY <3>9 DEF Inserting
      <4>2. ~visible[r]
        BY <3>1, <3>3, <4>1 DEF EntryAgrees
      <4>3. OwnLive(t, r)' = OwnLive(t, r)
        BY <2>1, <4>2 DEF OwnLive
      <4>4. \A i : ~Updating(t, i, r)
        BY <3>7, <4>1 DEF Updating
      <4>5. ASSUME NEW v, OwnValue(t, r, v) PROVE OwnValue(t, r, v)'
        BY <2>1, <3>5, <4>4, <4>5 DEF OwnValue
      <4> QED
        BY <4>3, <4>5
    <3> QED
      BY <3>6, <3>8, <3>9
  <2> QED
    BY <2>1, <2>2, <2>3
<1> QED
  BY <1>3, <1>5, <1>6, <1>7, <1>8, <1>9, <1>10, <1>11, <1>12, LockWaitConstants
     DEF Step, Select, LockWaitConstants

-----------------------------------------------------------------------------
(***************************************************************************)
(* What a committed transaction has seen and written, entry by entry.      *)
(***************************************************************************)
OutcomeCases(t) ==
  Committed(t) =>
    /\ \A i \in DOMAIN accesses[t] :
         LET e == accesses[t][i]
         IN  /\ SerialOutcome(t).seen[e.record]["data"] = e.seen
             /\ SerialOutcome(t).wrote[e.record] =
                  [value |-> e.new,
                   live  |-> IF e.type = "INSERT_ONLY" THEN TRUE ELSE Kept]
    /\ \A r \in Record : r \notin Accessed(t) =>
         /\ SerialOutcome(t).seen[r]["data"] = Unread
         /\ SerialOutcome(t).wrote[r] = [value |-> Kept, live |-> Kept]
    /\ SerialOutcome(t) \in Serial!Txn

(***************************************************************************)
(* The CHOOSE of SerialOutcome has one candidate at most, since no record  *)
(* has two entries.                                                        *)
(***************************************************************************)
LEMMA SerialOutcomeCases == ListInv => \A t \in Thread : OutcomeCases(t)
<1> SUFFICES ASSUME ListInv, NEW t \in Thread, Committed(t) PROVE OutcomeCases(t)
  BY DEF OutcomeCases
<1> DEFINE of(r)    == {e \in Entries(t) : e.record = r}
           seen(r)  == IF of(r) = {} THEN Unread
                       ELSE (CHOOSE e \in of(r) : TRUE).seen
           value(r) == IF of(r) = {} THEN Kept
                       ELSE (CHOOSE e \in of(r) : TRUE).new
           live(r)  == IF \E e \in of(r) : e.type = "INSERT_ONLY" THEN TRUE
                       ELSE Kept
<1>1. TypeOK /\ AccessedOnce
  BY DEF ListInv, TxnInv, TypeInv
<1>2. SerialOutcome(t) =
        [seen  |-> [r \in Record |-> [c \in {"data"} |-> seen(r)]],
         wrote |-> [r \in Record |-> [value |-> value(r), live |-> live(r)]]]
  BY DEF SerialOutcome
<1>3. ASSUME NEW i \in DOMAIN accesses[t], NEW e, e = accesses[t][i]
      PROVE  of(e.record) = {e}
  <2>1. \A d : d \in of(e.record) <=>
                 \E j \in DOMAIN accesses[t] :
                   d = accesses[t][j] /\ accesses[t][j].record = e.record
    BY DEF Entries
  <2>2. \A j \in DOMAIN accesses[t] : accesses[t][j].record = e.record => j = i
    BY <1>1, <1>3 DEF AccessedOnce
  <2> HIDE DEF of
  <2> QED
    BY <1>3, <2>1, <2>2
<1>4. ASSUME NEW r, r \notin Accessed(t) PROVE of(r) = {}
  BY <1>4 DEF Accessed
<1>5. ASSUME NEW r \in Accessed(t)
      PROVE  \E i \in DOMAIN accesses[t] : accesses[t][i].record = r
  BY DEF Accessed, Entries
<1> HIDE DEF of
<1>6. ASSUME NEW i \in DOMAIN accesses[t], NEW e, e = accesses[t][i]
      PROVE  /\ seen(e.record) = e.seen /\ value(e.record) = e.new
             /\ live(e.record) = IF e.type = "INSERT_ONLY" THEN TRUE ELSE Kept
             /\ e \in Entry
  <2>1. of(e.record) = {e} /\ e \in Entry
    BY <1>1, <1>3, <1>6, EntryType
  <2>2. of(e.record) # {} /\ (CHOOSE d \in of(e.record) : TRUE) = e
    BY <2>1
  <2> QED
    BY <2>1, <2>2
<1>7. ASSUME NEW r, r \notin Accessed(t)
      PROVE  seen(r) = Unread /\ value(r) = Kept /\ live(r) = Kept
  BY <1>4, <1>7
<1> HIDE DEF seen, value, live
<1>8. ASSUME NEW i \in DOMAIN accesses[t], NEW e, e = accesses[t][i]
      PROVE  /\ SerialOutcome(t).seen[e.record]["data"] = e.seen
             /\ SerialOutcome(t).wrote[e.record] =
                  [value |-> e.new,
                   live  |-> IF e.type = "INSERT_ONLY" THEN TRUE ELSE Kept]
  <2>1. /\ seen(e.record) = e.seen /\ value(e.record) = e.new
        /\ live(e.record) = IF e.type = "INSERT_ONLY" THEN TRUE ELSE Kept
        /\ e \in Entry
    BY <1>6, <1>8
  <2>2. e.record \in Record
    BY <2>1 DEF Entry
  <2>3. ASSUME NEW r \in Record
        PROVE  /\ SerialOutcome(t).seen[r]["data"] = seen(r)
               /\ SerialOutcome(t).wrote[r] = [value |-> value(r), live |-> live(r)]
    BY <1>2
  <2> QED
    BY <2>1, <2>2, <2>3
<1>9. ASSUME NEW r \in Record, r \notin Accessed(t)
      PROVE  /\ SerialOutcome(t).seen[r]["data"] = Unread
             /\ SerialOutcome(t).wrote[r] = [value |-> Kept, live |-> Kept]
  BY <1>2, <1>7, <1>9
<1>10. SerialOutcome(t) \in Serial!Txn
  <2>1. ASSUME NEW r \in Record
        PROVE  /\ seen(r) \in Writer \cup {Unread}
               /\ value(r) \in Writer \cup {Kept} /\ live(r) \in BOOLEAN \cup {Kept}
    <3>1. CASE r \in Accessed(t)
      <4>1. PICK i \in DOMAIN accesses[t] : accesses[t][i].record = r
        BY <1>5, <3>1
      <4>2. /\ seen(r) = accesses[t][i].seen /\ value(r) = accesses[t][i].new
            /\ live(r) \in {TRUE, Kept} /\ accesses[t][i] \in Entry
        BY <1>6, <4>1
      <4> QED
        BY <4>2 DEF Entry
    <3>2. CASE r \notin Accessed(t)
      BY <1>7, <3>2
    <3> QED
      BY <3>1, <3>2
  <2> QED
    BY <1>2, <2>1 DEF Serial!Txn
<1> QED
  BY <1>8, <1>9, <1>10 DEF OutcomeCases

(***************************************************************************)
(* The same of the next state.                                             *)
(***************************************************************************)
LEMMA NextOutcomeCases == ListInv' => (\A t \in Thread : OutcomeCases(t))'
BY SerialOutcomeCases, PTL

(***************************************************************************)
(* The outcome of a transaction stands as long as its entries do.          *)
(***************************************************************************)
LEMMA OutcomeKept ==
  ASSUME NEW t \in Thread, Committed(t)' <=> Committed(t),
         Committed(t) => accesses'[t] = accesses[t]
  PROVE  SerialOutcome(t)' = SerialOutcome(t)
<1>1. CASE Committed(t)
  <2>1. Entries(t)' = Entries(t)
    BY <1>1 DEF Entries
  <2> QED
    BY <1>1, <2>1 DEF SerialOutcome
<1>2. CASE ~Committed(t)
  BY <1>2 DEF SerialOutcome, NoOutcome
<1> QED
  BY <1>1, <1>2

(***************************************************************************)
(* A step that changes neither records nor outcomes goes unnoticed.        *)
(***************************************************************************)
LEMMA Unnoticed ==
  ASSUME \A r \in Record : SerialRecord(r)' = SerialRecord(r),
         \A t \in Thread : SerialOutcome(t)' = SerialOutcome(t)
  PROVE  UNCHANGED Serial!vars
BY DEF Serial!vars

(***************************************************************************)
(* What t writes to r replaces the content of r.                           *)
(***************************************************************************)
Replaced(s, w) ==
  [value |-> IF w.value = Kept THEN s.value ELSE w.value,
   live  |-> IF w.live = Kept THEN s.live ELSE w.live]

(***************************************************************************)
(* A transaction that takes effect at once: a Commit of the serial store,  *)
(* or nothing at all when it has neither read nor written.                 *)
(***************************************************************************)
LEMMA TakesEffect ==
  ASSUME ListInv, UndoInv, NEW t \in Thread, ~Committed(t),
         SerialOutcome(t)' \in Serial!Txn,
         \A u \in Thread : u # t => SerialOutcome(u)' = SerialOutcome(u),
         \A r \in Record :
           SerialOutcome(t)'.seen[r]["data"] \in {Unread, SerialRecord(r).value},
         \A r \in Record : SerialRecord(r)' =
           Replaced(SerialRecord(r), SerialOutcome(t)'.wrote[r])
  PROVE  [Serial!Next]_(Serial!vars)
<1> DEFINE x == SerialOutcome(t)'
<1>0. SerialOutcome(t) = Serial!NoTxn
  BY DEF SerialOutcome, NoOutcome, Serial!NoTxn
<1>1. /\ Outcome[t] = Serial!NoTxn /\ Outcome'[t] = x
      /\ Outcome' = [Outcome EXCEPT ![t] = x]
  BY <1>0 DEF Outcome
<1>2. CASE x # Serial!NoTxn
  <2>1. Serial!Commit(t)
    BY <1>1, <1>2
       DEF Serial!Commit, Serial!Current, Serial!Overwrite, Outcome, Replaced
  <2> QED
    BY <2>1 DEF Serial!Next
<1>3. CASE x = Serial!NoTxn
  <2>1. ASSUME NEW r \in Record PROVE SerialRecord(r)' = SerialRecord(r)
    <3>1. x.wrote[r] = [value |-> Kept, live |-> Kept]
      BY <1>3 DEF Serial!NoTxn
    <3>2. SerialRecord(r)' = [value |-> SerialRecord(r).value,
                              live  |-> SerialRecord(r).live]
      BY <3>1 DEF Replaced
    <3> QED
      BY <3>2, SerialRecordCases DEF RecordCases
  <2>2. \A u \in Thread : SerialOutcome(u)' = SerialOutcome(u)
    BY <1>0, <1>3
  <2> QED
    BY <2>1, <2>2, Unnoticed
<1> QED
  BY <1>2, <1>3

(***************************************************************************)
(* The draw of the commit timestamp: all the entries of t are open and     *)
(* agree with their records, and nobody else may change these, so what t   *)
(* has seen is what the store holds, and what t leaves is what it wrote.   *)
(***************************************************************************)
LEMMA DrawCommits ==
  ASSUME ListInv, UndoInv, ListInv', UndoInv', NEW t \in Thread,
         GetMonotoneTimestamp(t)
  PROVE  [Serial!Next]_(Serial!vars)
<1>1. /\ TypeOK /\ EntriesAgree /\ Placed /\ FreshOnce
      /\ pc \in [Thread -> {"idle", "exec", "acquire", "wait", "timestamp",
                            "stamp", "release", "undo", "done"}]
  BY DEF ListInv, TxnInv, TypeInv, TypeOK, UndoInv
<1>2. /\ pc[t] = "timestamp" /\ pc'[t] = "stamp" /\ ~Committed(t) /\ Committed(t)'
      /\ word' = word /\ visible' = visible /\ accesses' = accesses
  BY <1>1 DEF GetMonotoneTimestamp, content, Committed
<1>3. \A u \in Thread : u # t => SameEntries(u)
  BY <1>1, OthersUnmoved DEF Step
<1>4. ASSUME NEW u \in Thread, u # t PROVE SerialOutcome(u)' = SerialOutcome(u)
  BY <1>3, <1>4, OutcomeKept DEF SameEntries, Committed
<1>5. ASSUME NEW i \in DOMAIN accesses[t], NEW e, e = accesses[t][i],
             NEW r, r = e.record
      PROVE  /\ e.seen \in {Unread, SerialRecord(r).value}
             /\ SerialRecord(r)' =
                  [value |-> IF e.new = Kept THEN SerialRecord(r).value ELSE e.new,
                   live  |-> IF e.type = "INSERT_ONLY" THEN TRUE
                             ELSE SerialRecord(r).live]
  <2>1. Open(t, i) /\ ~Undone(t, i)
    BY <1>2 DEF Open, Undone
  <2>2. EntryAgrees(t, i)
    BY <1>1, <2>1 DEF EntriesAgree
  <2>3. /\ e \in Entry /\ r \in Record
        /\ e.type \in {"READ_ONLY", "READ_WRITE", "INSERT_ONLY"}
    BY <1>1, <1>5, EntryType DEF Entry
  <2>4. ASSUME NEW u \in Thread, NEW j, Updating(u, j, r) \/ Inserting(u, j, r)
        PROVE  u = t /\ j = i
    BY <1>1, <1>5, <2>1, <2>4, Alone DEF Updating, Inserting
  <2>5. ASSUME NEW u \in Thread, NEW j PROVE ~Updating(u, j, r)' /\ ~Inserting(u, j, r)'
    <3>1. CASE u = t
      BY <1>2, <3>1 DEF Updating, Inserting, Open
    <3>2. CASE u # t
      <4>1. Open(u, j)' = Open(u, j) /\ accesses'[u] = accesses[u]
        BY <1>3, <3>2, OpenKept DEF SameEntries
      <4> QED
        BY <2>4, <3>2, <4>1 DEF Updating, Inserting
    <3> QED
      BY <3>1, <3>2
  <2>6. RecordCases(r) /\ RecordCases(r)' /\ visible[r] \in BOOLEAN
    BY <2>3, SerialRecordCases, NextRecordCases DEF ListInv, TxnInv, TypeInv, TypeOK
  <2>7. /\ SerialRecord(r)'.value = word[r] /\ SerialRecord(r)'.live = visible[r]
        /\ SerialRecord(r)' = [value |-> SerialRecord(r)'.value,
                               live  |-> SerialRecord(r)'.live]
    BY <1>2, <2>5, <2>6 DEF RecordCases
  <2>8. CASE e.type = "READ_ONLY"
    <3>1. \A u \in Thread : \A j : ~Updating(u, j, r) /\ ~Inserting(u, j, r)
      BY <1>5, <2>4, <2>8 DEF Updating, Inserting
    <3>2. SerialRecord(r).value = word[r] /\ SerialRecord(r).live = visible[r]
      BY <2>6, <3>1 DEF RecordCases
    <3>3. e.new = Kept /\ e.seen \in {Unread, word[r]}
      BY <1>5, <2>2, <2>8 DEF EntryAgrees
    <3> QED
      BY <2>7, <2>8, <3>2, <3>3
  <2>9. CASE e.type = "READ_WRITE"
    <3>1. Updating(t, i, r) /\ \A u \in Thread : \A j : ~Inserting(u, j, r)
      BY <1>5, <2>1, <2>4, <2>9 DEF Updating, Inserting
    <3>2. SerialRecord(r).value = e.seen /\ SerialRecord(r).live = visible[r]
      BY <1>5, <2>6, <3>1 DEF RecordCases
    <3>3. word[r] = IF e.new = Kept THEN e.seen ELSE e.new
      BY <1>5, <2>1, <2>2, <2>9 DEF EntryAgrees
    <3> QED
      BY <2>7, <2>9, <3>2, <3>3
  <2>10. CASE e.type = "INSERT_ONLY"
    <3>1. \A u \in Thread : \A j : ~Updating(u, j, r)
      BY <1>5, <2>4, <2>10 DEF Updating
    <3>2. SerialRecord(r).value = word[r]
      BY <2>6, <3>1 DEF RecordCases
    <3>3. e.seen = Unread /\ visible[r] = TRUE /\ e.new = Kept
      BY <1>5, <2>1, <2>2, <2>10 DEF EntryAgrees
    <3> QED
      BY <2>7, <2>10, <3>2, <3>3
  <2> QED
    BY <2>3, <2>8, <2>9, <2>10
<1>6. OutcomeCases(t)'
  BY NextOutcomeCases
<1>7. ASSUME NEW r \in Record
      PROVE  /\ SerialOutcome(t)'.seen[r]["data"] \in {Unread, SerialRecord(r).value}
             /\ SerialRecord(r)' =
                  Replaced(SerialRecord(r), SerialOutcome(t)'.wrote[r])
  <2>1. CASE r \in Accessed(t)
    <3>1. PICK i \in DOMAIN accesses[t] : accesses[t][i].record = r
      BY <2>1 DEF Accessed, Entries
    <3>2. /\ SerialOutcome(t)'.seen[r]["data"] = accesses[t][i].seen
          /\ SerialOutcome(t)'.wrote[r] =
               [value |-> accesses[t][i].new,
                live  |-> IF accesses[t][i].type = "INSERT_ONLY" THEN TRUE
                          ELSE Kept]
      BY <1>2, <1>6, <3>1 DEF OutcomeCases
    <3>3. TRUE # Kept
      BY LockWaitConstants DEF LockWaitConstants
    <3>4. /\ accesses[t][i].seen \in {Unread, SerialRecord(r).value}
          /\ SerialRecord(r)' =
               [value |-> IF accesses[t][i].new = Kept THEN SerialRecord(r).value
                          ELSE accesses[t][i].new,
                live  |-> IF accesses[t][i].type = "INSERT_ONLY" THEN TRUE
                          ELSE SerialRecord(r).live]
      BY <1>5, <3>1
    <3>5. ASSUME NEW e, e = accesses[t][i], NEW s, s = SerialRecord(r),
                 NEW w, w = SerialOutcome(t)'.wrote[r]
          PROVE  SerialRecord(r)' = Replaced(s, w)
      <4>1. /\ w.value = e.new
            /\ w.live = IF e.type = "INSERT_ONLY" THEN TRUE ELSE Kept
        BY <3>2, <3>5
      <4>2. SerialRecord(r)' =
              [value |-> IF e.new = Kept THEN s.value ELSE e.new,
               live  |-> IF e.type = "INSERT_ONLY" THEN TRUE ELSE s.live]
        BY <3>4, <3>5
      <4> QED
        BY <3>3, <4>1, <4>2 DEF Replaced
    <3> QED
      BY <3>2, <3>4, <3>5
  <2>2. CASE r \notin Accessed(t)
    <3>1. SerialRecord(r)' = SerialRecord(r)
      BY <1>3, <2>2, OwnKept, RecordKept DEF Step
    <3>2. Accessed(t)' = Accessed(t)
      BY <1>2 DEF Accessed, Entries
    <3>3. /\ SerialOutcome(t)'.seen[r]["data"] = Unread
          /\ SerialOutcome(t)'.wrote[r] = [value |-> Kept, live |-> Kept]
      BY <1>2, <1>6, <2>2, <3>2 DEF OutcomeCases
    <3>4. SerialRecord(r) = [value |-> SerialRecord(r).value,
                             live  |-> SerialRecord(r).live]
      BY SerialRecordCases DEF RecordCases
    <3> QED
      BY <3>1, <3>3, <3>4 DEF Replaced
  <2> QED
    BY <2>1, <2>2
<1>8. SerialOutcome(t)' \in Serial!Txn
  BY <1>2, <1>6 DEF OutcomeCases
<1> QED
  BY <1>2, <1>4, <1>7, <1>8, TakesEffect

(***************************************************************************)
(* Every other step of t leaves the store alone...                         *)
(***************************************************************************)
LEMMA StoreKept ==
  ASSUME ListInv, UndoInv, ListInv', UndoInv', NEW t \in Thread, Step(t),
         ~GetMonotoneTimestamp(t)
  PROVE  /\ \A r \in Record : SerialRecord(r)' = SerialRecord(r)
         /\ \A u \in Thread : u # t => SerialOutcome(u)' = SerialOutcome(u)
<1>1. \A u \in Thread : u # t => SameEntries(u)
  BY OthersUnmoved DEF ListInv, TxnInv, TypeInv
<1>2. ASSUME NEW r \in Record PROVE SerialRecord(r)' = SerialRecord(r)
  BY <1>1, OwnKept, RecordKept
<1>3. ASSUME NEW u \in Thread, u # t PROVE SerialOutcome(u)' = SerialOutcome(u)
  BY <1>1, <1>3, OutcomeKept DEF SameEntries, Committed
<1> QED
  BY <1>2, <1>3

(***************************************************************************)
(* ... and its own outcome too, unless it returns after a commit.          *)
(***************************************************************************)
LEMMA OwnOutcomeKept ==
  ASSUME ListInv, NEW t \in Thread, Step(t), ~GetMonotoneTimestamp(t),
         ~ReturnCommitted(t)
  PROVE  SerialOutcome(t)' = SerialOutcome(t)
<1>1. /\ pc \in [Thread -> {"idle", "exec", "acquire", "wait", "timestamp",
                            "stamp", "release", "undo", "done"}]
  BY DEF ListInv, TxnInv, TypeInv, TypeOK
<1>2. CASE AcquireLock(t)
  <2>1. pc' = [pc EXCEPT ![t] = "wait"] \/ pc' = [pc EXCEPT ![t] = "undo"]
    BY <1>2 DEF AcquireLock, Wait, Own, Die
  <2>2. ~Committed(t) /\ ~Committed(t)'
    BY <1>1, <1>2, <2>1 DEF AcquireLock, Committed
  <2> QED
    BY <2>2, OutcomeKept
<1>3. CASE \/ Execute(t) \/ NewAccess(t) \/ ReadRecord(t) \/ UpdateRecord(t)
           \/ CommitTransaction(t) \/ Restore(t) \/ ReturnAborted(t)
           \/ \E r \in Fresh : InsertRecord(t, r)
           \/ \E r \in Indexed : \E type \in {"READ_ONLY", "READ_WRITE"} :
                SelectRecordCC(t, r, type)
  <2>1. ~Committed(t) /\ ~Committed(t)'
    BY <1>1, <1>3 DEF Execute, NewAccess, ReadRecord, UpdateRecord, InsertRecord,
       CommitTransaction, Restore, ReturnAborted, SelectRecordCC, Committed
  <2> QED
    BY <2>1, OutcomeKept
<1>4. CASE SetTimestamp(t) \/ EndStamp(t) \/ ReleaseLock(t)
  <2>1. (Committed(t)' <=> Committed(t)) /\ accesses' = accesses
    BY <1>1, <1>4 DEF SetTimestamp, EndStamp, ReleaseLock, Committed
  <2> QED
    BY <2>1, OutcomeKept
<1> QED
  BY <1>2, <1>3, <1>4, LockWaitConstants DEF Step, Select, LockWaitConstants

(***************************************************************************)
(* The executor counts a committed transaction: it leaves.                 *)
(***************************************************************************)
LEMMA ReturnLeaves ==
  ASSUME ListInv, UndoInv, ListInv', UndoInv', NEW t \in Thread,
         ReturnCommitted(t)
  PROVE  [Serial!Next]_(Serial!vars)
<1>1. pc[t] = "release" /\ pc'[t] \in {"done", "idle"}
  <2>1. pc \in [Thread -> {"idle", "exec", "acquire", "wait", "timestamp",
                           "stamp", "release", "undo", "done"}]
    BY DEF ListInv, TxnInv, TypeInv, TypeOK
  <2> QED
    BY <2>1 DEF ReturnCommitted
<1>2. Step(t) /\ ~GetMonotoneTimestamp(t)
  BY <1>1 DEF Step, GetMonotoneTimestamp
<1>3. /\ \A r \in Record : SerialRecord(r)' = SerialRecord(r)
      /\ \A u \in Thread : u # t => SerialOutcome(u)' = SerialOutcome(u)
  BY <1>2, StoreKept
<1>4. SerialOutcome(t)' = Serial!NoTxn
  BY <1>1 DEF SerialOutcome, Committed, NoOutcome, Serial!NoTxn
<1>5. CASE SerialOutcome(t) = Serial!NoTxn
  BY <1>3, <1>4, <1>5, Unnoticed
<1>6. CASE SerialOutcome(t) # Serial!NoTxn
  <2>1. /\ Outcome[t] # Serial!NoTxn
        /\ Outcome' = [Outcome EXCEPT ![t] = Serial!NoTxn]
    BY <1>3, <1>4, <1>6 DEF Outcome
  <2>2. Store' = Store
    BY <1>3 DEF Store
  <2>3. Serial!Leave(t)
    BY <2>1, <2>2 DEF Serial!Leave, Outcome, Store
  <2> QED
    BY <2>3 DEF Serial!Next
<1> QED
  BY <1>5, <1>6

-----------------------------------------------------------------------------
(***************************************************************************)
(* The initial store is the serial one: the indexed records are live, and  *)
(* no transaction has committed.                                           *)
(***************************************************************************)
LEMMA InitSerial == Init => Serial!Init
<1> SUFFICES ASSUME Init PROVE Serial!Init
  OBVIOUS
<1>1. ASSUME NEW r \in Record
      PROVE  SerialRecord(r) = [value |-> Loader, live |-> r \notin Fresh]
  <2>1. \A t \in Thread : DOMAIN accesses[t] = {}
    BY DEF Init
  <2>2. Pending(r) = {}
    BY <2>1 DEF Pending, Undoable
  <2>3. word[r] = Loader /\ visible[r] = (r \notin Fresh)
    BY LockWaitConstants DEF LockWaitConstants, Init, Record
  <2> QED
    BY <2>2, <2>3 DEF SerialRecord
<1>2. \A t \in Thread : SerialOutcome(t) = Serial!NoTxn
  BY DEF Init, SerialOutcome, Committed, NoOutcome, Serial!NoTxn
<1> QED
  BY <1>1, <1>2 DEF Serial!Init

(***************************************************************************)
(* Every step of LockWait is a step of the serial store or goes unnoticed. *)
(***************************************************************************)
LEMMA NextSerial ==
  ASSUME ListInv, UndoInv, ListInv', UndoInv', [Next]_vars
  PROVE  [Serial!Next]_(Serial!vars)
<1>1. ASSUME NEW t \in Thread, Step(t) PROVE [Serial!Next]_(Serial!vars)
  <2>1. CASE GetMonotoneTimestamp(t)
    BY <2>1, DrawCommits
  <2>2. CASE ReturnCommitted(t)
    BY <2>2, ReturnLeaves
  <2>3. CASE ~GetMonotoneTimestamp(t) /\ ~ReturnCommitted(t)
    <3>1. /\ \A r \in Record : SerialRecord(r)' = SerialRecord(r)
          /\ \A u \in Thread : u # t => SerialOutcome(u)' = SerialOutcome(u)
      BY <1>1, <2>3, StoreKept
    <3>2. SerialOutcome(t)' = SerialOutcome(t)
      BY <1>1, <2>3, OwnOutcomeKept
    <3>3. \A u \in Thread : SerialOutcome(u)' = SerialOutcome(u)
      BY <3>1, <3>2
    <3> QED
      BY <3>1, <3>3, Unnoticed
  <2> QED
    BY <2>1, <2>2, <2>3
<1>2. CASE AdvanceEpoch \/ UNCHANGED vars
  <2>1. UNCHANGED <<word, visible, pc, accesses, finished>>
    BY <1>2 DEF AdvanceEpoch, vars, content, txn
  <2>2. \A t \in Thread : SerialOutcome(t)' = SerialOutcome(t)
    BY <2>1, OutcomeKept DEF Committed
  <2>3. ASSUME NEW r \in Record PROVE SerialRecord(r)' = SerialRecord(r)
    <3>1. \A t \in Thread : Undoable(t)' = Undoable(t)
      BY <2>1 DEF Undoable, Committed
    <3>2. Pending(r)' = Pending(r)
      BY <3>1 DEF Pending
    <3> QED
      BY <2>1, <3>2 DEF SerialRecord
  <2> QED
    BY <2>2, <2>3, Unnoticed
<1> QED
  BY <1>1, <1>2 DEF Next, Joined

(***************************************************************************)
(* Wait-die implements the serial store.  Every committed transaction is   *)
(* atomic, though it updates in place, record by record, and has undone    *)
(* other attempts before: nobody sees an update that is undone later, and  *)
(* the undoing of one transaction never takes back what another has        *)
(* committed (TxnManagerLockWait.tpp:56-180).                              *)
(***************************************************************************)
THEOREM Serializes == Spec => ImplementsSerialStore
<1>1. ListInv /\ UndoInv /\ [Next]_vars => UndoInv'
  BY NextUndo
<1>2. ListInv /\ ListInv' /\ UndoInv /\ UndoInv' /\ [Next]_vars
        => [Serial!Next]_(Serial!vars)
  BY NextSerial
<1> QED
  BY InitUndo, InitSerial, ListsInvariant, <1>1, <1>2, PTL
     DEF Spec, ImplementsSerialStore, Serial!Spec

-----------------------------------------------------------------------------
(***************************************************************************)
(* Commit timestamps.  Like those of OCC they rest on the counter: no draw *)
(* of it has reached TsSpan.                                               *)
(***************************************************************************)
NoWrap == monotone <= TsSpan

(***************************************************************************)
(* No record and no transaction has a timestamp that is still to be drawn. *)
(***************************************************************************)
ClocksAhead ==
  /\ \A r \in Record : ts[r].epoch <= epoch /\ ts[r].low < monotone
  /\ \A t \in Thread : pc[t] = "timestamp" => currEpoch[t] <= epoch
  /\ \A t \in Thread : pc[t] = "stamp" =>
       commitTs[t].epoch <= epoch /\ commitTs[t].low < monotone

(***************************************************************************)
(* An entry that t has changed and may still stamp; its record keeps the   *)
(* timestamp it had, and what t draws is no smaller.                       *)
(***************************************************************************)
Unstamped(t, i) ==
  /\ i \in DOMAIN accesses[t] /\ accesses[t][i].type # "READ_ONLY"
  /\ pc[t] \notin {"release", "undo"}
  /\ pc[t] = "stamp" => finished[t] < i

Stampable(t, i) ==
  LET e == accesses[t][i] IN
  /\ ~TsLess(ts[e.record], e.ts)
  /\ pc[t] = "timestamp" => ts[e.record].epoch <= currEpoch[t]
  /\ pc[t] = "stamp" => ~TsLess(commitTs[t], ts[e.record])

StampInv ==
  /\ ClocksAhead
  /\ NoWrap => \A t \in Thread : \A i \in DOMAIN accesses[t] :
                 Unstamped(t, i) => Stampable(t, i)

(***************************************************************************)
(* Whoever may stamp a record is alone with it: it holds the lock of the   *)
(* record, or has inserted it.                                             *)
(***************************************************************************)
LEMMA StampsAlone ==
  ASSUME ListInv, Placed, FreshOnce,
         NEW t \in Thread, NEW i, Unstamped(t, i),
         NEW u \in Thread, NEW j, Unstamped(u, j),
         accesses[t][i].record = accesses[u][j].record
  PROVE  t = u /\ i = j
<1> DEFINE r == accesses[u][j].record
<1>1. /\ TypeOK /\ AccessedOnce
      /\ \A q \in Record : RecordLists(q)
  BY DEF ListInv, TxnInv, TypeInv
<1>2. i \in DOMAIN accesses[t] /\ j \in DOMAIN accesses[u]
  BY DEF Unstamped
<1>3. /\ accesses[t][i].type \in {"READ_WRITE", "INSERT_ONLY"}
      /\ accesses[u][j].type \in {"READ_WRITE", "INSERT_ONLY"} /\ r \in Record
  BY <1>1, <1>2, EntryType DEF Entry, Unstamped
<1>4. t = u
  <2>1. CASE accesses[u][j].type = "INSERT_ONLY"
    BY <1>2, <2>1 DEF FreshOnce
  <2>2. CASE accesses[u][j].type = "READ_WRITE"
    <3>1. accesses[t][i].type = "READ_WRITE"
      BY <1>2, <1>3, <2>2, LockWaitConstants DEF Placed, LockWaitConstants
    <3>2. HoldsAs(u, r, "READ_WRITE") /\ HoldsAs(t, r, "READ_WRITE")
      BY <1>2, <2>2, <3>1 DEF HoldsAs, Unstamped
    <3>3. Holders(r) = {u} /\ Holders(r) = {t}
      BY <1>1, <1>3, <3>2 DEF RecordLists, ModeAgrees
    <3> QED
      BY <3>3
  <2> QED
    BY <1>3, <2>1, <2>2
<1> QED
  BY <1>1, <1>2, <1>4 DEF AccessedOnce

(***************************************************************************)
(* A step of t leaves the drawn epochs and timestamps of others alone, and *)
(* the clocks never run back.                                              *)
(***************************************************************************)
LEMMA StampsUnmoved ==
  ASSUME TypeOK, NEW t \in Thread, Step(t)
  PROVE  /\ epoch' = epoch /\ monotone' \in {monotone, monotone + 1}
         /\ \A u \in Thread :
              u # t => currEpoch'[u] = currEpoch[u] /\ commitTs'[u] = commitTs[u]
         /\ ~SetTimestamp(t) => ts' = ts
<1>1. /\ currEpoch \in [Thread -> Nat] /\ commitTs \in [Thread -> Timestamp]
      /\ monotone \in Nat
  BY DEF TypeOK
<1>2. CASE Execute(t) \/ CommitTransaction(t) \/ GetMonotoneTimestamp(t)
           \/ SetTimestamp(t) \/ EndStamp(t) \/ Restore(t) \/ ReleaseLock(t)
  BY <1>1, <1>2
     DEF Execute, CommitTransaction, GetMonotoneTimestamp, SetTimestamp,
         EndStamp, Restore, ReleaseLock, txn, content, clocks
<1>3. CASE ReturnCommitted(t) \/ ReturnAborted(t)
  BY <1>1, <1>3 DEF ReturnCommitted, ReturnAborted, ClearAccess, content, clocks
<1>4. CASE Select(t)
  <2>1. ASSUME DrawStartTimestamp(t) PROVE monotone' \in {monotone, monotone + 1}
    BY <2>1 DEF DrawStartTimestamp
  <2>2. ASSUME NEW r, InsertRecord(t, r)
        PROVE  UNCHANGED <<epoch, ts, currEpoch, commitTs>> /\ DrawStartTimestamp(t)
    BY <2>2 DEF InsertRecord
  <2>3. ASSUME NEW r, NEW type, SelectRecordCC(t, r, type)
        PROVE  UNCHANGED <<epoch, ts, currEpoch, commitTs>> /\ DrawStartTimestamp(t)
    BY <2>3 DEF SelectRecordCC, content
  <2>4. ASSUME AcquireLock(t) \/ NewAccess(t) \/ ReadRecord(t) \/ UpdateRecord(t)
        PROVE  UNCHANGED <<epoch, monotone, ts, currEpoch, commitTs>>
    BY <2>4 DEF AcquireLock, NewAccess, ReadRecord, UpdateRecord, txn, content,
       clocks
  <2> QED
    BY <1>4, <2>1, <2>2, <2>3, <2>4 DEF Select
<1> QED
  BY <1>2, <1>3, <1>4 DEF Step

(***************************************************************************)
(* Every timestamp that is drawn or stamped has been drawn from the        *)
(* clocks.                                                                 *)
(***************************************************************************)
LEMMA NextClocks ==
  ASSUME TypeOK, TypeOK', ClocksAhead, NEW t \in Thread, Step(t)
  PROVE  ClocksAhead'
<1>1. /\ monotone \in Nat /\ epoch \in Nat /\ epoch' = epoch
      /\ monotone' \in {monotone, monotone + 1}
      /\ \A u \in Thread :
           u # t => currEpoch'[u] = currEpoch[u] /\ commitTs'[u] = commitTs[u]
      /\ ~SetTimestamp(t) => ts' = ts
  BY StampsUnmoved DEF TypeOK
<1>2. /\ pc \in [Thread -> {"idle", "exec", "acquire", "wait", "timestamp",
                            "stamp", "release", "undo", "done"}]
      /\ currEpoch \in [Thread -> Nat] /\ commitTs \in [Thread -> Timestamp]
      /\ ts \in [Record -> Timestamp]
  BY DEF TypeOK
<1>3. ASSUME NEW u \in Thread, u # t PROVE pc'[u] = pc[u]
  BY <1>3, OthersUnmoved DEF SameEntries
<1>4. ASSUME NEW e \in Timestamp, e.low < monotone PROVE e.low < monotone'
  BY <1>1, <1>4 DEF Timestamp
<1>5. \A r \in Record : ts'[r].epoch <= epoch' /\ ts'[r].low < monotone'
  <2> SUFFICES ASSUME NEW r \in Record
               PROVE  ts'[r].epoch <= epoch' /\ ts'[r].low < monotone'
    OBVIOUS
  <2>1. CASE ts'[r] = ts[r]
    BY <1>1, <1>2, <1>4, <2>1 DEF ClocksAhead
  <2>2. CASE ts'[r] # ts[r]
    <3>1. SetTimestamp(t)
      BY <1>1, <2>2
    <3>2. pc[t] = "stamp" /\ ts'[r] = commitTs[t]
      BY <1>2, <2>2, <3>1 DEF SetTimestamp
    <3> QED
      BY <1>1, <1>2, <1>4, <3>2 DEF ClocksAhead
  <2> QED
    BY <2>1, <2>2
<1>6. /\ pc'[t] = "timestamp" => currEpoch'[t] <= epoch'
      /\ pc'[t] = "stamp" =>
           commitTs'[t].epoch <= epoch' /\ commitTs'[t].low < monotone'
  <2>1. CASE CommitTransaction(t)
    BY <1>1, <1>2, <2>1 DEF CommitTransaction
  <2>2. CASE GetMonotoneTimestamp(t)
    <3>1. /\ pc[t] = "timestamp" /\ pc'[t] = "stamp" /\ monotone' = monotone + 1
          /\ commitTs'[t] = [epoch |-> currEpoch[t], low |-> monotone % TsSpan]
      BY <1>2, <2>2 DEF GetMonotoneTimestamp, GenerateMonotoneTimestamp
    <3>2. monotone % TsSpan <= monotone
      BY <1>1, LockWaitConstants DEF LockWaitConstants
    <3>3. monotone % TsSpan \in Nat /\ currEpoch[t] <= epoch
      BY <1>1, <3>1, LockWaitConstants DEF LockWaitConstants, ClocksAhead
    <3> QED
      BY <1>1, <3>1, <3>2, <3>3
  <2>3. CASE SetTimestamp(t)
    <3>1. pc'[t] = "stamp" /\ pc[t] = "stamp" /\ commitTs' = commitTs
      BY <1>2, <2>3 DEF SetTimestamp
    <3>2. commitTs[t].epoch <= epoch /\ commitTs[t].low < monotone
      BY <3>1 DEF ClocksAhead
    <3> QED
      BY <1>1, <1>2, <1>4, <3>1, <3>2
  <2>4. CASE Execute(t) \/ EndStamp(t) \/ Restore(t) \/ ReleaseLock(t)
    BY <1>2, <2>4 DEF Execute, EndStamp, Restore, ReleaseLock
  <2>5. CASE ReturnCommitted(t) \/ ReturnAborted(t)
    BY <1>2, <2>5 DEF ReturnCommitted, ReturnAborted
  <2>6. CASE Select(t)
    <3>1. ASSUME NEW r, InsertRecord(t, r) PROVE pc'[t] = "exec"
      BY <1>2, <3>1 DEF InsertRecord
    <3>2. ASSUME NEW r, NEW type, SelectRecordCC(t, r, type)
          PROVE  pc'[t] = "acquire"
      BY <1>2, <3>2 DEF SelectRecordCC
    <3>3. ASSUME AcquireLock(t) PROVE pc'[t] \in {"wait", "undo"}
      BY <1>2, <3>3 DEF AcquireLock, Wait, Own, Die
    <3>4. ASSUME NewAccess(t) \/ ReadRecord(t) \/ UpdateRecord(t)
          PROVE  pc'[t] = "exec"
      BY <1>2, <3>4 DEF NewAccess, ReadRecord, UpdateRecord
    <3> QED
      BY <2>6, <3>1, <3>2, <3>3, <3>4 DEF Select
  <2> QED
    BY <2>1, <2>2, <2>3, <2>4, <2>5, <2>6 DEF Step
<1>7. ASSUME NEW u \in Thread, u # t
      PROVE  /\ pc'[u] = "timestamp" => currEpoch'[u] <= epoch'
             /\ pc'[u] = "stamp" =>
                  commitTs'[u].epoch <= epoch' /\ commitTs'[u].low < monotone'
  BY <1>1, <1>2, <1>3, <1>4, <1>7 DEF ClocksAhead
<1> QED
  BY <1>5, <1>6, <1>7 DEF ClocksAhead

(***************************************************************************)
(* The entries of t itself: a new one has the timestamp of its record, the *)
(* epoch and the counter are ahead of the records, and what is stamped is  *)
(* done.                                                                   *)
(***************************************************************************)
LEMMA OwnStampable ==
  ASSUME ListInv, TypeOK', Placed, FreshOnce, ClocksAhead, NoWrap', NoWrap,
         NEW t \in Thread, Step(t), NEW i, Unstamped(t, i)',
         \A j \in DOMAIN accesses[t] : Unstamped(t, j) => Stampable(t, j)
  PROVE  Stampable(t, i)'
<1>1. TypeInv /\ TypeOK /\ ts \in [Record -> Timestamp]
  BY DEF ListInv, TxnInv, TypeInv, TypeOK
<1>2. /\ pc \in [Thread -> {"idle", "exec", "acquire", "wait", "timestamp",
                            "stamp", "release", "undo", "done"}]
      /\ finished \in [Thread -> Nat] /\ monotone \in Nat
      /\ currEpoch \in [Thread -> Nat] /\ commitTs \in [Thread -> Timestamp]
      /\ accesses \in [Thread -> Seq(Entry)]
  BY <1>1 DEF TypeOK
<1>3. ASSUME NEW j \in DOMAIN accesses[t] PROVE accesses[t][j] \in Entry
  BY <1>1, EntryType
<1>4. ~SetTimestamp(t) => ts' = ts
  BY <1>1, StampsUnmoved
<1>5. ASSUME i \in DOMAIN accesses[t],
             accesses'[t][i].record = accesses[t][i].record,
             accesses'[t][i].type = accesses[t][i].type,
             accesses'[t][i].ts = accesses[t][i].ts,
             pc[t] \notin {"timestamp", "stamp", "release", "undo"},
             pc'[t] \notin {"timestamp", "stamp"}, ts' = ts
      PROVE  Stampable(t, i)'
  <2>1. Unstamped(t, i)
    BY <1>5 DEF Unstamped
  <2> QED
    BY <1>5, <2>1 DEF Stampable
<1>6. CASE CommitTransaction(t)
  <2>1. /\ pc[t] = "exec" /\ pc'[t] = "timestamp" /\ currEpoch'[t] = epoch
        /\ accesses' = accesses /\ ts' = ts
    BY <1>2, <1>6 DEF CommitTransaction, content
  <2>2. Unstamped(t, i) /\ i \in DOMAIN accesses[t]
    BY <2>1 DEF Unstamped
  <2>3. accesses[t][i].record \in Record
    BY <1>3, <2>2 DEF Entry
  <2> QED
    BY <2>1, <2>2, <2>3 DEF Stampable, ClocksAhead
<1>7. CASE GetMonotoneTimestamp(t)
  <2>1. /\ pc[t] = "timestamp" /\ pc'[t] = "stamp" /\ monotone' = monotone + 1
        /\ commitTs'[t] = [epoch |-> currEpoch[t], low |-> monotone % TsSpan]
        /\ accesses' = accesses /\ ts' = ts
    BY <1>2, <1>7 DEF GetMonotoneTimestamp, GenerateMonotoneTimestamp, content
  <2>2. Unstamped(t, i) /\ i \in DOMAIN accesses[t]
    BY <2>1 DEF Unstamped
  <2> DEFINE r == accesses[t][i].record
  <2>3. r \in Record /\ ts[r] \in Timestamp
    BY <1>1, <1>3, <2>2 DEF Entry
  <2>4. monotone % TsSpan = monotone
    <3>1. monotone < TsSpan /\ monotone \in Nat /\ TsSpan \in Nat
      BY <1>2, <2>1, LockWaitConstants DEF LockWaitConstants, NoWrap
    <3> QED
      BY <3>1
  <2>5. ~TsLess(ts[r], accesses[t][i].ts) /\ ts[r].epoch <= currEpoch[t]
    BY <2>1, <2>2 DEF Stampable
  <2>6. ts[r].low < monotone
    BY <2>3 DEF ClocksAhead
  <2>7. ~TsLess(commitTs'[t], ts[r])
    <3>1. /\ commitTs'[t].epoch = currEpoch[t] /\ commitTs'[t].low = monotone
          /\ ts[r].epoch \in Nat /\ ts[r].low \in Nat /\ currEpoch[t] \in Nat
      BY <1>2, <2>1, <2>3, <2>4 DEF Timestamp
    <3> QED
      BY <1>2, <2>5, <2>6, <3>1 DEF TsLess
  <2> QED
    BY <2>1, <2>5, <2>7 DEF Stampable
<1>8. CASE SetTimestamp(t)
  <2> DEFINE n == finished[t] + 1
             q == accesses[t][n].record
  <2>1. /\ pc[t] = "stamp" /\ pc'[t] = "stamp" /\ finished'[t] = n
        /\ accesses' = accesses /\ commitTs' = commitTs
        /\ finished[t] < Len(accesses[t])
        /\ ts' = IF accesses[t][n].type = "READ_ONLY" THEN ts
                 ELSE [ts EXCEPT ![q] = commitTs[t]]
    BY <1>2, <1>8 DEF SetTimestamp, Current
  <2>2. accesses[t] \in Seq(Entry) /\ finished[t] \in Nat
    BY <1>2
  <2>3. n \in DOMAIN accesses[t] /\ n \in Nat
    BY <2>1, <2>2, LenProperties
  <2>4. i \in DOMAIN accesses[t] /\ n < i /\ accesses[t][i].type # "READ_ONLY"
    BY <2>1 DEF Unstamped
  <2>5. i \in Nat
    BY <2>2, <2>4, LenProperties
  <2>6. finished[t] < i /\ i # n
    BY <2>2, <2>4, <2>5
  <2>7. Unstamped(t, i)
    BY <2>1, <2>4, <2>6 DEF Unstamped
  <2>8. accesses[t][i].record # q
    BY <2>3, <2>4, <2>6 DEF ListInv, TxnInv, AccessedOnce
  <2>9. ts'[accesses[t][i].record] = ts[accesses[t][i].record]
    BY <2>1, <2>8
  <2> QED
    BY <2>1, <2>4, <2>7, <2>9 DEF Stampable
<1>9. CASE Execute(t)
  BY <1>2, <1>4, <1>5, <1>9 DEF Execute, Unstamped, txn, content
<1>10. CASE EndStamp(t) \/ Restore(t) \/ ReleaseLock(t)
  BY <1>2, <1>10 DEF EndStamp, Restore, ReleaseLock, Unstamped
<1>11. CASE ReturnCommitted(t) \/ ReturnAborted(t)
  <2>1. accesses'[t] = <<>>
    BY <1>2, <1>11 DEF ReturnCommitted, ReturnAborted, ClearAccess
  <2> QED
    BY <2>1 DEF Unstamped
<1>12. ASSUME NEW r \in Fresh, InsertRecord(t, r) PROVE Stampable(t, i)'
  <2> DEFINE n == Len(accesses[t]) + 1
  <2>1. /\ DOMAIN accesses'[t] = DOMAIN accesses[t] \cup {n}
        /\ accesses'[t][n] = [record |-> r, type |-> "INSERT_ONLY",
                              ts |-> ZeroTs, seen |-> Unread, new |-> Kept]
        /\ \A j \in DOMAIN accesses[t] : accesses'[t][j] = accesses[t][j]
    BY <1>1, <1>12, EntryInserted
  <2>2. pc[t] = "exec" /\ pc' = pc /\ ts' = ts
    BY <1>12 DEF InsertRecord
  <2> HIDE DEF n
  <2>3. CASE i = n
    <3>1. accesses'[t][i].record = r /\ accesses'[t][i].ts = ZeroTs
      BY <2>1, <2>3
    <3>2. ts[r].epoch \in Nat /\ ts[r].low \in Nat
      BY <1>1 DEF Record, Timestamp
    <3>3. ~TsLess(ts[r], ZeroTs)
      BY <3>2 DEF TsLess, ZeroTs
    <3> QED
      BY <2>2, <3>1, <3>3 DEF Stampable
  <2>4. CASE i # n
    <3>1. i \in DOMAIN accesses[t]
      BY <2>1, <2>4 DEF Unstamped
    <3> QED
      BY <1>5, <2>1, <2>2, <3>1
  <2> QED
    BY <2>3, <2>4
<1>13. ASSUME NEW r, NEW type, SelectRecordCC(t, r, type)
       PROVE  Stampable(t, i)'
  <2>1. /\ pc[t] = "exec" /\ pc'[t] = "acquire"
        /\ accesses' = accesses /\ ts' = ts
    BY <1>2, <1>13 DEF SelectRecordCC, content
  <2> QED
    BY <1>5, <2>1 DEF Unstamped
<1>14. CASE AcquireLock(t)
  <2>1. /\ pc[t] = "acquire" /\ pc'[t] \in {"wait", "undo"}
        /\ accesses' = accesses /\ ts' = ts
    BY <1>2, <1>14 DEF AcquireLock, Wait, Own, Die, txn, content
  <2> QED
    BY <1>5, <2>1 DEF Unstamped
<1>15. CASE NewAccess(t)
  <2> DEFINE n == Len(accesses[t]) + 1
  <2>1. /\ DOMAIN accesses'[t] = DOMAIN accesses[t] \cup {n}
        /\ accesses'[t][n].record = request[t].record
        /\ accesses'[t][n].ts = ts[request[t].record]
        /\ request[t] \in Request
        /\ \A j \in DOMAIN accesses[t] : accesses'[t][j] = accesses[t][j]
    BY <1>1, <1>15, EntryGranted
  <2>2. pc[t] = "wait" /\ pc'[t] = "exec" /\ ts' = ts
    BY <1>2, <1>15 DEF NewAccess, content
  <2> HIDE DEF n
  <2>3. CASE i = n
    <3>1. request[t].record \in Record
      BY <2>1 DEF Request, Record
    <3>2. ts[request[t].record].epoch \in Nat /\ ts[request[t].record].low \in Nat
      BY <1>1, <3>1 DEF Timestamp
    <3>3. ~TsLess(ts[request[t].record], ts[request[t].record])
      BY <3>2 DEF TsLess
    <3> QED
      BY <2>1, <2>2, <2>3, <3>3 DEF Stampable
  <2>4. CASE i # n
    <3>1. i \in DOMAIN accesses[t]
      BY <2>1, <2>4 DEF Unstamped
    <3> QED
      BY <1>5, <2>1, <2>2, <3>1
  <2> QED
    BY <2>3, <2>4
<1>16. CASE ReadRecord(t) \/ UpdateRecord(t)
  <2>1. /\ DOMAIN accesses'[t] = DOMAIN accesses[t]
        /\ \A j \in DOMAIN accesses[t] :
             /\ accesses'[t][j].record = accesses[t][j].record
             /\ accesses'[t][j].type = accesses[t][j].type
             /\ accesses'[t][j].ts = accesses[t][j].ts
    BY <1>1, <1>16, RecordsKept
  <2>2. pc[t] = "exec" /\ pc' = pc /\ ts' = ts
    BY <1>16 DEF ReadRecord, UpdateRecord, content
  <2>3. i \in DOMAIN accesses[t]
    BY <2>1 DEF Unstamped
  <2> QED
    BY <1>5, <2>1, <2>2, <2>3
<1> QED
  BY <1>6, <1>7, <1>8, <1>9, <1>10, <1>11, <1>12, <1>13, <1>14, <1>15, <1>16
     DEF Step, Select

(***************************************************************************)
(* Every step keeps the invariant of the timestamps: what another          *)
(* transaction stamps is no record that this one may still stamp.          *)
(***************************************************************************)
LEMMA NextStamps ==
  ListInv /\ ListInv' /\ UndoInv /\ StampInv /\ [Next]_vars => StampInv'
<1> SUFFICES ASSUME ListInv, ListInv', UndoInv, StampInv, [Next]_vars
             PROVE  StampInv'
  OBVIOUS
<1>1. TypeOK /\ TypeOK' /\ Placed /\ FreshOnce /\ ClocksAhead
  BY DEF ListInv, TxnInv, TypeInv, UndoInv, StampInv
<1>2. ASSUME NEW t \in Thread, Step(t) PROVE StampInv'
  <2>1. ClocksAhead'
    BY <1>1, <1>2, NextClocks
  <2>2. ASSUME NoWrap', NEW u \in Thread, NEW i, Unstamped(u, i)'
        PROVE  Stampable(u, i)'
    <3>1. NoWrap
      <4>1. /\ monotone \in Nat /\ monotone' \in {monotone, monotone + 1}
            /\ TsSpan \in Nat
        BY <1>1, <1>2, StampsUnmoved, LockWaitConstants
           DEF TypeOK, LockWaitConstants
      <4> QED
        BY <2>2, <4>1 DEF NoWrap
    <3>2. \A v \in Thread : \A j \in DOMAIN accesses[v] :
            Unstamped(v, j) => Stampable(v, j)
      BY <3>1 DEF StampInv
    <3>3. CASE u = t
      BY <1>1, <1>2, <2>2, <3>1, <3>2, <3>3, OwnStampable
    <3>4. CASE u # t
      <4>1. SameEntries(u)
        BY <1>1, <1>2, <3>4, OthersUnmoved
      <4>2. /\ currEpoch'[u] = currEpoch[u] /\ commitTs'[u] = commitTs[u]
            /\ ~SetTimestamp(t) => ts' = ts
        BY <1>1, <1>2, <3>4, StampsUnmoved
      <4>3. Unstamped(u, i) /\ i \in DOMAIN accesses[u]
        BY <2>2, <4>1 DEF Unstamped, SameEntries
      <4>4. ts'[accesses[u][i].record] = ts[accesses[u][i].record]
        <5>1. CASE SetTimestamp(t)
          <6> DEFINE n == finished[t] + 1
          <6>1. /\ pc[t] = "stamp" /\ finished[t] < Len(accesses[t])
                /\ ts' = IF accesses[t][n].type = "READ_ONLY" THEN ts
                         ELSE [ts EXCEPT ![accesses[t][n].record] = commitTs[t]]
            BY <5>1 DEF SetTimestamp, Current
          <6>2. accesses[t] \in Seq(Entry) /\ finished[t] \in Nat
            BY <1>1 DEF TypeOK
          <6>3. n \in DOMAIN accesses[t] /\ finished[t] < n
            BY <6>1, <6>2, LenProperties
          <6>4. CASE accesses[t][n].type # "READ_ONLY"
            <7>1. Unstamped(t, n)
              BY <6>1, <6>3, <6>4 DEF Unstamped
            <7>2. accesses[u][i].record # accesses[t][n].record
              BY <1>1, <3>4, <4>3, <7>1, StampsAlone
            <7> QED
              BY <6>1, <7>2
          <6> QED
            BY <6>1, <6>4
        <5> QED
          BY <4>2, <5>1
      <4>5. Stampable(u, i)
        BY <3>2, <4>3
      <4> QED
        BY <4>1, <4>2, <4>4, <4>5 DEF Stampable, SameEntries
    <3> QED
      BY <3>3, <3>4
  <2> QED
    BY <2>1, <2>2 DEF StampInv
<1>3. CASE AdvanceEpoch
  <2>1. /\ epoch' = epoch + 1 /\ epoch \in Nat
        /\ UNCHANGED <<ts, monotone, pc, accesses, finished, currEpoch, commitTs>>
    BY <1>1, <1>3 DEF AdvanceEpoch, TypeOK, content, txn
  <2>2. ASSUME NEW n \in Nat, n <= epoch PROVE n <= epoch'
    BY <2>1, <2>2
  <2>3. /\ \A r \in Record : ts[r].epoch \in Nat
        /\ \A t \in Thread : currEpoch[t] \in Nat /\ commitTs[t].epoch \in Nat
    BY <1>1 DEF TypeOK, Timestamp
  <2>4. ClocksAhead'
    BY <1>1, <2>1, <2>2, <2>3 DEF ClocksAhead
  <2> QED
    BY <2>1, <2>4 DEF StampInv, NoWrap, Unstamped, Stampable
<1>4. CASE UNCHANGED vars
  BY <1>4 DEF StampInv, ClocksAhead, NoWrap, Unstamped, Stampable, vars,
     content, clocks, txn
<1> QED
  BY <1>2, <1>3, <1>4 DEF Next, Joined

(***************************************************************************)
(* Initially nothing has a timestamp but zero.                             *)
(***************************************************************************)
LEMMA InitStamps == Init => StampInv
<1> SUFFICES ASSUME Init PROVE StampInv
  OBVIOUS
<1>1. /\ \A r \in Record : ts[r] = ZeroTs
      /\ \A t \in Thread : pc[t] = "idle" /\ DOMAIN accesses[t] = {}
      /\ epoch = 1 /\ monotone = 1
  BY DEF Init
<1> QED
  BY <1>1 DEF StampInv, ClocksAhead, ZeroTs

(***************************************************************************)
(* The assertions on the commit timestamp (TxnManagerLockWait.tpp:148, 152 *)
(* and LockWaitContent.h:132) hold until the low half wraps around,        *)
(* although the epoch and the counter are drawn in two steps, other        *)
(* transactions commit in between, and insertions hold no lock.            *)
(***************************************************************************)
THEOREM CommitTsAssertions == Spec => [](NoWrap => CommitTsAboveAccess)
<1>1. ListInv /\ StampInv => (NoWrap => CommitTsAboveAccess)
  <2> SUFFICES ASSUME ListInv, StampInv, NoWrap,
                      NEW t \in Thread, pc[t] = "stamp",
                      NEW i \in DOMAIN accesses[t], i > finished[t],
                      accesses[t][i].type # "READ_ONLY"
               PROVE  /\ ~TsLess(commitTs[t], accesses[t][i].ts)
                      /\ ~TsLess(commitTs[t], ts[accesses[t][i].record])
    BY DEF CommitTsAboveAccess
  <2>1. TypeOK
    BY DEF ListInv, TxnInv, TypeInv
  <2>2. accesses[t][i] \in Entry /\ i \in 1..Len(accesses[t])
    BY <2>1, EntryType
  <2>3. finished[t] < i
    BY <2>1, <2>2 DEF TypeOK
  <2>4. Stampable(t, i)
    BY <2>3 DEF StampInv, Unstamped
  <2> DEFINE r == accesses[t][i].record
  <2>5. /\ ts[r] \in Timestamp /\ commitTs[t] \in Timestamp
        /\ accesses[t][i].ts \in Timestamp
    BY <2>1, <2>2 DEF TypeOK, Entry
  <2>6. ~TsLess(ts[r], accesses[t][i].ts) /\ ~TsLess(commitTs[t], ts[r])
    BY <2>4 DEF Stampable
  <2> HIDE DEF r
  <2> QED
    BY <2>5, <2>6 DEF TsLess, Timestamp, r
<1>2. ListInv /\ UndoInv /\ [Next]_vars => UndoInv'
  BY NextUndo
<1>3. ListInv /\ ListInv' /\ UndoInv /\ StampInv /\ [Next]_vars => StampInv'
  BY NextStamps
<1> QED
  BY InitUndo, InitStamps, ListsInvariant, <1>1, <1>2, <1>3, PTL DEF Spec
=============================================================================
