----------------------------- MODULE SiloProofs -----------------------------
(***************************************************************************)
(* Why Silo is serializable although it locks only what it writes.         *)
(*                                                                         *)
(* The serial order is the one in which the transactions read the epoch,   *)
(* which each does when it holds all its write locks and before it has     *)
(* validated any read.  What a transaction has read or overwritten was     *)
(* committed before; a record that it has found unlocked and unchanged can *)
(* only be overwritten by a transaction that is yet to lock it, and so to  *)
(* read the epoch after it.                                                *)
(***************************************************************************)
EXTENDS Silo, SequenceTheorems, WellFoundedInduction, TLAPS

(***************************************************************************)
(* The access list of a thread: no record twice, nothing seen of a record  *)
(* that is not read, everything seen once the procedure has ended.         *)
(***************************************************************************)
Seen(t) == \A r \in Record, c \in Column : r \notin Reads(t) => seen[t][r][c] = Unread

ListOf(t) ==
  /\ Len(accesses[t]) <= MaxAccess
  /\ \A i, j \in DOMAIN accesses[t] :
       accesses[t][i].record = accesses[t][j].record => i = j
  /\ Seen(t)
  /\ pc[t] # "exec" => Unfinished(t) = {}

(***************************************************************************)
(* The thread holds locks on its writes, on all of them while it validates *)
(* and installs, and on none outside CommitTransaction.                    *)
(***************************************************************************)
PhaseOf(t) ==
  /\ held[t] \subseteq Writes(t)
  /\ pc[t] \in {"idle", "exec", "done"} => held[t] = {}
  /\ pc[t] \in {"epoch", "validate", "compare", "install"} => held[t] = Writes(t)
  /\ pc[t] \in {"idle", "exec", "lock", "epoch", "done"} => checked[t] = 0
  /\ checked[t] <= Len(accesses[t])
  /\ pc[t] = "compare" =>
       checked[t] < Len(accesses[t]) /\ Entry(t).type = "READ_ONLY"
  /\ pc[t] \notin {"install", "release"} => installed[t] = {}
  /\ stored[t] # {} => pc[t] = "install" /\ ~(Writes(t) \subseteq installed[t])
  /\ pc[t] # "done" => left[t] > 0

(***************************************************************************)
(* A record is write-locked if and only if one thread holds it.            *)
(***************************************************************************)
LockOf(r) ==
  /\ lock[r].type = "WRITE_LOCK" <=> \E t \in Thread : r \in held[t]
  /\ lock[r].type # "READ_LOCK"
  /\ \A t, u \in Thread : r \in held[t] /\ r \in held[u] => t = u

LockInv ==
  /\ TypeOK
  /\ \A t \in Thread : ListOf(t) /\ PhaseOf(t)
  /\ \A r \in Record : LockOf(r)

-----------------------------------------------------------------------------
(***************************************************************************)
(* A set of things with ranks has one of least rank.                       *)
(***************************************************************************)
LEMMA LeastRank ==
  ASSUME NEW S, S # {}, NEW rank, \A x \in S : rank[x] \in Nat
  PROVE  \E x \in S : \A y \in S : ~(rank[y] < rank[x])
<1> DEFINE T == {rank[x] : x \in S}
           Less == OpToRel(<, Nat)
<1>1. T \subseteq Nat /\ T # {}
  OBVIOUS
<1>2. IsWellFoundedOn(Less, Nat)
  BY NatLessThanWellFounded, Zenon
<1> HIDE DEF Less
<1>3. \E n \in T : \A m \in T : ~(<<m, n>> \in Less)
  BY <1>1, <1>2, WFMin
<1>4. \A m, n \in Nat : m < n => <<m, n>> \in Less
  BY DEF Less, OpToRel
<1> QED
  BY <1>1, <1>3, <1>4

(***************************************************************************)
(* Access lists.                                                           *)
(***************************************************************************)
AccessEntry == [record : Record, type : AnyAccess, ts : Timestamp]

(***************************************************************************)
(* An access list is a finite sequence of entries; what an entry gives,    *)
(* and what is derived from the list, has its type.                        *)
(***************************************************************************)
LEMMA ListTypes ==
  ASSUME TypeOK, NEW t \in Thread
  PROVE  /\ Len(accesses[t]) \in Nat
         /\ DOMAIN accesses[t] = 1..Len(accesses[t])
         /\ \A i \in DOMAIN accesses[t] : accesses[t][i] \in AccessEntry
         /\ Entries(t) \subseteq AccessEntry
         /\ Writes(t) \subseteq Record /\ Reads(t) \subseteq Record
         /\ Updates(t) \subseteq Writes(t) \cap Reads(t)
<1>1. accesses[t] \in Seq(AccessEntry)
  BY DEF TypeOK, AccessEntry
<1>2. /\ Len(accesses[t]) \in Nat
      /\ DOMAIN accesses[t] = 1..Len(accesses[t])
      /\ \A i \in DOMAIN accesses[t] : accesses[t][i] \in AccessEntry
  BY <1>1, LenProperties, ElementOfSeq
<1>3. Entries(t) \subseteq AccessEntry
  BY <1>2 DEF Entries
<1> QED
  BY <1>2, <1>3 DEF Writes, Reads, Updates, AccessEntry

(***************************************************************************)
(* NewAccess appends an entry and changes nothing else.                    *)
(***************************************************************************)
LEMMA EntryAppended ==
  ASSUME TypeOK, NEW t \in Thread, NEW r \in Record, NEW type \in AnyAccess,
         NEW stamp \in Timestamp, NewAccess(t, r, type, stamp)
  PROVE  /\ accesses' \in [Thread -> Seq(AccessEntry)]
         /\ Len(accesses'[t]) = Len(accesses[t]) + 1
         /\ DOMAIN accesses'[t] = DOMAIN accesses[t] \cup {Len(accesses'[t])}
         /\ accesses'[t][Len(accesses'[t])] =
              [record |-> r, type |-> type, ts |-> stamp]
         /\ \A i \in DOMAIN accesses[t] : /\ accesses'[t][i] = accesses[t][i]
                                          /\ i # Len(accesses'[t])
         /\ \A u \in Thread : u # t => accesses'[u] = accesses[u]
<1> DEFINE s == accesses[t]
           e == [record |-> r, type |-> type, ts |-> stamp]
<1>1. accesses \in [Thread -> Seq(AccessEntry)] /\ s \in Seq(AccessEntry)
  BY DEF TypeOK, AccessEntry
<1>2. e \in AccessEntry
  BY DEF AccessEntry
<1>3. Len(s) \in Nat /\ DOMAIN s = 1..Len(s)
  BY <1>1, LenProperties
<1>4. accesses' = [accesses EXCEPT ![t] = Append(s, e)]
  BY DEF NewAccess
<1>5. /\ Append(s, e) \in Seq(AccessEntry) /\ Len(Append(s, e)) = Len(s) + 1
      /\ Append(s, e)[Len(s) + 1] = e
      /\ \A i \in 1..Len(s) : Append(s, e)[i] = s[i]
  BY <1>1, <1>2, AppendProperties
<1>6. DOMAIN Append(s, e) = 1..(Len(s) + 1)
  BY <1>5, LenProperties
<1>7. accesses'[t] = Append(s, e)
  BY <1>1, <1>4
<1>8. /\ accesses' \in [Thread -> Seq(AccessEntry)]
      /\ \A u \in Thread : u # t => accesses'[u] = accesses[u]
  BY <1>1, <1>4, <1>5
<1> HIDE DEF s, e
<1>9. /\ Len(accesses'[t]) = Len(s) + 1
      /\ DOMAIN accesses'[t] = DOMAIN s \cup {Len(accesses'[t])}
      /\ accesses'[t][Len(accesses'[t])] = e
      /\ \A i \in DOMAIN s : accesses'[t][i] = s[i] /\ i # Len(accesses'[t])
  BY <1>3, <1>5, <1>6, <1>7
<1> QED
  BY <1>8, <1>9 DEF s, e

(***************************************************************************)
(* A new entry for r adds r to the reads, the updates and the writes as    *)
(* its type says, and takes nothing from them.                             *)
(***************************************************************************)
LEMMA ListsGrow ==
  ASSUME TypeOK, NEW t \in Thread, NEW r \in Record, NEW type \in AnyAccess,
         NEW stamp \in Timestamp, NewAccess(t, r, type, stamp)
  PROVE  /\ Entries(t)' = Entries(t) \cup
                          {[record |-> r, type |-> type, ts |-> stamp]}
         /\ Writes(t)' = Writes(t) \cup (IF type # "READ_ONLY" THEN {r} ELSE {})
         /\ Reads(t)' = Reads(t) \cup
              (IF type \in {"READ_ONLY", "READ_WRITE"} THEN {r} ELSE {})
         /\ Updates(t)' = Updates(t) \cup (IF type = "READ_WRITE" THEN {r} ELSE {})
<1> DEFINE e == [record |-> r, type |-> type, ts |-> stamp]
<1>1. e.record = r /\ e.type = type
  OBVIOUS
<1>0. /\ DOMAIN accesses'[t] = DOMAIN accesses[t] \cup {Len(accesses'[t])}
      /\ accesses'[t][Len(accesses'[t])] = e
      /\ \A i \in DOMAIN accesses[t] : accesses'[t][i] = accesses[t][i]
  BY EntryAppended
<1>2. Entries(t)' = Entries(t) \cup {e}
  BY <1>0 DEF Entries
<1> HIDE DEF e
<1>3. /\ Writes(t)' = Writes(t) \cup (IF type # "READ_ONLY" THEN {r} ELSE {})
      /\ Updates(t)' = Updates(t) \cup (IF type = "READ_WRITE" THEN {r} ELSE {})
  BY <1>1, <1>2 DEF Writes, Updates
<1>4. Reads(t)' = Reads(t) \cup
        (IF type \in {"READ_ONLY", "READ_WRITE"} THEN {r} ELSE {})
  BY <1>1, <1>2 DEF Reads
<1> QED
  BY <1>2, <1>3, <1>4 DEF e

(***************************************************************************)
(* The step is another thread's: u's part of the state does not change.    *)
(***************************************************************************)
Unmoved(u) ==
  /\ pc'[u] = pc[u] /\ left'[u] = left[u] /\ accesses'[u] = accesses[u]
  /\ seen'[u] = seen[u] /\ held'[u] = held[u] /\ checked'[u] = checked[u]
  /\ stored'[u] = stored[u] /\ installed'[u] = installed[u]
  /\ currEpoch'[u] = currEpoch[u] /\ commitTs'[u] = commitTs[u]

(***************************************************************************)
(* A step of one thread leaves the state of every other thread alone.      *)
(***************************************************************************)
LEMMA OthersUnmoved ==
  ASSUME TypeOK, NEW t \in Thread, Step(t), NEW u \in Thread, u # t
  PROVE  Unmoved(u)
<1> USE DEF TypeOK, Unmoved, shared, txn
<1>1. CASE Execute(t) \/ Select(t) \/ CommitTransaction(t)
  <2>1. CASE Execute(t) \/ CommitTransaction(t)
    BY <2>1 DEF Execute, CommitTransaction
  <2>2. ASSUME NEW r, NEW type, NEW stamp, NewAccess(t, r, type, stamp)
        PROVE  Unmoved(u)
    BY <2>2 DEF NewAccess
  <2>3. ASSUME NEW r, NEW c, ReadColumn(t, r, c)
        PROVE  Unmoved(u)
    BY <2>3 DEF ReadColumn
  <2> QED
    BY <1>1, <2>1, <2>2, <2>3, Zenon DEF Select, SelectRecordCC, InsertRecord
<1>2. CASE AcquireWriteLock(t) \/ ReleaseWriteLock(t)
  BY <1>2 DEF AcquireWriteLock, ReleaseWriteLock
<1>3. CASE Validate(t)
  BY <1>3 DEF Validate, ValidateUpdate, ExistsWriteLock, GetTimestamp,
              SkipEntry, Passed, Failed, ValidationFrame
<1>4. CASE GetEpoch(t) \/ GetMonotoneTimestamp(t)
  BY <1>4 DEF GetEpoch, GetMonotoneTimestamp, CommittedAt
<1>5. CASE Install(t)
  BY <1>5 DEF Install, CopyFrom, SetVisible, SetTimestamp, EndInstall
<1>6. CASE ReturnCommitted(t) \/ ReturnAborted(t)
  BY <1>6 DEF ReturnCommitted, ReturnAborted, ClearLists
<1> QED
  BY <1>1, <1>2, <1>3, <1>4, <1>5, <1>6 DEF Step

(***************************************************************************)
(* What is known of a thread that does not move stays known.               *)
(***************************************************************************)
LEMMA UnmovedKept ==
  ASSUME NEW u \in Thread, Unmoved(u)
  PROVE  /\ Entries(u)' = Entries(u) /\ Writes(u)' = Writes(u)
         /\ Reads(u)' = Reads(u) /\ Updates(u)' = Updates(u)
         /\ Unfinished(u)' = Unfinished(u) /\ Name(u)' = Name(u)
         /\ ListOf(u) => ListOf(u)'
         /\ PhaseOf(u) => PhaseOf(u)'
<1>1. /\ Entries(u)' = Entries(u) /\ Name(u)' = Name(u)
      /\ Entry(u)' = Entry(u)
  BY DEF Unmoved, Entries, Name, Entry
<1>2. /\ Writes(u)' = Writes(u) /\ Reads(u)' = Reads(u)
      /\ Updates(u)' = Updates(u)
  BY <1>1 DEF Writes, Reads, Updates
<1>3. Unfinished(u)' = Unfinished(u)
  BY <1>2 DEF Unfinished, Unmoved
<1> QED
  BY <1>1, <1>2, <1>3 DEF Unmoved, ListOf, Seen, PhaseOf

-----------------------------------------------------------------------------
(***************************************************************************)
(* Type correctness.                                                       *)
(***************************************************************************)

(***************************************************************************)
(* A timestamp that GenerateMonotoneTimestamp builds has two natural       *)
(* halves; the low one is the counter itself as long as it fits.           *)
(***************************************************************************)
LEMMA TimestampType ==
  ASSUME NEW e \in Nat, NEW m \in Nat
  PROVE  /\ GenerateMonotoneTimestamp(e, m) \in Timestamp
         /\ GenerateMonotoneTimestamp(e, m).epoch = e
         /\ m < TsSpan => GenerateMonotoneTimestamp(e, m).low = m
<1>1. m % TsSpan \in Nat /\ (m < TsSpan => m % TsSpan = m)
  BY SiloConstants DEF SiloConstants
<1> QED
  BY <1>1 DEF GenerateMonotoneTimestamp, Timestamp

(***************************************************************************)
(* The initial state satisfies the invariant.                              *)
(***************************************************************************)
LEMMA InitLock == Init => LockInv
<1> SUFFICES ASSUME Init PROVE LockInv
  OBVIOUS
<1> USE SiloConstants DEF SiloConstants, Init
<1>1. ZeroTs \in Timestamp /\ NoLock \in LockType
  BY DEF ZeroTs, Timestamp, NoLock, LockType
<1>2. /\ word \in [Record -> [Column -> Writer]]
      /\ seen \in [Thread -> [Record -> [Column -> Writer \cup {Unread}]]]
  BY DEF Writer, AllUnread
<1>3. /\ visible \in [Record -> BOOLEAN]
      /\ ts \in [Record -> Timestamp] /\ lock \in [Record -> LockType]
      /\ commitTs \in [Thread -> Timestamp]
  BY <1>1
<1>4. /\ accesses \in
           [Thread -> Seq([record : Record, type : AnyAccess, ts : Timestamp])]
      /\ versions \in [Record -> Seq(Thread \X Nat)]
  OBVIOUS
<1>5. TypeOK
  <2>0. Batch \in Nat /\ 0 \in 0..MaxAccess
    OBVIOUS
  <2>1. /\ epoch \in Nat /\ monotone \in Nat /\ isFinish \in BOOLEAN
        /\ pc \in [Thread -> {"idle", "exec", "lock", "epoch", "validate",
                             "compare", "install", "release", "undo", "done"}]
        /\ left \in [Thread -> Nat] /\ currEpoch \in [Thread -> Nat]
        /\ checked \in [Thread -> 0..MaxAccess]
    BY <2>0
  <2>2. /\ held \in [Thread -> SUBSET Record]
        /\ stored \in [Thread -> SUBSET Column]
        /\ installed \in [Thread -> SUBSET Record]
        /\ committed = {}
    OBVIOUS
  <2> QED
    BY ONLY <1>2, <1>3, <1>4, <2>1, <2>2, Zenon DEF TypeOK
<1>6. ASSUME NEW t \in Thread PROVE ListOf(t) /\ PhaseOf(t)
  <2>1. accesses[t] = <<>> /\ Len(accesses[t]) = 0 /\ DOMAIN accesses[t] = {}
    OBVIOUS
  <2>2. Entries(t) = {}
    BY <2>1 DEF Entries
  <2>3. Reads(t) = {} /\ Writes(t) = {}
    BY <2>2 DEF Reads, Writes
  <2> QED
    BY <2>1, <2>3 DEF ListOf, PhaseOf, Seen, AllUnread, Unfinished
<1>7. ASSUME NEW r \in Record PROVE LockOf(r)
  BY DEF LockOf, NoLock
<1> QED
  BY <1>5, <1>6, <1>7 DEF LockInv

(***************************************************************************)
(* Reads and updates of a record that a thread has selected lie between    *)
(* SelectRecordCC and the end of the transaction.                          *)
(***************************************************************************)
LEMMA SelectType ==
  ASSUME LockInv, NEW t \in Thread, Select(t)
  PROVE  TypeOK'
<1>0. TypeOK
  BY DEF LockInv
<1>1. CASE \E r \in Record, c \in Column : ReadColumn(t, r, c)
  <2>1. PICK r \in Record, c \in Column : ReadColumn(t, r, c)
    BY <1>1
  <2> DEFINE row == [seen[t] EXCEPT ![r] = [seen[t][r] EXCEPT ![c] = word[r][c]]]
  <2>2. word[r][c] \in Writer
    BY <1>0 DEF TypeOK
  <2>3. [seen[t][r] EXCEPT ![c] = word[r][c]] \in [Column -> Writer \cup {Unread}]
    BY <1>0, <2>2 DEF TypeOK
  <2>4. row \in [Record -> [Column -> Writer \cup {Unread}]]
    BY <1>0, <2>3 DEF TypeOK
  <2>5. seen' = [seen EXCEPT ![t] = row]
    BY <2>1 DEF ReadColumn
  <2> HIDE DEF row
  <2>6. seen' \in [Thread -> [Record -> [Column -> Writer \cup {Unread}]]]
    BY <1>0, <2>4, <2>5 DEF TypeOK
  <2> QED
    BY <1>0, <2>1, <2>6 DEF ReadColumn, shared, history, TypeOK
<1>2. ASSUME NEW r \in Record, NEW type \in AnyAccess, NEW stamp \in Timestamp,
             NewAccess(t, r, type, stamp)
      PROVE  TypeOK'
  <2>1. accesses' \in [Thread -> Seq(AccessEntry)]
    BY <1>0, <1>2, EntryAppended
  <2> QED
    BY <1>0, <1>2, <2>1 DEF NewAccess, shared, history, TypeOK, AccessEntry
<1>3. ZeroTs \in Timestamp /\ AccessType \subseteq AnyAccess
      /\ "INSERT_ONLY" \in AnyAccess
  BY SiloConstants DEF ZeroTs, Timestamp, SiloConstants, AnyAccess
<1>4. \A r \in Record : ts[r] \in Timestamp
  BY <1>0 DEF TypeOK
<1> QED
  BY <1>1, <1>2, <1>3, <1>4 DEF Select, SelectRecordCC, InsertRecord

(***************************************************************************)
(* A validation stays within the access list.                              *)
(***************************************************************************)
LEMMA ValidateType ==
  ASSUME LockInv, NEW t \in Thread, Validate(t)
  PROVE  TypeOK'
<1>0. TypeOK /\ ListOf(t) /\ PhaseOf(t) /\ Len(accesses[t]) \in Nat
      /\ MaxAccess \in Nat
  BY ListTypes, SiloConstants DEF LockInv, SiloConstants
<1>1. checked[t] \in Nat /\ checked[t] < Len(accesses[t]) /\ Len(accesses[t]) <= MaxAccess
  BY <1>0 DEF Validate, ValidateUpdate, ExistsWriteLock, GetTimestamp, SkipEntry,
              Validating, PhaseOf, ListOf, TypeOK
<1>2. checked[t] + 1 \in 0..MaxAccess
  BY <1>0, <1>1
<1>3. checked' = checked \/ checked' = [checked EXCEPT ![t] = @ + 1]
  BY DEF Validate, ValidateUpdate, ExistsWriteLock, GetTimestamp, SkipEntry,
         Passed, Failed
<1>4. checked' \in [Thread -> 0..MaxAccess]
  BY <1>0, <1>2, <1>3 DEF TypeOK
<1>5. pc' \in [Thread -> {"idle", "exec", "lock", "epoch", "validate", "compare",
                          "install", "release", "undo", "done"}]
  <2>1. \E p \in {"validate", "compare", "undo"} : pc' = [pc EXCEPT ![t] = p]
    BY DEF Validate, ValidateUpdate, ExistsWriteLock, GetTimestamp, SkipEntry,
           Passed, Failed
  <2> QED
    BY <1>0, <2>1 DEF TypeOK
<1>6. ValidationFrame(t)
  BY DEF Validate, ValidateUpdate, ExistsWriteLock, GetTimestamp, SkipEntry
<1> QED
  BY <1>0, <1>4, <1>5, <1>6 DEF ValidationFrame, shared, history, TypeOK

(***************************************************************************)
(* What a transaction leaves in the history is well typed: it has read     *)
(* all the columns of its records.                                         *)
(***************************************************************************)
LEMMA CommitType ==
  ASSUME LockInv, NEW t \in Thread, GetMonotoneTimestamp(t)
  PROVE  TypeOK'
<1> DEFINE stamp == GenerateMonotoneTimestamp(currEpoch[t], monotone)
           x == [name    |-> Name(t), ts |-> stamp,
                 updates |-> Updates(t),
                 saw     |-> {<<r, seen[t][r][c]>> : r \in Reads(t), c \in Column}]
<1>0. TypeOK /\ ListOf(t) /\ pc[t] = "validate"
  BY DEF LockInv, GetMonotoneTimestamp
<1>1. stamp \in Timestamp
  BY <1>0, TimestampType DEF TypeOK
<1>2. Name(t) \in Thread \X Nat /\ Updates(t) \subseteq Record
  BY <1>0, ListTypes DEF Name, TypeOK
<1>3. ASSUME NEW r \in Reads(t), NEW c \in Column
      PROVE  <<r, seen[t][r][c]>> \in Record \X Writer
  <2>0. Reads(t) \subseteq Record
    BY <1>0, ListTypes
  <2>1. r \in Record /\ seen[t][r][c] \in Writer \cup {Unread}
    BY <1>0, <2>0 DEF TypeOK
  <2>2. seen[t][r][c] # Unread
    BY <1>0, <2>1 DEF ListOf, Unfinished
  <2> QED
    BY <2>1, <2>2
<1>4. x.saw \subseteq Record \X Writer
  BY <1>3
<1>5. committed' = committed \cup {x}
  BY DEF GetMonotoneTimestamp, CommittedAt
<1>6. /\ x.name \in Thread \X Nat /\ x.ts \in Timestamp
      /\ x.updates \subseteq Record
  BY <1>1, <1>2
<1> HIDE DEF x
<1>7. \A y \in committed' :
        /\ y.name \in Thread \X Nat /\ y.ts \in Timestamp
        /\ y.updates \subseteq Record /\ y.saw \subseteq Record \X Writer
  BY <1>0, <1>4, <1>5, <1>6 DEF TypeOK
<1>8. versions' \in [Record -> Seq(Thread \X Nat)]
  <2>1. \A r \in Record : Append(versions[r], Name(t)) \in Seq(Thread \X Nat)
    BY <1>0, <1>2, AppendProperties DEF TypeOK
  <2> QED
    BY <1>0, <2>1 DEF GetMonotoneTimestamp, CommittedAt, TypeOK
<1>9. commitTs' \in [Thread -> Timestamp] /\ monotone' \in Nat
      /\ pc' \in [Thread -> {"idle", "exec", "lock", "epoch", "validate",
                            "compare", "install", "release", "undo", "done"}]
  BY <1>0, <1>1 DEF GetMonotoneTimestamp, CommittedAt, TypeOK
<1> QED
  BY <1>0, <1>7, <1>8, <1>9 DEF GetMonotoneTimestamp, TypeOK

(***************************************************************************)
(* Every step keeps the variables in their types.                          *)
(***************************************************************************)
LEMMA NextType == LockInv /\ [Next]_vars => TypeOK'
<1> SUFFICES ASSUME LockInv, [Next]_vars PROVE TypeOK'
  OBVIOUS
<1>0. TypeOK
  BY DEF LockInv
<1> USE <1>0 DEF TypeOK
<1>1. ASSUME NEW t \in Thread,
             Execute(t) \/ CommitTransaction(t) \/ GetEpoch(t) \/ EndInstall(t)
      PROVE  TypeOK'
  <2>1. CASE Execute(t)
    BY <2>1 DEF Execute, shared, txn, history
  <2>2. CASE CommitTransaction(t)
    BY <2>2 DEF CommitTransaction, shared, txn, history
  <2>3. CASE GetEpoch(t)
    BY <2>3 DEF GetEpoch, shared, history
  <2>4. CASE EndInstall(t)
    BY <2>4 DEF EndInstall, shared, txn, history
  <2> QED
    BY <1>1, <2>1, <2>2, <2>3, <2>4
<1>2. ASSUME NEW t \in Thread, AcquireWriteLock(t) \/ ReleaseWriteLock(t)
      PROVE  TypeOK'
  <2>1. \A l \in LockType : WriteLocked(l) \in LockType /\ WriteReleased(l) \in LockType
    BY DEF LockType, WriteLocked, WriteReleased
  <2>2. CASE AcquireWriteLock(t)
    <3>1. PICK r \in Record :
            /\ lock' = [lock EXCEPT ![r] = WriteLocked(lock[r])]
            /\ held' = [held EXCEPT ![t] = held[t] \cup {r}]
            /\ pc' = [pc EXCEPT ![t] = IF Writes(t) \subseteq held'[t]
                                         THEN "epoch" ELSE "lock"]
      BY <2>2 DEF AcquireWriteLock
    <3>2. /\ lock' \in [Record -> LockType]
          /\ held' \in [Thread -> SUBSET Record]
      BY <2>1, <3>1
    <3>3. pc' \in [Thread -> {"idle", "exec", "lock", "epoch", "validate",
                             "compare", "install", "release", "undo", "done"}]
      BY <3>1
    <3> QED
      BY <2>2, <3>2, <3>3 DEF AcquireWriteLock, history
  <2>3. CASE ReleaseWriteLock(t)
    <3>1. PICK r \in Record :
            /\ lock' = [lock EXCEPT ![r] = WriteReleased(lock[r])]
            /\ held' = [held EXCEPT ![t] = held[t] \ {r}]
      BY <2>3 DEF ReleaseWriteLock
    <3>2. /\ lock' \in [Record -> LockType]
          /\ held' \in [Thread -> SUBSET Record]
      BY <2>1, <3>1
    <3> QED
      BY <2>3, <3>2 DEF ReleaseWriteLock, history
  <2> QED
    BY <1>2, <2>2, <2>3
<1>3. ASSUME NEW t \in Thread, NEW r \in Record, NEW c \in Column,
             CopyFrom(t, r, c)
      PROVE  TypeOK'
  <2>1. Name(t) \in Writer
    BY DEF Name, Writer
  <2>2. word' = [word EXCEPT ![r] = [word[r] EXCEPT ![c] = Name(t)]]
    BY <1>3 DEF CopyFrom
  <2>3. [word[r] EXCEPT ![c] = Name(t)] \in [Column -> Writer]
    BY <2>1
  <2>4. word' \in [Record -> [Column -> Writer]]
    BY <2>2, <2>3
  <2>5. stored' \in [Thread -> SUBSET Column]
    BY <1>3 DEF CopyFrom
  <2> QED
    BY <1>3, <2>4, <2>5 DEF CopyFrom, history
<1>4. ASSUME NEW t \in Thread, NEW r \in Record,
             SetVisible(t, r) \/ SetTimestamp(t, r)
      PROVE  TypeOK'
  <2>1. CASE SetVisible(t, r)
    <3>1. visible' \in [Record -> BOOLEAN] /\ stored' \in [Thread -> SUBSET Column]
      BY <2>1 DEF SetVisible
    <3> QED
      BY <2>1, <3>1 DEF SetVisible, history
  <2>2. CASE SetTimestamp(t, r)
    <3>1. /\ ts' \in [Record -> Timestamp] /\ stored' \in [Thread -> SUBSET Column]
          /\ installed' \in [Thread -> SUBSET Record]
      BY <2>2 DEF SetTimestamp
    <3> QED
      BY <2>2, <3>1 DEF SetTimestamp, history
  <2> QED
    BY <1>4, <2>1, <2>2
<1>5. ASSUME NEW t \in Thread, ReturnCommitted(t) \/ ReturnAborted(t)
      PROVE  TypeOK'
  <2>1. ClearLists(t) /\ ZeroTs \in Timestamp /\ 0 \in 0..MaxAccess
    BY <1>5, SiloConstants
       DEF ReturnCommitted, ReturnAborted, ZeroTs, Timestamp, SiloConstants
  <2>2. /\ accesses' \in
             [Thread -> Seq([record : Record, type : AnyAccess, ts : Timestamp])]
        /\ checked' \in [Thread -> 0..MaxAccess]
        /\ installed' \in [Thread -> SUBSET Record]
        /\ currEpoch' \in [Thread -> Nat] /\ commitTs' \in [Thread -> Timestamp]
        /\ held' = held /\ stored' = stored
    <3>1. /\ checked' \in [Thread -> 0..MaxAccess]
          /\ installed' \in [Thread -> SUBSET Record]
          /\ currEpoch' \in [Thread -> Nat] /\ commitTs' \in [Thread -> Timestamp]
          /\ held' = held /\ stored' = stored
      BY <2>1 DEF ClearLists
    <3>2. <<>> \in Seq([record : Record, type : AnyAccess, ts : Timestamp])
      OBVIOUS
    <3>3. accesses' \in
            [Thread -> Seq([record : Record, type : AnyAccess, ts : Timestamp])]
      BY ONLY <1>0, <2>1, <3>2, Zenon DEF ClearLists, TypeOK
    <3> QED
      BY <3>1, <3>3
  <2>3. seen' \in [Thread -> [Record -> [Column -> Writer \cup {Unread}]]]
    BY <2>1 DEF ClearLists, AllUnread
  <2>4. CASE ReturnAborted(t)
    <3>1. pc' \in [Thread -> {"idle", "exec", "lock", "epoch", "validate",
                             "compare", "install", "release", "undo", "done"}]
      BY <2>4 DEF ReturnAborted
    <3> QED
      BY <2>2, <2>3, <2>4, <3>1 DEF ReturnAborted, shared, history
  <2>5. CASE ReturnCommitted(t)
    <3>0. pc[t] = "release" /\ PhaseOf(t)
      BY <2>5, Zenon DEF ReturnCommitted, LockInv
    <3>1. left[t] - 1 \in Nat
      BY <3>0 DEF PhaseOf
    <3>2. left' \in [Thread -> Nat] /\ isFinish' \in BOOLEAN
      BY <2>5, <3>1 DEF ReturnCommitted
    <3>3. pc' \in [Thread -> {"idle", "exec", "lock", "epoch", "validate",
                             "compare", "install", "release", "undo", "done"}]
      BY <2>5 DEF ReturnCommitted
    <3> QED
      BY <2>2, <2>3, <2>5, <3>2, <3>3 DEF ReturnCommitted, history
  <2> QED
    BY <1>5, <2>4, <2>5
<1>6. CASE AdvanceEpoch
  <2>1. epoch' \in Nat
    BY <1>6 DEF AdvanceEpoch
  <2> QED
    BY <1>6, <2>1 DEF AdvanceEpoch, txn, history
<1>7. CASE UNCHANGED vars
  BY <1>7 DEF vars, shared, txn, history
<1> QED
  BY <1>1, <1>2, <1>3, <1>4, <1>5, <1>6, <1>7, SelectType, ValidateType, CommitType
     DEF Next, Step, Install, Joined

-----------------------------------------------------------------------------
(***************************************************************************)
(* Access lists and locks.                                                 *)
(***************************************************************************)

(***************************************************************************)
(* What is made of an access list stays as long as the list does.          *)
(***************************************************************************)
LEMMA ListKept ==
  ASSUME NEW t \in Thread, accesses'[t] = accesses[t]
  PROVE  /\ Entries(t)' = Entries(t) /\ Writes(t)' = Writes(t)
         /\ Reads(t)' = Reads(t) /\ Updates(t)' = Updates(t)
         /\ seen'[t] = seen[t] => Unfinished(t)' = Unfinished(t)
<1>1. Entries(t)' = Entries(t)
  BY DEF Entries
<1>2. /\ Writes(t)' = Writes(t) /\ Reads(t)' = Reads(t)
      /\ Updates(t)' = Updates(t)
  BY <1>1 DEF Writes, Reads, Updates
<1> QED
  BY <1>1, <1>2 DEF Unfinished

(***************************************************************************)
(* ClearLists leaves no trace of the transaction.                          *)
(***************************************************************************)
LEMMA ListCleared ==
  ASSUME TypeOK, NEW t \in Thread, ClearLists(t)
  PROVE  /\ accesses'[t] = <<>> /\ Entries(t)' = {}
         /\ Writes(t)' = {} /\ Reads(t)' = {} /\ Updates(t)' = {}
         /\ Unfinished(t)' = {} /\ seen'[t] = AllUnread
         /\ checked'[t] = 0 /\ installed'[t] = {}
         /\ held' = held /\ stored' = stored
<1>1. /\ accesses'[t] = <<>> /\ seen'[t] = AllUnread
      /\ checked'[t] = 0 /\ installed'[t] = {}
      /\ held' = held /\ stored' = stored
  BY DEF ClearLists, TypeOK
<1>2. Entries(t)' = {}
  BY <1>1 DEF Entries
<1>3. Writes(t)' = {} /\ Reads(t)' = {} /\ Updates(t)' = {}
  BY <1>2 DEF Writes, Reads, Updates
<1> QED
  BY <1>1, <1>2, <1>3 DEF Unfinished

(***************************************************************************)
(* Select adds an entry for a record that has none, or reads a column of   *)
(* a record that has one to read it.                                       *)
(***************************************************************************)
LEMMA SelectCases ==
  ASSUME LockInv, NEW t \in Thread, Select(t)
  PROVE  \/ \E r \in Record, type \in AnyAccess, stamp \in Timestamp :
              /\ NewAccess(t, r, type, stamp)
              /\ \/ stamp = ts[r]
                 \/ stamp = ZeroTs /\ \A u \in Thread : r \notin Accessed(u)
         \/ \E r \in Record, c \in Column : ReadColumn(t, r, c)
<1>1. ZeroTs \in Timestamp /\ AccessType \subseteq AnyAccess
      /\ "INSERT_ONLY" \in AnyAccess
  BY SiloConstants DEF ZeroTs, Timestamp, SiloConstants, AnyAccess
<1>2. \A r \in Record : ts[r] \in Timestamp
  BY DEF LockInv, TypeOK
<1> QED
  BY <1>1, <1>2 DEF Select, SelectRecordCC, InsertRecord

(***************************************************************************)
(* A step keeps the access list of its thread in order.                    *)
(***************************************************************************)
LEMMA StepList ==
  ASSUME LockInv, NEW t \in Thread, Step(t)
  PROVE  ListOf(t)'
<1>0. TypeOK /\ ListOf(t)
  BY DEF LockInv
<1>1. ASSUME NEW r \in Record, NEW type \in AnyAccess, NEW stamp \in Timestamp,
             NewAccess(t, r, type, stamp)
      PROVE  ListOf(t)'
  <2> DEFINE n == Len(accesses'[t])
             e == [record |-> r, type |-> type, ts |-> stamp]
  <2>1. /\ n = Len(accesses[t]) + 1
        /\ DOMAIN accesses'[t] = DOMAIN accesses[t] \cup {n}
        /\ accesses'[t][n] = e
        /\ \A i \in DOMAIN accesses[t] : accesses'[t][i] = accesses[t][i] /\ i # n
    BY <1>0, <1>1, EntryAppended
  <2>2. /\ r \notin Accessed(t) /\ Len(accesses[t]) < MaxAccess
        /\ pc' = pc /\ seen' = seen /\ pc[t] = "exec"
    BY <1>1 DEF NewAccess
  <2>3. \A i \in DOMAIN accesses[t] : accesses[t][i].record # r
    BY <2>2 DEF Accessed, Entries
  <2>4. Reads(t) \subseteq Reads(t)'
    BY <1>0, <1>1, ListsGrow
  <2>5. n <= MaxAccess
    BY <1>0, <2>1, <2>2, ListTypes, SiloConstants DEF SiloConstants
  <2>6. e.record = r
    OBVIOUS
  <2> HIDE DEF n, e
  <2>7. \A i, j \in DOMAIN accesses'[t] :
          accesses'[t][i].record = accesses'[t][j].record => i = j
    BY <1>0, <2>1, <2>3, <2>6 DEF ListOf
  <2>8. Seen(t)'
    BY <1>0, <2>2, <2>4 DEF ListOf, Seen
  <2> QED
    BY <2>2, <2>5, <2>7, <2>8 DEF ListOf, n
<1>2. ASSUME NEW r \in Record, NEW c \in Column, ReadColumn(t, r, c)
      PROVE  ListOf(t)'
  <2>1. /\ accesses' = accesses /\ pc' = pc /\ pc[t] = "exec" /\ r \in Reads(t)
        /\ \A q \in Record : q # r => seen'[t][q] = seen[t][q]
    BY <1>0, <1>2 DEF ReadColumn, TypeOK
  <2>2. Reads(t)' = Reads(t)
    BY <2>1, ListKept
  <2> QED
    BY <1>0, <2>1, <2>2 DEF ListOf, Seen
<1>3. ASSUME accesses'[t] = accesses[t], seen'[t] = seen[t],
             pc'[t] = "exec" \/ pc[t] # "exec" \/ CommitTransaction(t)
      PROVE  ListOf(t)'
  <2>1. Reads(t)' = Reads(t) /\ Unfinished(t)' = Unfinished(t)
    BY <1>3, ListKept
  <2>2. pc'[t] # "exec" => Unfinished(t) = {}
    BY <1>0, <1>3 DEF ListOf, CommitTransaction
  <2> QED
    BY <1>0, <1>3, <2>1, <2>2 DEF ListOf, Seen
<1>4. ASSUME ClearLists(t) PROVE ListOf(t)'
  BY <1>0, <1>4, ListCleared, SiloConstants
     DEF ListOf, Seen, AllUnread, SiloConstants
<1>5. CASE Select(t)
  BY <1>1, <1>2, <1>5, SelectCases
<1>6. CASE Execute(t) \/ CommitTransaction(t)
  BY <1>0, <1>3, <1>6 DEF Execute, CommitTransaction, txn, TypeOK
<1>7. CASE AcquireWriteLock(t) \/ ReleaseWriteLock(t) \/ GetEpoch(t)
  BY <1>3, <1>7 DEF AcquireWriteLock, ReleaseWriteLock, GetEpoch
<1>8. CASE Validate(t)
  BY <1>3, <1>8 DEF Validate, ValidateUpdate, ExistsWriteLock, GetTimestamp,
                    SkipEntry, ValidationFrame, Validating
<1>9. CASE GetMonotoneTimestamp(t) \/ Install(t)
  BY <1>3, <1>9 DEF GetMonotoneTimestamp, Install, CopyFrom, SetVisible,
                    SetTimestamp, EndInstall, txn
<1>10. CASE ReturnCommitted(t) \/ ReturnAborted(t)
  BY <1>4, <1>10 DEF ReturnCommitted, ReturnAborted
<1> QED
  BY <1>5, <1>6, <1>7, <1>8, <1>9, <1>10 DEF Step

(***************************************************************************)
(* A validation is over its list in order.                                 *)
(***************************************************************************)
LEMMA ValidationPoint ==
  ASSUME LockInv, NEW t \in Thread, Validating(t) \/ pc[t] = "compare"
  PROVE  /\ checked[t] \in Nat /\ checked[t] < Len(accesses[t])
         /\ checked[t] + 1 \in DOMAIN accesses[t]
         /\ Entry(t) \in AccessEntry /\ Entry(t) \in Entries(t)
<1>0. TypeOK /\ PhaseOf(t)
  BY DEF LockInv
<1>1. /\ Len(accesses[t]) \in Nat
      /\ DOMAIN accesses[t] = 1..Len(accesses[t])
      /\ \A i \in DOMAIN accesses[t] : accesses[t][i] \in AccessEntry
  BY <1>0, ListTypes
<1>2. checked[t] \in 0..MaxAccess
  BY <1>0 DEF TypeOK
<1>3. checked[t] < Len(accesses[t])
  BY <1>0 DEF PhaseOf, Validating
<1>4. checked[t] \in Nat /\ checked[t] + 1 \in DOMAIN accesses[t]
  BY <1>1, <1>2, <1>3, SiloConstants DEF SiloConstants
<1> QED
  BY <1>1, <1>3, <1>4 DEF Entry, Entries

(***************************************************************************)
(* A validation step finds its entry valid, goes on to compare its         *)
(* timestamp, or fails.                                                    *)
(***************************************************************************)
LEMMA ValidateCases ==
  ASSUME LockInv, NEW t \in Thread, Validate(t)
  PROVE  /\ ValidationFrame(t) /\ pc[t] \in {"validate", "compare"}
         /\ checked[t] < Len(accesses[t])
         /\ \/ Passed(t) /\ SameTimestamp(t)
               /\ (pc[t] = "compare" \/ Entry(t).type = "READ_WRITE")
            \/ Passed(t) /\ Entry(t).type \in {"INSERT_ONLY", "DELETE_ONLY"}
            \/ /\ Validating(t) /\ Entry(t).type = "READ_ONLY"
               /\ lock[Entry(t).record].type # "WRITE_LOCK"
               /\ pc' = [pc EXCEPT ![t] = "compare"] /\ checked' = checked
            \/ pc' = [pc EXCEPT ![t] = "undo"] /\ checked' = checked
<1>1. CASE ValidateUpdate(t)
  BY <1>1 DEF ValidateUpdate, Validating, Failed
<1>2. CASE ExistsWriteLock(t)
  <2>1. pc[t] = "validate" /\ checked[t] < Len(accesses[t])
    BY <1>2 DEF ExistsWriteLock, Validating
  <2> QED
    BY <1>2, <2>1 DEF ExistsWriteLock
<1>3. CASE GetTimestamp(t)
  BY <1>3, ValidationPoint DEF GetTimestamp, Failed
<1>4. CASE SkipEntry(t)
  BY <1>4 DEF SkipEntry, Validating
<1> QED
  BY <1>1, <1>2, <1>3, <1>4 DEF Validate

(***************************************************************************)
(* A step keeps its thread's locks and counters in phase.                  *)
(***************************************************************************)
LEMMA StepPhase ==
  ASSUME LockInv, TypeOK', NEW t \in Thread, Step(t)
  PROVE  PhaseOf(t)'
<1>0. TypeOK /\ PhaseOf(t) /\ ListOf(t)
  BY DEF LockInv
<1>a. Len(accesses[t]) \in Nat /\ checked[t] \in Nat
  <2>1. checked[t] \in 0..MaxAccess
    BY <1>0 DEF TypeOK
  <2> QED
    BY <1>0, <2>1, ListTypes, SiloConstants DEF SiloConstants
<1>b. ASSUME accesses'[t] = accesses[t], checked'[t] = checked[t]
      PROVE  Writes(t)' = Writes(t) /\ Entry(t)' = Entry(t)
  BY <1>b, ListKept DEF Entry
<1>1. CASE Select(t)
  <2>1. ASSUME NEW r \in Record, NEW type \in AnyAccess, NEW stamp \in Timestamp,
               NewAccess(t, r, type, stamp)
        PROVE  PhaseOf(t)'
    <3>1. /\ pc[t] = "exec" /\ pc' = pc /\ left' = left /\ held' = held
          /\ checked' = checked /\ stored' = stored /\ installed' = installed
      BY <2>1 DEF NewAccess
    <3>2. Len(accesses'[t]) = Len(accesses[t]) + 1
      BY <1>0, <2>1, EntryAppended
    <3> QED
      BY <1>0, <1>a, <3>1, <3>2 DEF PhaseOf
  <2>2. ASSUME NEW r \in Record, NEW c \in Column, ReadColumn(t, r, c)
        PROVE  PhaseOf(t)'
    <3>1. /\ pc[t] = "exec" /\ pc' = pc /\ left' = left /\ held' = held
          /\ checked' = checked /\ stored' = stored /\ installed' = installed
          /\ accesses' = accesses
      BY <2>2 DEF ReadColumn
    <3> QED
      BY <1>0, <3>1 DEF PhaseOf
  <2> QED
    BY <1>1, <2>1, <2>2, SelectCases
<1>2. CASE Execute(t)
  <2>1. /\ pc[t] = "idle" /\ pc'[t] = "exec" /\ left' = left /\ txn' = txn
    BY <1>0, <1>2 DEF Execute, TypeOK
  <2> QED
    BY <1>0, <2>1 DEF PhaseOf, txn
<1>3. CASE CommitTransaction(t)
  <2>1. /\ pc[t] = "exec" /\ left' = left /\ txn' = txn
        /\ pc'[t] = IF Writes(t) = {} THEN "epoch" ELSE "lock"
    BY <1>0, <1>3 DEF CommitTransaction, TypeOK
  <2>2. Writes(t)' = Writes(t)
    BY <2>1, <1>b DEF txn
  <2> QED
    BY <1>0, <2>1, <2>2 DEF PhaseOf, txn
<1>4. CASE AcquireWriteLock(t)
  <2>1. PICK r \in Record :
          /\ NextToLock(t, r) /\ held'[t] = held[t] \cup {r}
          /\ pc'[t] = IF Writes(t) \subseteq held'[t] THEN "epoch" ELSE "lock"
    BY <1>0, <1>4 DEF AcquireWriteLock, TypeOK
  <2>2. /\ pc[t] = "lock" /\ left' = left /\ accesses' = accesses
        /\ checked' = checked /\ stored' = stored /\ installed' = installed
    BY <1>4 DEF AcquireWriteLock
  <2>3. Writes(t)' = Writes(t) /\ held'[t] \subseteq Writes(t)
    BY <1>0, <1>b, <2>1, <2>2 DEF PhaseOf, NextToLock, IsFirst
  <2>4. pc'[t] \in {"epoch", "lock"} /\ (pc'[t] = "epoch" => held'[t] = Writes(t))
    BY <2>1, <2>3
  <2> QED
    BY <1>0, <2>2, <2>3, <2>4 DEF PhaseOf
<1>5. CASE GetEpoch(t)
  <2>1. /\ pc[t] = "epoch" /\ pc'[t] = "validate" /\ left' = left
        /\ accesses' = accesses /\ held' = held /\ checked' = checked
        /\ stored' = stored /\ installed' = installed
    BY <1>0, <1>5 DEF GetEpoch, TypeOK
  <2>2. Writes(t)' = Writes(t)
    BY <2>1, <1>b
  <2> QED
    BY <1>0, <2>1, <2>2 DEF PhaseOf
<1>6. CASE Validate(t)
  <2>1. /\ pc[t] \in {"validate", "compare"} /\ left' = left
        /\ accesses' = accesses /\ held' = held /\ stored' = stored
        /\ installed' = installed /\ checked[t] < Len(accesses[t])
    BY <1>6, ValidateCases DEF ValidationFrame
  <2>2. \/ pc'[t] = "validate" /\ checked'[t] = checked[t] + 1
        \/ /\ pc'[t] = "compare" /\ checked' = checked
           /\ Entry(t).type = "READ_ONLY"
        \/ pc'[t] = "undo" /\ checked' = checked
    <3>1. \/ Passed(t)
          \/ /\ Entry(t).type = "READ_ONLY"
             /\ pc' = [pc EXCEPT ![t] = "compare"] /\ checked' = checked
          \/ pc' = [pc EXCEPT ![t] = "undo"] /\ checked' = checked
      BY <1>6, ValidateCases
    <3>2. /\ pc \in [Thread -> {"idle", "exec", "lock", "epoch", "validate",
                               "compare", "install", "release", "undo", "done"}]
          /\ checked \in [Thread -> 0..MaxAccess]
      BY <1>0 DEF TypeOK
    <3> QED
      BY <3>1, <3>2 DEF Passed
  <2>3. Writes(t)' = Writes(t)
    BY <2>1, ListKept
  <2>4. checked' = checked => Entry(t)' = Entry(t)
    BY <2>1 DEF Entry
  <2>5. checked'[t] <= Len(accesses'[t])
    BY <1>a, <2>1, <2>2
  <2> QED
    BY <1>0, <2>1, <2>2, <2>3, <2>4, <2>5 DEF PhaseOf
<1>7. CASE GetMonotoneTimestamp(t)
  <2>1. /\ pc[t] = "validate" /\ pc'[t] = "install" /\ left' = left
        /\ accesses' = accesses /\ held' = held /\ checked' = checked
        /\ stored' = stored /\ installed' = installed
    BY <1>0, <1>7 DEF GetMonotoneTimestamp, TypeOK
  <2>2. Writes(t)' = Writes(t)
    BY <2>1, <1>b
  <2> QED
    BY <1>0, <2>1, <2>2 DEF PhaseOf
<1>8. CASE \E r \in Record : (\E c \in Column : CopyFrom(t, r, c))
                             \/ SetVisible(t, r)
  <2>1. PICK r \in Record : (\E c \in Column : CopyFrom(t, r, c)) \/ SetVisible(t, r)
    BY <1>8
  <2>2. /\ pc[t] = "install" /\ pc' = pc /\ left' = left
        /\ accesses' = accesses /\ held' = held /\ checked' = checked
        /\ installed' = installed /\ NextToInstall(t, r)
    BY <2>1 DEF CopyFrom, SetVisible
  <2>3. Writes(t)' = Writes(t) /\ ~(Writes(t) \subseteq installed[t])
    BY <1>b, <2>2 DEF NextToInstall, IsFirst
  <2> QED
    BY <1>0, <2>2, <2>3 DEF PhaseOf
<1>9. CASE (\E r \in Record : SetTimestamp(t, r)) \/ EndInstall(t)
  <2>1. /\ pc[t] = "install" /\ left' = left
        /\ accesses' = accesses /\ held' = held /\ checked' = checked
    BY <1>9 DEF SetTimestamp, EndInstall, txn
  <2>2. \/ pc' = pc /\ stored'[t] = {}
        \/ /\ pc'[t] = "release" /\ installed' = installed /\ stored' = stored
           /\ Writes(t) = installed[t]
    BY <1>0, <1>9 DEF SetTimestamp, EndInstall, txn, TypeOK
  <2>3. Writes(t)' = Writes(t)
    BY <1>b, <2>1
  <2> QED
    BY <1>0, <2>1, <2>2, <2>3 DEF PhaseOf
<1>10. CASE ReleaseWriteLock(t)
  <2>1. PICK r \in Record : held'[t] = held[t] \ {r}
    BY <1>0, <1>10 DEF ReleaseWriteLock, TypeOK
  <2>2. /\ pc[t] \in {"release", "undo"} /\ pc' = pc /\ left' = left
        /\ accesses' = accesses /\ checked' = checked /\ stored' = stored
        /\ installed' = installed
    BY <1>10 DEF ReleaseWriteLock
  <2>3. Writes(t)' = Writes(t)
    BY <1>b, <2>2
  <2> QED
    BY <1>0, <2>1, <2>2, <2>3 DEF PhaseOf
<1>11. CASE ReturnCommitted(t) \/ ReturnAborted(t)
  <2>1. /\ pc[t] \in {"release", "undo"} /\ held[t] = {}
        /\ pc'[t] \in {"idle", "done"}
        /\ ClearLists(t) /\ (left'[t] = left[t] \/ left'[t] = left[t] - 1)
        /\ (left'[t] = left[t] - 1 /\ pc'[t] # "done") => left[t] # 1
    <3>0. /\ pc \in [Thread -> {"idle", "exec", "lock", "epoch", "validate",
                               "compare", "install", "release", "undo", "done"}]
          /\ left \in [Thread -> Nat]
      BY <1>0 DEF TypeOK
    <3>1. CASE ReturnCommitted(t)
      BY <3>0, <3>1 DEF ReturnCommitted
    <3>2. CASE ReturnAborted(t)
      BY <3>0, <3>2 DEF ReturnAborted
    <3> QED
      BY <1>11, <3>1, <3>2
  <2>2. /\ accesses'[t] = <<>> /\ checked'[t] = 0 /\ installed'[t] = {}
        /\ held'[t] = {} /\ stored'[t] = {}
    BY <1>0, <2>1, ListCleared DEF PhaseOf
  <2>3. left[t] \in Nat /\ left[t] > 0
    BY <1>0, <2>1 DEF PhaseOf, TypeOK
  <2>4. pc'[t] # "done" => left'[t] > 0
    BY <2>1, <2>3
  <2> QED
    BY <2>1, <2>2, <2>4 DEF PhaseOf
<1> QED
  BY <1>1, <1>2, <1>3, <1>4, <1>5, <1>6, <1>7, <1>8, <1>9, <1>10, <1>11
     DEF Step, Install

(***************************************************************************)
(* A record is locked or released by the thread that is to hold it or      *)
(* holds it.                                                               *)
(***************************************************************************)
LEMMA StepLocks ==
  ASSUME LockInv, NEW t \in Thread, Step(t), NEW q \in Record
  PROVE  LockOf(q)'
<1>0. TypeOK /\ LockOf(q) /\ \A r \in Record : LockOf(r)
  BY DEF LockInv
<1>1. CASE AcquireWriteLock(t)
  <2>1. PICK r \in Record : /\ CanWriteLock(lock[r])
                            /\ lock' = [lock EXCEPT ![r] = WriteLocked(lock[r])]
                            /\ held' = [held EXCEPT ![t] = held[t] \cup {r}]
    BY <1>1 DEF AcquireWriteLock
  <2>2. CASE q = r
    <3>1. lock'[q].type = "WRITE_LOCK"
      BY <1>0, <2>1, <2>2 DEF WriteLocked, TypeOK, LockType
    <3>2. \A u \in Thread : q \notin held[u]
      BY <1>0, <2>1, <2>2 DEF LockOf, CanWriteLock
    <3>3. \A u \in Thread : q \in held'[u] <=> u = t
      BY <1>0, <2>1, <2>2, <3>2 DEF TypeOK
    <3> QED
      BY <3>1, <3>3 DEF LockOf
  <2>3. CASE q # r
    <3>1. lock'[q] = lock[q] /\ \A u \in Thread : q \in held'[u] <=> q \in held[u]
      BY <1>0, <2>1, <2>3 DEF TypeOK
    <3> QED
      BY <1>0, <3>1 DEF LockOf
  <2> QED
    BY <2>2, <2>3
<1>2. CASE ReleaseWriteLock(t)
  <2>1. PICK r \in Record : /\ r \in held[t]
                            /\ lock' = [lock EXCEPT ![r] = WriteReleased(lock[r])]
                            /\ held' = [held EXCEPT ![t] = held[t] \ {r}]
    BY <1>2 DEF ReleaseWriteLock, NextToRelease, IsFirst
  <2>2. CASE q = r
    <3>1. lock'[q].type = "NO_LOCK"
      BY <1>0, <2>1, <2>2 DEF WriteReleased, TypeOK, LockType
    <3>2. \A u \in Thread : q \notin held'[u]
      BY <1>0, <2>1, <2>2 DEF TypeOK, LockOf
    <3> QED
      BY <3>1, <3>2 DEF LockOf
  <2>3. CASE q # r
    <3>1. lock'[q] = lock[q] /\ \A u \in Thread : q \in held'[u] <=> q \in held[u]
      BY <1>0, <2>1, <2>3 DEF TypeOK
    <3> QED
      BY <1>0, <3>1 DEF LockOf
  <2> QED
    BY <2>2, <2>3
<1>3. ASSUME lock' = lock, held' = held PROVE LockOf(q)'
  BY <1>0, <1>3 DEF LockOf
<1>4. CASE Execute(t) \/ CommitTransaction(t) \/ GetEpoch(t)
  BY <1>3, <1>4 DEF Execute, CommitTransaction, GetEpoch, shared, txn
<1>5. CASE Select(t)
  BY <1>3, <1>5 DEF Select, SelectRecordCC, InsertRecord, NewAccess, ReadColumn,
                    shared
<1>6. CASE Validate(t)
  BY <1>3, <1>6, ValidateCases DEF ValidationFrame, shared
<1>7. CASE GetMonotoneTimestamp(t) \/ Install(t)
  BY <1>3, <1>7 DEF GetMonotoneTimestamp, Install, CopyFrom, SetVisible,
                    SetTimestamp, EndInstall, shared, txn
<1>8. CASE ReturnCommitted(t) \/ ReturnAborted(t)
  BY <1>3, <1>8 DEF ReturnCommitted, ReturnAborted, ClearLists, shared
<1> QED
  BY <1>1, <1>2, <1>4, <1>5, <1>6, <1>7, <1>8 DEF Step

(***************************************************************************)
(* The lock invariant is inductive.                                        *)
(***************************************************************************)
LEMMA NextLock == LockInv /\ [Next]_vars => LockInv'
<1> SUFFICES ASSUME LockInv, [Next]_vars PROVE LockInv'
  OBVIOUS
<1>1. TypeOK'
  BY NextType
<1>2. CASE \E t \in Thread : Step(t)
  <2>1. PICK t \in Thread : Step(t)
    BY <1>2
  <2>2. TypeOK /\ \A u \in Thread : ListOf(u) /\ PhaseOf(u)
    BY DEF LockInv
  <2>3. \A u \in Thread : u # t => ListOf(u)' /\ PhaseOf(u)'
    BY <2>1, <2>2, OthersUnmoved, UnmovedKept
  <2>4. ListOf(t)' /\ PhaseOf(t)'
    BY <1>1, <2>1, StepList, StepPhase
  <2>5. \A r \in Record : LockOf(r)'
    BY <2>1, StepLocks
  <2> QED
    BY <1>1, <2>3, <2>4, <2>5 DEF LockInv
<1>3. CASE AdvanceEpoch \/ UNCHANGED vars
  <2>1. /\ \A u \in Thread : Unmoved(u) /\ ListOf(u) /\ PhaseOf(u)
        /\ lock' = lock /\ held' = held
    BY <1>3 DEF AdvanceEpoch, vars, shared, txn, history, Unmoved, LockInv
  <2>2. \A u \in Thread : ListOf(u)' /\ PhaseOf(u)'
    BY <2>1, UnmovedKept
  <2>3. \A r \in Record : LockOf(r)'
    BY <2>1 DEF LockInv, LockOf
  <2> QED
    BY <1>1, <2>2, <2>3 DEF LockInv
<1> QED
  BY <1>2, <1>3 DEF Next, Joined

-----------------------------------------------------------------------------
(***************************************************************************)
(* The history.  The name of a committed transaction is that of no other:  *)
(* the thread is at a later transaction, or installing this one.           *)
(***************************************************************************)
NamesInv ==
  /\ \A a \in committed :
       /\ left[a.name[1]] <= a.name[2]
       /\ a.name[2] = left[a.name[1]] => pc[a.name[1]] \in {"install", "release"}
  /\ \A a, b \in committed : a.name = b.name => a = b
  /\ \A t \in Thread, a \in committed :
       pc[t] = "install" /\ a.name = Name(t) => a.updates = Updates(t)

(***************************************************************************)
(* The versions of a record are by different committed transactions, and a *)
(* transaction that is installing has written the last one.                *)
(***************************************************************************)
Known(r, w) == w = Loader \/ \E i \in DOMAIN versions[r] : versions[r][i] = w

VersionsInv ==
  /\ \A r \in Record : \A i, j \in DOMAIN versions[r] :
       versions[r][i] = versions[r][j] => i = j
  /\ \A r \in Record : \A i \in DOMAIN versions[r] :
       \E a \in committed : a.name = versions[r][i]
  /\ \A t \in Thread : pc[t] = "install" => \A r \in Writes(t) :
       versions[r] # <<>> /\ versions[r][Len(versions[r])] = Name(t)
  /\ \A a \in committed : \A r \in a.updates : Wrote(a, r)

(***************************************************************************)
(* What the records hold and the transactions have seen are versions.      *)
(***************************************************************************)
KnownInv ==
  /\ \A r \in Record, c \in Column : Known(r, word[r][c])
  /\ \A t \in Thread, r \in Record, c \in Column :
       seen[t][r][c] = Unread \/ Known(r, seen[t][r][c])
  /\ \A a \in committed : \A s \in a.saw : Known(s[1], s[2])

(***************************************************************************)
(* A record holds its last version, but for the columns that the           *)
(* transaction that wrote it has yet to store.                             *)
(***************************************************************************)
Installs(t, r) == pc[t] = "install" /\ r \in Writes(t) \ installed[t]

Storing(t, r, c) == Installs(t, r) /\ ~(NextToInstall(t, r) /\ c \in stored[t])

WordsInv ==
  \A r \in Record, c \in Column, b \in committed :
    Overtaken(r, word[r][c], b) =>
      \E t \in Thread : b.name = Name(t) /\ Storing(t, r, c)

HistInv == NamesInv /\ VersionsInv /\ KnownInv /\ WordsInv

(***************************************************************************)
(* The versions of a record are numbered from 1; version 0 is the          *)
(* populator's.                                                            *)
(***************************************************************************)
Place(s, w) == IF w = Loader THEN 0 ELSE CHOOSE i \in DOMAIN s : s[i] = w

Among(s, w) == w = Loader \/ \E i \in DOMAIN s : s[i] = w

Distinct(s) == \A i, j \in DOMAIN s : s[i] = s[j] => i = j

(***************************************************************************)
(* In a list without repetition each writer has one place, the populator   *)
(* is before all.                                                          *)
(***************************************************************************)
LEMMA Places ==
  ASSUME NEW s \in Seq(Thread \X Nat), Distinct(s)
  PROVE  /\ Len(s) \in Nat /\ DOMAIN s = 1..Len(s)
         /\ \A i \in DOMAIN s : s[i] # Loader /\ Place(s, s[i]) = i
         /\ Place(s, Loader) = 0
         /\ \A w : Among(s, w) => Place(s, w) \in Nat /\ Place(s, w) <= Len(s)
<1>1. /\ Len(s) \in Nat /\ DOMAIN s = 1..Len(s)
      /\ \A i \in DOMAIN s : s[i] \in Thread \X Nat
  BY LenProperties, ElementOfSeq
<1>2. \A i \in DOMAIN s : s[i] # Loader
  BY <1>1, SiloConstants DEF SiloConstants
<1>3. \A i \in DOMAIN s : Place(s, s[i]) = i
  BY <1>2 DEF Place, Distinct
<1>4. Place(s, Loader) = 0
  BY DEF Place
<1>5. ASSUME NEW w, Among(s, w) PROVE Place(s, w) \in Nat /\ Place(s, w) <= Len(s)
  <2>1. CASE w = Loader
    BY <1>1, <1>4, <2>1
  <2>2. CASE \E i \in DOMAIN s : s[i] = w
    BY <1>1, <1>3, <2>2
  <2> QED
    BY <1>5, <2>1, <2>2 DEF Among
<1> QED
  BY <1>1, <1>2, <1>3, <1>4, <1>5

(***************************************************************************)
(* The version that a transaction has written is its place in the list.    *)
(***************************************************************************)
LEMMA VersionPlace ==
  ASSUME NEW r, NEW w
  PROVE  /\ Version(r, w) = Place(versions[r], w)
         /\ Version(r, w)' = Place(versions'[r], w)
         /\ Known(r, w) = Among(versions[r], w)
         /\ Known(r, w)' = Among(versions'[r], w)
  BY DEF Version, Place, Known, Among

(***************************************************************************)
(* The same, of the list of a record.                                      *)
(***************************************************************************)
LEMMA VersionNumbers ==
  ASSUME TypeOK, VersionsInv, NEW r \in Record
  PROVE  /\ Len(versions[r]) \in Nat
         /\ DOMAIN versions[r] = 1..Len(versions[r])
         /\ \A i \in DOMAIN versions[r] : Version(r, versions[r][i]) = i
         /\ \A w : Known(r, w) => /\ Version(r, w) \in Nat
                                  /\ Version(r, w) <= Len(versions[r])
<1>1. versions[r] \in Seq(Thread \X Nat) /\ Distinct(versions[r])
  BY DEF TypeOK, VersionsInv, Distinct
<1> QED
  BY <1>1, Places, VersionPlace

(***************************************************************************)
(* No version follows the one that is being installed.                     *)
(***************************************************************************)
LEMMA InstalledLast ==
  ASSUME TypeOK, VersionsInv, NEW t \in Thread, pc[t] = "install",
         NEW r \in Writes(t), r \in Record
  PROVE  /\ Known(r, Name(t)) /\ Version(r, Name(t)) = Len(versions[r])
         /\ \A b \in committed : ~Overtaken(r, Name(t), b)
<1>1. /\ Len(versions[r]) \in Nat /\ DOMAIN versions[r] = 1..Len(versions[r])
      /\ \A i \in DOMAIN versions[r] : Version(r, versions[r][i]) = i
      /\ \A w : Known(r, w) => /\ Version(r, w) \in Nat
                               /\ Version(r, w) <= Len(versions[r])
  BY VersionNumbers
<1>2. versions[r] # <<>> /\ versions[r][Len(versions[r])] = Name(t)
  BY DEF VersionsInv
<1>3. Len(versions[r]) # 0
  BY <1>2, EmptySeq DEF TypeOK
<1>4. Len(versions[r]) \in DOMAIN versions[r]
  BY <1>1, <1>3
<1>5. Known(r, Name(t)) /\ Version(r, Name(t)) = Len(versions[r])
  BY <1>1, <1>2, <1>4 DEF Known
<1>6. ASSUME NEW b \in committed, Overtaken(r, Name(t), b) PROVE FALSE
  <2>1. r \in b.updates /\ Len(versions[r]) < Version(r, b.name)
    BY <1>5, <1>6 DEF Overtaken
  <2>2. Known(r, b.name)
    BY <2>1 DEF VersionsInv, Wrote, Known
  <2> QED
    BY <1>1, <2>1, <2>2
<1> QED
  BY <1>5, <1>6

(***************************************************************************)
(* The versions say the same as long as they do not change.                *)
(***************************************************************************)
LEMMA SameVersions ==
  ASSUME versions' = versions
  PROVE  /\ \A r, w : Version(r, w)' = Version(r, w) /\ Known(r, w)' = Known(r, w)
         /\ \A a, r : Wrote(a, r)' = Wrote(a, r)
         /\ \A r, w, b : Overtaken(r, w, b)' = Overtaken(r, w, b)
         /\ \A a, b : Precedes(a, b)' = Precedes(a, b)
<1>1. \A r, w : Version(r, w)' = Version(r, w) /\ Known(r, w)' = Known(r, w)
  BY DEF Version, Known
<1>2. \A a, r : Wrote(a, r)' = Wrote(a, r)
  BY DEF Wrote
<1>3. \A r, w, b : Overtaken(r, w, b)' = Overtaken(r, w, b)
  BY <1>1 DEF Overtaken
<1>4. \A a, b : Precedes(a, b)' = Precedes(a, b)
  BY <1>1, <1>2, <1>3 DEF Precedes, ReadsFrom, Overwrites, AntiDepends
<1> QED
  BY <1>1, <1>2, <1>3, <1>4

(***************************************************************************)
(* A step that draws no commit timestamp leaves the history alone.         *)
(***************************************************************************)
LEMMA QuietStep ==
  ASSUME LockInv, NEW t \in Thread, Step(t), ~GetMonotoneTimestamp(t)
  PROVE  /\ committed' = committed /\ versions' = versions /\ monotone' = monotone
         /\ \/ /\ left'[t] = left[t]
               /\ pc[t] \in {"install", "release"} =>
                    pc'[t] \in {"install", "release"}
            \/ left'[t] = left[t] - 1
         /\ pc'[t] = "install" => /\ pc[t] = "install" /\ left'[t] = left[t]
                                  /\ accesses'[t] = accesses[t]
                                  /\ commitTs'[t] = commitTs[t]
         /\ pc[t] = "install" => Install(t)
         /\ pc[t] # "install" => /\ word' = word /\ ts' = ts
                                 /\ pc'[t] # "install"
<1>0. /\ pc \in [Thread -> {"idle", "exec", "lock", "epoch", "validate",
                           "compare", "install", "release", "undo", "done"}]
      /\ left \in [Thread -> Nat]
  BY DEF LockInv, TypeOK
<1>1. CASE Execute(t) \/ CommitTransaction(t)
  BY <1>0, <1>1 DEF Execute, CommitTransaction, history, shared
<1>2. CASE Select(t)
  <2>1. /\ pc[t] = "exec" /\ pc' = pc /\ left' = left
        /\ history' = history /\ shared' = shared
    BY <1>2 DEF Select, SelectRecordCC, InsertRecord, NewAccess, ReadColumn
  <2> QED
    BY <2>1 DEF history, shared
<1>3. CASE AcquireWriteLock(t)
  <2>1. /\ pc[t] = "lock" /\ left' = left /\ history' = history /\ ts' = ts
        /\ monotone' = monotone /\ word' = word
        /\ \E p \in {"epoch", "lock"} : pc' = [pc EXCEPT ![t] = p]
    BY <1>3 DEF AcquireWriteLock
  <2> QED
    BY <1>0, <2>1 DEF history
<1>4. CASE ReleaseWriteLock(t)
  BY <1>4 DEF ReleaseWriteLock, history
<1>5. CASE GetEpoch(t)
  BY <1>0, <1>5 DEF GetEpoch, history, shared
<1>6. CASE Validate(t)
  <2>1. /\ pc[t] \in {"validate", "compare"} /\ left' = left
        /\ history' = history /\ shared' = shared
        /\ \E p \in {"validate", "compare", "undo"} : pc' = [pc EXCEPT ![t] = p]
    BY <1>6, ValidateCases DEF ValidationFrame, Passed
  <2> QED
    BY <1>0, <2>1 DEF history, shared
<1>7. CASE Install(t)
  <2>1. pc[t] = "install" /\ left' = left /\ history' = history
        /\ monotone' = monotone /\ accesses' = accesses /\ commitTs' = commitTs
    BY <1>7 DEF Install, CopyFrom, SetVisible, SetTimestamp, EndInstall, shared, txn
  <2>2. pc' = pc \/ pc' = [pc EXCEPT ![t] = "release"]
    BY <1>7 DEF Install, CopyFrom, SetVisible, SetTimestamp, EndInstall
  <2> QED
    BY <1>0, <1>7, <2>1, <2>2 DEF history
<1>8. CASE ReturnCommitted(t)
  <2>1. /\ pc[t] = "release" /\ left'[t] = left[t] - 1 /\ history' = history
        /\ word' = word /\ ts' = ts /\ monotone' = monotone
        /\ pc'[t] \in {"idle", "done"}
    BY <1>0, <1>8 DEF ReturnCommitted, history
  <2> QED
    BY <2>1 DEF history
<1>9. CASE ReturnAborted(t)
  <2>1. /\ pc[t] = "undo" /\ left' = left /\ history' = history
        /\ shared' = shared /\ pc'[t] \in {"idle", "done"}
    BY <1>0, <1>9 DEF ReturnAborted
  <2> QED
    BY <2>1 DEF history, shared
<1> QED
  BY <1>1, <1>2, <1>3, <1>4, <1>5, <1>6, <1>7, <1>8, <1>9 DEF Step

(***************************************************************************)
(* Names and versions stay in order while nothing is committed.            *)
(***************************************************************************)
LEMMA QuietNames ==
  ASSUME LockInv, HistInv, NEW t \in Thread, Step(t), ~GetMonotoneTimestamp(t)
  PROVE  NamesInv' /\ VersionsInv'
<1>1. /\ committed' = committed /\ versions' = versions
      /\ \/ /\ left'[t] = left[t]
            /\ pc[t] \in {"install", "release"} =>
                 pc'[t] \in {"install", "release"}
         \/ left'[t] = left[t] - 1
      /\ pc'[t] = "install" => /\ pc[t] = "install" /\ left'[t] = left[t]
                               /\ accesses'[t] = accesses[t]
  BY QuietStep
<1>2. TypeOK /\ NamesInv /\ VersionsInv
  BY DEF LockInv, HistInv
<1>3. \A u \in Thread : u # t => Unmoved(u)
  BY <1>2, OthersUnmoved
<1>4. \A u \in Thread : pc'[u] = "install" =>
        /\ pc[u] = "install" /\ Name(u)' = Name(u)
        /\ Writes(u)' = Writes(u) /\ Updates(u)' = Updates(u)
  <2>1. ASSUME NEW u \in Thread, pc'[u] = "install"
        PROVE  pc[u] = "install" /\ left'[u] = left[u] /\ accesses'[u] = accesses[u]
    BY <1>1, <1>3, <2>1 DEF Unmoved
  <2> QED
    BY <2>1, ListKept DEF Name
<1>5. ASSUME NEW a \in committed
      PROVE  /\ left'[a.name[1]] <= a.name[2]
             /\ a.name[2] = left'[a.name[1]] => pc'[a.name[1]] \in {"install", "release"}
  <2>1. /\ a.name[1] \in Thread /\ a.name[2] \in Nat /\ left[a.name[1]] \in Nat
        /\ left[a.name[1]] <= a.name[2]
        /\ a.name[2] = left[a.name[1]] => pc[a.name[1]] \in {"install", "release"}
    BY <1>2 DEF TypeOK, NamesInv
  <2>2. CASE a.name[1] = t
    BY <1>1, <2>1, <2>2
  <2>3. CASE a.name[1] # t
    BY <1>3, <2>1, <2>3 DEF Unmoved
  <2> QED
    BY <2>2, <2>3
<1>6. NamesInv'
  BY <1>1, <1>2, <1>4, <1>5 DEF NamesInv
<1>7. \A a \in committed : \A r \in a.updates : Wrote(a, r)'
  BY <1>1, <1>2, SameVersions DEF VersionsInv
<1>8. VersionsInv'
  BY <1>1, <1>2, <1>4, <1>7 DEF VersionsInv
<1> QED
  BY <1>6, <1>8

(***************************************************************************)
(* Only known versions are stored and read.                                *)
(***************************************************************************)
LEMMA QuietKnown ==
  ASSUME LockInv, HistInv, NEW t \in Thread, Step(t), ~GetMonotoneTimestamp(t)
  PROVE  KnownInv'
<1>1. committed' = committed /\ versions' = versions
  BY QuietStep
<1>2. TypeOK /\ VersionsInv /\ KnownInv
  BY DEF LockInv, HistInv
<1>3. \A r, w : Known(r, w)' = Known(r, w)
  BY <1>1, SameVersions
<1>4. ASSUME NEW r \in Record, NEW c \in Column PROVE Known(r, word'[r][c])
  <2>1. CASE pc[t] # "install"
    BY <1>2, <2>1, QuietStep DEF KnownInv
  <2>2. CASE pc[t] = "install"
    <3>1. ASSUME NEW q \in Record, NEW d \in Column, CopyFrom(t, q, d)
          PROVE  Known(r, word'[r][c])
      <4>1. q \in Writes(t) /\ word' = [word EXCEPT ![q][d] = Name(t)]
        BY <3>1 DEF CopyFrom, NextToInstall, IsFirst
      <4>2. Known(q, Name(t))
        BY <1>2, <2>2, <4>1, InstalledLast
      <4>3. word'[r][c] = word[r][c] \/ (r = q /\ word'[r][c] = Name(t))
        BY <1>2, <4>1 DEF TypeOK
      <4> QED
        BY <1>2, <4>2, <4>3 DEF KnownInv
    <3>2. ASSUME word' = word PROVE Known(r, word'[r][c])
      BY <1>2, <3>2 DEF KnownInv
    <3>3. Install(t)
      BY <2>2, QuietStep
    <3> QED
      BY <3>1, <3>2, <3>3 DEF Install, SetVisible, SetTimestamp, EndInstall, shared
  <2> QED
    BY <2>1, <2>2
<1>5. ASSUME NEW u \in Thread, NEW r \in Record, NEW c \in Column
      PROVE  seen'[u][r][c] = Unread \/ Known(r, seen'[u][r][c])
  <2>1. ASSUME seen'[u] = seen[u]
        PROVE  seen'[u][r][c] = Unread \/ Known(r, seen'[u][r][c])
    BY <1>2, <2>1 DEF KnownInv
  <2>2. ASSUME u = t, NEW q \in Record, NEW d \in Column, ReadColumn(t, q, d)
        PROVE  seen'[u][r][c] = Unread \/ Known(r, seen'[u][r][c])
    <3>1. seen' = [seen EXCEPT ![t][q][d] = word[q][d]]
      BY <2>2 DEF ReadColumn
    <3>2. \/ seen'[t][r][c] = seen[t][r][c]
          \/ r = q /\ c = d /\ seen'[t][r][c] = word[r][c]
      BY <1>2, <3>1 DEF TypeOK
    <3> QED
      BY <1>2, <2>2, <3>2 DEF KnownInv
  <2>3. ASSUME ClearLists(t), u = t
        PROVE  seen'[u][r][c] = Unread \/ Known(r, seen'[u][r][c])
    BY <1>2, <2>3, ListCleared DEF AllUnread
  <2>4. CASE u # t
    BY <1>2, <2>1, <2>4, OthersUnmoved DEF Unmoved
  <2>5. CASE Execute(t) \/ CommitTransaction(t) \/ AcquireWriteLock(t)
             \/ ReleaseWriteLock(t) \/ GetEpoch(t)
    BY <2>1, <2>5 DEF Execute, CommitTransaction, AcquireWriteLock,
                      ReleaseWriteLock, GetEpoch, txn
  <2>6. CASE Select(t) /\ u = t
    <3>1. ASSUME NEW q \in Record, NEW type \in AnyAccess, NEW stamp \in Timestamp,
                 NewAccess(t, q, type, stamp)
          PROVE  seen' = seen
      BY <3>1 DEF NewAccess
    <3> QED
      BY <2>1, <2>2, <2>6, <3>1, SelectCases
  <2>7. CASE Validate(t)
    BY <2>1, <2>7, ValidateCases DEF ValidationFrame
  <2>8. CASE Install(t)
    BY <2>1, <2>8 DEF Install, CopyFrom, SetVisible, SetTimestamp, EndInstall, txn
  <2>9. CASE (ReturnCommitted(t) \/ ReturnAborted(t)) /\ u = t
    BY <2>3, <2>9 DEF ReturnCommitted, ReturnAborted
  <2> QED
    BY <2>4, <2>5, <2>6, <2>7, <2>8, <2>9 DEF Step
<1>6. \A a \in committed : \A s \in a.saw : Known(s[1], s[2])
  BY <1>2 DEF KnownInv
<1> QED
  BY <1>1, <1>3, <1>4, <1>5, <1>6 DEF KnownInv

(***************************************************************************)
(* A thread that does not move is as far in its installation.              *)
(***************************************************************************)
LEMMA UnmovedStores ==
  ASSUME NEW u \in Thread, Unmoved(u)
  PROVE  /\ Name(u)' = Name(u)
         /\ \A r : Installs(u, r)' = Installs(u, r)
         /\ \A r, c : Storing(u, r, c)' = Storing(u, r, c)
<1>1. Name(u)' = Name(u) /\ Writes(u)' = Writes(u)
  BY UnmovedKept
<1>2. \A r : Installs(u, r)' = Installs(u, r)
  BY <1>1 DEF Installs, Unmoved
<1>3. \A r : NextToInstall(u, r)' = NextToInstall(u, r)
  BY <1>1 DEF NextToInstall, IsFirst, Unmoved
<1> QED
  BY <1>1, <1>2, <1>3 DEF Storing, Unmoved

(***************************************************************************)
(* One record is the next to be installed.                                 *)
(***************************************************************************)
LEMMA FirstUnique ==
  ASSUME NEW S, S \subseteq Record, NEW q, NEW r, IsFirst(q, S), IsFirst(r, S)
  PROVE  q = r
<1>1. q \in Nat /\ r \in Nat /\ q <= r /\ r <= q
  BY SiloConstants DEF IsFirst, SiloConstants
<1> QED
  BY <1>1

(***************************************************************************)
(* An installation stores the columns of a record one by one and then      *)
(* goes on to the next record.                                             *)
(***************************************************************************)
LEMMA InstallKept ==
  ASSUME LockInv, HistInv, NEW t \in Thread, Install(t), NEW r \in Record,
         NEW c \in Column, NEW b \in committed, Overtaken(r, word'[r][c], b)
  PROVE  \E u \in Thread : b.name = Name(u)' /\ Storing(u, r, c)'
<1>0. /\ TypeOK /\ VersionsInv /\ WordsInv /\ NamesInv /\ Step(t)
      /\ Writes(t) \subseteq Record
  BY ListTypes DEF LockInv, HistInv, Step
<1>1. /\ pc[t] = "install" /\ accesses' = accesses /\ left' = left
      /\ Writes(t)' = Writes(t) /\ Name(t)' = Name(t)
  <2>1. pc[t] = "install" /\ accesses' = accesses /\ left' = left
    BY DEF Install, CopyFrom, SetVisible, SetTimestamp, EndInstall, shared, txn
  <2> QED
    BY <2>1, ListKept DEF Name
<1>2. ASSUME Overtaken(r, word[r][c], b), Storing(t, r, c) => Storing(t, r, c)'
      PROVE  \E u \in Thread : b.name = Name(u)' /\ Storing(u, r, c)'
  <2>1. PICK u \in Thread : b.name = Name(u) /\ Storing(u, r, c)
    BY <1>0, <1>2 DEF WordsInv
  <2>2. CASE u = t
    BY <1>1, <1>2, <2>1, <2>2
  <2>3. CASE u # t
    BY <1>0, <2>1, <2>3, OthersUnmoved, UnmovedStores
  <2> QED
    BY <2>2, <2>3
<1>3. ASSUME NEW q \in Record, NextToInstall(t, q), NextToInstall(t, r)
      PROVE  q = r
  BY <1>0, <1>3, FirstUnique DEF NextToInstall
<1>4. ASSUME NEW q \in Record, NEW d \in Column, CopyFrom(t, q, d)
      PROVE  \E u \in Thread : b.name = Name(u)' /\ Storing(u, r, c)'
  <2>1. /\ NextToInstall(t, q) /\ q \in Writes(t) /\ pc' = pc
        /\ installed' = installed /\ word' = [word EXCEPT ![q][d] = Name(t)]
        /\ stored'[t] = stored[t] \cup {d}
    BY <1>0, <1>4 DEF CopyFrom, NextToInstall, IsFirst, TypeOK
  <2>2. ~(r = q /\ c = d)
    <3>1. ASSUME r = q, c = d PROVE FALSE
      <4>1. word'[r][c] = Name(t)
        BY <1>0, <2>1, <3>1 DEF TypeOK
      <4> QED
        BY <1>0, <1>1, <2>1, <3>1, <4>1, InstalledLast
    <3> QED
      BY <3>1
  <2>3. word'[r][c] = word[r][c]
    BY <1>0, <2>1, <2>2 DEF TypeOK
  <2>4. Storing(t, r, c) => Storing(t, r, c)'
    <3>1. /\ Installs(t, r)' = Installs(t, r)
          /\ NextToInstall(t, r)' = NextToInstall(t, r)
      BY <1>1, <2>1 DEF Installs, NextToInstall
    <3> QED
      BY <1>3, <2>1, <2>2, <3>1 DEF Storing
  <2> QED
    BY <1>2, <2>3, <2>4
<1>5. ASSUME NEW q \in Record, SetVisible(t, q)
      PROVE  \E u \in Thread : b.name = Name(u)' /\ Storing(u, r, c)'
  <2>1. /\ NextToInstall(t, q) /\ q \notin Updates(t) /\ pc' = pc
        /\ installed' = installed /\ word' = word
    BY <1>5 DEF SetVisible
  <2>2. PICK u \in Thread : b.name = Name(u) /\ Storing(u, r, c)
    BY <1>0, <2>1 DEF WordsInv
  <2>3. CASE u = t
    <3>1. r \in Updates(t)
      BY <1>0, <1>1, <2>2, <2>3 DEF NamesInv, Overtaken
    <3>2. ~NextToInstall(t, r)'
      BY <1>1, <1>3, <2>1, <3>1 DEF NextToInstall
    <3>3. Installs(t, r)'
      BY <1>1, <2>1, <2>2, <2>3 DEF Installs, Storing
    <3> QED
      BY <1>1, <2>2, <2>3, <3>2, <3>3 DEF Storing
  <2>4. CASE u # t
    BY <1>0, <2>2, <2>4, OthersUnmoved, UnmovedStores
  <2> QED
    BY <2>3, <2>4
<1>6. ASSUME NEW q \in Record, SetTimestamp(t, q)
      PROVE  \E u \in Thread : b.name = Name(u)' /\ Storing(u, r, c)'
  <2>1. /\ NextToInstall(t, q) /\ pc' = pc /\ stored[t] = Column /\ word' = word
        /\ installed'[t] = installed[t] \cup {q} /\ stored'[t] = {}
    BY <1>0, <1>6 DEF SetTimestamp, TypeOK
  <2>2. Storing(t, r, c) => Storing(t, r, c)'
    BY <1>1, <2>1 DEF Storing, Installs
  <2> QED
    BY <1>2, <2>1, <2>2
<1>7. ASSUME EndInstall(t)
      PROVE  \E u \in Thread : b.name = Name(u)' /\ Storing(u, r, c)'
  <2>1. word' = word /\ Writes(t) = installed[t]
    BY <1>7 DEF EndInstall, shared
  <2>2. ~Storing(t, r, c)
    BY <2>1 DEF Storing, Installs
  <2> QED
    BY <1>2, <2>1, <2>2
<1> QED
  BY <1>4, <1>5, <1>6, <1>7 DEF Install

(***************************************************************************)
(* Records stay current while nothing is committed.                        *)
(***************************************************************************)
LEMMA QuietWords ==
  ASSUME LockInv, HistInv, NEW t \in Thread, Step(t), ~GetMonotoneTimestamp(t)
  PROVE  WordsInv'
<1>1. committed' = committed /\ versions' = versions
  BY QuietStep
<1>2. \A r, w, b : Overtaken(r, w, b)' = Overtaken(r, w, b)
  BY <1>1, SameVersions
<1>3. ASSUME NEW r \in Record, NEW c \in Column, NEW b \in committed,
             Overtaken(r, word'[r][c], b)
      PROVE  \E u \in Thread : b.name = Name(u)' /\ Storing(u, r, c)'
  <2>1. CASE pc[t] = "install"
    BY <1>3, <2>1, QuietStep, InstallKept
  <2>2. CASE pc[t] # "install"
    <3>1. word' = word
      BY <2>2, QuietStep
    <3>2. PICK u \in Thread : b.name = Name(u) /\ Storing(u, r, c)
      BY <1>3, <3>1 DEF HistInv, WordsInv
    <3>3. u # t
      BY <2>2, <3>2 DEF Storing, Installs
    <3> QED
      BY <3>2, <3>3, OthersUnmoved, UnmovedStores DEF LockInv
  <2> QED
    BY <2>1, <2>2
<1> QED
  BY <1>1, <1>2, <1>3 DEF WordsInv

-----------------------------------------------------------------------------
(***************************************************************************)
(* The step that commits.                                                  *)
(***************************************************************************)
NewTxn(t, stamp) ==
  [name    |-> Name(t), ts |-> stamp, updates |-> Updates(t),
   saw     |-> {<<r, seen[t][r][c]>> : r \in Reads(t), c \in Column}]

Stamp(t) == GenerateMonotoneTimestamp(currEpoch[t], monotone)

(***************************************************************************)
(* The new transaction has a name of its own and writes the last version   *)
(* of its records; the other versions keep their numbers.                  *)
(***************************************************************************)
LEMMA CommitFacts ==
  ASSUME LockInv, HistInv, NEW t \in Thread, GetMonotoneTimestamp(t)
  PROVE  /\ pc[t] = "validate" /\ pc'[t] = "install"
         /\ checked[t] = Len(accesses[t])
         /\ committed' = committed \cup {NewTxn(t, Stamp(t))}
         /\ commitTs'[t] = Stamp(t) /\ monotone' = monotone + 1
         /\ accesses' = accesses /\ left' = left /\ word' = word /\ ts' = ts
         /\ seen' = seen /\ installed' = installed /\ stored' = stored
         /\ held' = held /\ epoch' = epoch /\ currEpoch' = currEpoch
         /\ \A r \in Record : ~Known(r, Name(t))
         /\ \A a \in committed : a.name # Name(t)
         /\ \A u \in Thread : Name(u)' = Name(u) /\ Writes(u)' = Writes(u)
                              /\ Updates(u)' = Updates(u) /\ Reads(u)' = Reads(u)
                              /\ Entries(u)' = Entries(u)
         /\ \A u \in Thread : u # t => Unmoved(u)
<1>0. TypeOK /\ NamesInv /\ VersionsInv
  BY DEF LockInv, HistInv
<1>1. /\ pc[t] = "validate" /\ pc'[t] = "install"
      /\ checked[t] = Len(accesses[t])
      /\ committed' = committed \cup {NewTxn(t, Stamp(t))}
      /\ commitTs'[t] = Stamp(t) /\ monotone' = monotone + 1
      /\ accesses' = accesses /\ left' = left /\ word' = word /\ ts' = ts
      /\ seen' = seen /\ installed' = installed /\ stored' = stored
      /\ held' = held /\ epoch' = epoch /\ currEpoch' = currEpoch
  BY <1>0 DEF GetMonotoneTimestamp, CommittedAt, NewTxn, Stamp, TypeOK
<1>2. \A a \in committed : a.name # Name(t)
  <2>1. ASSUME NEW a \in committed, a.name = Name(t) PROVE FALSE
    <3>1. a.name[1] = t /\ a.name[2] = left[t]
      BY <2>1 DEF Name
    <3> QED
      BY <1>0, <1>1, <3>1 DEF NamesInv
  <2> QED
    BY <2>1
<1>3. \A r \in Record : ~Known(r, Name(t))
  <2>1. ASSUME NEW r \in Record, Known(r, Name(t)) PROVE FALSE
    <3>1. Name(t) \in Thread \X Nat
      BY <1>0 DEF Name, TypeOK
    <3>2. Name(t) # Loader
      BY <3>1, SiloConstants DEF SiloConstants
    <3> QED
      BY <1>0, <1>2, <2>1, <3>2 DEF Known, VersionsInv
  <2> QED
    BY <2>1
<1>4. \A u \in Thread : Name(u)' = Name(u) /\ Writes(u)' = Writes(u)
                        /\ Updates(u)' = Updates(u) /\ Reads(u)' = Reads(u)
                        /\ Entries(u)' = Entries(u)
  BY <1>1, ListKept DEF Name
<1>5. \A u \in Thread : u # t => Unmoved(u)
  BY <1>0, OthersUnmoved DEF Step
<1> QED
  BY <1>1, <1>2, <1>3, <1>4, <1>5

(***************************************************************************)
(* The versions after the commit.                                          *)
(***************************************************************************)
LEMMA CommitVersions ==
  ASSUME LockInv, HistInv, NEW t \in Thread, GetMonotoneTimestamp(t),
         NEW r \in Record, NEW n, n = Name(t)
  PROVE  /\ Distinct(versions'[r])
         /\ \A w : Known(r, w) => Known(r, w)' /\ Version(r, w)' = Version(r, w)
         /\ r \in Writes(t) =>
              /\ Known(r, n)' /\ Version(r, n)' = Len(versions[r]) + 1
              /\ versions'[r] # <<>> /\ versions'[r][Len(versions'[r])] = n
         /\ \A w : Known(r, w)' => Known(r, w) \/ (w = n /\ r \in Writes(t))
         /\ r \notin Writes(t) => versions'[r] = versions[r]
<1>0. TypeOK /\ VersionsInv
  BY DEF LockInv, HistInv
<1> DEFINE s == versions[r]
           z == versions'[r]
<1>1. z = IF r \in Writes(t) THEN Append(s, n) ELSE s
  BY DEF GetMonotoneTimestamp, CommittedAt
<1>2. s \in Seq(Thread \X Nat) /\ Distinct(s)
  BY <1>0 DEF TypeOK, VersionsInv, Distinct
<1>3. ~Among(s, n)
  BY CommitFacts, VersionPlace
<1>4. n \in Thread \X Nat
  BY <1>0 DEF Name, TypeOK
<1>5. /\ \A w : Version(r, w) = Place(s, w) /\ Known(r, w) = Among(s, w)
      /\ \A w : Version(r, w)' = Place(z, w) /\ Known(r, w)' = Among(z, w)
  BY VersionPlace
<1> HIDE DEF s, z
<1>6. /\ Len(s) \in Nat /\ DOMAIN s = 1..Len(s)
      /\ \A i \in DOMAIN s : s[i] # Loader /\ Place(s, s[i]) = i
      /\ Place(s, Loader) = 0
  BY <1>2, Places
<1>7. CASE r \in Writes(t)
  <2>1. /\ Len(z) = Len(s) + 1 /\ z[Len(s) + 1] = n
        /\ \A i \in 1..Len(s) : z[i] = s[i]
        /\ z \in Seq(Thread \X Nat)
    BY <1>1, <1>2, <1>4, <1>7, AppendProperties
  <2>2. DOMAIN z = 1..(Len(s) + 1)
    BY <2>1, LenProperties
  <2>3. \A i \in DOMAIN z : i \in DOMAIN s \/ i = Len(s) + 1
    BY <1>6, <2>2
  <2>4. \A i \in DOMAIN s : s[i] # n
    BY <1>3 DEF Among
  <2>5. Distinct(z)
    BY <1>2, <1>6, <2>1, <2>3, <2>4 DEF Distinct
  <2>6. /\ \A i \in DOMAIN z : Place(z, z[i]) = i
        /\ Place(z, Loader) = 0
    BY <2>1, <2>5, Places
  <2>7. DOMAIN s \subseteq DOMAIN z /\ Len(s) + 1 \in DOMAIN z
    BY <1>6, <2>2
  <2>8. \A w : Among(s, w) => Among(z, w) /\ Place(z, w) = Place(s, w)
    BY <1>6, <2>1, <2>6, <2>7 DEF Among
  <2>9. Among(z, n) /\ Place(z, n) = Len(s) + 1 /\ z # <<>> /\ z[Len(z)] = n
    BY <2>1, <2>6, <2>7 DEF Among
  <2>10. \A w : Among(z, w) => Among(s, w) \/ w = n
    BY <1>6, <2>1, <2>3 DEF Among
  <2> QED
    BY <1>5, <1>7, <2>5, <2>8, <2>9, <2>10 DEF s, z
<1>8. CASE r \notin Writes(t)
  BY <1>1, <1>2, <1>5, <1>8 DEF s, z
<1> QED
  BY <1>7, <1>8

(***************************************************************************)
(* The history stays in order when a transaction commits.                  *)
(***************************************************************************)
LEMMA CommitNames ==
  ASSUME LockInv, HistInv, NEW t \in Thread, GetMonotoneTimestamp(t)
  PROVE  NamesInv'
<1> DEFINE x == NewTxn(t, Stamp(t))
<1>0. TypeOK /\ NamesInv
  BY DEF LockInv, HistInv
<1>1. /\ pc'[t] = "install" /\ committed' = committed \cup {x} /\ left' = left
      /\ \A a \in committed : a.name # Name(t)
      /\ \A u \in Thread : u # t => Unmoved(u)
  BY CommitFacts
<1>2. \A u \in Thread : Name(u)' = Name(u) /\ Updates(u)' = Updates(u)
  BY CommitFacts
<1>3. x.name = Name(t) /\ x.updates = Updates(t)
  BY DEF NewTxn
<1>4. x.name[1] = t /\ x.name[2] = left[t] /\ left[t] \in Nat
  BY <1>0, <1>3 DEF Name, TypeOK
<1> HIDE DEF x
<1>5. ASSUME NEW a \in committed'
      PROVE  /\ left'[a.name[1]] <= a.name[2]
             /\ a.name[2] = left'[a.name[1]] => pc'[a.name[1]] \in {"install", "release"}
  <2>1. CASE a = x
    BY <1>1, <1>4, <2>1
  <2>2. CASE a \in committed
    <3>1. /\ a.name \in Thread \X Nat /\ left[a.name[1]] <= a.name[2]
          /\ a.name[2] = left[a.name[1]] => pc[a.name[1]] \in {"install", "release"}
      BY <1>0, <2>2 DEF TypeOK, NamesInv
    <3>2. a.name[1] # t => pc'[a.name[1]] = pc[a.name[1]]
      BY <1>1, <3>1 DEF Unmoved
    <3> QED
      BY <1>1, <3>1, <3>2
  <2> QED
    BY <1>1, <2>1, <2>2
<1>6. \A a, b \in committed' : a.name = b.name => a = b
  BY <1>0, <1>1, <1>3 DEF NamesInv
<1>7. ASSUME NEW u \in Thread, NEW a \in committed', pc'[u] = "install",
             a.name = Name(u)
      PROVE  a.updates = Updates(u)
  <2>1. CASE u = t
    BY <1>1, <1>3, <1>7, <2>1
  <2>2. CASE u # t
    <3>1. Name(u) # Name(t) /\ pc[u] = "install"
      BY <1>1, <1>7, <2>2 DEF Name, Unmoved
    <3> QED
      BY <1>0, <1>1, <1>3, <1>7, <3>1 DEF NamesInv
  <2> QED
    BY <2>1, <2>2
<1> QED
  BY <1>2, <1>5, <1>6, <1>7 DEF NamesInv

(***************************************************************************)
(* The versions stay in order when a transaction commits.                  *)
(***************************************************************************)
LEMMA CommitVersionsInv ==
  ASSUME LockInv, HistInv, NEW t \in Thread, GetMonotoneTimestamp(t)
  PROVE  VersionsInv'
<1> DEFINE x == NewTxn(t, Stamp(t))
<1>0. /\ TypeOK /\ TypeOK' /\ VersionsInv /\ PhaseOf(t) /\ LockInv
      /\ \A u \in Thread : Writes(u) \subseteq Record
      /\ Updates(t) \subseteq Writes(t)
  BY CommitType, ListTypes DEF LockInv, HistInv
<1>1. /\ committed' = committed \cup {x} /\ pc[t] = "validate"
      /\ \A u \in Thread : u # t => Unmoved(u)
  BY CommitFacts
<1>2. \A u \in Thread : Name(u)' = Name(u) /\ Writes(u)' = Writes(u)
  BY CommitFacts
<1>3. x.name = Name(t) /\ x.updates = Updates(t)
  BY DEF NewTxn
<1> HIDE DEF x
<1>4. \A r \in Record :
        /\ Distinct(versions'[r])
        /\ \A w : Known(r, w) => Known(r, w)'
        /\ \A w : Known(r, w)' => Known(r, w) \/ w = Name(t)
        /\ r \notin Writes(t) => versions'[r] = versions[r]
        /\ r \in Writes(t) => /\ versions'[r] # <<>>
                              /\ versions'[r][Len(versions'[r])] = Name(t)
  BY CommitVersions
<1>5. \A r \in Writes(t) : \A w : w = Name(t) => Known(r, w)'
  BY <1>0, CommitVersions
<1>6. \A w \in Thread \X Nat : w # Loader
  BY SiloConstants DEF SiloConstants
<1>7. ASSUME NEW r \in Record, NEW i \in DOMAIN versions'[r]
      PROVE  \E a \in committed' : a.name = versions'[r][i]
  <2>1. versions'[r][i] \in Thread \X Nat
    <3>1. versions'[r] \in Seq(Thread \X Nat)
      BY <1>0 DEF TypeOK
    <3> QED
      BY <3>1, LenProperties, ElementOfSeq
  <2>2. Known(r, versions'[r][i]) \/ versions'[r][i] = Name(t)
    <3>1. Among(versions'[r], versions'[r][i])
      BY DEF Among
    <3> QED
      BY <1>4, <3>1, VersionPlace
  <2> QED
    BY <1>0, <1>1, <1>3, <1>6, <2>1, <2>2 DEF Known, VersionsInv
<1>8. ASSUME NEW u \in Thread, pc'[u] = "install", NEW r \in Writes(u)
      PROVE  versions'[r] # <<>> /\ versions'[r][Len(versions'[r])] = Name(u)
  <2>1. CASE u = t
    BY <1>0, <1>4, <2>1
  <2>2. CASE u # t
    <3>1. pc[u] = "install" /\ PhaseOf(u) /\ r \in Record
      BY <1>0, <1>1, <1>8, <2>2 DEF Unmoved, LockInv
    <3>2. r \in held[u] /\ held[t] = Writes(t)
      BY <1>0, <1>1, <3>1 DEF PhaseOf
    <3>3. r \notin Writes(t)
      BY <1>0, <2>2, <3>1, <3>2 DEF LockInv, LockOf
    <3> QED
      BY <1>0, <1>4, <3>1, <3>3 DEF VersionsInv
  <2> QED
    BY <2>1, <2>2
<1>9. ASSUME NEW a \in committed', NEW r \in a.updates PROVE Wrote(a, r)'
  <2>1. a.name \in Thread \X Nat /\ r \in Record
    BY <1>0 DEF TypeOK
  <2>2. CASE a \in committed
    <3>1. Known(r, a.name)
      BY <1>0, <2>2 DEF VersionsInv, Wrote, Known
    <3>2. Known(r, a.name)'
      BY <1>4, <2>1, <3>1
    <3> QED
      BY <1>6, <2>1, <3>2 DEF Known, Wrote
  <2>3. CASE a = x
    <3>1. Known(r, a.name)'
      BY <1>0, <1>3, <1>5, <2>3
    <3> QED
      BY <1>6, <2>1, <3>1 DEF Known, Wrote
  <2> QED
    BY <1>1, <2>2, <2>3
<1> QED
  BY <1>2, <1>4, <1>7, <1>8, <1>9 DEF VersionsInv, Distinct

(***************************************************************************)
(* What the new transaction has seen are versions, and the records it      *)
(* updates are those it has yet to install.                                *)
(***************************************************************************)
LEMMA CommitWords ==
  ASSUME LockInv, HistInv, NEW t \in Thread, GetMonotoneTimestamp(t)
  PROVE  KnownInv' /\ WordsInv'
<1> DEFINE x == NewTxn(t, Stamp(t))
<1>0. /\ TypeOK /\ KnownInv /\ WordsInv /\ VersionsInv /\ PhaseOf(t) /\ ListOf(t)
      /\ Reads(t) \subseteq Record
      /\ Updates(t) \subseteq Writes(t)
  BY ListTypes DEF LockInv, HistInv
<1>1. /\ committed' = committed \cup {x} /\ pc[t] = "validate" /\ pc'[t] = "install"
      /\ word' = word /\ seen' = seen /\ installed' = installed /\ stored' = stored
      /\ \A u \in Thread : u # t => Unmoved(u)
  BY CommitFacts
<1>2. Name(t)' = Name(t) /\ Writes(t)' = Writes(t)
  BY CommitFacts
<1>3. /\ x.name = Name(t) /\ x.updates = Updates(t)
      /\ \A s \in x.saw : \E c \in Column : s[1] \in Reads(t) /\ s[2] = seen[t][s[1]][c]
  BY DEF NewTxn
<1> HIDE DEF x
<1>4. \A r \in Record : \A w :
        Known(r, w) => Known(r, w)' /\ Version(r, w)' = Version(r, w)
  BY CommitVersions
<1>5. ASSUME NEW s \in x.saw PROVE Known(s[1], s[2]) /\ s[1] \in Record
  <2>1. PICK c \in Column : s[1] \in Reads(t) /\ s[2] = seen[t][s[1]][c]
    BY <1>3
  <2>2. seen[t][s[1]][c] # Unread /\ s[1] \in Record
    BY <1>0, <1>1, <2>1 DEF ListOf, Unfinished
  <2> QED
    BY <1>0, <2>1, <2>2 DEF KnownInv
<1>6. \A a \in committed : \A s \in a.saw : Known(s[1], s[2]) /\ s[1] \in Record
  BY <1>0 DEF KnownInv, TypeOK
<1>7. KnownInv'
  <2>1. \A a \in committed' : \A s \in a.saw : Known(s[1], s[2])'
    BY <1>1, <1>4, <1>5, <1>6
  <2> QED
    BY <1>0, <1>1, <1>4, <2>1 DEF KnownInv
<1>8. ASSUME NEW r \in Record, NEW c \in Column, NEW b \in committed',
             Overtaken(r, word[r][c], b)'
      PROVE  \E u \in Thread : b.name = Name(u)' /\ Storing(u, r, c)'
  <2>0. word[r][c]' = word[r][c] /\ Known(r, word[r][c])
    BY <1>0, <1>1 DEF KnownInv
  <2>1. CASE b = x
    <3>1. r \in Writes(t)
      BY <1>0, <1>3, <1>8, <2>1 DEF Overtaken
    <3>2. installed[t] = {} /\ stored[t] = {}
      BY <1>0, <1>1 DEF PhaseOf
    <3>3. Storing(t, r, c)'
      BY <1>1, <1>2, <3>1, <3>2 DEF Storing, Installs
    <3> QED
      BY <1>2, <1>3, <2>1, <3>3
  <2>2. CASE b \in committed
    <3>1. Known(r, b.name) /\ r \in b.updates
      BY <1>0, <1>8, <2>2 DEF VersionsInv, Wrote, Known, Overtaken
    <3>2. Overtaken(r, word[r][c], b)
      BY <1>4, <1>8, <2>0, <3>1 DEF Overtaken
    <3>3. PICK u \in Thread : b.name = Name(u) /\ Storing(u, r, c)
      BY <1>0, <2>2, <3>2 DEF WordsInv
    <3>4. u # t
      BY <1>1, <3>3 DEF Storing, Installs
    <3> QED
      BY <1>1, <3>3, <3>4, UnmovedStores
  <2> QED
    BY <1>1, <2>1, <2>2
<1>9. WordsInv'
  BY <1>1, <1>8 DEF WordsInv
<1> QED
  BY <1>7, <1>9

(***************************************************************************)
(* The invariant of the history holds initially.                           *)
(***************************************************************************)
LEMMA InitHist == Init => HistInv
<1> SUFFICES ASSUME Init PROVE HistInv
  OBVIOUS
<1>1. /\ committed = {} /\ \A r \in Record : versions[r] = <<>>
      /\ \A t \in Thread : pc[t] = "idle"
      /\ \A r \in Record, c \in Column : word[r][c] = Loader
      /\ \A t \in Thread, r \in Record, c \in Column : seen[t][r][c] = Unread
  BY DEF Init, AllUnread
<1>2. \A r \in Record : DOMAIN versions[r] = {}
  BY <1>1
<1> QED
  BY <1>1, <1>2 DEF HistInv, NamesInv, VersionsInv, KnownInv, WordsInv, Known

(***************************************************************************)
(* Every step keeps the invariant of the history.                          *)
(***************************************************************************)
LEMMA NextHist == LockInv /\ HistInv /\ [Next]_vars => HistInv'
<1> SUFFICES ASSUME LockInv, HistInv, [Next]_vars PROVE HistInv'
  OBVIOUS
<1>1. ASSUME NEW t \in Thread, GetMonotoneTimestamp(t) PROVE HistInv'
  BY <1>1, CommitNames, CommitVersionsInv, CommitWords DEF HistInv
<1>2. ASSUME NEW t \in Thread, Step(t), ~GetMonotoneTimestamp(t) PROVE HistInv'
  BY <1>2, QuietNames, QuietKnown, QuietWords DEF HistInv
<1>3. CASE AdvanceEpoch \/ UNCHANGED vars
  <2>1. /\ committed' = committed /\ versions' = versions /\ word' = word
        /\ pc' = pc /\ left' = left /\ seen' = seen
        /\ \A u \in Thread : Unmoved(u)
    BY <1>3 DEF AdvanceEpoch, vars, shared, txn, history, Unmoved
  <2>2. /\ \A r, w : Known(r, w)' = Known(r, w)
        /\ \A a, r : Wrote(a, r)' = Wrote(a, r)
        /\ \A r, w, b : Overtaken(r, w, b)' = Overtaken(r, w, b)
    BY <2>1, SameVersions
  <2>3. \A u \in Thread : /\ Name(u)' = Name(u) /\ Writes(u)' = Writes(u)
                          /\ Updates(u)' = Updates(u)
                          /\ \A r, c : Storing(u, r, c)' = Storing(u, r, c)
    BY <2>1, UnmovedKept, UnmovedStores
  <2>4. NamesInv'
    BY <2>1, <2>3 DEF HistInv, NamesInv
  <2>5. VersionsInv'
    BY <2>1, <2>2, <2>3 DEF HistInv, VersionsInv
  <2>6. KnownInv'
    BY <2>1, <2>2 DEF HistInv, KnownInv
  <2>7. WordsInv'
    BY <2>1, <2>2, <2>3 DEF HistInv, WordsInv
  <2> QED
    BY <2>4, <2>5, <2>6, <2>7 DEF HistInv
<1> QED
  BY <1>1, <1>2, <1>3 DEF Next, Joined

-----------------------------------------------------------------------------
(***************************************************************************)
(* Timestamps.  They identify versions as long as the 32-bit counter has   *)
(* not wrapped.                                                            *)
(***************************************************************************)
NoWrap == monotone <= TsSpan

(***************************************************************************)
(* Every timestamp in use has been drawn before.                           *)
(***************************************************************************)
Issued ==
  /\ 0 < monotone
  /\ \A r \in Record : ts[r].low < monotone
  /\ \A t \in Thread : \A e \in Entries(t) : e.ts.low < monotone
  /\ \A a \in committed : a.ts.low < monotone

(***************************************************************************)
(* Nobody has seen the timestamp of a version that is yet to be installed. *)
(***************************************************************************)
Unused ==
  \A t \in Thread, r \in Record : Installs(t, r) =>
    /\ commitTs[t].low < monotone
    /\ ts[r] # commitTs[t]
    /\ \A u \in Thread : \A e \in Entries(u) : e.record = r => e.ts # commitTs[t]

(***************************************************************************)
(* What has been read of a record that still has the timestamp it had is   *)
(* current, unless a newer version is being installed.                     *)
(***************************************************************************)
SeenCurrent ==
  \A u \in Thread : \A e \in Entries(u), c \in Column, b \in committed :
    /\ e.ts = ts[e.record] /\ seen[u][e.record][c] # Unread
    /\ Overtaken(e.record, seen[u][e.record][c], b)
    => \E t \in Thread : b.name = Name(t) /\ Installs(t, e.record)

(***************************************************************************)
(* A transaction draws its timestamp after the ones it depends on.         *)
(***************************************************************************)
Depends(a, b) == a # b /\ (ReadsFrom(a, b) \/ Overwrites(a, b))

DrawnInOrder == \A a, b \in committed : Depends(a, b) => a.ts.low < b.ts.low

StampInv == NoWrap => Issued /\ Unused /\ SeenCurrent /\ DrawnInOrder

(***************************************************************************)
(* Most steps set no timestamp and read nothing.                           *)
(***************************************************************************)
Still ==
  /\ committed' = committed /\ versions' = versions /\ monotone' = monotone
  /\ ts' = ts
  /\ \A u \in Thread : /\ Entries(u)' \subseteq Entries(u)
                       /\ Entries(u)' # {} => seen'[u] = seen[u]
  /\ \A u \in Thread, r \in Record :
       /\ Installs(u, r)' = Installs(u, r)
       /\ Installs(u, r) => Name(u)' = Name(u) /\ commitTs'[u] = commitTs[u]

(***************************************************************************)
(* A step that neither commits, selects nor sets a timestamp is one.       *)
(***************************************************************************)
LEMMA StillSteps ==
  ASSUME LockInv, NEW t \in Thread, Step(t), ~GetMonotoneTimestamp(t), ~Select(t),
         \A r \in Record : ~SetTimestamp(t, r)
  PROVE  Still
<1>0. TypeOK
  BY DEF LockInv
<1>1. /\ committed' = committed /\ versions' = versions /\ monotone' = monotone
      /\ pc'[t] = "install" => /\ pc[t] = "install" /\ left'[t] = left[t]
                               /\ accesses'[t] = accesses[t]
                               /\ commitTs'[t] = commitTs[t]
      /\ pc[t] = "install" => Install(t)
      /\ pc[t] # "install" => ts' = ts
  BY QuietStep
<1>2. \A u \in Thread : u # t => Unmoved(u)
  BY <1>0, OthersUnmoved
<1>3. \A u \in Thread : u # t =>
        /\ Entries(u)' = Entries(u) /\ seen'[u] = seen[u] /\ Name(u)' = Name(u)
        /\ commitTs'[u] = commitTs[u]
        /\ \A r \in Record : Installs(u, r)' = Installs(u, r)
  BY <1>2, UnmovedKept, UnmovedStores DEF Unmoved
<1>4. /\ Entries(t)' \subseteq Entries(t)
      /\ Entries(t)' # {} => seen'[t] = seen[t]
  <2>1. ASSUME accesses'[t] = accesses[t], seen'[t] = seen[t]
        PROVE  /\ Entries(t)' \subseteq Entries(t)
               /\ Entries(t)' # {} => seen'[t] = seen[t]
    BY <2>1, ListKept
  <2>2. CASE ReturnCommitted(t) \/ ReturnAborted(t)
    BY <1>0, <2>2, ListCleared DEF ReturnCommitted, ReturnAborted
  <2>3. CASE Execute(t) \/ CommitTransaction(t) \/ AcquireWriteLock(t)
             \/ ReleaseWriteLock(t) \/ GetEpoch(t)
    BY <2>1, <2>3 DEF Execute, CommitTransaction, AcquireWriteLock,
                      ReleaseWriteLock, GetEpoch, txn
  <2>4. CASE Validate(t)
    BY <2>1, <2>4, ValidateCases DEF ValidationFrame
  <2>5. CASE Install(t)
    BY <2>1, <2>5 DEF Install, CopyFrom, SetVisible, SetTimestamp, EndInstall, txn
  <2> QED
    BY <2>2, <2>3, <2>4, <2>5 DEF Step
<1>5. ts' = ts /\ \A r \in Record : Installs(t, r)' = Installs(t, r)
  <2>1. CASE pc[t] # "install"
    BY <1>1, <2>1 DEF Installs
  <2>2. CASE pc[t] = "install"
    <3>1. \/ \E r \in Record, c \in Column : CopyFrom(t, r, c)
          \/ \E r \in Record : SetVisible(t, r)
          \/ EndInstall(t)
      BY <1>1, <2>2 DEF Install
    <3>2. CASE EndInstall(t)
      <4>1. ts' = ts /\ pc'[t] = "release" /\ Writes(t) = installed[t]
        BY <1>0, <3>2 DEF EndInstall, shared, TypeOK
      <4> QED
        BY <4>1 DEF Installs
    <3>3. CASE \/ \E r \in Record, c \in Column : CopyFrom(t, r, c)
               \/ \E r \in Record : SetVisible(t, r)
      <4>1. /\ ts' = ts /\ pc' = pc /\ installed' = installed
            /\ accesses' = accesses
        BY <3>3 DEF CopyFrom, SetVisible
      <4> QED
        BY <4>1, ListKept DEF Installs
    <3> QED
      BY <3>1, <3>2, <3>3
  <2> QED
    BY <2>1, <2>2
<1>6. \A r \in Record : Installs(t, r) => Name(t)' = Name(t) /\ commitTs'[t] = commitTs[t]
  BY <1>1, <1>5 DEF Installs, Name
<1> QED
  BY <1>1, <1>3, <1>4, <1>5, <1>6 DEF Still

(***************************************************************************)
(* Such a step keeps the timestamps in order.                              *)
(***************************************************************************)
LEMMA StillKept ==
  ASSUME LockInv, StampInv, Still
  PROVE  StampInv'
<1>1. CASE ~NoWrap
  BY <1>1 DEF StampInv, NoWrap, Still
<1>2. CASE NoWrap
  <2>1. Issued /\ Unused /\ SeenCurrent /\ DrawnInOrder
    BY <1>2 DEF StampInv
  <2>2. Issued'
    BY <2>1 DEF Still, Issued
  <2>3. Unused'
    BY <2>1 DEF Still, Unused
  <2>4. \A a, b : Depends(a, b)' = Depends(a, b)
    BY SameVersions DEF Still, Depends, ReadsFrom, Overwrites
  <2>5. DrawnInOrder'
    BY <2>1, <2>4 DEF Still, DrawnInOrder
  <2>6. \A r, w, b : Overtaken(r, w, b)' = Overtaken(r, w, b)
    BY SameVersions DEF Still
  <2>7. \A u \in Thread : \A e \in Entries(u) : e.record \in Record
    BY ListTypes DEF LockInv, AccessEntry
  <2>8. ASSUME NEW u \in Thread, NEW e \in Entries(u)', NEW c \in Column,
               NEW b \in committed, e.ts = ts'[e.record],
               seen'[u][e.record][c] # Unread,
               Overtaken(e.record, seen'[u][e.record][c], b)
        PROVE  \E t \in Thread : b.name = Name(t)' /\ Installs(t, e.record)'
    <3>1. e \in Entries(u) /\ seen'[u] = seen[u] /\ ts' = ts /\ e.record \in Record
      BY <2>7 DEF Still
    <3>2. PICK t \in Thread : b.name = Name(t) /\ Installs(t, e.record)
      BY <2>1, <2>8, <3>1 DEF SeenCurrent
    <3> QED
      BY <3>1, <3>2 DEF Still
  <2>9. SeenCurrent'
    BY <2>6, <2>8 DEF SeenCurrent, Still
  <2> QED
    BY <2>2, <2>3, <2>5, <2>9 DEF StampInv
<1> QED
  BY <1>1, <1>2

(***************************************************************************)
(* SelectRecordCC takes the timestamp of the record before the procedure   *)
(* reads it, and what the procedure reads is what the record holds.        *)
(***************************************************************************)
LEMMA SelectStamps ==
  ASSUME LockInv, HistInv, StampInv, NoWrap, NEW t \in Thread, Select(t)
  PROVE  StampInv'
<1>0. /\ TypeOK /\ ListOf(t) /\ WordsInv /\ Step(t)
      /\ Issued /\ Unused /\ SeenCurrent /\ DrawnInOrder
  BY DEF LockInv, HistInv, StampInv, Step
<1>1. /\ committed' = committed /\ versions' = versions /\ monotone' = monotone
      /\ ts' = ts /\ pc[t] = "exec" /\ pc' = pc /\ word' = word
  BY DEF Select, SelectRecordCC, InsertRecord, NewAccess, ReadColumn, shared, history
<1>2. \A u \in Thread : u # t => /\ Unmoved(u) /\ Entries(u)' = Entries(u)
  BY <1>0, OthersUnmoved, UnmovedKept
<1>3. \A u \in Thread, r \in Record :
        /\ Installs(u, r)' = Installs(u, r)
        /\ Installs(u, r) => Name(u)' = Name(u) /\ commitTs'[u] = commitTs[u]
  BY <1>1, <1>2, UnmovedStores DEF Installs, Unmoved
<1>4. \A r, w, b : Overtaken(r, w, b)' = Overtaken(r, w, b)
  BY <1>1, SameVersions
<1>5. \A a, b : Depends(a, b)' = Depends(a, b)
  BY <1>1, SameVersions DEF Depends, ReadsFrom, Overwrites
<1>6. DrawnInOrder'
  BY <1>0, <1>1, <1>5 DEF DrawnInOrder
<1>7. \A u \in Thread : \A e \in Entries(u) : e.record \in Record
  BY <1>0, ListTypes DEF AccessEntry
<1>8. ASSUME NEW r \in Record, NEW type \in AnyAccess, NEW stamp \in Timestamp,
             NewAccess(t, r, type, stamp),
             \/ stamp = ts[r]
             \/ stamp = ZeroTs /\ \A u \in Thread : r \notin Accessed(u)
      PROVE  StampInv'
  <2> DEFINE n == [record |-> r, type |-> type, ts |-> stamp]
  <2>1. /\ r \notin Accessed(t) /\ seen' = seen
        /\ n.record = r /\ n.ts = stamp
    BY <1>8 DEF NewAccess
  <2>2. Entries(t)' = Entries(t) \cup {n}
    BY <1>0, <1>8, ListsGrow
  <2> HIDE DEF n
  <2>3. stamp.low < monotone
    BY <1>0, <1>8 DEF Issued, ZeroTs
  <2>4. Issued'
    BY <1>0, <1>1, <1>2, <2>1, <2>2, <2>3 DEF Issued
  <2>5. \A u \in Thread : Installs(u, r) => stamp # commitTs[u]
    BY <1>0, <1>8 DEF Unused, Installs, Writes, Accessed
  <2>6. ASSUME NEW u \in Thread, NEW q \in Record, Installs(u, q),
               NEW v \in Thread, NEW e \in Entries(v)', e.record = q
        PROVE  e.ts # commitTs[u]
    BY <1>0, <1>2, <2>1, <2>2, <2>5, <2>6 DEF Unused
  <2>7. Unused'
    BY <1>0, <1>1, <1>3, <2>6 DEF Unused
  <2>8. \A c \in Column : seen[t][r][c] = Unread
    BY <1>0, <2>1 DEF ListOf, Seen, Reads, Accessed
  <2>9. ASSUME NEW u \in Thread, NEW e \in Entries(u)', NEW c \in Column,
               NEW b \in committed, e.ts = ts[e.record],
               seen[u][e.record][c] # Unread,
               Overtaken(e.record, seen[u][e.record][c], b)
        PROVE  \E v \in Thread : b.name = Name(v)' /\ Installs(v, e.record)'
    <3>1. e \in Entries(u) /\ e.record \in Record
      BY <1>2, <1>7, <2>1, <2>2, <2>8, <2>9
    <3>2. PICK v \in Thread : b.name = Name(v) /\ Installs(v, e.record)
      BY <1>0, <2>9, <3>1 DEF SeenCurrent
    <3> QED
      BY <1>3, <3>1, <3>2
  <2>10. SeenCurrent'
    BY <1>1, <1>4, <2>1, <2>9 DEF SeenCurrent
  <2> QED
    BY <1>6, <2>4, <2>7, <2>10 DEF StampInv
<1>9. ASSUME NEW r \in Record, NEW d \in Column, ReadColumn(t, r, d)
      PROVE  StampInv'
  <2>1. accesses' = accesses /\ seen' = [seen EXCEPT ![t][r][d] = word[r][d]]
    BY <1>9 DEF ReadColumn
  <2>2. \A u \in Thread : Entries(u)' = Entries(u)
    BY <2>1, ListKept
  <2>3. Issued' /\ Unused'
    BY <1>0, <1>1, <1>3, <2>2 DEF Issued, Unused
  <2>4. ASSUME NEW u \in Thread, NEW e \in Entries(u), NEW c \in Column,
               NEW b \in committed, e.ts = ts[e.record],
               seen'[u][e.record][c] # Unread,
               Overtaken(e.record, seen'[u][e.record][c], b)
        PROVE  \E v \in Thread : b.name = Name(v)' /\ Installs(v, e.record)'
    <3>0. e.record \in Record
      BY <1>7
    <3>1. \/ seen'[u][e.record][c] = seen[u][e.record][c]
          \/ seen'[u][e.record][c] = word[e.record][c]
      BY <1>0, <2>1, <3>0 DEF TypeOK
    <3>2. \E v \in Thread : b.name = Name(v) /\ Installs(v, e.record)
      <4>1. CASE seen'[u][e.record][c] = seen[u][e.record][c]
        BY <1>0, <2>4, <4>1 DEF SeenCurrent
      <4>2. CASE seen'[u][e.record][c] = word[e.record][c]
        BY <1>0, <2>4, <3>0, <4>2 DEF WordsInv, Storing
      <4> QED
        BY <3>1, <4>1, <4>2
    <3> QED
      BY <1>3, <3>0, <3>2
  <2>5. SeenCurrent'
    BY <1>1, <1>4, <2>2, <2>4 DEF SeenCurrent
  <2> QED
    BY <1>6, <2>3, <2>5 DEF StampInv
<1> QED
  BY <1>8, <1>9, SelectCases

(***************************************************************************)
(* A new timestamp tells every reader of the record that it has changed.   *)
(***************************************************************************)
LEMMA SetStamps ==
  ASSUME LockInv, HistInv, StampInv, NoWrap, NEW t \in Thread, NEW q \in Record,
         SetTimestamp(t, q)
  PROVE  StampInv'
<1>0. /\ TypeOK /\ PhaseOf(t) /\ Step(t)
      /\ Issued /\ Unused /\ SeenCurrent /\ DrawnInOrder
  BY DEF LockInv, StampInv, Step, Install
<1>1. /\ committed' = committed /\ versions' = versions /\ monotone' = monotone
      /\ ts' = [ts EXCEPT ![q] = commitTs[t]] /\ pc[t] = "install" /\ pc' = pc
      /\ accesses' = accesses /\ seen' = seen /\ commitTs' = commitTs
      /\ left' = left
      /\ installed' = [installed EXCEPT ![t] = installed[t] \cup {q}]
      /\ q \in Writes(t) \ installed[t]
  BY DEF SetTimestamp, NextToInstall, IsFirst, history
<1>2. Installs(t, q)
  BY <1>1 DEF Installs
<1>3. \A u \in Thread : /\ Entries(u)' = Entries(u) /\ Name(u)' = Name(u)
                        /\ Writes(u)' = Writes(u)
  BY <1>1, ListKept DEF Name
<1>4. \A u \in Thread : Installs(u, q) => u = t
  <2>1. \A u \in Thread : Installs(u, q) => q \in held[u]
    BY DEF Installs, LockInv, PhaseOf
  <2> QED
    BY <1>2, <2>1 DEF LockInv, LockOf
<1>5. \A u \in Thread, r \in Record : Installs(u, r)' = (Installs(u, r) /\ r # q)
  <2>1. ASSUME NEW u \in Thread, NEW r \in Record
        PROVE  Installs(u, r)' = (Installs(u, r) /\ r # q)
    <3>1. CASE u = t
      <4>1. installed'[u] = installed[u] \cup {q}
        BY <1>0, <1>1, <3>1 DEF TypeOK
      <4> QED
        BY <1>1, <1>3, <4>1 DEF Installs
    <3>2. CASE u # t
      <4>1. installed'[u] = installed[u]
        BY <1>0, <1>1, <3>2 DEF TypeOK
      <4> QED
        BY <1>1, <1>3, <1>4, <3>2, <4>1 DEF Installs
    <3> QED
      BY <3>1, <3>2
  <2> QED
    BY <2>1
<1>6. /\ ts'[q] = commitTs[t]
      /\ \A r \in Record : r # q => ts'[r] = ts[r]
  BY <1>0, <1>1 DEF TypeOK
<1>7. Issued'
  BY <1>0, <1>1, <1>2, <1>3, <1>6 DEF Issued, Unused
<1>8. Unused'
  <2>1. ASSUME NEW u \in Thread, NEW r \in Record, Installs(u, r)'
        PROVE  /\ commitTs[u].low < monotone /\ ts'[r] # commitTs[u]
               /\ \A v \in Thread : \A e \in Entries(v) :
                    e.record = r => e.ts # commitTs[u]
    BY <1>0, <1>5, <1>6, <2>1 DEF Unused
  <2> QED
    BY <1>1, <1>3, <2>1 DEF Unused
<1>9. DrawnInOrder'
  <2>1. \A a, b : Depends(a, b)' = Depends(a, b)
    BY <1>1, SameVersions DEF Depends, ReadsFrom, Overwrites
  <2> QED
    BY <1>0, <1>1, <2>1 DEF DrawnInOrder
<1>10. ASSUME NEW u \in Thread, NEW e \in Entries(u), NEW c \in Column,
              NEW b \in committed, e.ts = ts'[e.record],
              seen[u][e.record][c] # Unread,
              Overtaken(e.record, seen[u][e.record][c], b)
       PROVE  \E v \in Thread : b.name = Name(v) /\ Installs(v, e.record)'
  <2>1. e.record \in Record
    BY <1>0, ListTypes DEF AccessEntry
  <2>2. e.record # q
    BY <1>0, <1>2, <1>6, <1>10 DEF Unused
  <2>3. PICK v \in Thread : b.name = Name(v) /\ Installs(v, e.record)
    BY <1>0, <1>6, <1>10, <2>1, <2>2 DEF SeenCurrent
  <2> QED
    BY <1>5, <2>1, <2>2, <2>3
<1>11. \A r, w, b : Overtaken(r, w, b)' = Overtaken(r, w, b)
  BY <1>1, SameVersions
<1>12. SeenCurrent'
  BY <1>1, <1>3, <1>10, <1>11 DEF SeenCurrent
<1> QED
  BY <1>7, <1>8, <1>9, <1>12 DEF StampInv

(***************************************************************************)
(* The conflicts of the transaction that commits: those of the others stay *)
(* as they are, and nobody has read or overwritten what it writes.         *)
(***************************************************************************)
LEMMA CommitConflicts ==
  ASSUME LockInv, HistInv, NEW t \in Thread, GetMonotoneTimestamp(t),
         NEW x, x = NewTxn(t, Stamp(t))
  PROVE  /\ \A a, b \in committed : Overwrites(a, b)' => Overwrites(a, b)
         /\ \A b \in committed, r \in Record : \A w :
              Known(r, w) => Overtaken(r, w, b)' = Overtaken(r, w, b)
         /\ \A b \in committed : ~ReadsFrom(x, b) /\ ~Overwrites(x, b)'
         /\ \A a \in committed :
              /\ ReadsFrom(a, x) => \E r \in Record, c \in Column : seen[t][r][c] = a.name
              /\ Overwrites(a, x)' => \E r \in Writes(t) : Wrote(a, r)
<1>0. /\ TypeOK /\ VersionsInv /\ KnownInv
      /\ Writes(t) \subseteq Record /\ Reads(t) \subseteq Record
      /\ \A a \in committed : a.name # Name(t)
      /\ \A r \in Record : ~Known(r, Name(t))
  BY ListTypes, CommitFacts DEF LockInv, HistInv
<1>1. \A r \in Record : \A w :
        /\ Known(r, w) => Known(r, w)' /\ Version(r, w)' = Version(r, w)
        /\ Known(r, w)' => Known(r, w) \/ (w = Name(t) /\ r \in Writes(t))
  BY CommitVersions
<1>2. x.name = Name(t) /\ x.updates = Updates(t)
      /\ \A s \in x.saw : \E c \in Column : s[1] \in Reads(t) /\ s[2] = seen[t][s[1]][c]
  BY DEF NewTxn
<1>3. \A w \in Thread \X Nat : w # Loader
  BY SiloConstants DEF SiloConstants
<1>4. Name(t) \in Thread \X Nat /\ \A a \in committed : a.name \in Thread \X Nat
  BY <1>0 DEF Name, TypeOK
<1>5. \A a \in committed : \A r : /\ Wrote(a, r) = Known(r, a.name)
                                   /\ Wrote(a, r)' = Known(r, a.name)'
  BY <1>3, <1>4 DEF Wrote, Known
<1>6. \A r : Wrote(x, r)' = Known(r, x.name)'
  BY <1>2, <1>3, <1>4 DEF Wrote, Known
<1>7. \A a \in committed, r \in Record : Wrote(a, r)' => Wrote(a, r)
  BY <1>0, <1>1, <1>5
<1>8. \A a, b \in committed : Overwrites(a, b)' => Overwrites(a, b)
  BY <1>1, <1>5, <1>7 DEF Overwrites
<1>9. ASSUME NEW b \in committed, NEW r \in Record, NEW w, Known(r, w)
      PROVE  Overtaken(r, w, b)' = Overtaken(r, w, b)
  <2>1. r \in b.updates => Known(r, b.name)
    BY <1>0, <1>5 DEF VersionsInv
  <2> QED
    BY <1>1, <1>9, <2>1 DEF Overtaken
<1>10. ASSUME NEW b \in committed PROVE ~ReadsFrom(x, b)
  BY <1>0, <1>2 DEF ReadsFrom, KnownInv, TypeOK
<1>11. ASSUME NEW b \in committed PROVE ~Overwrites(x, b)'
  <2>1. ASSUME NEW r \in Record, Wrote(x, r)', Wrote(b, r)',
               Version(r, x.name)' < Version(r, b.name)'
        PROVE  FALSE
    <3>1. Known(r, b.name) /\ Version(r, b.name)' = Version(r, b.name)
      BY <1>1, <1>5, <1>7, <2>1
    <3>2. r \in Writes(t)
      BY <1>0, <1>1, <1>2, <1>6, <2>1
    <3>3. Version(r, x.name)' = Len(versions[r]) + 1
      BY <1>2, <3>2, CommitVersions
    <3>4. /\ Len(versions[r]) \in Nat /\ Version(r, b.name) \in Nat
          /\ Version(r, b.name) <= Len(versions[r])
      BY <1>0, <3>1, VersionNumbers
    <3> QED
      BY <2>1, <3>1, <3>3, <3>4
  <2> QED
    BY <2>1 DEF Overwrites
<1>12. ASSUME NEW a \in committed, ReadsFrom(a, x)
       PROVE  \E r \in Record, c \in Column : seen[t][r][c] = a.name
  BY <1>0, <1>2, <1>12 DEF ReadsFrom
<1>13. ASSUME NEW a \in committed, Overwrites(a, x)'
       PROVE  \E r \in Writes(t) : Wrote(a, r)
  <2>1. PICK r \in Record : Wrote(a, r)' /\ Wrote(x, r)'
    BY <1>13 DEF Overwrites
  <2> QED
    BY <1>0, <1>1, <1>2, <1>6, <1>7, <2>1
<1> QED
  BY <1>8, <1>9, <1>10, <1>11, <1>12, <1>13

(***************************************************************************)
(* The timestamp of the transaction that commits is new.                   *)
(***************************************************************************)
LEMMA CommitStamps ==
  ASSUME LockInv, HistInv, StampInv, NoWrap', NEW t \in Thread,
         GetMonotoneTimestamp(t)
  PROVE  StampInv'
<1>x. PICK x : x = NewTxn(t, Stamp(t))
  OBVIOUS
<1>0. /\ TypeOK /\ PhaseOf(t) /\ ListOf(t) /\ KnownInv
      /\ monotone' = monotone + 1 /\ committed' = committed \cup {x}
      /\ pc[t] = "validate" /\ pc'[t] = "install" /\ commitTs'[t] = Stamp(t)
      /\ ts' = ts /\ seen' = seen /\ installed' = installed
      /\ \A u \in Thread : u # t => Unmoved(u)
  BY <1>x, CommitFacts DEF LockInv, HistInv
<1>1. \A u \in Thread : Name(u)' = Name(u) /\ Writes(u)' = Writes(u)
                        /\ Entries(u)' = Entries(u)
  BY CommitFacts
<1>2. monotone \in Nat /\ TsSpan \in Nat /\ monotone < TsSpan
  BY <1>0, SiloConstants DEF SiloConstants, NoWrap, TypeOK
<1>3. Issued /\ Unused /\ SeenCurrent /\ DrawnInOrder
  BY <1>2 DEF StampInv, NoWrap
<1>4. Stamp(t).low = monotone
  BY <1>0, <1>2, TimestampType DEF Stamp, TypeOK
<1>5. /\ x.name = Name(t) /\ x.updates = Updates(t) /\ x.ts = Stamp(t)
  BY <1>x DEF NewTxn
<1>6. /\ Updates(t) \subseteq Writes(t)
      /\ \A u \in Thread : \A e \in Entries(u) : e.record \in Record /\ e.ts.low \in Nat
      /\ \A r \in Record : ts[r].low \in Nat
      /\ \A a \in committed : a.ts.low \in Nat
  <2>1. Updates(t) \subseteq Writes(t) /\ \A u \in Thread : Entries(u) \subseteq AccessEntry
    BY <1>0, ListTypes
  <2>2. \A s \in Timestamp : s.low \in Nat
    BY DEF Timestamp
  <2>3. /\ \A r \in Record : ts[r] \in Timestamp
        /\ \A a \in committed : a.ts \in Timestamp
    BY <1>0 DEF TypeOK
  <2> QED
    BY <2>1, <2>2, <2>3 DEF AccessEntry
<1>c. /\ \A a, b \in committed : Overwrites(a, b)' => Overwrites(a, b)
      /\ \A b \in committed, r \in Record : \A w :
           Known(r, w) => Overtaken(r, w, b)' = Overtaken(r, w, b)
      /\ \A b \in committed : ~ReadsFrom(x, b) /\ ~Overwrites(x, b)'
  BY <1>x, CommitConflicts
<1>7. Issued'
  BY <1>0, <1>1, <1>2, <1>3, <1>4, <1>5, <1>6 DEF Issued
<1>8. ASSUME NEW u \in Thread, NEW r \in Record, Installs(u, r)'
      PROVE  /\ commitTs'[u].low < monotone + 1 /\ ts[r] # commitTs'[u]
             /\ \A v \in Thread : \A e \in Entries(v) :
                  e.record = r => e.ts # commitTs'[u]
  <2>1. CASE u = t
    BY <1>0, <1>2, <1>3, <1>4, <1>6, <2>1 DEF Issued
  <2>2. CASE u # t
    <3>1. Installs(u, r) /\ commitTs'[u] = commitTs[u] /\ commitTs[u].low \in Nat
      BY <1>0, <1>8, <2>2, UnmovedStores DEF Unmoved, TypeOK, Timestamp
    <3> QED
      BY <1>2, <1>3, <3>1 DEF Unused
  <2> QED
    BY <2>1, <2>2
<1>9. Unused'
  BY <1>0, <1>1, <1>8 DEF Unused
<1>10. ASSUME NEW u \in Thread, NEW e \in Entries(u), NEW c \in Column,
              NEW b \in committed', e.ts = ts[e.record],
              seen[u][e.record][c] # Unread,
              Overtaken(e.record, seen[u][e.record][c], b)'
       PROVE  \E v \in Thread : b.name = Name(v) /\ Installs(v, e.record)'
  <2>1. CASE b = x
    <3>1. e.record \in Writes(t) /\ installed[t] = {}
      BY <1>0, <1>5, <1>6, <1>10, <2>1 DEF Overtaken, PhaseOf
    <3> QED
      BY <1>0, <1>1, <1>5, <2>1, <3>1 DEF Installs
  <2>2. CASE b \in committed
    <3>1. Known(e.record, seen[u][e.record][c]) /\ e.record \in Record
      BY <1>0, <1>6, <1>10 DEF KnownInv
    <3>2. seen[u][e.record][c]' = seen[u][e.record][c]
      BY <1>0
    <3>3. Overtaken(e.record, seen[u][e.record][c], b)
      BY <1>c, <1>10, <2>2, <3>1, <3>2 DEF Overtaken
    <3>4. PICK v \in Thread : b.name = Name(v) /\ Installs(v, e.record)
      BY <1>3, <1>10, <2>2, <3>3 DEF SeenCurrent
    <3>5. v # t
      BY <1>0, <3>4 DEF Installs
    <3> QED
      BY <1>0, <3>4, <3>5, UnmovedStores
  <2> QED
    BY <1>0, <2>1, <2>2
<1>11. SeenCurrent'
  BY <1>0, <1>1, <1>10 DEF SeenCurrent, Overtaken
<1>12. ASSUME NEW a \in committed', NEW b \in committed', Depends(a, b)'
       PROVE  a.ts.low < b.ts.low
  <2>1. CASE a \in committed /\ b \in committed
    BY <1>3, <1>12, <1>c, <2>1 DEF Depends, DrawnInOrder, ReadsFrom
  <2>2. CASE a \in committed /\ b = x
    BY <1>3, <1>4, <1>5, <2>2 DEF Issued
  <2>3. CASE a = x
    BY <1>0, <1>12, <1>c, <2>3 DEF Depends, ReadsFrom
  <2> QED
    BY <1>0, <2>1, <2>2, <2>3
<1>13. DrawnInOrder'
  BY <1>12 DEF DrawnInOrder
<1> QED
  BY <1>7, <1>9, <1>11, <1>13 DEF StampInv

(***************************************************************************)
(* The timestamps are in order initially.                                  *)
(***************************************************************************)
LEMMA InitStamp == Init => StampInv
<1> SUFFICES ASSUME Init PROVE StampInv
  OBVIOUS
<1>1. /\ \A r \in Record : ts[r].low = 0
      /\ monotone = 1 /\ committed = {}
      /\ \A t \in Thread : accesses[t] = <<>> /\ pc[t] = "idle"
  BY DEF Init, ZeroTs
<1>2. \A t \in Thread : Entries(t) = {}
  BY <1>1 DEF Entries
<1> QED
  BY <1>1, <1>2 DEF StampInv, Issued, Unused, SeenCurrent, DrawnInOrder, Installs

(***************************************************************************)
(* Every step keeps the timestamps in order, as long as the counter has    *)
(* not wrapped.                                                            *)
(***************************************************************************)
LEMMA NextStamp == LockInv /\ HistInv /\ StampInv /\ [Next]_vars => StampInv'
<1> SUFFICES ASSUME LockInv, HistInv, StampInv, [Next]_vars, NoWrap'
             PROVE  StampInv'
  BY DEF StampInv
<1>1. ASSUME NEW t \in Thread, GetMonotoneTimestamp(t) PROVE StampInv'
  BY <1>1, CommitStamps
<1>2. ASSUME NEW t \in Thread, Step(t), ~GetMonotoneTimestamp(t) PROVE StampInv'
  <2>1. NoWrap
    BY <1>2, QuietStep DEF NoWrap
  <2>2. ASSUME NEW r \in Record, SetTimestamp(t, r) PROVE StampInv'
    BY <2>1, <2>2, SetStamps
  <2> QED
    BY <1>2, <2>1, <2>2, SelectStamps, StillSteps, StillKept
<1>3. CASE AdvanceEpoch \/ UNCHANGED vars
  <2>1. /\ committed' = committed /\ versions' = versions /\ ts' = ts
        /\ monotone' = monotone /\ commitTs' = commitTs /\ seen' = seen
        /\ \A u \in Thread : Unmoved(u)
    BY <1>3 DEF AdvanceEpoch, vars, shared, txn, history, Unmoved
  <2>2. \A u \in Thread : Entries(u)' = Entries(u) /\ Name(u)' = Name(u)
                          /\ \A r : Installs(u, r)' = Installs(u, r)
    BY <2>1, UnmovedKept, UnmovedStores
  <2>3. Still
    BY <2>1, <2>2 DEF Still
  <2> QED
    BY <2>3, StillKept
<1> QED
  BY <1>1, <1>2, <1>3 DEF Next, Joined

-----------------------------------------------------------------------------
(***************************************************************************)
(* The serial order.  A transaction is pointed while it validates: it has  *)
(* read the epoch, and with it got a rank after all the ranks given so     *)
(* far.  It has tested the entry whose lock it has found free, and has     *)
(* passed the reads that it has validated.                                 *)
(***************************************************************************)
Pointed == {t \in Thread : pc[t] \in {"validate", "compare"}}

PassedAt(u, i) ==
  /\ i \in DOMAIN accesses[u] /\ i <= checked[u]
  /\ accesses[u][i].type \in {"READ_ONLY", "READ_WRITE"}

ComparedAt(u, i) ==
  i \in DOMAIN accesses[u] /\ pc[u] = "compare" /\ i = checked[u] + 1

TestedAt(u, i) == PassedAt(u, i) \/ ComparedAt(u, i)

(***************************************************************************)
(* Conflicts: committed transactions conflict in the order of their ranks. *)
(***************************************************************************)
Conflicts(rank) ==
  \A a, b \in committed : Precedes(a, b) => rank[a.name] < rank[b.name]

(***************************************************************************)
(* What a pointed transaction has read or overwrites has an earlier rank.  *)
(***************************************************************************)
SawEarlier(rank) ==
  \A u \in Pointed, r \in Record, c \in Column, a \in committed :
    seen[u][r][c] = a.name => rank[a.name] < rank[Name(u)]

WroteEarlier(rank) ==
  \A u \in Pointed : \A r \in held[u], a \in committed :
    Wrote(a, r) => rank[a.name] < rank[Name(u)]

(***************************************************************************)
(* Who has read a record, or has tested its lock, precedes the one that    *)
(* holds the lock.                                                         *)
(***************************************************************************)
ReadEarlier(rank) ==
  \A u \in Pointed, a \in committed : \A s \in a.saw :
    s[1] \in held[u] => rank[a.name] < rank[Name(u)]

TestedEarlier(rank) ==
  \A u, v \in Pointed : \A i \in DOMAIN accesses[u] :
    u # v /\ TestedAt(u, i) /\ accesses[u][i].record \in held[v]
    => rank[Name(u)] < rank[Name(v)]

(***************************************************************************)
(* Who has overwritten what a pointed transaction has found unchanged, or  *)
(* would find unchanged now, has a later rank.                             *)
(***************************************************************************)
OvertakenBy(u, i, b) ==
  \E c \in Column : LET e == accesses[u][i] IN
    Overtaken(e.record, seen[u][e.record][c], b)

OvertakenLater(rank) ==
  \A u \in Pointed, b \in committed : \A i \in DOMAIN accesses[u] :
    /\ TestedAt(u, i) /\ OvertakenBy(u, i, b)
    /\ PassedAt(u, i) \/ ts[accesses[u][i].record] = accesses[u][i].ts
    => rank[Name(u)] < rank[b.name]

(***************************************************************************)
(* Ranks were given in the order of the epochs.                            *)
(***************************************************************************)
Stamped ==
  {[name |-> a.name, epoch |-> a.ts.epoch] : a \in committed}
  \cup {[name |-> Name(u), epoch |-> currEpoch[u]] : u \in Pointed}

InOrder(rank, clock) ==
  /\ \A x \in Stamped : x.epoch <= epoch /\ rank[x.name] < clock
  /\ \A x, y \in Stamped : rank[x.name] < rank[y.name] => x.epoch <= y.epoch

SerialOrder(rank, clock) ==
  /\ Conflicts(rank) /\ SawEarlier(rank) /\ WroteEarlier(rank)
  /\ ReadEarlier(rank) /\ TestedEarlier(rank) /\ OvertakenLater(rank)
  /\ InOrder(rank, clock)

SerialInv ==
  NoWrap => \E rank \in [Thread \X Nat -> Nat], clock \in Nat :
              SerialOrder(rank, clock)

(***************************************************************************)
(* What has been tested is a read, and all of it has been seen.            *)
(***************************************************************************)
LEMMA TestedRead ==
  ASSUME LockInv, NEW u \in Pointed, NEW i \in DOMAIN accesses[u], TestedAt(u, i)
  PROVE  /\ accesses[u][i] \in Entries(u)
         /\ accesses[u][i].record \in Reads(u) /\ accesses[u][i].record \in Record
         /\ \A c \in Column : seen[u][accesses[u][i].record][c] # Unread
<1>1. u \in Thread /\ pc[u] # "exec" /\ TypeOK /\ PhaseOf(u) /\ ListOf(u)
  BY DEF Pointed, LockInv
<1>2. accesses[u][i] \in Entries(u)
  BY DEF Entries
<1>3. accesses[u][i].type \in {"READ_ONLY", "READ_WRITE"}
  BY <1>1 DEF TestedAt, PassedAt, ComparedAt, PhaseOf, Entry
<1>4. accesses[u][i].record \in Reads(u)
  BY <1>2, <1>3 DEF Reads
<1>5. accesses[u][i].record \in Record
  BY <1>1, <1>4, ListTypes
<1> QED
  BY <1>1, <1>2, <1>4, <1>5 DEF ListOf, Unfinished

(***************************************************************************)
(* A step in which no pointed transaction takes part keeps the order.      *)
(***************************************************************************)
LEMMA CalmKept ==
  ASSUME committed' = committed, versions' = versions,
         epoch \in Nat, epoch' \in {epoch, epoch + 1},
         TypeOK, Pointed' \subseteq Pointed, \A u \in Pointed' : Unmoved(u),
         \A u \in Pointed : \A e \in Entries(u) :
           ts'[e.record] = e.ts => ts[e.record] = e.ts,
         NEW rank, NEW clock, SerialOrder(rank, clock)
  PROVE  SerialOrder(rank, clock)'
<1>1. \A u \in Pointed' :
        /\ u \in Pointed /\ u \in Thread /\ Name(u)' = Name(u)
        /\ seen'[u] = seen[u] /\ held'[u] = held[u] /\ accesses'[u] = accesses[u]
        /\ currEpoch'[u] = currEpoch[u] /\ Entries(u)' = Entries(u)
        /\ pc'[u] = pc[u] /\ checked'[u] = checked[u]
  BY UnmovedKept DEF Unmoved, Pointed
<1>2. /\ \A r, w, b : Overtaken(r, w, b)' = Overtaken(r, w, b)
      /\ \A a, b : Precedes(a, b)' = Precedes(a, b)
      /\ \A a, r : Wrote(a, r)' = Wrote(a, r)
  BY SameVersions
<1>3. \A u \in Pointed' : \A i : /\ PassedAt(u, i)' = PassedAt(u, i)
                                 /\ TestedAt(u, i)' = TestedAt(u, i)
                                 /\ \A b : OvertakenBy(u, i, b)' = OvertakenBy(u, i, b)
  BY <1>1, <1>2 DEF PassedAt, TestedAt, ComparedAt, OvertakenBy
<1>4. Conflicts(rank)'
  BY <1>2 DEF SerialOrder, Conflicts
<1>5. SawEarlier(rank)'
  BY <1>1 DEF SerialOrder, SawEarlier
<1>6. WroteEarlier(rank)'
  BY <1>1, <1>2 DEF SerialOrder, WroteEarlier
<1>7. ReadEarlier(rank)'
  BY <1>1 DEF SerialOrder, ReadEarlier
<1>8. TestedEarlier(rank)'
  BY <1>1, <1>3 DEF SerialOrder, TestedEarlier
<1>9. OvertakenLater(rank)'
  <2>1. ASSUME NEW u \in Pointed', NEW b \in committed, NEW i \in DOMAIN accesses[u],
               TestedAt(u, i), OvertakenBy(u, i, b),
               PassedAt(u, i) \/ ts'[accesses[u][i].record] = accesses[u][i].ts
        PROVE  rank[Name(u)] < rank[b.name]
    <3>1. u \in Pointed /\ accesses[u][i] \in Entries(u)
      BY <1>1 DEF Entries
    <3>2. PassedAt(u, i) \/ ts[accesses[u][i].record] = accesses[u][i].ts
      BY <2>1, <3>1
    <3> QED
      BY <2>1, <3>1, <3>2 DEF SerialOrder, OvertakenLater
  <2> QED
    BY <1>1, <1>3, <2>1 DEF OvertakenLater
<1>10. InOrder(rank, clock)'
  <2>1. Stamped' \subseteq Stamped
    BY <1>1 DEF Stamped
  <2>2. \A x \in Stamped : x.epoch \in Nat
    BY DEF Stamped, TypeOK, Timestamp, Pointed
  <2>3. \A x \in Stamped : x.epoch <= epoch => x.epoch <= epoch'
    BY <2>2
  <2> QED
    BY <2>1, <2>3 DEF SerialOrder, InOrder
<1> QED
  BY <1>4, <1>5, <1>6, <1>7, <1>8, <1>9, <1>10 DEF SerialOrder

(***************************************************************************)
(* An entry whose record nobody else holds and which has the timestamp it  *)
(* had is not overtaken.                                                   *)
(***************************************************************************)
LEMMA NotOvertaken ==
  ASSUME LockInv, SeenCurrent, NEW t \in Pointed, NEW k \in DOMAIN accesses[t],
         accesses[t][k].type \in {"READ_ONLY", "READ_WRITE"},
         ts[accesses[t][k].record] = accesses[t][k].ts,
         \A v \in Thread : v # t => accesses[t][k].record \notin held[v]
  PROVE  \A b \in committed : ~OvertakenBy(t, k, b)
<1> DEFINE e == accesses[t][k]
<1>1. t \in Thread /\ pc[t] \notin {"exec", "install"} /\ TypeOK /\ ListOf(t)
  BY DEF Pointed, LockInv
<1>2. e \in Entries(t) /\ e.record \in Reads(t)
  BY DEF Entries, Reads
<1>3. e.record \in Record
  BY <1>1, <1>2, ListTypes
<1>4. \A c \in Column : seen[t][e.record][c] # Unread
  BY <1>1, <1>2, <1>3 DEF ListOf, Unfinished
<1>5. ASSUME NEW b \in committed, OvertakenBy(t, k, b) PROVE FALSE
  <2>1. PICK c \in Column : Overtaken(e.record, seen[t][e.record][c], b)
    BY <1>5 DEF OvertakenBy
  <2>2. PICK v \in Thread : Installs(v, e.record)
    BY <1>1, <1>2, <1>4, <2>1 DEF SeenCurrent
  <2>3. pc[v] = "install" /\ e.record \in held[v]
    BY <2>2 DEF Installs, LockInv, PhaseOf
  <2> QED
    BY <1>1, <2>3
<1> QED
  BY <1>5

(***************************************************************************)
(* A validation step tests an entry that nobody else holds, or passes one  *)
(* that has the timestamp it had.                                          *)
(***************************************************************************)
LEMMA ValidateTests ==
  ASSUME LockInv, SeenCurrent, NEW t \in Thread, Validate(t), t \in Pointed',
         NEW i \in DOMAIN accesses[t], TestedAt(t, i)'
  PROVE  /\ t \in Pointed
         /\ \/ TestedAt(t, i)
            \/ /\ \A v \in Thread : v # t => accesses[t][i].record \notin held[v]
               /\ ts[accesses[t][i].record] = accesses[t][i].ts
                  => \A b \in committed : ~OvertakenBy(t, i, b)
         /\ PassedAt(t, i)' => \/ PassedAt(t, i)
                               \/ ts[accesses[t][i].record] = accesses[t][i].ts
<1> DEFINE k == checked[t] + 1
           e == accesses[t][i]
<1>0. /\ TypeOK /\ PhaseOf(t) /\ pc[t] \in {"validate", "compare"}
      /\ Updates(t) \subseteq Writes(t)
      /\ accesses' = accesses /\ checked[t] \in Nat
      /\ pc \in [Thread -> {"idle", "exec", "lock", "epoch", "validate",
                           "compare", "install", "release", "undo", "done"}]
      /\ checked \in [Thread -> 0..MaxAccess]
  <2>1. TypeOK /\ PhaseOf(t)
    BY DEF LockInv
  <2>2. ValidationFrame(t) /\ pc[t] \in {"validate", "compare"}
    BY ValidateCases
  <2>3. Updates(t) \subseteq Writes(t)
    BY <2>1, ListTypes
  <2>4. /\ pc \in [Thread -> {"idle", "exec", "lock", "epoch", "validate",
                           "compare", "install", "release", "undo", "done"}]
        /\ checked \in [Thread -> 0..MaxAccess]
    BY <2>1 DEF TypeOK
  <2>5. checked[t] \in 0..MaxAccess
    BY <2>4
  <2> QED
    BY <2>1, <2>2, <2>3, <2>4, <2>5 DEF ValidationFrame
<1>1. t \in Pointed
  BY <1>0 DEF Pointed
<1>2. i \in Nat
  BY <1>0, ListTypes
<1>3. ASSUME e.type \in {"READ_ONLY", "READ_WRITE"},
             \A v \in Thread : v # t => e.record \notin held[v],
             ts[e.record] = e.ts
      PROVE  \A b \in committed : ~OvertakenBy(t, i, b)
  BY <1>1, <1>3, NotOvertaken
<1>4. CASE Passed(t)
  <2>1. checked'[t] = k /\ pc'[t] = "validate"
    BY <1>0, <1>4 DEF Passed
  <2>2. PassedAt(t, i)' /\ ~ComparedAt(t, i)'
    BY <2>1 DEF TestedAt, ComparedAt
  <2>3. e.type \in {"READ_ONLY", "READ_WRITE"} /\ i <= k
    BY <1>0, <2>1, <2>2 DEF PassedAt
  <2>4. CASE i # k
    <3>1. PassedAt(t, i)
      BY <1>0, <1>2, <2>3, <2>4 DEF PassedAt
    <3> QED
      BY <1>1, <3>1 DEF TestedAt
  <2>5. CASE i = k
    <3>0. e = Entry(t)
      BY <2>5 DEF Entry
    <3>1. /\ ts[e.record] = e.ts
          /\ pc[t] = "compare" \/ e.type = "READ_WRITE"
      BY <1>0, <1>4, <2>1, <2>3, <3>0, ValidateCases DEF SameTimestamp
    <3>2. CASE pc[t] = "compare"
      <4>1. TestedAt(t, i)
        BY <2>5, <3>2 DEF TestedAt, ComparedAt
      <4> QED
        BY <1>1, <3>1, <4>1
    <3>3. CASE e.type = "READ_WRITE" /\ pc[t] = "validate"
      <4>1. e.record \in held[t]
        BY <1>0, <3>3 DEF PhaseOf, Updates, Entries
      <4>2. \A v \in Thread : v # t => e.record \notin held[v]
        <5>1. e.record \in Record
          BY <1>0, <4>1 DEF TypeOK
        <5> QED
          BY <4>1, <5>1 DEF LockInv, LockOf
      <4> QED
        BY <1>1, <1>3, <2>3, <3>1, <4>2
    <3> QED
      BY <1>0, <3>1, <3>2, <3>3
  <2> QED
    BY <2>4, <2>5
<1>5. CASE /\ Validating(t) /\ Entry(t).type = "READ_ONLY"
           /\ lock[Entry(t).record].type # "WRITE_LOCK"
           /\ pc' = [pc EXCEPT ![t] = "compare"] /\ checked' = checked
  <2>1. PassedAt(t, i)' = PassedAt(t, i)
    BY <1>0, <1>5 DEF PassedAt
  <2>2. CASE PassedAt(t, i)
    BY <1>1, <2>2 DEF TestedAt
  <2>3. CASE ~PassedAt(t, i)
    <3>1. i = k /\ e = Entry(t)
      BY <1>5, <2>1, <2>3 DEF TestedAt, ComparedAt, Entry
    <3>2. Entry(t).record \in Record
      BY <1>5, ValidationPoint DEF AccessEntry
    <3>3. \A v \in Thread : e.record \notin held[v]
      BY <1>5, <3>1, <3>2 DEF LockInv, LockOf
    <3> QED
      BY <1>1, <1>3, <1>5, <2>1, <2>3, <3>1, <3>3
  <2> QED
    BY <2>2, <2>3
<1>6. CASE pc' = [pc EXCEPT ![t] = "undo"] /\ checked' = checked
  BY <1>0, <1>6 DEF Pointed
<1> QED
  BY <1>4, <1>5, <1>6, ValidateCases

(***************************************************************************)
(* A validation step keeps the order.                                      *)
(***************************************************************************)
LEMMA ValidateKept ==
  ASSUME LockInv, SeenCurrent, NEW t \in Thread, Validate(t),
         NEW rank, NEW clock, SerialOrder(rank, clock)
  PROVE  SerialOrder(rank, clock)'
<1>0. /\ TypeOK /\ committed' = committed /\ versions' = versions /\ ts' = ts
      /\ accesses' = accesses /\ seen' = seen /\ held' = held /\ left' = left
      /\ currEpoch' = currEpoch /\ epoch' = epoch /\ t \in Pointed
  BY ValidateCases DEF LockInv, ValidationFrame, shared, history, Pointed
<1>1. \A u \in Thread : u # t => Unmoved(u)
  BY <1>0, OthersUnmoved DEF Step
<1>2. Pointed' \subseteq Pointed /\ \A u : Name(u)' = Name(u)
  BY <1>0, <1>1 DEF Pointed, Unmoved, Name
<1>3. /\ \A r, w, b : Overtaken(r, w, b)' = Overtaken(r, w, b)
      /\ \A a, b : Precedes(a, b)' = Precedes(a, b)
      /\ \A a, r : Wrote(a, r)' = Wrote(a, r)
  BY <1>0, SameVersions
<1>4. \A u, i, b : OvertakenBy(u, i, b)' = OvertakenBy(u, i, b)
  BY <1>0, <1>3 DEF OvertakenBy
<1>5. ASSUME NEW u \in Pointed', NEW i \in DOMAIN accesses[u], TestedAt(u, i)'
      PROVE  /\ \/ TestedAt(u, i)
                \/ /\ \A v \in Thread : v # u => accesses[u][i].record \notin held[v]
                   /\ ts[accesses[u][i].record] = accesses[u][i].ts
                      => \A b \in committed : ~OvertakenBy(u, i, b)
             /\ PassedAt(u, i)' => \/ PassedAt(u, i)
                                   \/ ts[accesses[u][i].record] = accesses[u][i].ts
  <2>1. CASE u = t
    BY <1>5, <2>1, ValidateTests
  <2>2. CASE u # t
    <3>1. PassedAt(u, i)' = PassedAt(u, i) /\ TestedAt(u, i)' = TestedAt(u, i)
      BY <1>0, <1>1, <1>2, <2>2 DEF PassedAt, TestedAt, ComparedAt, Unmoved, Pointed
    <3> QED
      BY <1>5, <3>1
  <2> QED
    BY <2>1, <2>2
<1>6. Conflicts(rank)'
  BY <1>0, <1>3 DEF SerialOrder, Conflicts
<1>7. SawEarlier(rank)' /\ WroteEarlier(rank)' /\ ReadEarlier(rank)'
  BY <1>0, <1>2, <1>3 DEF SerialOrder, SawEarlier, WroteEarlier, ReadEarlier
<1>8. TestedEarlier(rank)'
  <2>1. ASSUME NEW u \in Pointed', NEW v \in Pointed', NEW i \in DOMAIN accesses[u],
               u # v, TestedAt(u, i)', accesses[u][i].record \in held[v]
        PROVE  rank[Name(u)] < rank[Name(v)]
    <3>1. TestedAt(u, i) /\ u \in Pointed /\ v \in Pointed
      BY <1>2, <1>5, <2>1 DEF Pointed
    <3> QED
      BY <2>1, <3>1 DEF SerialOrder, TestedEarlier
  <2> QED
    BY <1>0, <1>2, <2>1 DEF TestedEarlier
<1>9. OvertakenLater(rank)'
  <2>1. ASSUME NEW u \in Pointed', NEW b \in committed, NEW i \in DOMAIN accesses[u],
               TestedAt(u, i)', OvertakenBy(u, i, b),
               PassedAt(u, i)' \/ ts[accesses[u][i].record] = accesses[u][i].ts
        PROVE  rank[Name(u)] < rank[b.name]
    <3>1. /\ u \in Pointed
          /\ PassedAt(u, i) \/ ts[accesses[u][i].record] = accesses[u][i].ts
      BY <1>2, <1>5, <2>1
    <3>2. TestedAt(u, i)
      BY <1>5, <2>1, <3>1 DEF TestedAt
    <3> QED
      BY <2>1, <3>1, <3>2 DEF SerialOrder, OvertakenLater
  <2> QED
    BY <1>0, <1>2, <1>4, <2>1 DEF OvertakenLater
<1>10. InOrder(rank, clock)'
  <2>1. Stamped' \subseteq Stamped
    BY <1>0, <1>2 DEF Stamped
  <2> QED
    BY <1>0, <2>1 DEF SerialOrder, InOrder
<1> QED
  BY <1>6, <1>7, <1>8, <1>9, <1>10 DEF SerialOrder

(***************************************************************************)
(* GetEpoch gives the transaction a rank after all others.  It holds all   *)
(* its write locks and has tested nothing.                                 *)
(***************************************************************************)
LEMMA EpochKept ==
  ASSUME LockInv, HistInv, NEW t \in Thread, GetEpoch(t),
         NEW rank \in [Thread \X Nat -> Nat], NEW clock \in Nat,
         SerialOrder(rank, clock)
  PROVE  \E r \in [Thread \X Nat -> Nat], k \in Nat : SerialOrder(r, k)'
<1>n. PICK n : n = Name(t)
  OBVIOUS
<1> DEFINE new == [rank EXCEPT ![n] = clock]
<1>0. /\ TypeOK /\ PhaseOf(t) /\ NamesInv /\ committed' = committed
      /\ versions' = versions /\ ts' = ts /\ pc[t] = "epoch" /\ pc'[t] = "validate"
      /\ accesses' = accesses /\ seen' = seen /\ held' = held /\ left' = left
      /\ checked' = checked /\ epoch' = epoch /\ currEpoch'[t] = epoch
  BY DEF GetEpoch, LockInv, HistInv, TypeOK, shared, history
<1>1. \A u \in Thread : u # t => Unmoved(u)
  BY <1>0, OthersUnmoved DEF Step
<1>2. \A u : Name(u)' = Name(u)
  BY <1>0 DEF Name
<1>3. Pointed' = Pointed \cup {t} /\ t \notin Pointed
  BY <1>0, <1>1 DEF Pointed, Unmoved
<1>4. n \in Thread \X Nat /\ new \in [Thread \X Nat -> Nat] /\ new[n] = clock
  BY <1>0, <1>n DEF Name, TypeOK
<1>5. ASSUME NEW a \in committed
      PROVE  /\ a.name \in Thread \X Nat /\ a.name # n
             /\ new[a.name] = rank[a.name] /\ rank[a.name] < clock
  <2>1. a.name \in Thread \X Nat
    BY <1>0 DEF TypeOK
  <2>2. a.name # n
    <3>1. ASSUME a.name = n PROVE FALSE
      <4>1. a.name[1] = t /\ a.name[2] = left[t]
        BY <1>n, <3>1 DEF Name
      <4> QED
        BY <1>0, <4>1 DEF NamesInv
    <3> QED
      BY <3>1
  <2>3. rank[a.name] < clock
    <3>1. [name |-> a.name, epoch |-> a.ts.epoch] \in Stamped
      BY DEF Stamped
    <3> QED
      BY <3>1 DEF SerialOrder, InOrder
  <2> QED
    BY <2>1, <2>2, <2>3
<1>6. ASSUME NEW u \in Pointed
      PROVE  /\ u # t /\ u \in Thread /\ Name(u) \in Thread \X Nat /\ Name(u) # n
             /\ new[Name(u)] = rank[Name(u)] /\ rank[Name(u)] < clock
  <2>1. u # t /\ u \in Thread
    BY <1>3 DEF Pointed
  <2>2. Name(u) \in Thread \X Nat /\ Name(u) # n
    BY <1>0, <1>n, <2>1 DEF Name, TypeOK
  <2>3. rank[Name(u)] < clock
    <3>1. [name |-> Name(u), epoch |-> currEpoch[u]] \in Stamped
      BY DEF Stamped
    <3> QED
      BY <3>1 DEF SerialOrder, InOrder
  <2> QED
    BY <2>1, <2>2, <2>3
<1> HIDE DEF new
<1>7. /\ \A r, w, b : Overtaken(r, w, b)' = Overtaken(r, w, b)
      /\ \A a, b : Precedes(a, b)' = Precedes(a, b)
      /\ \A a, r : Wrote(a, r)' = Wrote(a, r)
  BY <1>0, SameVersions
<1>8. \A u, i, b : OvertakenBy(u, i, b)' = OvertakenBy(u, i, b)
  BY <1>0, <1>7 DEF OvertakenBy
<1>9. /\ \A u, i : PassedAt(u, i)' = PassedAt(u, i)
      /\ \A u \in Pointed : \A i : TestedAt(u, i)' = TestedAt(u, i)
  BY <1>0, <1>1, <1>6 DEF PassedAt, TestedAt, ComparedAt, Unmoved
<1>10. \A i : ~TestedAt(t, i)'
  <2>1. checked[t] = 0
    BY <1>0 DEF PhaseOf
  <2>2. \A i \in DOMAIN accesses[t] : ~(i <= checked[t])
    BY <1>0, <2>1, ListTypes
  <2> QED
    BY <1>0, <2>2 DEF TestedAt, PassedAt, ComparedAt
<1>11. Conflicts(new)'
  BY <1>0, <1>5, <1>7 DEF SerialOrder, Conflicts
<1>12. SawEarlier(new)'
  BY <1>0, <1>2, <1>3, <1>4, <1>5, <1>6, <1>n DEF SerialOrder, SawEarlier
<1>13. WroteEarlier(new)'
  BY <1>0, <1>2, <1>3, <1>4, <1>5, <1>6, <1>7, <1>n DEF SerialOrder, WroteEarlier
<1>14. ReadEarlier(new)'
  BY <1>0, <1>2, <1>3, <1>4, <1>5, <1>6, <1>n DEF SerialOrder, ReadEarlier
<1>15. TestedEarlier(new)'
  <2>1. ASSUME NEW u \in Pointed', NEW v \in Pointed', NEW i \in DOMAIN accesses[u],
               u # v, TestedAt(u, i)', accesses[u][i].record \in held[v]
        PROVE  new[Name(u)] < new[Name(v)]
    <3>1. u \in Pointed /\ TestedAt(u, i)
      BY <1>3, <1>9, <1>10, <2>1
    <3>2. CASE v = t
      BY <1>4, <1>6, <1>n, <3>1, <3>2
    <3>3. CASE v \in Pointed
      BY <1>6, <2>1, <3>1, <3>3 DEF SerialOrder, TestedEarlier
    <3> QED
      BY <1>3, <3>2, <3>3
  <2> QED
    BY <1>0, <1>2, <2>1 DEF TestedEarlier
<1>16. OvertakenLater(new)'
  <2>1. ASSUME NEW u \in Pointed', NEW b \in committed, NEW i \in DOMAIN accesses[u],
               TestedAt(u, i)', OvertakenBy(u, i, b),
               PassedAt(u, i) \/ ts[accesses[u][i].record] = accesses[u][i].ts
        PROVE  new[Name(u)] < new[b.name]
    <3>1. u \in Pointed /\ TestedAt(u, i)
      BY <1>3, <1>9, <1>10, <2>1
    <3> QED
      BY <1>5, <1>6, <2>1, <3>1 DEF SerialOrder, OvertakenLater
  <2> QED
    BY <1>0, <1>2, <1>8, <1>9, <2>1 DEF OvertakenLater
<1>17. InOrder(new, clock + 1)'
  <2>z. PICK z : z = [name |-> n, epoch |-> epoch]
    OBVIOUS
  <2>1. z.name = n /\ z.epoch = epoch
    BY <2>z
  <2>2. Stamped' \subseteq Stamped \cup {z}
    BY <1>0, <1>1, <1>2, <1>3, <1>6, <1>n, <2>z DEF Stamped, Unmoved
  <2>3. \A x \in Stamped : new[x.name] = rank[x.name] /\ rank[x.name] < clock
                           /\ rank[x.name] \in Nat /\ x.epoch <= epoch
    BY <1>5, <1>6 DEF Stamped, SerialOrder, InOrder
  <2>4. epoch \in Nat
    BY <1>0 DEF TypeOK
  <2>5. ASSUME NEW x \in Stamped'
        PROVE  x.epoch <= epoch /\ new[x.name] < clock + 1
    BY <1>4, <2>1, <2>2, <2>3, <2>4
  <2>6. ASSUME NEW x \in Stamped', NEW y \in Stamped', new[x.name] < new[y.name]
        PROVE  x.epoch <= y.epoch
    <3>1. CASE y = z
      BY <2>1, <2>5, <3>1
    <3>2. CASE y \in Stamped /\ x = z
      BY <1>4, <2>1, <2>3, <2>6, <3>2
    <3>3. CASE y \in Stamped /\ x \in Stamped
      BY <2>3, <2>6, <3>3 DEF SerialOrder, InOrder
    <3> QED
      BY <2>2, <3>1, <3>2, <3>3
  <2> QED
    BY <1>0, <2>5, <2>6 DEF InOrder
<1>18. SerialOrder(new, clock + 1)'
  BY <1>11, <1>12, <1>13, <1>14, <1>15, <1>16, <1>17 DEF SerialOrder
<1> QED
  BY <1>4, <1>18

(***************************************************************************)
(* The transaction that commits takes the place that its rank gives it.    *)
(***************************************************************************)
LEMMA CommitKept ==
  ASSUME LockInv, HistInv, NEW t \in Thread, GetMonotoneTimestamp(t),
         NEW rank, NEW clock, SerialOrder(rank, clock)
  PROVE  SerialOrder(rank, clock)'
<1>x. PICK x : x = NewTxn(t, Stamp(t))
  OBVIOUS
<1>0. /\ TypeOK /\ PhaseOf(t) /\ ListOf(t) /\ KnownInv
      /\ committed' = committed \cup {x} /\ pc[t] = "validate" /\ pc'[t] = "install"
      /\ checked[t] = Len(accesses[t])
      /\ ts' = ts /\ seen' = seen /\ held' = held /\ accesses' = accesses
      /\ currEpoch' = currEpoch /\ epoch' = epoch
      /\ \A u \in Thread : u # t => Unmoved(u)
      /\ \A u \in Thread : Name(u)' = Name(u)
      /\ \A r \in Record : ~Known(r, Name(t))
      /\ \A a \in committed : a.name # Name(t)
  BY <1>x, CommitFacts DEF LockInv, HistInv
<1>1. /\ Updates(t) \subseteq Writes(t) /\ held[t] = Writes(t)
      /\ Reads(t) \subseteq Record /\ Writes(t) \subseteq Record
  BY <1>0, ListTypes DEF PhaseOf
<1>2. /\ x.name = Name(t) /\ x.updates = Updates(t) /\ x.ts = Stamp(t)
      /\ \A s \in x.saw : \E c \in Column : s[1] \in Reads(t) /\ s[2] = seen[t][s[1]][c]
  BY <1>x DEF NewTxn
<1>3. /\ t \in Pointed /\ Pointed' = Pointed \ {t}
  BY <1>0 DEF Pointed, Unmoved
<1>4. \A u \in Pointed : u \in Thread /\ Name(u)' = Name(u)
  BY <1>0 DEF Pointed
<1>5. /\ \A u, i : PassedAt(u, i)' = PassedAt(u, i) \/ u \notin Pointed'
      /\ \A u, i : TestedAt(u, i)' = TestedAt(u, i) \/ u \notin Pointed'
  BY <1>0, <1>3 DEF Pointed, PassedAt, TestedAt, ComparedAt, Unmoved
<1>6. \A u \in Pointed : \A v \in Thread : \A r : r \in held[u] /\ r \in held[v] => u = v
  BY <1>0, <1>4 DEF LockInv, LockOf, TypeOK
<1>7. ASSUME NEW r \in Reads(t)
      PROVE  \E i \in DOMAIN accesses[t] : PassedAt(t, i) /\ accesses[t][i].record = r
  <2>1. PICK e \in Entries(t) : e.record = r /\ e.type \in {"READ_ONLY", "READ_WRITE"}
    BY DEF Reads
  <2>2. PICK i \in DOMAIN accesses[t] : accesses[t][i] = e
    BY DEF Entries
  <2>3. i <= checked[t]
    BY <1>0, ListTypes
  <2> QED
    BY <2>1, <2>2, <2>3 DEF PassedAt
<1>c. /\ \A a, b \in committed : Overwrites(a, b)' => Overwrites(a, b)
      /\ \A b \in committed, r \in Record : \A w :
           Known(r, w) => Overtaken(r, w, b)' = Overtaken(r, w, b)
      /\ \A b \in committed : ~ReadsFrom(x, b) /\ ~Overwrites(x, b)'
      /\ \A a \in committed :
           /\ ReadsFrom(a, x) => \E r \in Record, c \in Column : seen[t][r][c] = a.name
           /\ Overwrites(a, x)' => \E r \in Writes(t) : Wrote(a, r)
  BY <1>x, CommitConflicts
<1>8. \A a \in committed : \A s \in a.saw : s[1] \in Record /\ Known(s[1], s[2])
  BY <1>0 DEF TypeOK, KnownInv
<1>9. \A b \in committed, u \in Pointed : \A i \in DOMAIN accesses[u] :
        TestedAt(u, i) => (OvertakenBy(u, i, b)' => OvertakenBy(u, i, b))
  <2>1. ASSUME NEW b \in committed, NEW u \in Pointed, NEW i \in DOMAIN accesses[u],
               TestedAt(u, i), OvertakenBy(u, i, b)'
        PROVE  OvertakenBy(u, i, b)
    <3> DEFINE e == accesses[u][i]
    <3>1. PICK c \in Column : Overtaken(e.record, seen[u][e.record][c], b)'
      BY <2>1 DEF OvertakenBy
    <3>2. e.record \in Record /\ seen[u][e.record][c] # Unread
      BY <2>1, TestedRead
    <3>3. Known(e.record, seen[u][e.record][c])
      BY <1>0, <1>4, <3>2 DEF KnownInv
    <3>4. /\ seen[u][e.record][c]' = seen[u][e.record][c]
          /\ accesses[u][i]' = accesses[u][i]
      BY <1>0
    <3>5. Overtaken(e.record, seen[u][e.record][c], b)
      BY <1>c, <3>1, <3>2, <3>3, <3>4 DEF Overtaken
    <3> QED
      BY <3>5 DEF OvertakenBy
  <2> QED
    BY <2>1
<1>10. Conflicts(rank)'
  <2>1. ASSUME NEW a \in committed, NEW b \in committed, Precedes(a, b)'
        PROVE  rank[a.name] < rank[b.name]
    <3>1. AntiDepends(a, b)' => AntiDepends(a, b)
      BY <1>c, <1>8 DEF AntiDepends
    <3>2. Precedes(a, b)
      BY <1>c, <2>1, <3>1 DEF Precedes, ReadsFrom
    <3> QED
      BY <3>2 DEF SerialOrder, Conflicts
  <2>2. ASSUME NEW a \in committed, Precedes(a, x)'
        PROVE  rank[a.name] < rank[Name(t)]
    <3>1. CASE ReadsFrom(a, x)
      BY <1>3, <1>c, <3>1 DEF SerialOrder, SawEarlier
    <3>2. CASE Overwrites(a, x)'
      BY <1>1, <1>3, <1>c, <3>2 DEF SerialOrder, WroteEarlier
    <3>3. CASE AntiDepends(a, x)'
      BY <1>1, <1>2, <1>3, <3>3 DEF AntiDepends, Overtaken, SerialOrder, ReadEarlier
    <3> QED
      BY <2>2, <3>1, <3>2, <3>3 DEF Precedes, ReadsFrom
  <2>3. ASSUME NEW b \in committed, Precedes(x, b)'
        PROVE  rank[Name(t)] < rank[b.name]
    <3>1. AntiDepends(x, b)'
      BY <1>c, <2>3 DEF Precedes, ReadsFrom
    <3>2. PICK s \in x.saw : Overtaken(s[1], s[2], b)'
      BY <3>1 DEF AntiDepends
    <3>3. PICK c \in Column : s[1] \in Reads(t) /\ s[2] = seen[t][s[1]][c]
      BY <1>2
    <3>4. PICK i \in DOMAIN accesses[t] : PassedAt(t, i) /\ accesses[t][i].record = s[1]
      BY <1>7, <3>3
    <3>5. TestedAt(t, i)
      BY <3>4 DEF TestedAt
    <3>6. Known(s[1], s[2])
      <4>1. seen[t][s[1]][c] # Unread
        BY <1>3, <3>4, <3>5, TestedRead
      <4> QED
        BY <1>0, <1>1, <3>3, <4>1 DEF KnownInv
    <3>7. OvertakenBy(t, i, b)
      BY <1>1, <1>c, <3>2, <3>3, <3>4, <3>6 DEF OvertakenBy
    <3> QED
      BY <1>3, <3>4, <3>5, <3>7 DEF SerialOrder, OvertakenLater
  <2>4. \A a : ~Precedes(a, a)'
    BY DEF Precedes
  <2> QED
    BY <1>0, <1>2, <2>1, <2>2, <2>3, <2>4 DEF Conflicts
<1>11. SawEarlier(rank)'
  <2>1. \A u \in Pointed, r \in Record, c \in Column : seen[u][r][c] # Name(t)
    <3>1. Name(t) \in Thread \X Nat
      BY <1>0 DEF Name, TypeOK
    <3> QED
      BY <1>0, <1>4, <3>1, SiloConstants DEF KnownInv, SiloConstants
  <2> QED
    BY <1>0, <1>2, <1>3, <1>4, <2>1 DEF SerialOrder, SawEarlier
<1>12. WroteEarlier(rank)'
  <2>1. ASSUME NEW u \in Pointed', NEW r \in held[u], NEW a \in committed', Wrote(a, r)'
        PROVE  rank[a.name] < rank[Name(u)]
    <3>1. u \in Pointed /\ u # t /\ r \notin Writes(t) /\ r \in Record
      BY <1>0, <1>1, <1>3, <1>4, <1>6, <2>1 DEF TypeOK
    <3>2. versions'[r] = versions[r]
      BY <3>1, CommitVersions
    <3>3. Wrote(a, r)
      BY <2>1, <3>2 DEF Wrote
    <3>4. a \in committed
      BY <1>0, <1>2, <3>1, <3>3 DEF Wrote, Known
    <3> QED
      BY <3>1, <3>3, <3>4 DEF SerialOrder, WroteEarlier
  <2> QED
    BY <1>0, <1>3, <1>4, <2>1 DEF WroteEarlier
<1>13. ReadEarlier(rank)'
  <2>1. ASSUME NEW u \in Pointed', NEW s \in x.saw, s[1] \in held[u]
        PROVE  rank[Name(t)] < rank[Name(u)]
    <3>1. s[1] \in Reads(t) /\ u \in Pointed /\ u # t
      BY <1>2, <1>3
    <3>2. PICK i \in DOMAIN accesses[t] : PassedAt(t, i) /\ accesses[t][i].record = s[1]
      BY <1>7, <3>1
    <3> QED
      BY <1>3, <2>1, <3>1, <3>2 DEF TestedAt, SerialOrder, TestedEarlier
  <2> QED
    BY <1>0, <1>2, <1>3, <1>4, <2>1 DEF SerialOrder, ReadEarlier
<1>14. TestedEarlier(rank)'
  <2>1. Pointed' \subseteq Pointed /\ \A u \in Pointed' : Name(u)' = Name(u)
    BY <1>3, <1>4
  <2> QED
    BY <1>0, <1>5, <2>1 DEF SerialOrder, TestedEarlier
<1>15. OvertakenLater(rank)'
  <2>1. ASSUME NEW u \in Pointed', NEW b \in committed', NEW i \in DOMAIN accesses[u],
               TestedAt(u, i), OvertakenBy(u, i, b)',
               PassedAt(u, i) \/ ts[accesses[u][i].record] = accesses[u][i].ts
        PROVE  rank[Name(u)] < rank[b.name]
    <3>1. u \in Pointed /\ u # t
      BY <1>3
    <3>2. CASE b \in committed
      BY <1>9, <2>1, <3>1, <3>2 DEF SerialOrder, OvertakenLater
    <3>3. CASE b = x
      <4>1. accesses[u][i].record \in held[t]
        BY <1>0, <1>1, <1>2, <2>1, <3>3 DEF OvertakenBy, Overtaken
      <4> QED
        BY <1>2, <1>3, <2>1, <3>1, <3>3, <4>1 DEF SerialOrder, TestedEarlier
    <3> QED
      BY <1>0, <3>2, <3>3
  <2> QED
    BY <1>0, <1>3, <1>4, <1>5, <2>1 DEF OvertakenLater
<1>16. InOrder(rank, clock)'
  <2>1. x.ts.epoch = currEpoch[t]
    BY <1>0, <1>2, TimestampType DEF Stamp, TypeOK
  <2>2. Stamped' \subseteq Stamped
    BY <1>0, <1>2, <1>3, <1>4, <2>1 DEF Stamped
  <2> QED
    BY <1>0, <2>2 DEF SerialOrder, InOrder
<1> QED
  BY <1>10, <1>11, <1>12, <1>13, <1>14, <1>15, <1>16 DEF SerialOrder

(***************************************************************************)
(* All other steps are calm: they move a thread that is not pointed, or    *)
(* take one from the pointed.                                              *)
(***************************************************************************)
LEMMA OtherKept ==
  ASSUME LockInv, StampInv, NoWrap, NEW t \in Thread, Step(t),
         ~GetMonotoneTimestamp(t), ~GetEpoch(t), ~Validate(t),
         NEW rank, NEW clock, SerialOrder(rank, clock)
  PROVE  SerialOrder(rank, clock)'
<1>0. /\ TypeOK /\ PhaseOf(t) /\ Unused
  BY DEF LockInv, StampInv
<1>1. committed' = committed /\ versions' = versions
  BY QuietStep
<1>2. /\ \A u \in Thread : u # t => Unmoved(u)
      /\ pc \in [Thread -> {"idle", "exec", "lock", "epoch", "validate",
                           "compare", "install", "release", "undo", "done"}]
  BY <1>0, OthersUnmoved DEF TypeOK
<1>3. pc'[t] \notin {"validate", "compare"} /\ epoch' = epoch
  <2>1. CASE Execute(t) \/ CommitTransaction(t)
    BY <1>2, <2>1 DEF Execute, CommitTransaction, shared
  <2>2. CASE AcquireWriteLock(t)
    <3>1. epoch' = epoch /\ \E p \in {"epoch", "lock"} : pc' = [pc EXCEPT ![t] = p]
      BY <2>2 DEF AcquireWriteLock
    <3> QED
      BY <1>2, <3>1
  <2>3. CASE Select(t) \/ ReleaseWriteLock(t)
    BY <1>2, <2>3 DEF Select, SelectRecordCC, InsertRecord, NewAccess, ReadColumn,
                      ReleaseWriteLock, shared
  <2>4. CASE Install(t)
    BY <1>2, <2>4 DEF Install, CopyFrom, SetVisible, SetTimestamp, EndInstall, shared
  <2>5. CASE ReturnCommitted(t) \/ ReturnAborted(t)
    BY <1>2, <2>5 DEF ReturnCommitted, ReturnAborted, shared
  <2> QED
    BY <2>1, <2>2, <2>3, <2>4, <2>5 DEF Step
<1>4. Pointed' \subseteq Pointed /\ \A u \in Pointed' : Unmoved(u)
  BY <1>2, <1>3 DEF Pointed, Unmoved
<1>5. ASSUME NEW u \in Pointed, NEW e \in Entries(u), ts'[e.record] = e.ts
      PROVE  ts[e.record] = e.ts
  <2>0. e.record \in Record /\ u \in Thread
    BY <1>0, ListTypes DEF Pointed, AccessEntry
  <2>1. ASSUME NEW q \in Record, SetTimestamp(t, q) PROVE ts[e.record] = e.ts
    <3>1. Installs(t, q) /\ ts' = [ts EXCEPT ![q] = commitTs[t]]
      BY <2>1 DEF SetTimestamp, NextToInstall, IsFirst, Installs
    <3>2. e.record # q
      BY <1>0, <1>5, <2>0, <3>1 DEF Unused, TypeOK
    <3> QED
      BY <1>0, <1>5, <2>0, <3>1, <3>2 DEF TypeOK
  <2>2. ASSUME \A q \in Record : ~SetTimestamp(t, q) PROVE ts[e.record] = e.ts
    <3>1. CASE Select(t)
      BY <1>5, <3>1 DEF Select, SelectRecordCC, InsertRecord, NewAccess, ReadColumn,
                        shared
    <3>2. CASE ~Select(t)
      BY <1>5, <2>2, <3>2, StillSteps DEF Still
    <3> QED
      BY <3>1, <3>2
  <2> QED
    BY <2>1, <2>2
<1> QED
  BY <1>0, <1>1, <1>3, <1>4, <1>5, CalmKept DEF TypeOK

(***************************************************************************)
(* There is a serial order initially.                                      *)
(***************************************************************************)
LEMMA InitSerial == Init => SerialInv
<1> SUFFICES ASSUME Init PROVE SerialInv
  OBVIOUS
<1> DEFINE rank == [n \in Thread \X Nat |-> 0]
<1>1. committed = {} /\ Pointed = {}
  BY DEF Init, Pointed
<1>2. Stamped = {}
  BY <1>1 DEF Stamped
<1>3. SerialOrder(rank, 0)
  BY <1>1, <1>2 DEF SerialOrder, Conflicts, SawEarlier, WroteEarlier, ReadEarlier,
                    TestedEarlier, OvertakenLater, InOrder
<1>4. rank \in [Thread \X Nat -> Nat] /\ 0 \in Nat
  OBVIOUS
<1> QED
  BY <1>3, <1>4 DEF SerialInv

(***************************************************************************)
(* Every step keeps a serial order: a transaction that draws its epoch     *)
(* gets the next place, and the other steps change no place.               *)
(***************************************************************************)
LEMMA NextSerial ==
  LockInv /\ HistInv /\ StampInv /\ SerialInv /\ [Next]_vars => SerialInv'
<1> SUFFICES ASSUME LockInv, HistInv, StampInv, SerialInv, [Next]_vars, NoWrap'
             PROVE  \E r \in [Thread \X Nat -> Nat], k \in Nat : SerialOrder(r, k)'
  BY DEF SerialInv
<1>0. TypeOK /\ monotone \in Nat /\ TsSpan \in Nat /\ epoch \in Nat
  BY SiloConstants DEF LockInv, TypeOK, SiloConstants
<1>1. monotone' \in {monotone, monotone + 1}
  <2>1. ASSUME NEW t \in Thread, Step(t) PROVE monotone' \in {monotone, monotone + 1}
    BY <2>1, CommitFacts, QuietStep
  <2>2. CASE AdvanceEpoch \/ UNCHANGED vars
    BY <2>2 DEF AdvanceEpoch, vars, shared
  <2> QED
    BY <2>1, <2>2 DEF Next, Joined
<1>2. NoWrap
  BY <1>0, <1>1 DEF NoWrap
<1>3. PICK rank \in [Thread \X Nat -> Nat], clock \in Nat : SerialOrder(rank, clock)
  BY <1>2 DEF SerialInv
<1>4. ASSUME NEW t \in Thread, Step(t)
      PROVE  \E r \in [Thread \X Nat -> Nat], k \in Nat : SerialOrder(r, k)'
  <2>1. SeenCurrent
    BY <1>2 DEF StampInv
  <2>2. CASE GetMonotoneTimestamp(t)
    BY <1>3, <2>2, CommitKept
  <2>3. CASE GetEpoch(t)
    BY <1>3, <2>3, EpochKept
  <2>4. CASE Validate(t)
    BY <1>3, <2>1, <2>4, ValidateKept
  <2> QED
    BY <1>2, <1>3, <1>4, <2>2, <2>3, <2>4, OtherKept
<1>5. CASE AdvanceEpoch \/ UNCHANGED vars
  <2>1. /\ committed' = committed /\ versions' = versions /\ ts' = ts
        /\ epoch' \in {epoch, epoch + 1} /\ pc' = pc
        /\ \A u \in Thread : Unmoved(u)
    BY <1>5 DEF AdvanceEpoch, vars, shared, txn, history, Unmoved
  <2>2. /\ Pointed' \subseteq Pointed /\ \A u \in Pointed' : Unmoved(u)
        /\ \A u \in Pointed : \A e \in Entries(u) :
             ts'[e.record] = e.ts => ts[e.record] = e.ts
    BY <2>1 DEF Pointed
  <2>3. SerialOrder(rank, clock)'
    BY <1>0, <1>3, <2>1, <2>2, CalmKept
  <2> QED
    BY <1>3, <2>3
<1> QED
  BY <1>4, <1>5 DEF Next, Joined

-----------------------------------------------------------------------------
(***************************************************************************)
(* What the invariants say of the history.                                 *)
(***************************************************************************)
LEMMA OrderSays ==
  ASSUME LockInv, SerialInv, NoWrap
  PROVE  Serializable /\ EpochsInSerialOrder
<1>1. PICK rank \in [Thread \X Nat -> Nat], clock \in Nat : SerialOrder(rank, clock)
  BY DEF SerialInv
<1>2. \A a \in committed : a.name \in Thread \X Nat
  BY DEF LockInv, TypeOK
<1>3. ASSUME NEW S \in (SUBSET committed) \ {{}}
      PROVE  \E b \in S : \A a \in S : ~Precedes(a, b)
  <2> DEFINE place == [a \in S |-> rank[a.name]]
  <2>1. \A a \in S : place[a] \in Nat
    BY <1>1, <1>2, <1>3
  <2>2. PICK b \in S : \A a \in S : ~(place[a] < place[b])
    <3> HIDE DEF place
    <3> QED
      BY <1>3, <2>1, LeastRank
  <2>3. \A a \in S : ~Precedes(a, b)
    BY <1>1, <1>3, <2>2 DEF SerialOrder, Conflicts
  <2> QED
    BY <2>3
<1>4. ASSUME NEW a \in committed, NEW b \in committed, Precedes(a, b)
      PROVE  a.ts.epoch <= b.ts.epoch
  <2>1. rank[a.name] < rank[b.name]
    BY <1>1, <1>4 DEF SerialOrder, Conflicts
  <2>2. PICK y, z : /\ y = [name |-> a.name, epoch |-> a.ts.epoch]
                    /\ z = [name |-> b.name, epoch |-> b.ts.epoch]
    OBVIOUS
  <2>3. y \in Stamped /\ z \in Stamped
    BY <2>2 DEF Stamped
  <2> QED
    BY <1>1, <2>1, <2>2, <2>3 DEF SerialOrder, InOrder
<1> QED
  BY <1>3, <1>4 DEF Serializable, EpochsInSerialOrder

(***************************************************************************)
(* What the timestamps of the history say of two transactions of which     *)
(* one reads from or overwrites the other.                                 *)
(***************************************************************************)
LEMMA StampsSay ==
  ASSUME LockInv, StampInv, EpochsInSerialOrder, NoWrap
  PROVE  DependenciesInTsOrder
<1>1. ASSUME NEW a \in committed, NEW b \in committed, a # b,
             ReadsFrom(a, b) \/ Overwrites(a, b)
      PROVE  TsLess(a.ts, b.ts)
  <2>1. a.ts.epoch <= b.ts.epoch
    BY <1>1 DEF EpochsInSerialOrder, Precedes
  <2>2. a.ts.low < b.ts.low
    BY <1>1 DEF StampInv, DrawnInOrder, Depends
  <2>3. a.ts \in Timestamp /\ b.ts \in Timestamp
    BY DEF LockInv, TypeOK
  <2> QED
    BY <2>1, <2>2, <2>3 DEF TsLess, Timestamp
<1> QED
  BY <1>1 DEF DependenciesInTsOrder

(***************************************************************************)
(* The invariants hold in every reachable state.                           *)
(***************************************************************************)
LEMMA Invariants == Spec => [](LockInv /\ HistInv /\ StampInv /\ SerialInv)
<1> DEFINE Inv == LockInv /\ HistInv /\ StampInv /\ SerialInv
<1>1. Init => Inv
  BY InitLock, InitHist, InitStamp, InitSerial
<1>2. Inv /\ [Next]_vars => Inv'
  BY NextLock, NextHist, NextStamp, NextSerial
<1> QED
  BY <1>1, <1>2, PTL DEF Spec

(***************************************************************************)
(* The variables of Silo keep their types.                                 *)
(***************************************************************************)
THEOREM TypeCorrect == Spec => []TypeOK
<1>1. LockInv => TypeOK
  BY DEF LockInv
<1> QED
  BY <1>1, Invariants, PTL

(***************************************************************************)
(* As long as the 32-bit counter has not wrapped, some serial order        *)
(* explains all the committed transactions, for any number of threads,     *)
(* records, columns and transactions, and for all the access types.        *)
(***************************************************************************)
THEOREM Serializes == Spec => [](NoWrap => Serializable)
<1>1. LockInv /\ SerialInv => (NoWrap => Serializable)
  BY OrderSays
<1> QED
  BY <1>1, Invariants, PTL

(***************************************************************************)
(* And the epochs of committed transactions never contradict that order.   *)
(***************************************************************************)
THEOREM EpochsOrdered == Spec => [](NoWrap => EpochsInSerialOrder)
<1>1. LockInv /\ SerialInv => (NoWrap => EpochsInSerialOrder)
  BY OrderSays
<1> QED
  BY <1>1, Invariants, PTL

(***************************************************************************)
(* And commit timestamps order a transaction after the ones it has read    *)
(* from or overwritten.                                                    *)
(***************************************************************************)
THEOREM DependenciesOrdered == Spec => [](NoWrap => DependenciesInTsOrder)
<1>1. LockInv /\ StampInv /\ SerialInv => (NoWrap => DependenciesInTsOrder)
  BY OrderSays, StampsSay
<1> QED
  BY <1>1, Invariants, PTL
=============================================================================
