----------------------------- MODULE OccProofs -----------------------------
(***************************************************************************)
(* What Occ guarantees for every number of threads, records and columns    *)
(* and for every length of the batches.                                    *)
(***************************************************************************)
EXTENDS Occ, FiniteSetTheorems, TLAPS

-----------------------------------------------------------------------------
(***************************************************************************)
(* The inductive invariant behind TypeOK and LockAgreement.  LockAgreement *)
(* alone is not inductive: a SelectRecordCC that turned a locked entry     *)
(* into one of another type would break it, so it takes that locks are     *)
(* held inside CommitTransaction only.                                     *)
(***************************************************************************)
Outside(t) == pc[t] \in {"idle", "exec", "done"}

HeldInCommit ==
  \A t \in Thread :
    /\ Outside(t) => held[t] = {}
    /\ held[t] \subseteq Accessed(t)
    /\ pc[t] \in {"epoch", "timestamp", "install"} => held[t] = Accessed(t)

LocalReady ==
  \A t \in Thread : ~Outside(t) => \A r \in Updates(t) : local[t][r] \in Value

BatchLeft == \A t \in Thread : pc[t] # "done" => left[t] # 0

LockInv ==
  TypeOK /\ HeldInCommit /\ LocalReady /\ BatchLeft /\ LockAgreement

-----------------------------------------------------------------------------
(***************************************************************************)
(* Type correctness.                                                       *)
(***************************************************************************)

(***************************************************************************)
(* A timestamp that GenerateMonotoneTimestamp builds has two natural       *)
(* halves.                                                                 *)
(***************************************************************************)
LEMMA TimestampType ==
  ASSUME NEW e \in Nat, NEW m \in Nat
  PROVE  GenerateMonotoneTimestamp(e, m) \in Timestamp
<1>1. m % TsSpan \in Nat
  BY OccConstants DEF OccConstants
<1> QED
  BY <1>1 DEF GenerateMonotoneTimestamp, Timestamp

(***************************************************************************)
(* The lock operations keep a lock in its type; reader_count_ does not     *)
(* underflow when there is a reader to release.                            *)
(***************************************************************************)
LEMMA LockOperations ==
  ASSUME NEW l \in LockType
  PROVE  /\ ReadLocked(l) \in LockType
         /\ WriteLocked(l) \in LockType
         /\ WriteReleased(l) \in LockType
         /\ l.readers # 0 => ReadReleased(l) \in LockType
BY DEF LockType, ReadLocked, WriteLocked, ReadReleased, WriteReleased

(***************************************************************************)
(* The initial state is well typed.                                        *)
(***************************************************************************)
LEMMA InitType == Init => TypeOK
<1> SUFFICES ASSUME Init PROVE TypeOK
  OBVIOUS
<1> USE OccConstants DEF OccConstants, Init
<1>1. visible \in [Record -> BOOLEAN]
  OBVIOUS
<1>2. ZeroTs \in Timestamp
  BY DEF ZeroTs, Timestamp
<1>3. lock \in [Record -> LockType]
  BY DEF NoLock, LockType
<1>4. /\ word \in [Record -> [Column -> Value]]
      /\ seen \in [Thread -> [Record -> [Column -> Value \cup {Unread}]]]
      /\ local \in [Thread -> [Record -> Value \cup {NoLocal}]]
      /\ access \in [Thread -> [Record -> AnyAccess \cup {NoAccess}]]
  OBVIOUS
<1>5. /\ ts \in [Record -> Timestamp]
      /\ accessTs \in [Thread -> [Record -> Timestamp]]
      /\ commitTs \in [Thread -> Timestamp]
      /\ readTs \in [Record -> Timestamp]
  BY <1>2
<1> QED
  BY <1>1, <1>3, <1>4, <1>5 DEF TypeOK

(***************************************************************************)
(* A thread that holds a read lock has been counted.                       *)
(***************************************************************************)
LEMMA ReaderCounted ==
  ASSUME TypeOK, LockAgreement, NEW t \in Thread, NEW r \in Record,
         r \in held[t], access[t][r] = "READ_ONLY"
  PROVE  lock[r].readers \in Nat \ {0}
<1>1. IsFiniteSet(ReadHolders(r))
  BY OccConstants, FS_Subset DEF OccConstants, ReadHolders
<1>2. ReadHolders(r) # {}
  BY DEF ReadHolders
<1>3. Cardinality(ReadHolders(r)) \in Nat \ {0}
  BY <1>1, <1>2, FS_EmptySet, FS_CardinalityType
<1> QED
  BY <1>3 DEF LockAgreement, LockAgreementOf

(***************************************************************************)
(* Every step keeps the variables in their types.                          *)
(***************************************************************************)
LEMMA NextType == LockInv /\ [Next]_vars => TypeOK'
<1> SUFFICES ASSUME LockInv, [Next]_vars PROVE TypeOK'
  OBVIOUS
<1>0. TypeOK /\ LocalReady /\ BatchLeft /\ LockAgreement
  BY DEF LockInv
<1> USE <1>0, OccConstants DEF OccConstants, TypeOK, NoAccess, NoLocal
<1>1. ASSUME NEW t \in Thread, Execute(t) PROVE TypeOK'
  BY <1>1 DEF Execute, shared, txn
<1>2. ASSUME NEW t \in Thread, NEW r \in Record,
             NEW type \in AccessType, SelectRecordCC(t, r, type)
      PROVE  TypeOK'
  BY <1>2 DEF SelectRecordCC, shared
<1>3. ASSUME NEW t \in Thread, NEW r \in Record, InsertRecord(t, r)
      PROVE  TypeOK'
  BY <1>3 DEF InsertRecord, shared, ZeroTs, Timestamp, AnyAccess
<1>4. ASSUME NEW t \in Thread, NEW r \in Record, NEW c \in Column,
             ReadColumn(t, r, c)
      PROVE  TypeOK'
  <2>1. word[r][c] \in Value
    OBVIOUS
  <2> DEFINE copy == [seen[t][r] EXCEPT ![c] = word[r][c]]
             row  == [seen[t] EXCEPT ![r] = copy]
  <2>2. copy \in [Column -> Value \cup {Unread}]
    BY <2>1
  <2>3. row \in [Record -> [Column -> Value \cup {Unread}]]
    BY <2>2
  <2>4. seen' = [seen EXCEPT ![t] = row]
    BY <1>4 DEF ReadColumn
  <2>5. seen' \in [Thread -> [Record -> [Column -> Value \cup {Unread}]]]
    BY <2>3, <2>4
  <2> QED
    BY <1>4, <2>5 DEF ReadColumn, shared
<1>5. ASSUME NEW t \in Thread, CommitTransaction(t) PROVE TypeOK'
  BY <1>5 DEF CommitTransaction, shared
<1>6. ASSUME NEW t \in Thread, AcquireLock(t) PROVE TypeOK'
  <2>1. PICK r \in Record :
          /\ lock' \in {[lock EXCEPT ![r] = ReadLocked(lock[r])],
                       [lock EXCEPT ![r] = WriteLocked(lock[r])]}
          /\ held' = [held EXCEPT ![t] = @ \cup {r}]
    BY <1>6 DEF AcquireLock
  <2>2. /\ ReadLocked(lock[r]) \in LockType
        /\ WriteLocked(lock[r]) \in LockType
    BY LockOperations
  <2>3. lock' \in [Record -> LockType]
    BY <2>1, <2>2
  <2>4. held' \in [Thread -> SUBSET Record]
    BY <2>1
  <2> QED
    BY <1>6, <2>3, <2>4 DEF AcquireLock
<1>7. ASSUME NEW t \in Thread, Validate(t) PROVE TypeOK'
  BY <1>7 DEF Validate, shared, txn
<1>8. ASSUME NEW t \in Thread, GetEpoch(t) PROVE TypeOK'
  BY <1>8 DEF GetEpoch, shared
<1>9. ASSUME NEW t \in Thread, GetMonotoneTimestamp(t) PROVE TypeOK'
  BY <1>9, TimestampType DEF GetMonotoneTimestamp
<1>10. ASSUME NEW t \in Thread, NEW r \in Record, NEW c \in Column,
              CopyFrom(t, r, c)
       PROVE  TypeOK'
  <2>1. local[t][r] \in Value
    BY <1>10 DEF CopyFrom, LocalReady, Outside, Updates
  <2>2. word' \in [Record -> [Column -> Value]]
    BY <1>10, <2>1 DEF CopyFrom
  <2> QED
    BY <1>10, <2>2 DEF CopyFrom
<1>11. ASSUME NEW t \in Thread, NEW r \in Record, SetVisible(t, r)
       PROVE  TypeOK'
  BY <1>11 DEF SetVisible
<1>12. ASSUME NEW t \in Thread, NEW r \in Record, SetTimestamp(t, r)
       PROVE  TypeOK'
  BY <1>12 DEF SetTimestamp
<1>13. ASSUME NEW t \in Thread, EndInstall(t) PROVE TypeOK'
  BY <1>13 DEF EndInstall, shared, txn
<1>14. ASSUME NEW t \in Thread, ReleaseLock(t) PROVE TypeOK'
  <2>1. PICK r \in Record :
          /\ r \in held[t]
          /\ lock' = [lock EXCEPT ![r] = IF access[t][r] = "READ_ONLY"
                                        THEN ReadReleased(@) ELSE WriteReleased(@)]
          /\ held' = [held EXCEPT ![t] = @ \ {r}]
    BY <1>14 DEF ReleaseLock, NextToRelease, IsFirst
  <2>2. ASSUME access[t][r] = "READ_ONLY" PROVE ReadReleased(lock[r]) \in LockType
    <3>1. lock[r].readers \in Nat \ {0}
      BY <2>1, <2>2, ReaderCounted
    <3> QED
      BY <2>1, <3>1, LockOperations
  <2>3. WriteReleased(lock[r]) \in LockType
    BY <2>1, LockOperations
  <2>4. lock' \in [Record -> LockType]
    BY <2>1, <2>2, <2>3
  <2>5. held' \in [Thread -> SUBSET Record]
    BY <2>1
  <2> QED
    BY <1>14, <2>4, <2>5 DEF ReleaseLock
<1>15. ASSUME NEW t \in Thread, ReturnCommitted(t) PROVE TypeOK'
  <2>1. left[t] - 1 \in Nat
    <3>1. pc[t] # "done"
      BY <1>15 DEF ReturnCommitted
    <3>2. left[t] \in Nat \ {0}
      BY <3>1 DEF BatchLeft
    <3> QED
      BY <3>2
  <2> QED
    BY <1>15, <2>1 DEF ReturnCommitted, ClearAccess, ZeroTs, Timestamp
<1>16. ASSUME NEW t \in Thread, ReturnAborted(t) PROVE TypeOK'
  BY <1>16 DEF ReturnAborted, ClearAccess, shared, ZeroTs, Timestamp
<1>17. CASE AdvanceEpoch
  BY <1>17 DEF AdvanceEpoch, txn
<1>18. CASE UNCHANGED vars
  BY <1>18 DEF vars, shared, txn
<1> QED
  BY <1>1, <1>2, <1>3, <1>4, <1>5, <1>6, <1>7, <1>8, <1>9, <1>10, <1>11,
     <1>12, <1>13, <1>14, <1>15, <1>16, <1>17, <1>18
     DEF Next, Step, Select, Install, Joined

-----------------------------------------------------------------------------
(***************************************************************************)
(* Locking.                                                                *)
(***************************************************************************)

(***************************************************************************)
(* A step that leaves the locks, and the entries of locked records, alone. *)
(***************************************************************************)
LEMMA LockFrame ==
  ASSUME LockAgreement, lock' = lock, held' = held,
         \A t \in Thread : \A r \in held[t] : access'[t][r] = access[t][r]
  PROVE  LockAgreement'
<1>1. ASSUME NEW r \in Record
      PROVE  /\ ReadHolders(r)' = ReadHolders(r)
             /\ WriteHolders(r)' = WriteHolders(r)
  BY DEF ReadHolders, WriteHolders
<1> QED
  BY <1>1 DEF LockAgreement, LockAgreementOf

(***************************************************************************)
(* Taking the lock of r for thread t.                                      *)
(***************************************************************************)
LEMMA LockTaken ==
  ASSUME LockInv, NEW t \in Thread, NEW r \in Record, r \notin held[t],
         held' = [held EXCEPT ![t] = @ \cup {r}], access' = access,
         IF access[t][r] = "READ_ONLY"
         THEN /\ CanReadLock(lock[r])
              /\ lock' = [lock EXCEPT ![r] = ReadLocked(lock[r])]
         ELSE /\ CanWriteLock(lock[r])
              /\ lock' = [lock EXCEPT ![r] = WriteLocked(lock[r])]
  PROVE  LockAgreement'
<1> USE DEF LockInv
<1>1. lock \in [Record -> LockType] /\ held \in [Thread -> SUBSET Record]
  BY DEF TypeOK
<1>2. ASSUME NEW q \in Record, q # r
      PROVE  /\ ReadHolders(q)' = ReadHolders(q)
             /\ WriteHolders(q)' = WriteHolders(q)
             /\ lock'[q] = lock[q]
  BY <1>1, <1>2 DEF ReadHolders, WriteHolders
<1>2a. ASSUME NEW q \in Record, q # r PROVE LockAgreementOf(q)'
  BY <1>2, <1>2a DEF LockAgreement, LockAgreementOf
<1>3. IsFiniteSet(ReadHolders(r)) /\ t \notin ReadHolders(r)
  BY OccConstants, FS_Subset DEF OccConstants, ReadHolders
<1>4. lock[r] \in LockType
  BY <1>1
<1>5. CASE access[t][r] = "READ_ONLY"
  <2>1. ReadHolders(r)' = ReadHolders(r) \cup {t}
    BY <1>1, <1>5 DEF ReadHolders
  <2>2. WriteHolders(r)' = WriteHolders(r)
    BY <1>1, <1>5 DEF WriteHolders
  <2>3. Cardinality(ReadHolders(r)') = Cardinality(ReadHolders(r)) + 1
    BY <1>3, <2>1, FS_AddElement
  <2>4. lock'[r].type = "READ_LOCK" /\ lock'[r].readers = lock[r].readers + 1
    BY <1>1, <1>5 DEF ReadLocked
  <2>5. WriteHolders(r) = {} /\ lock[r].readers = Cardinality(ReadHolders(r))
    BY <1>5 DEF CanReadLock, LockAgreement, LockAgreementOf
  <2>6. LockAgreementOf(r)'
    BY <2>1, <2>2, <2>3, <2>4, <2>5 DEF LockAgreementOf
  <2> QED
    BY <1>2a, <2>6 DEF LockAgreement
<1>6. CASE access[t][r] # "READ_ONLY"
  <2>1. ReadHolders(r)' = ReadHolders(r)
    BY <1>1, <1>6 DEF ReadHolders
  <2>2. WriteHolders(r)' = WriteHolders(r) \cup {t}
    BY <1>1, <1>6 DEF WriteHolders
  <2>3. lock'[r].type = "WRITE_LOCK" /\ lock'[r].readers = lock[r].readers
    BY <1>1, <1>4, <1>6 DEF WriteLocked, LockType
  <2>4. WriteHolders(r) = {} /\ ReadHolders(r) = {}
    BY <1>6 DEF CanWriteLock, LockAgreement, LockAgreementOf
  <2>5. lock[r].readers = Cardinality(ReadHolders(r))
    BY DEF LockAgreement, LockAgreementOf
  <2>6. LockAgreementOf(r)'
    BY <2>1, <2>2, <2>3, <2>4, <2>5 DEF LockAgreementOf
  <2> QED
    BY <1>2a, <2>6 DEF LockAgreement
<1> QED
  BY <1>5, <1>6

(***************************************************************************)
(* Giving the lock of r back.                                              *)
(***************************************************************************)
LEMMA LockGivenBack ==
  ASSUME LockInv, NEW t \in Thread, NEW r \in Record, r \in held[t],
         held' = [held EXCEPT ![t] = @ \ {r}], access' = access,
         lock' = [lock EXCEPT ![r] = IF access[t][r] = "READ_ONLY"
                                     THEN ReadReleased(@) ELSE WriteReleased(@)]
  PROVE  LockAgreement'
<1> USE DEF LockInv
<1>1. lock \in [Record -> LockType] /\ held \in [Thread -> SUBSET Record]
  BY DEF TypeOK
<1>2. ASSUME NEW q \in Record, q # r
      PROVE  /\ ReadHolders(q)' = ReadHolders(q)
             /\ WriteHolders(q)' = WriteHolders(q)
             /\ lock'[q] = lock[q]
  BY <1>1, <1>2 DEF ReadHolders, WriteHolders
<1>2a. ASSUME NEW q \in Record, q # r PROVE LockAgreementOf(q)'
  BY <1>2, <1>2a DEF LockAgreement, LockAgreementOf
<1>3. IsFiniteSet(ReadHolders(r))
  BY OccConstants, FS_Subset DEF OccConstants, ReadHolders
<1>4. lock[r] \in LockType
  BY <1>1
<1>5. CASE access[t][r] = "READ_ONLY"
  <2>1. ReadHolders(r)' = ReadHolders(r) \ {t} /\ t \in ReadHolders(r)
    BY <1>1, <1>5 DEF ReadHolders
  <2>2. WriteHolders(r)' = WriteHolders(r)
    BY <1>1, <1>5 DEF WriteHolders
  <2>3. /\ Cardinality(ReadHolders(r)') = Cardinality(ReadHolders(r)) - 1
        /\ IsFiniteSet(ReadHolders(r)')
    BY <1>3, <2>1, FS_RemoveElement
  <2>4. lock[r].type = "READ_LOCK" /\ WriteHolders(r) = {}
    BY <2>1 DEF LockAgreement, LockAgreementOf
  <2>5. lock'[r] = ReadReleased(lock[r])
    BY <1>1, <1>5
  <2>6. /\ lock[r].readers = Cardinality(ReadHolders(r))
        /\ lock'[r].readers = lock[r].readers - 1
        /\ lock'[r].type = IF lock[r].readers = 1 THEN "NO_LOCK" ELSE "READ_LOCK"
    BY <2>4, <2>5 DEF ReadReleased, LockAgreement, LockAgreementOf
  <2>7. ReadHolders(r)' = {} <=> lock[r].readers = 1
    BY <1>3, <1>4, <2>3, <2>6, FS_EmptySet, FS_CardinalityType DEF LockType
  <2>8. LockAgreementOf(r)'
    BY <2>2, <2>3, <2>4, <2>6, <2>7 DEF LockAgreementOf
  <2> QED
    BY <1>2a, <2>8 DEF LockAgreement
<1>6. CASE access[t][r] # "READ_ONLY"
  <2>1. ReadHolders(r)' = ReadHolders(r)
    BY <1>1, <1>6 DEF ReadHolders
  <2>2. WriteHolders(r)' = WriteHolders(r) \ {t} /\ t \in WriteHolders(r)
    BY <1>1, <1>6 DEF WriteHolders
  <2>3. WriteHolders(r)' = {} /\ ReadHolders(r) = {}
    BY <2>2 DEF LockAgreement, LockAgreementOf
  <2>4. lock'[r].type = "NO_LOCK" /\ lock'[r].readers = lock[r].readers
    BY <1>1, <1>4, <1>6 DEF WriteReleased, LockType
  <2>5. lock[r].readers = Cardinality(ReadHolders(r))
    BY DEF LockAgreement, LockAgreementOf
  <2>6. LockAgreementOf(r)'
    BY <2>1, <2>3, <2>4, <2>5 DEF LockAgreementOf
  <2> QED
    BY <1>2a, <2>6 DEF LockAgreement
<1> QED
  BY <1>5, <1>6

(***************************************************************************)
(* The initial state satisfies the invariant: no lock is held.             *)
(***************************************************************************)
LEMMA InitLock == Init => LockInv
<1> SUFFICES ASSUME Init PROVE LockInv
  OBVIOUS
<1>1. TypeOK
  BY InitType
<1>2. HeldInCommit /\ LocalReady /\ BatchLeft
  BY OccConstants
     DEF OccConstants, Init, HeldInCommit, LocalReady, BatchLeft, Outside
<1>3. ASSUME NEW r \in Record PROVE LockAgreementOf(r)
  <2>1. ReadHolders(r) = {} /\ WriteHolders(r) = {}
    BY DEF Init, ReadHolders, WriteHolders
  <2> QED
    BY <2>1, FS_EmptySet DEF Init, NoLock, LockAgreementOf
<1> QED
  BY <1>1, <1>2, <1>3 DEF LockInv, LockAgreement

(***************************************************************************)
(* Every step preserves where locks are held, the readiness of the local   *)
(* copies and the batch counters.                                          *)
(***************************************************************************)
LEMMA NextCommitPhase ==
  LockInv /\ [Next]_vars => HeldInCommit' /\ LocalReady' /\ BatchLeft'
<1> SUFFICES ASSUME LockInv, [Next]_vars
             PROVE  HeldInCommit' /\ LocalReady' /\ BatchLeft'
  OBVIOUS
<1> USE DEF LockInv, HeldInCommit, LocalReady, BatchLeft, Outside
<1>1. ASSUME NEW t \in Thread, Execute(t)
      PROVE  HeldInCommit' /\ LocalReady' /\ BatchLeft'
  BY <1>1 DEF TypeOK, Execute, shared, txn, Accessed, Updates
<1>2. ASSUME NEW t \in Thread, NEW r \in Record,
             NEW type \in AccessType, SelectRecordCC(t, r, type)
      PROVE  HeldInCommit' /\ LocalReady' /\ BatchLeft'
  BY <1>2 DEF TypeOK, SelectRecordCC, Accessed, Updates
<1>3. ASSUME NEW t \in Thread, NEW r \in Record, InsertRecord(t, r)
      PROVE  HeldInCommit' /\ LocalReady' /\ BatchLeft'
  BY <1>3 DEF TypeOK, InsertRecord, Accessed, Updates
<1>4. ASSUME NEW t \in Thread, NEW r \in Record, NEW c \in Column,
             ReadColumn(t, r, c)
      PROVE  HeldInCommit' /\ LocalReady' /\ BatchLeft'
  BY <1>4 DEF TypeOK, ReadColumn, Accessed, Updates
<1>5. ASSUME NEW t \in Thread, CommitTransaction(t)
      PROVE  HeldInCommit' /\ LocalReady' /\ BatchLeft'
  BY <1>5 DEF TypeOK, CommitTransaction, Accessed, Updates
<1>6. ASSUME NEW t \in Thread, AcquireLock(t)
      PROVE  HeldInCommit' /\ LocalReady' /\ BatchLeft'
  BY <1>6 DEF TypeOK, AcquireLock, NextToLock, IsFirst, Accessed, Updates
<1>7. ASSUME NEW t \in Thread, Validate(t)
      PROVE  HeldInCommit' /\ LocalReady' /\ BatchLeft'
  BY <1>7 DEF TypeOK, Validate, shared, txn, Accessed, Updates
<1>8. ASSUME NEW t \in Thread, GetEpoch(t)
      PROVE  HeldInCommit' /\ LocalReady' /\ BatchLeft'
  BY <1>8 DEF TypeOK, GetEpoch, Accessed, Updates
<1>9. ASSUME NEW t \in Thread, GetMonotoneTimestamp(t)
      PROVE  HeldInCommit' /\ LocalReady' /\ BatchLeft'
  BY <1>9 DEF TypeOK, GetMonotoneTimestamp, Accessed, Updates
<1>10. ASSUME NEW t \in Thread, Install(t)
       PROVE  HeldInCommit' /\ LocalReady' /\ BatchLeft'
  <2>1. /\ pc' = pc \/ (pc[t] = "install" /\ pc' = [pc EXCEPT ![t] = "release"])
        /\ access' = access /\ held' = held /\ local' = local /\ left' = left
    BY <1>10 DEF Install, CopyFrom, SetVisible, SetTimestamp, EndInstall,
                 shared, txn
  <2>2. HeldInCommit'
    BY <2>1 DEF TypeOK, Accessed
  <2>3. LocalReady'
    BY <2>1 DEF TypeOK, Accessed, Updates
  <2>4. BatchLeft'
    BY <2>1 DEF TypeOK
  <2> QED
    BY <2>2, <2>3, <2>4
<1>11. ASSUME NEW t \in Thread, ReleaseLock(t)
       PROVE  HeldInCommit' /\ LocalReady' /\ BatchLeft'
  BY <1>11 DEF TypeOK, ReleaseLock, NextToRelease, IsFirst, Accessed, Updates
<1>12. ASSUME NEW t \in Thread, ReturnCommitted(t)
       PROVE  HeldInCommit' /\ LocalReady' /\ BatchLeft'
  BY <1>12 DEF TypeOK, ReturnCommitted, ClearAccess, Accessed, Updates
<1>13. ASSUME NEW t \in Thread, ReturnAborted(t)
       PROVE  HeldInCommit' /\ LocalReady' /\ BatchLeft'
  BY <1>13 DEF TypeOK, ReturnAborted, ClearAccess, shared, Accessed, Updates
<1>14. CASE AdvanceEpoch \/ UNCHANGED vars
  BY <1>14 DEF AdvanceEpoch, vars, shared, txn, Accessed, Updates
<1> QED
  BY <1>1, <1>2, <1>3, <1>4, <1>5, <1>6, <1>7, <1>8, <1>9, <1>10, <1>11,
     <1>12, <1>13, <1>14 DEF Next, Step, Select, Joined

(***************************************************************************)
(* Every step preserves the agreement of locks and holders.                *)
(***************************************************************************)
LEMMA NextLock == LockInv /\ [Next]_vars => LockAgreement'
<1> SUFFICES ASSUME LockInv, [Next]_vars PROVE LockAgreement'
  OBVIOUS
<1>0. LockAgreement
  BY DEF LockInv
<1>1. ASSUME NEW t \in Thread, Execute(t) \/ CommitTransaction(t) \/ Validate(t)
                              \/ GetEpoch(t) \/ GetMonotoneTimestamp(t)
                              \/ Install(t)
      PROVE  LockAgreement'
  <2>1. lock' = lock /\ held' = held /\ access' = access
    BY <1>1 DEF Execute, CommitTransaction, Validate, GetEpoch,
                GetMonotoneTimestamp, Install, CopyFrom, SetVisible,
                SetTimestamp, EndInstall, shared, txn
  <2> QED
    BY <1>0, <2>1, LockFrame
<1>2. ASSUME NEW t \in Thread, Select(t) PROVE LockAgreement'
  <2>1. held[t] = {}
    BY <1>2 DEF Select, SelectRecordCC, InsertRecord, ReadColumn, LockInv,
                HeldInCommit, Outside
  <2>2. /\ lock' = lock /\ held' = held
        /\ \A u \in Thread : u # t => access'[u] = access[u]
    BY <1>2 DEF Select, SelectRecordCC, InsertRecord, ReadColumn, shared,
                LockInv, TypeOK
  <2> QED
    BY <1>0, <2>1, <2>2, LockFrame
<1>3. ASSUME NEW t \in Thread, AcquireLock(t) PROVE LockAgreement'
  BY <1>3, LockTaken DEF AcquireLock, NextToLock, IsFirst
<1>4. ASSUME NEW t \in Thread, ReleaseLock(t) PROVE LockAgreement'
  BY <1>4, LockGivenBack DEF ReleaseLock, NextToRelease, IsFirst
<1>5. ASSUME NEW t \in Thread, ReturnCommitted(t) \/ ReturnAborted(t)
      PROVE  LockAgreement'
  <2>1. held[t] = {} /\ lock' = lock /\ held' = held
    BY <1>5 DEF ReturnCommitted, ReturnAborted, ClearAccess, shared
  <2>2. \A u \in Thread : u # t => access'[u] = access[u]
    BY <1>5 DEF ReturnCommitted, ReturnAborted, ClearAccess, LockInv, TypeOK
  <2> QED
    BY <1>0, <2>1, <2>2, LockFrame
<1>6. CASE AdvanceEpoch \/ UNCHANGED vars
  <2>1. lock' = lock /\ held' = held /\ access' = access
    BY <1>6 DEF AdvanceEpoch, vars, shared, txn
  <2> QED
    BY <1>0, <2>1, LockFrame
<1> QED
  BY <1>1, <1>2, <1>3, <1>4, <1>5, <1>6 DEF Next, Step, Joined

(***************************************************************************)
(* The inductive invariant holds in every reachable state.                 *)
(***************************************************************************)
LEMMA LockInvariant == Spec => []LockInv
<1>1. LockInv /\ [Next]_vars => LockInv'
  BY NextType, NextCommitPhase, NextLock DEF LockInv
<1> QED
  BY InitLock, <1>1, PTL DEF Spec

(***************************************************************************)
(* Every variable always has its type; in particular reader_count_ never   *)
(* underflows and no column ever receives anything but a value.            *)
(***************************************************************************)
THEOREM TypeCorrect == Spec => []TypeOK
<1>1. LockInv => TypeOK
  BY DEF LockInv
<1> QED
  BY LockInvariant, <1>1, PTL

(***************************************************************************)
(* The lock of every record agrees with the threads that hold it, so       *)
(* installing threads exclude each other and all readers, and no path of   *)
(* CommitTransaction, committing or failing, leaks or doubles a release.   *)
(***************************************************************************)
THEOREM LocksAgree == Spec => []LockAgreement
<1>1. LockInv => LockAgreement
  BY DEF LockInv
<1> QED
  BY LockInvariant, <1>1, PTL
-----------------------------------------------------------------------------
(***************************************************************************)
(* Why validating timestamps is enough: in Occ an equal timestamp means an *)
(* unchanged record, so all that a transaction has read without locks is   *)
(* the present content of its records when it commits.                     *)
(*                                                                         *)
(* Everything here rests on the low 32 bits of the commit timestamp not    *)
(* having wrapped around.                                                  *)
(***************************************************************************)

NoWrap == monotone <= TsSpan

TsLeq(a, b) == a = b \/ TsLess(a, b)

Issued(a) == a.epoch <= epoch /\ a.low < monotone

(***************************************************************************)
(* Timestamps: those of records and of entries have been issued, an entry  *)
(* is no newer than its record, and a committing thread, which has locked  *)
(* its records before it reads the epoch, is going to exceed theirs.       *)
(***************************************************************************)
TsOrder ==
  /\ \A r \in Record : Issued(ts[r])
  /\ \A t \in Thread, r \in Record : TsLeq(accessTs[t][r], ts[r])
  /\ \A t \in Thread : pc[t] = "timestamp" =>
       /\ currEpoch[t] <= epoch
       /\ \A r \in held[t] : ts[r].epoch <= currEpoch[t]
  /\ \A t \in Thread : pc[t] = "install" =>
       /\ Issued(commitTs[t])
       /\ \A r \in Writes(t) \ installed[t] : TsLess(ts[r], commitTs[t])

(***************************************************************************)
(* The loop of step 1 has locked a prefix of the sorted list and validated *)
(* all of it but perhaps the record locked last.                           *)
(***************************************************************************)
Prefix ==
  \A t \in Thread : pc[t] \in {"lock", "validate"} =>
    \A q \in held[t], r \in Accessed(t) \ held[t] : q < r

Validated ==
  \A t \in Thread : \A r \in held[t] \cap Reads(t) :
    pc[t] \in {"lock", "epoch", "timestamp"} => ts[r] = accessTs[t][r]

ValidatedButLast ==
  \A t \in Thread : \A r \in held[t] \cap Reads(t) :
    pc[t] = "validate" => IsLast(r, held[t]) \/ ts[r] = accessTs[t][r]

(***************************************************************************)
(* A record is dirty while its content has been stored and its timestamp   *)
(* has not.  What a thread has seen of a record that is not dirty and has  *)
(* the timestamp of the thread's entry is what the record holds.           *)
(***************************************************************************)
Dirty(r) ==
  \E u \in Thread : pc[u] = "install" /\ NextToInstall(u, r) /\ stored[u] # {}

SeenOnlyReads ==
  \A t \in Thread, r \in Record, c \in Column :
    r \notin Reads(t) => seen[t][r][c] = Unread

SeenCurrent ==
  \A t \in Thread, r \in Record, c \in Column :
    r \in Reads(t) /\ accessTs[t][r] = ts[r] /\ ~Dirty(r)
      => seen[t][r][c] \in {Unread, word[r][c]}

SnapshotInv ==
  NoWrap => /\ TsOrder /\ Prefix /\ Validated /\ ValidatedButLast
            /\ SeenOnlyReads /\ SeenCurrent

-----------------------------------------------------------------------------
(***************************************************************************)
(* Facts about one state.                                                  *)
(***************************************************************************)

(***************************************************************************)
(* Nobody else holds a lock on a record that a thread has write-locked.    *)
(***************************************************************************)
LEMMA WriterAlone ==
  ASSUME LockInv, NEW t \in Thread, NEW u \in Thread, NEW r \in Record,
         r \in held[u], access[u][r] # "READ_ONLY", r \in held[t]
  PROVE  t = u
<1>1. u \in WriteHolders(r) /\ t \in ReadHolders(r) \cup WriteHolders(r)
  BY DEF ReadHolders, WriteHolders
<1>2. LockAgreementOf(r)
  BY DEF LockInv, LockAgreement
<1> QED
  BY <1>1, <1>2 DEF LockAgreementOf

(***************************************************************************)
(* A thread installs one record at a time, one that it has write-locked.   *)
(***************************************************************************)
LEMMA InstallsHeld ==
  ASSUME LockInv, NEW u \in Thread, pc[u] = "install",
         NEW r \in Record, NextToInstall(u, r)
  PROVE  /\ r \in held[u] /\ access[u][r] # "READ_ONLY"
         /\ r \in Writes(u) \ installed[u]
         /\ \A q \in Record : NextToInstall(u, q) => q = r
<1>1. r \in Writes(u) \ installed[u] /\ Writes(u) \subseteq Record
  BY DEF NextToInstall, IsFirst, Writes, Accessed
<1>2. held[u] = Accessed(u)
  BY DEF LockInv, HeldInCommit
<1>3. ASSUME NEW q \in Record, NextToInstall(u, q) PROVE q = r
  <2>1. q \in Nat /\ r \in Nat
    BY OccConstants DEF OccConstants
  <2>2. q <= r /\ r <= q
    BY <1>1, <1>3 DEF NextToInstall, IsFirst
  <2> QED
    BY <2>1, <2>2
<1> QED
  BY <1>1, <1>2, <1>3 DEF Writes

(***************************************************************************)
(* The order of timestamps.                                                *)
(***************************************************************************)
LEMMA TsLessFacts ==
  /\ \A a \in Timestamp : TsLeq(ZeroTs, a) /\ ~TsLess(a, a) /\ TsLeq(a, a)
  /\ \A a, b, c \in Timestamp : TsLeq(a, b) /\ TsLess(b, c) => TsLess(a, c)
BY DEF Timestamp, ZeroTs, TsLeq, TsLess

-----------------------------------------------------------------------------
(***************************************************************************)
(* TsOrder is preserved.                                                   *)
(***************************************************************************)

(***************************************************************************)
(* The step is another thread's: u's part of the state does not change.    *)
(***************************************************************************)
Unmoved(u) ==
  /\ pc'[u] = pc[u] /\ held'[u] = held[u] /\ access'[u] = access[u]
  /\ accessTs'[u] = accessTs[u] /\ installed'[u] = installed[u]
  /\ currEpoch'[u] = currEpoch[u] /\ commitTs'[u] = commitTs[u]
  /\ stored'[u] = stored[u] /\ seen'[u] = seen[u]

(***************************************************************************)
(* A step of one thread leaves the state of every other thread alone.      *)
(***************************************************************************)
LEMMA OthersUnmoved ==
  ASSUME TypeOK, NEW t \in Thread, Step(t), NEW u \in Thread, u # t
  PROVE  Unmoved(u)
<1> USE DEF TypeOK, Unmoved, shared, txn
<1>1. CASE Execute(t) \/ Select(t) \/ CommitTransaction(t)
  BY <1>1 DEF Execute, Select, SelectRecordCC, InsertRecord, ReadColumn,
              CommitTransaction
<1>2. CASE AcquireLock(t) \/ Validate(t) \/ ReleaseLock(t)
  BY <1>2 DEF AcquireLock, Validate, ReleaseLock
<1>3. CASE GetEpoch(t) \/ GetMonotoneTimestamp(t)
  BY <1>3 DEF GetEpoch, GetMonotoneTimestamp
<1>4. CASE Install(t)
  BY <1>4 DEF Install, CopyFrom, SetVisible, SetTimestamp, EndInstall
<1>5. CASE ReturnCommitted(t) \/ ReturnAborted(t)
  BY <1>5 DEF ReturnCommitted, ReturnAborted, ClearAccess
<1> QED
  BY <1>1, <1>2, <1>3, <1>4, <1>5 DEF Step

(***************************************************************************)
(* A step that issues and sets no timestamp and starts no install.         *)
(***************************************************************************)
LEMMA TsOrderFrame ==
  ASSUME TsOrder, NEW t \in Thread,
         ts' = ts, epoch' = epoch, monotone' = monotone,
         \A u \in Thread : u # t => Unmoved(u),
         \A r \in Record : TsLeq(accessTs'[t][r], ts[r]),
         pc'[t] # "timestamp",
         pc'[t] = "install" => /\ pc[t] = "install" /\ access'[t] = access[t]
                               /\ commitTs'[t] = commitTs[t]
                               /\ installed'[t] = installed[t]
  PROVE  TsOrder'
BY DEF TsOrder, Issued, Writes, Accessed, Unmoved

(***************************************************************************)
(* Every step preserves TsOrder.                                           *)
(***************************************************************************)
LEMMA NextTsOrder ==
  ASSUME LockInv, LockInv', TsOrder, NoWrap', [Next]_vars
  PROVE  TsOrder'
<1>0. TypeOK /\ TypeOK'
  BY DEF LockInv
<1>1. ASSUME NEW t \in Thread,
             \/ Execute(t) \/ CommitTransaction(t) \/ Validate(t)
             \/ EndInstall(t) \/ ReleaseLock(t) \/ AcquireLock(t)
             \/ \E r \in Record, c \in Column : ReadColumn(t, r, c)
             \/ \E r \in Record, c \in Column : CopyFrom(t, r, c)
             \/ \E r \in Record : SetVisible(t, r)
      PROVE  TsOrder'
  <2>1. /\ ts' = ts /\ epoch' = epoch /\ monotone' = monotone
        /\ access' = access /\ accessTs' = accessTs /\ installed' = installed
        /\ currEpoch' = currEpoch /\ commitTs' = commitTs
        /\ pc'[t] # "timestamp"
        /\ pc'[t] = "install" => pc[t] = "install"
    BY <1>0, <1>1 DEF Execute, CommitTransaction, Validate, EndInstall,
       ReleaseLock, AcquireLock, ReadColumn, CopyFrom, SetVisible, shared, txn,
       TypeOK
  <2>2. \A u \in Thread : u # t => Unmoved(u)
    BY <1>0, <1>1, OthersUnmoved DEF Step, Select, Install
  <2> QED
    BY <2>1, <2>2, TsOrderFrame DEF TsOrder
<1>2. ASSUME NEW t \in Thread, NEW r \in Record, NEW type \in AccessType,
             SelectRecordCC(t, r, type)
      PROVE  TsOrder'
  <2>1. accessTs' = [accessTs EXCEPT ![t][r] = ts[r]]
    BY <1>2 DEF SelectRecordCC
  <2>2. \A q \in Record : TsLeq(accessTs'[t][q], ts[q])
    BY <1>0, <2>1 DEF TypeOK, TsOrder, TsLeq
  <2>3. /\ ts' = ts /\ epoch' = epoch /\ monotone' = monotone /\ held' = held
        /\ pc'[t] = "exec"
    BY <1>0, <1>2 DEF SelectRecordCC, shared, TypeOK
  <2>4. \A u \in Thread : u # t => Unmoved(u)
    BY <1>0, <1>2, OthersUnmoved DEF Step, Select
  <2> QED
    BY <2>2, <2>3, <2>4, TsOrderFrame
<1>3. ASSUME NEW t \in Thread, NEW r \in Record, InsertRecord(t, r)
      PROVE  TsOrder'
  <2>1. accessTs' = [accessTs EXCEPT ![t][r] = ZeroTs]
    BY <1>3 DEF InsertRecord
  <2>2. \A q \in Record : TsLeq(accessTs'[t][q], ts[q])
    BY <1>0, <2>1, TsLessFacts DEF TypeOK, TsOrder
  <2>3. /\ ts' = ts /\ epoch' = epoch /\ monotone' = monotone /\ held' = held
        /\ pc'[t] = "exec"
    BY <1>0, <1>3 DEF InsertRecord, shared, TypeOK
  <2>4. \A u \in Thread : u # t => Unmoved(u)
    BY <1>0, <1>3, OthersUnmoved DEF Step, Select
  <2> QED
    BY <2>2, <2>3, <2>4, TsOrderFrame
<1>4. ASSUME NEW t \in Thread, GetEpoch(t) PROVE TsOrder'
  <2>1. /\ pc'[t] = "timestamp" /\ currEpoch'[t] = epoch /\ epoch \in Nat
        /\ ts' = ts /\ epoch' = epoch /\ monotone' = monotone
        /\ access' = access /\ accessTs' = accessTs /\ held' = held
        /\ installed' = installed /\ commitTs' = commitTs
        /\ \A u \in Thread : u # t => /\ pc'[u] = pc[u]
                                      /\ currEpoch'[u] = currEpoch[u]
    BY <1>0, <1>4 DEF GetEpoch, shared, TypeOK
  <2>2. held[t] \subseteq Record
    BY <1>0 DEF TypeOK
  <2> QED
    BY <2>1, <2>2 DEF TsOrder, Issued, Writes, Accessed
<1>5. ASSUME NEW t \in Thread, GetMonotoneTimestamp(t) PROVE TsOrder'
  <2>1. /\ pc[t] = "timestamp" /\ pc'[t] = "install"
        /\ commitTs'[t] = GenerateMonotoneTimestamp(currEpoch[t], monotone)
        /\ monotone' = monotone + 1 /\ monotone \in Nat
        /\ ts' = ts /\ epoch' = epoch /\ currEpoch' = currEpoch
        /\ access' = access /\ accessTs' = accessTs /\ held' = held
        /\ installed' = installed
        /\ \A u \in Thread : u # t => /\ pc'[u] = pc[u]
                                      /\ commitTs'[u] = commitTs[u]
    BY <1>0, <1>5 DEF GetMonotoneTimestamp, TypeOK
  <2>2. monotone % TsSpan = monotone
    BY <2>1, OccConstants DEF NoWrap, OccConstants
  <2>3. commitTs'[t].epoch = currEpoch[t] /\ commitTs'[t].low = monotone
    BY <2>1, <2>2 DEF GenerateMonotoneTimestamp
  <2>4. Writes(t) \subseteq held[t]
    BY <2>1 DEF LockInv, HeldInCommit, Writes
  <2>5. ASSUME NEW r \in Writes(t) PROVE TsLess(ts[r], commitTs'[t])
    <3>1. ts[r].epoch <= currEpoch[t] /\ ts[r].low < monotone
      BY <1>0, <2>1, <2>4 DEF TsOrder, Issued, TypeOK
    <3>2. ts[r].epoch \in Nat /\ currEpoch[t] \in Nat
      BY <1>0, <2>4 DEF TypeOK, Timestamp
    <3> QED
      BY <2>3, <3>1, <3>2 DEF TsLess
  <2>6. \A a \in Timestamp : Issued(a) => Issued(a)'
    BY <2>1 DEF Issued, Timestamp
  <2>7. /\ currEpoch[t] <= epoch /\ Issued(commitTs[t])'
    BY <2>1, <2>3 DEF TsOrder, Issued
  <2>8. /\ \A r \in Record : Issued(ts[r])'
        /\ \A u \in Thread : u # t /\ pc'[u] = "install" => Issued(commitTs[u])'
    BY <1>0, <2>1, <2>6 DEF TsOrder, TypeOK, Issued
  <2> QED
    BY <2>1, <2>5, <2>7, <2>8 DEF TsOrder, Writes, Accessed
<1>6. ASSUME NEW t \in Thread, NEW r \in Record, SetTimestamp(t, r)
      PROVE  TsOrder'
  <2>1. /\ pc[t] = "install" /\ NextToInstall(t, r)
        /\ ts' = [ts EXCEPT ![r] = commitTs[t]]
        /\ installed' = [installed EXCEPT ![t] = @ \cup {r}]
        /\ pc' = pc /\ epoch' = epoch /\ monotone' = monotone
        /\ currEpoch' = currEpoch /\ commitTs' = commitTs
        /\ access' = access /\ accessTs' = accessTs /\ held' = held
    BY <1>6 DEF SetTimestamp
  <2>2. /\ r \in held[t] /\ access[t][r] # "READ_ONLY"
        /\ r \in Writes(t) \ installed[t]
    BY <2>1, InstallsHeld
  <2>3. TsLess(ts[r], commitTs[t]) /\ Issued(commitTs[t])
    BY <2>1, <2>2 DEF TsOrder
  <2>4. ts'[r] = commitTs[t] /\ \A q \in Record : q # r => ts'[q] = ts[q]
    BY <1>0, <2>1 DEF TypeOK
  <2>5. \A q \in Record : Issued(ts[q])'
    BY <2>1, <2>3, <2>4 DEF TsOrder, Issued
  <2>6. ASSUME NEW u \in Thread PROVE TsLeq(accessTs[u][r], ts'[r])
    <3>1. /\ accessTs[u][r] \in Timestamp /\ ts[r] \in Timestamp
          /\ commitTs[t] \in Timestamp
      BY <1>0 DEF TypeOK
    <3>2. TsLess(accessTs[u][r], commitTs[t])
      BY <2>3, <3>1, TsLessFacts DEF TsOrder
    <3> QED
      BY <2>4, <3>2 DEF TsLeq
  <2>7. \A u \in Thread : u # t => r \notin held[u]
    BY <2>2, WriterAlone
  <2>8. \A u \in Thread :
          /\ held[u] \subseteq Record
          /\ pc[u] = "install" => Writes(u) \subseteq held[u]
    BY <1>0 DEF TypeOK, LockInv, HeldInCommit, Writes
  <2>9. ASSUME NEW u \in Thread, pc[u] = "timestamp", NEW q \in held[u]
        PROVE  ts'[q].epoch <= currEpoch[u]
    BY <2>1, <2>4, <2>7, <2>8, <2>9 DEF TsOrder
  <2>10. ASSUME NEW u \in Thread, pc[u] = "install",
                NEW q \in Writes(u) \ installed'[u]
         PROVE  TsLess(ts'[q], commitTs[u])
    <3>1. q # r
      <4>1. CASE u = t
        <5>1. r \in installed'[t]
          BY <1>0, <2>1 DEF TypeOK
        <5> QED
          BY <2>10, <4>1, <5>1
      <4>2. CASE u # t
        <5>1. q \in held[u]
          BY <2>8, <2>10
        <5>2. r \notin held[u]
          BY <2>7, <4>2
        <5> QED
          BY <5>1, <5>2
      <4> QED
        BY <4>1, <4>2
    <3>2. q \in Writes(u) \ installed[u] /\ q \in Record
      BY <1>0, <2>1, <2>8, <2>10 DEF TypeOK
    <3> QED
      BY <2>4, <2>10, <3>1, <3>2 DEF TsOrder
  <2>11. \A u \in Thread, q \in Record : TsLeq(accessTs[u][q], ts'[q])
    BY <2>4, <2>6 DEF TsOrder
  <2>12. \A u \in Thread :
           /\ pc[u] = "timestamp" => currEpoch[u] <= epoch
           /\ pc[u] = "install" => Issued(commitTs[u])'
    BY <2>1 DEF TsOrder, Issued
  <2> QED
    BY <2>1, <2>5, <2>9, <2>10, <2>11, <2>12 DEF TsOrder, Writes, Accessed
<1>7. ASSUME NEW t \in Thread, ReturnCommitted(t) \/ ReturnAborted(t)
      PROVE  TsOrder'
  <2>1. /\ ts' = ts /\ epoch' = epoch /\ monotone' = monotone
        /\ pc'[t] \in {"idle", "done"}
        /\ accessTs'[t] = [r \in Record |-> ZeroTs]
    BY <1>0, <1>7 DEF ReturnCommitted, ReturnAborted, ClearAccess, shared, TypeOK
  <2>2. \A r \in Record : TsLeq(accessTs'[t][r], ts[r])
    BY <1>0, <2>1, TsLessFacts DEF TypeOK
  <2>3. \A u \in Thread : u # t => Unmoved(u)
    BY <1>0, <1>7, OthersUnmoved DEF Step
  <2> QED
    BY <2>1, <2>2, <2>3, TsOrderFrame
<1>8. CASE AdvanceEpoch
  <2>1. epoch' = epoch + 1 /\ epoch \in Nat
    BY <1>0, <1>8 DEF AdvanceEpoch, TypeOK
  <2>2. /\ ts' = ts /\ monotone' = monotone /\ pc' = pc /\ held' = held
        /\ access' = access /\ accessTs' = accessTs /\ installed' = installed
        /\ currEpoch' = currEpoch /\ commitTs' = commitTs
    BY <1>8 DEF AdvanceEpoch, txn
  <2>4. /\ \A r \in Record : Issued(ts[r])'
        /\ \A t \in Thread : pc'[t] = "install" => Issued(commitTs[t])'
    <3>1. /\ \A r \in Record : ts[r] \in Timestamp /\ Issued(ts[r])
          /\ \A t \in Thread : /\ commitTs[t] \in Timestamp
                               /\ pc[t] = "install" => Issued(commitTs[t])
      BY <1>0 DEF TsOrder, TypeOK
    <3>2. /\ \A r \in Record : ts[r].epoch \in Nat
          /\ \A t \in Thread : commitTs[t].epoch \in Nat
      BY <3>1 DEF Timestamp
    <3> QED
      BY <2>1, <2>2, <3>1, <3>2 DEF Issued
  <2>5. \A t \in Thread : pc'[t] = "timestamp" => currEpoch'[t] <= epoch'
    BY <1>0, <2>1, <2>2 DEF TsOrder, TypeOK
  <2> QED
    BY <2>2, <2>4, <2>5 DEF TsOrder, Writes, Accessed
<1>9. CASE UNCHANGED vars
  BY <1>9 DEF vars, shared, txn, TsOrder, Issued, Writes, Accessed
<1> QED
  BY <1>1, <1>2, <1>3, <1>4, <1>5, <1>6, <1>7, <1>8, <1>9
     DEF Next, Step, Select, Install, Joined

-----------------------------------------------------------------------------
(***************************************************************************)
(* The lock loop: Prefix, Validated and ValidatedButLast are preserved.    *)
(***************************************************************************)
LEMMA NextPrefix ==
  ASSUME LockInv, Prefix, [Next]_vars
  PROVE  Prefix'
<1>0. TypeOK
  BY DEF LockInv
<1>1. ASSUME NEW t \in Thread, Step(t),
             pc'[t] \in {"lock", "validate"},
             NEW q \in held'[t], NEW r \in Accessed(t)' \ held'[t]
      PROVE  q < r
  <2>1. CASE CommitTransaction(t)
    BY <1>0, <1>1, <2>1 DEF CommitTransaction, LockInv, HeldInCommit, Outside
  <2>2. CASE Validate(t)
    BY <1>0, <1>1, <2>2 DEF Validate, shared, txn, Prefix, Accessed
  <2>3. CASE AcquireLock(t)
    <3>1. PICK p \in Record : /\ NextToLock(t, p)
                             /\ held' = [held EXCEPT ![t] = @ \cup {p}]
      BY <2>3 DEF AcquireLock
    <3>2. pc[t] = "lock" /\ access' = access /\ held'[t] = held[t] \cup {p}
      BY <1>0, <2>3, <3>1 DEF AcquireLock, TypeOK
    <3>3. r \in Accessed(t) \ held[t] /\ r # p /\ r \in Record
      BY <1>1, <3>2 DEF Accessed
    <3>4. p <= r /\ p \in Nat /\ r \in Nat
      BY <3>1, <3>3, OccConstants DEF NextToLock, IsFirst, OccConstants
    <3>5. CASE q = p
      BY <3>3, <3>4, <3>5
    <3>6. CASE q \in held[t]
      BY <3>2, <3>3, <3>6 DEF Prefix
    <3> QED
      BY <1>1, <3>2, <3>5, <3>6
  <2>4. CASE ~(CommitTransaction(t) \/ Validate(t) \/ AcquireLock(t))
    <3>1. pc'[t] \notin {"lock", "validate"}
      BY <1>0, <1>1, <2>4 DEF TypeOK, Step, Execute, Select, SelectRecordCC,
         InsertRecord, ReadColumn, GetEpoch, GetMonotoneTimestamp, Install,
         CopyFrom, SetVisible, SetTimestamp, EndInstall, ReleaseLock,
         ReturnCommitted, ReturnAborted
    <3> QED
      BY <1>1, <3>1
  <2> QED
    BY <2>1, <2>2, <2>3, <2>4
<1>2. ASSUME NEW t \in Thread, Step(t) PROVE Prefix'
  <2>1. ASSUME NEW u \in Thread, u # t, pc'[u] \in {"lock", "validate"},
               NEW q \in held'[u], NEW r \in Accessed(u)' \ held'[u]
        PROVE  q < r
    <3>1. Unmoved(u)
      BY <1>0, <1>2, <2>1, OthersUnmoved
    <3> QED
      BY <2>1, <3>1 DEF Unmoved, Prefix, Accessed
  <2> QED
    BY <1>1, <1>2, <2>1 DEF Prefix
<1>3. CASE AdvanceEpoch \/ UNCHANGED vars
  BY <1>3 DEF AdvanceEpoch, vars, shared, txn, Prefix, Accessed
<1> QED
  BY <1>2, <1>3 DEF Next, Joined

(***************************************************************************)
(* Only a thread that holds the write lock of r changes its timestamp.     *)
(***************************************************************************)
LEMMA TimestampsHeld ==
  ASSUME LockInv, [Next]_vars, NEW t \in Thread, NEW r \in Record,
         r \in held[t], pc[t] # "install"
  PROVE  ts'[r] = ts[r]
<1>0. TypeOK
  BY DEF LockInv
<1>1. ASSUME NEW u \in Thread, NEW q \in Record, SetTimestamp(u, q)
      PROVE  ts'[r] = ts[r]
  <2>1. pc[u] = "install" /\ NextToInstall(u, q)
    BY <1>1 DEF SetTimestamp
  <2>2. q \in held[u] /\ access[u][q] # "READ_ONLY" /\ t # u
    BY <2>1, InstallsHeld
  <2>3. q # r
    BY <2>2, WriterAlone
  <2> QED
    BY <1>0, <1>1, <2>3 DEF SetTimestamp, TypeOK
<1>2. ASSUME NEW u \in Thread, Step(u),
             ~ \E q \in Record : SetTimestamp(u, q)
      PROVE  ts' = ts
  BY <1>2 DEF Step, Execute, Select, SelectRecordCC, InsertRecord, ReadColumn,
     CommitTransaction, AcquireLock, Validate, GetEpoch, GetMonotoneTimestamp,
     Install, CopyFrom, SetVisible, EndInstall, ReleaseLock, ReturnCommitted,
     ReturnAborted, shared
<1>3. CASE AdvanceEpoch \/ UNCHANGED vars
  BY <1>3 DEF AdvanceEpoch, vars, shared
<1> QED
  BY <1>1, <1>2, <1>3 DEF Next, Joined

(***************************************************************************)
(* Every step preserves what step 1 has validated.                         *)
(***************************************************************************)
LEMMA NextValidated ==
  ASSUME LockInv, Prefix, Validated, ValidatedButLast, [Next]_vars
  PROVE  Validated' /\ ValidatedButLast'
<1>0. TypeOK
  BY DEF LockInv
<1> DEFINE Good(t) ==
      \A r \in held[t] \cap Reads(t) :
        /\ pc[t] \in {"lock", "epoch", "timestamp"} => ts[r] = accessTs[t][r]
        /\ pc[t] = "validate" => IsLast(r, held[t]) \/ ts[r] = accessTs[t][r]
<1>1. ASSUME NEW t \in Thread PROVE Good(t)
  BY DEF Validated, ValidatedButLast
<1>2. SUFFICES \A t \in Thread : Good(t)'
  BY <1>2 DEF Validated, ValidatedButLast
<1>3. ASSUME NEW t \in Thread, pc'[t] = pc[t], held'[t] = held[t],
             access'[t] = access[t], accessTs'[t] = accessTs[t]
      PROVE  Good(t)'
  <2>1. ASSUME pc[t] \in {"lock", "validate", "epoch", "timestamp"},
               NEW r \in held[t] \cap Reads(t)
        PROVE  ts'[r] = ts[r]
    BY <1>0, <2>1, TimestampsHeld DEF Reads
  <2> QED
    BY <1>1, <1>3, <2>1 DEF Reads, IsLast
<1>4. ASSUME NEW t \in Thread, Step(t) PROVE Good(t)'
  <2>1. CASE Validate(t)
    <3>1. PICK p \in Record :
            /\ IsLast(p, held[t])
            /\ pc' = [pc EXCEPT ![t] = IF ~Valid(t, p) THEN "undo"
                                       ELSE IF held[t] = Accessed(t) THEN "epoch"
                                       ELSE "lock"]
      BY <2>1 DEF Validate
    <3>2. /\ pc[t] = "validate" /\ held' = held /\ access' = access
          /\ accessTs' = accessTs /\ ts' = ts
      BY <2>1 DEF Validate, shared, txn
    <3>3. pc'[t] \in {"undo", "epoch", "lock"}
      BY <1>0, <3>1 DEF TypeOK
    <3>4. ASSUME NEW r \in held[t] \cap Reads(t), pc'[t] # "undo"
          PROVE  ts[r] = accessTs[t][r]
      <4>1. Valid(t, p)
        BY <1>0, <3>1, <3>4 DEF TypeOK
      <4>2. CASE IsLast(r, held[t])
        <5>1. r \in Nat /\ p \in Nat
          BY <3>1, OccConstants DEF Reads, OccConstants
        <5>2. r = p
          BY <3>1, <4>2, <5>1 DEF IsLast
        <5> QED
          BY <4>1, <5>2 DEF Valid
      <4> QED
        BY <1>1, <3>2, <4>2
    <3> QED
      BY <3>2, <3>3, <3>4 DEF Reads
  <2>2. CASE AcquireLock(t)
    <3>1. PICK p \in Record : /\ NextToLock(t, p)
                             /\ held' = [held EXCEPT ![t] = @ \cup {p}]
      BY <2>2 DEF AcquireLock
    <3>2. /\ pc[t] = "lock" /\ pc'[t] = "validate" /\ access' = access
          /\ held'[t] = held[t] \cup {p} /\ accessTs' = accessTs /\ ts' = ts
      BY <1>0, <2>2, <3>1 DEF AcquireLock, TypeOK
    <3>3. \A q \in held[t] : ts[q] = accessTs[t][q] \/ q \notin Reads(t)
      BY <1>1, <3>2
    <3>4. IsLast(p, held'[t])
      <4>1. p \in Accessed(t) \ held[t]
        BY <3>1 DEF NextToLock, IsFirst
      <4>2. \A q \in held[t] : q < p
        BY <3>2, <4>1 DEF Prefix
      <4>3. held[t] \subseteq Nat /\ p \in Nat
        BY <1>0, <3>1, OccConstants DEF TypeOK, OccConstants
      <4> QED
        BY <3>2, <4>2, <4>3 DEF IsLast
    <3> QED
      BY <3>2, <3>3, <3>4 DEF Reads
  <2>3. CASE GetEpoch(t)
    BY <1>0, <1>1, <2>3 DEF GetEpoch, shared, TypeOK, Reads
  <2>4. CASE CommitTransaction(t)
    <3>1. held'[t] = {}
      BY <2>4 DEF CommitTransaction, LockInv, HeldInCommit, Outside
    <3> QED
      BY <3>1
  <2>5. CASE ~(Validate(t) \/ AcquireLock(t) \/ GetEpoch(t) \/ CommitTransaction(t))
    <3>1. pc'[t] \notin {"lock", "validate", "epoch", "timestamp"}
      BY <1>0, <1>4, <2>5 DEF TypeOK, Step, Execute, Select, SelectRecordCC,
         InsertRecord, ReadColumn, GetMonotoneTimestamp, Install,
         CopyFrom, SetVisible, SetTimestamp, EndInstall, ReleaseLock,
         ReturnCommitted, ReturnAborted
    <3> QED
      BY <3>1
  <2> QED
    BY <2>1, <2>2, <2>3, <2>4, <2>5
<1>5. ASSUME NEW t \in Thread, Step(t), NEW u \in Thread, u # t PROVE Good(u)'
  BY <1>0, <1>3, <1>5, OthersUnmoved DEF Unmoved
<1>6. CASE AdvanceEpoch \/ UNCHANGED vars
  BY <1>3, <1>6 DEF AdvanceEpoch, vars, shared, txn
<1> QED
  BY <1>4, <1>5, <1>6 DEF Next, Joined

-----------------------------------------------------------------------------
(***************************************************************************)
(* What has been seen: SeenOnlyReads and SeenCurrent are preserved.        *)
(***************************************************************************)
LEMMA NextSeenOnlyReads ==
  ASSUME TypeOK, SeenOnlyReads, [Next]_vars
  PROVE  SeenOnlyReads'
<1>1. ASSUME NEW t \in Thread, Step(t), NEW r \in Record, NEW c \in Column,
             r \notin Reads(t)'
      PROVE  seen'[t][r][c] = Unread
  <2>1. CASE \E q \in Record, d \in Column : ReadColumn(t, q, d)
    <3>1. PICK q \in Record, d \in Column : ReadColumn(t, q, d)
      BY <2>1
    <3>2. access' = access /\ q \in Reads(t)
          /\ seen' = [seen EXCEPT ![t][q][d] = word[q][d]]
      BY <3>1 DEF ReadColumn
    <3>3. r # q /\ r \notin Reads(t)
      BY <1>1, <3>2 DEF Reads
    <3> QED
      BY <3>2, <3>3 DEF TypeOK, SeenOnlyReads
  <2>2. CASE \E q \in Record, type \in AccessType : SelectRecordCC(t, q, type)
    <3>1. PICK q \in Record, type \in AccessType : SelectRecordCC(t, q, type)
      BY <2>2
    <3>2. r \notin Reads(t) /\ seen' = seen
      BY <1>1, <3>1 DEF SelectRecordCC, Reads, TypeOK, NoAccess
    <3> QED
      BY <3>2 DEF SeenOnlyReads
  <2>3. CASE \E q \in Record : InsertRecord(t, q)
    <3>1. PICK q \in Record : InsertRecord(t, q)
      BY <2>3
    <3>2. r \notin Reads(t) /\ seen' = seen
      BY <1>1, <3>1 DEF InsertRecord, Reads, TypeOK, NoAccess
    <3> QED
      BY <3>2 DEF SeenOnlyReads
  <2>4. CASE ReturnCommitted(t) \/ ReturnAborted(t)
    BY <2>4 DEF ReturnCommitted, ReturnAborted, ClearAccess, TypeOK
  <2>5. CASE ~(Select(t) \/ ReturnCommitted(t) \/ ReturnAborted(t))
    <3>1. access' = access /\ seen' = seen
      BY <1>1, <2>5 DEF Step, Execute, CommitTransaction, AcquireLock, Validate,
         GetEpoch, GetMonotoneTimestamp, Install, CopyFrom, SetVisible,
         SetTimestamp, EndInstall, ReleaseLock, txn
    <3> QED
      BY <1>1, <3>1 DEF SeenOnlyReads, Reads
  <2> QED
    BY <2>1, <2>2, <2>3, <2>4, <2>5 DEF Select
<1>2. ASSUME NEW t \in Thread, Step(t), NEW u \in Thread, u # t,
             NEW r \in Record, NEW c \in Column, r \notin Reads(u)'
      PROVE  seen'[u][r][c] = Unread
  <2>1. Unmoved(u)
    BY <1>2, OthersUnmoved
  <2> QED
    BY <1>2, <2>1 DEF Unmoved, SeenOnlyReads, Reads
<1>3. CASE AdvanceEpoch \/ UNCHANGED vars
  BY <1>3 DEF AdvanceEpoch, vars, txn, SeenOnlyReads, Reads
<1> QED
  BY <1>1, <1>2, <1>3 DEF Next, Joined, SeenOnlyReads

(***************************************************************************)
(* A record stays dirty until its timestamp is set.                        *)
(***************************************************************************)
LEMMA DirtyUntilTimestamp ==
  ASSUME LockInv, NEW u \in Thread, Step(u), NEW r \in Record, Dirty(r),
         ~SetTimestamp(u, r)
  PROVE  Dirty(r)'
<1>0. TypeOK
  BY DEF LockInv
<1>1. PICK v \in Thread :
        pc[v] = "install" /\ NextToInstall(v, r) /\ stored[v] # {}
  BY DEF Dirty
<1>2. CASE v # u
  <2>1. Unmoved(v)
    BY <1>0, <1>2, OthersUnmoved
  <2> QED
    BY <1>1, <2>1 DEF Unmoved, Dirty, NextToInstall, Writes, Accessed
<1>3. CASE v = u
  <2>1. PICK q \in Record, d \in Column :
          \/ CopyFrom(u, q, d) \/ SetVisible(u, q) \/ SetTimestamp(u, q)
          \/ EndInstall(u)
    BY <1>1, <1>3, OccConstants DEF OccConstants, Step, Execute, Select,
       SelectRecordCC, InsertRecord, ReadColumn, CommitTransaction, AcquireLock,
       Validate, GetEpoch, GetMonotoneTimestamp, Install, ReleaseLock,
       ReturnCommitted, ReturnAborted
  <2>2. r \in Writes(u) \ installed[u]
        /\ \A p \in Record : NextToInstall(u, p) => p = r
    BY <1>1, <1>3, InstallsHeld
  <2>3. CopyFrom(u, q, d)
    BY <1>1, <1>3, <2>1, <2>2 DEF SetVisible, SetTimestamp, EndInstall
  <2>4. /\ pc' = pc /\ access' = access /\ installed' = installed
        /\ stored'[u] # {}
    BY <1>0, <2>3 DEF CopyFrom, TypeOK
  <2> QED
    BY <1>1, <1>3, <2>4 DEF Dirty, NextToInstall, Writes, Accessed
<1> QED
  BY <1>2, <1>3

(***************************************************************************)
(* A record whose content changes is dirty afterwards.                     *)
(***************************************************************************)
LEMMA StoreMakesDirty ==
  ASSUME LockInv, NEW u \in Thread, Step(u), NEW r \in Record, ~Dirty(r)'
  PROVE  word'[r] = word[r]
<1>0. TypeOK
  BY DEF LockInv
<1>1. ASSUME NEW q \in Record, NEW d \in Column, CopyFrom(u, q, d)
      PROVE  word'[r] = word[r]
  <2>1. /\ pc' = pc /\ access' = access /\ installed' = installed
        /\ stored'[u] # {} /\ pc[u] = "install" /\ NextToInstall(u, q)
    BY <1>0, <1>1 DEF CopyFrom, TypeOK
  <2>2. Dirty(q)'
    BY <2>1 DEF Dirty, NextToInstall, Writes, Accessed
  <2>3. q # r
    BY <2>2
  <2> QED
    BY <1>0, <1>1, <2>3 DEF CopyFrom, TypeOK
<1>2. ASSUME ~ \E q \in Record, d \in Column : CopyFrom(u, q, d)
      PROVE  word' = word
  BY <1>2 DEF Step, Execute, Select, SelectRecordCC, InsertRecord, ReadColumn,
     CommitTransaction, AcquireLock, Validate, GetEpoch, GetMonotoneTimestamp,
     Install, SetVisible, SetTimestamp, EndInstall, ReleaseLock,
     ReturnCommitted, ReturnAborted, shared
<1> QED
  BY <1>1, <1>2

(***************************************************************************)
(* Every step preserves SeenCurrent.                                       *)
(***************************************************************************)
LEMMA NextSeenCurrent ==
  ASSUME LockInv, TsOrder, SeenOnlyReads, SeenCurrent, [Next]_vars
  PROVE  SeenCurrent'
<1>0. TypeOK
  BY DEF LockInv
<1>1. ASSUME NEW u \in Thread, Step(u), NEW t \in Thread, NEW r \in Record,
             NEW c \in Column, r \in Reads(t)', accessTs'[t][r] = ts'[r],
             ~Dirty(r)'
      PROVE  seen'[t][r][c] \in {Unread, word'[r][c]}
  <2>1. ~SetTimestamp(u, r)
    <3>1. SUFFICES ASSUME SetTimestamp(u, r) PROVE FALSE
      OBVIOUS
    <3>2. pc[u] = "install" /\ NextToInstall(u, r)
      BY <3>1 DEF SetTimestamp
    <3>3. r \in Writes(u) \ installed[u]
      BY <3>2, InstallsHeld
    <3>4. /\ accessTs' = accessTs /\ ts'[r] = commitTs[u]
          /\ accessTs[t][r] \in Timestamp /\ ts[r] \in Timestamp
          /\ commitTs[u] \in Timestamp
      BY <1>0, <3>1 DEF SetTimestamp, TypeOK
    <3>5. TsLess(ts[r], commitTs[u]) /\ TsLeq(accessTs[t][r], ts[r])
      BY <3>2, <3>3 DEF TsOrder
    <3>6. TsLess(commitTs[u], commitTs[u])
      BY <1>1, <3>4, <3>5, TsLessFacts
    <3> QED
      BY <3>4, <3>6, TsLessFacts
  <2>2. ~Dirty(r) /\ word'[r] = word[r]
    BY <1>1, <2>1, DirtyUntilTimestamp, StoreMakesDirty
  <2>3. ts'[r] = ts[r]
    BY <1>0, <1>1, <2>1 DEF TypeOK, Step, Execute, Select, SelectRecordCC,
       InsertRecord, ReadColumn, CommitTransaction, AcquireLock, Validate,
       GetEpoch, GetMonotoneTimestamp, Install, CopyFrom, SetVisible,
       SetTimestamp, EndInstall, ReleaseLock, ReturnCommitted, ReturnAborted,
       shared
  <2>4. ASSUME seen'[t][r] = seen[t][r], accessTs'[t][r] = accessTs[t][r],
               access'[t][r] = access[t][r]
        PROVE  seen'[t][r][c] \in {Unread, word'[r][c]}
    BY <1>1, <2>2, <2>3, <2>4 DEF SeenCurrent, Reads
  <2>5. CASE t # u
    <3>1. Unmoved(t)
      BY <1>0, <1>1, <2>5, OthersUnmoved
    <3> QED
      BY <2>4, <3>1 DEF Unmoved
  <2>6. CASE t = u /\ \E q \in Record, d \in Column : ReadColumn(t, q, d)
    <3>1. PICK q \in Record, d \in Column : ReadColumn(t, q, d)
      BY <2>6
    <3>2. /\ access' = access /\ accessTs' = accessTs
          /\ seen' = [seen EXCEPT ![t][q][d] = word[q][d]]
      BY <3>1 DEF ReadColumn
    <3>3. CASE q = r /\ d = c
      <4>1. seen'[t][r][c] = word[r][c]
        BY <1>0, <3>2, <3>3 DEF TypeOK
      <4> QED
        BY <2>2, <4>1
    <3>4. CASE ~(q = r /\ d = c)
      <4>1. seen'[t][r][c] = seen[t][r][c]
        BY <1>0, <3>2, <3>4 DEF TypeOK
      <4>2. r \in Reads(t) /\ accessTs[t][r] = ts[r]
        BY <1>1, <2>3, <3>2 DEF Reads
      <4> QED
        BY <2>2, <4>1, <4>2 DEF SeenCurrent
    <3> QED
      BY <3>3, <3>4
  <2>7. CASE t = u /\ \E q \in Record : \/ InsertRecord(t, q)
                                       \/ \E type \in AccessType :
                                            SelectRecordCC(t, q, type)
    <3>1. PICK q \in Record : \/ InsertRecord(t, q)
                             \/ \E type \in AccessType : SelectRecordCC(t, q, type)
      BY <2>7
    <3>2. CASE q # r
      <4>1. /\ seen' = seen /\ accessTs'[t][r] = accessTs[t][r]
            /\ access'[t][r] = access[t][r]
        BY <1>0, <3>1, <3>2 DEF InsertRecord, SelectRecordCC, TypeOK
      <4> QED
        BY <2>4, <4>1
    <3>3. CASE q = r
      <4>1. r \notin Reads(t) /\ seen' = seen
        BY <1>0, <3>1, <3>3, OccConstants
           DEF InsertRecord, SelectRecordCC, Reads, NoAccess, TypeOK, OccConstants
      <4> QED
        BY <4>1 DEF SeenOnlyReads
    <3> QED
      BY <3>2, <3>3
  <2>8. CASE t = u /\ (ReturnCommitted(t) \/ ReturnAborted(t))
    <3>1. r \notin Reads(t)'
      BY <1>0, <2>8 DEF ReturnCommitted, ReturnAborted, ClearAccess, TypeOK,
                        Reads, NoAccess
    <3> QED
      BY <1>1, <3>1
  <2>9. CASE t = u /\ ~(Select(t) \/ ReturnCommitted(t) \/ ReturnAborted(t))
    <3>1. access' = access /\ seen' = seen /\ accessTs' = accessTs
      BY <1>1, <2>9 DEF Step, Execute, CommitTransaction, AcquireLock, Validate,
         GetEpoch, GetMonotoneTimestamp, Install, CopyFrom, SetVisible,
         SetTimestamp, EndInstall, ReleaseLock, txn
    <3> QED
      BY <2>4, <3>1
  <2> QED
    BY <2>5, <2>6, <2>7, <2>8, <2>9 DEF Select
<1>2. CASE AdvanceEpoch \/ UNCHANGED vars
  <2>1. /\ ts' = ts /\ word' = word /\ pc' = pc /\ access' = access
        /\ accessTs' = accessTs /\ seen' = seen /\ stored' = stored
        /\ installed' = installed
    BY <1>2 DEF AdvanceEpoch, vars, shared, txn
  <2>2. \A r \in Record : Dirty(r)' <=> Dirty(r)
    BY <2>1 DEF Dirty, NextToInstall, Writes, Accessed
  <2> QED
    BY <2>1, <2>2 DEF SeenCurrent, Reads
<1> QED
  BY <1>1, <1>2 DEF Next, Joined, SeenCurrent

-----------------------------------------------------------------------------
(***************************************************************************)
(* The invariant and its consequences.                                     *)
(***************************************************************************)

(***************************************************************************)
(* It holds initially: no thread has accessed anything yet.                *)
(***************************************************************************)
LEMMA InitSnapshot == Init => SnapshotInv
<1> SUFFICES ASSUME Init PROVE SnapshotInv
  OBVIOUS
<1>1. TsOrder
  BY DEF Init, TsOrder, Issued, ZeroTs, TsLeq
<1>2. Prefix /\ Validated /\ ValidatedButLast
  BY DEF Init, Prefix, Validated, ValidatedButLast
<1>3. SeenOnlyReads /\ SeenCurrent
  BY DEF Init, SeenOnlyReads, SeenCurrent, Reads
<1> QED
  BY <1>1, <1>2, <1>3 DEF SnapshotInv

(***************************************************************************)
(* The counter behind the timestamps never falls: if it has not wrapped    *)
(* after a step, it had not before.                                        *)
(***************************************************************************)
LEMMA NoWrapBefore ==
  ASSUME TypeOK, [Next]_vars, NoWrap'
  PROVE  NoWrap
<1>1. ASSUME NEW t \in Thread, Step(t), ~GetMonotoneTimestamp(t)
      PROVE  monotone' = monotone
  BY <1>1 DEF Step, Execute, Select, SelectRecordCC, InsertRecord, ReadColumn,
     CommitTransaction, AcquireLock, Validate, GetEpoch, Install, CopyFrom,
     SetVisible, SetTimestamp, EndInstall, ReleaseLock, ReturnCommitted,
     ReturnAborted, shared
<1>2. ASSUME NEW t \in Thread, GetMonotoneTimestamp(t)
      PROVE  monotone' = monotone + 1
  BY <1>2 DEF GetMonotoneTimestamp
<1>3. ASSUME AdvanceEpoch \/ UNCHANGED vars PROVE monotone' = monotone
  BY <1>3 DEF AdvanceEpoch, vars, shared
<1>4. monotone' \in {monotone, monotone + 1}
  BY <1>1, <1>2, <1>3 DEF Next, Joined
<1> QED
  BY <1>4, OccConstants DEF NoWrap, TypeOK, OccConstants

(***************************************************************************)
(* The invariant holds in every reachable state.                           *)
(***************************************************************************)
LEMMA SnapshotInvariant == Spec => [](LockInv /\ SnapshotInv)
<1>1. LockInv /\ LockInv' /\ SnapshotInv /\ [Next]_vars => SnapshotInv'
  <2> SUFFICES ASSUME LockInv, LockInv', SnapshotInv, [Next]_vars, NoWrap'
               PROVE  /\ TsOrder' /\ Prefix' /\ Validated' /\ ValidatedButLast'
                      /\ SeenOnlyReads' /\ SeenCurrent'
    BY DEF SnapshotInv
  <2>1. TypeOK /\ NoWrap
    BY NoWrapBefore DEF LockInv
  <2>2. /\ TsOrder /\ Prefix /\ Validated /\ ValidatedButLast
        /\ SeenOnlyReads /\ SeenCurrent
    BY <2>1 DEF SnapshotInv
  <2> QED
    BY <2>1, <2>2, NextTsOrder, NextPrefix, NextValidated, NextSeenOnlyReads,
       NextSeenCurrent
<1> QED
  BY InitSnapshot, LockInvariant, <1>1, PTL DEF Spec

(***************************************************************************)
(* The unlocked reads of a transaction that has validated are one snapshot *)
(* of the present, until the low half of the timestamp wraps around.       *)
(***************************************************************************)
THEOREM SnapshotReads == Spec => [](NoWrap => ReadsStillCurrent)
<1>1. LockInv /\ SnapshotInv => (NoWrap => ReadsStillCurrent)
  <2> SUFFICES ASSUME LockInv, SnapshotInv, NoWrap,
                      NEW t \in Thread, pc[t] \in {"epoch", "timestamp"},
                      NEW r \in Record, NEW c \in Column
               PROVE  seen[t][r][c] \in {Unread, word[r][c]}
    BY DEF ReadsStillCurrent
  <2>1. Validated /\ SeenOnlyReads /\ SeenCurrent
    BY DEF SnapshotInv
  <2>2. CASE r \notin Reads(t)
    BY <2>1, <2>2 DEF SeenOnlyReads
  <2>3. CASE r \in Reads(t)
    <3>1. r \in held[t]
      BY <2>3 DEF LockInv, HeldInCommit, Accessed, Reads, NoAccess
    <3>2. ts[r] = accessTs[t][r]
      BY <2>1, <2>3, <3>1 DEF Validated
    <3>3. ~Dirty(r)
      <4>1. SUFFICES ASSUME NEW u \in Thread, pc[u] = "install",
                            NextToInstall(u, r)
                     PROVE  FALSE
        BY DEF Dirty
      <4>2. t = u
        BY <3>1, <4>1, InstallsHeld, WriterAlone
      <4> QED
        BY <4>1, <4>2
    <3> QED
      BY <2>1, <2>3, <3>2, <3>3 DEF SeenCurrent
  <2> QED
    BY <2>2, <2>3
<1> QED
  BY SnapshotInvariant, <1>1, PTL

(***************************************************************************)
(* The assertions on the commit timestamp in the install loop and in       *)
(* SetTimestamp hold until the low half wraps around.                      *)
(***************************************************************************)
THEOREM CommitTsAssertions == Spec => [](NoWrap => CommitTsAboveAccess)
<1>1. LockInv /\ SnapshotInv => (NoWrap => CommitTsAboveAccess)
  <2> SUFFICES ASSUME LockInv, SnapshotInv, NoWrap,
                      NEW t \in Thread, pc[t] = "install",
                      NEW r \in Writes(t) \ installed[t]
               PROVE  /\ TsLess(accessTs[t][r], commitTs[t])
                      /\ ~TsLess(commitTs[t], ts[r])
    BY DEF CommitTsAboveAccess
  <2>1. r \in Record
    BY DEF Writes, Accessed
  <2>2. TsLess(ts[r], commitTs[t]) /\ TsLeq(accessTs[t][r], ts[r])
    BY <2>1 DEF SnapshotInv, TsOrder
  <2>3. /\ ts[r] \in Timestamp /\ commitTs[t] \in Timestamp
        /\ accessTs[t][r] \in Timestamp
    BY <2>1 DEF LockInv, TypeOK
  <2> QED
    BY <2>2, <2>3 DEF TsLess, TsLeq, Timestamp
<1> QED
  BY SnapshotInvariant, <1>1, PTL

(***************************************************************************)
(* Only the install loop sets the timestamp of a record.                   *)
(***************************************************************************)
LEMMA TimestampSetter ==
  ASSUME LockInv, [Next]_vars, NEW r \in Record, ts'[r] # ts[r]
  PROVE  \E u \in Thread : SetTimestamp(u, r)
<1>1. ASSUME NEW u \in Thread, Step(u), ~ \E q \in Record : SetTimestamp(u, q)
      PROVE  ts' = ts
  BY <1>1 DEF Step, Execute, Select, SelectRecordCC, InsertRecord, ReadColumn,
     CommitTransaction, AcquireLock, Validate, GetEpoch, GetMonotoneTimestamp,
     Install, CopyFrom, SetVisible, EndInstall, ReleaseLock, ReturnCommitted,
     ReturnAborted, shared
<1>2. ASSUME AdvanceEpoch \/ UNCHANGED vars PROVE ts' = ts
  BY <1>2 DEF AdvanceEpoch, vars, shared
<1>3. PICK u \in Thread, q \in Record : SetTimestamp(u, q)
  BY <1>1, <1>2 DEF Next, Joined
<1>4. q = r
  BY <1>3 DEF SetTimestamp, LockInv, TypeOK
<1> QED
  BY <1>3, <1>4

(***************************************************************************)
(* No step lowers the timestamp of a record or sets it to what it was,     *)
(* until the low half wraps around.                                        *)
(***************************************************************************)
THEOREM TimestampsOnlyAdvance ==
  Spec => [][NoWrap => \A r \in Record : ts'[r] # ts[r] => TsLess(ts[r], ts'[r])]_vars
<1>1. ASSUME LockInv, SnapshotInv, [Next]_vars, NoWrap, NEW r \in Record,
             ts'[r] # ts[r]
      PROVE  TsLess(ts[r], ts'[r])
  <2>0. TypeOK
    BY <1>1 DEF LockInv
  <2>1. PICK u \in Thread : SetTimestamp(u, r)
    BY <1>1, TimestampSetter
  <2>2. pc[u] = "install" /\ NextToInstall(u, r) /\ ts'[r] = commitTs[u]
    BY <2>0, <2>1 DEF SetTimestamp, TypeOK
  <2>3. r \in Writes(u) \ installed[u]
    BY <1>1, <2>2, InstallsHeld
  <2> QED
    BY <1>1, <2>2, <2>3 DEF SnapshotInv, TsOrder
<1>2. LockInv /\ SnapshotInv /\ [Next]_vars =>
        [NoWrap => \A r \in Record : ts'[r] # ts[r] => TsLess(ts[r], ts'[r])]_vars
  BY <1>1
<1> QED
  BY SnapshotInvariant, <1>2, PTL DEF Spec

(***************************************************************************)
(* Hence, in a run that does not wrap, an equal timestamp means an         *)
(* unchanged record, which is what the validation of a read relies on.     *)
(***************************************************************************)
THEOREM TimestampsNeverReused == Spec /\ []NoWrap => TimestampsAdvance
<1> DEFINE Advance == \A r \in Record : ts'[r] # ts[r] => TsLess(ts[r], ts'[r])
<1>1. NoWrap /\ [NoWrap => Advance]_vars => [Advance]_vars
  OBVIOUS
<1>2. Spec => [][NoWrap => Advance]_vars
  BY TimestampsOnlyAdvance
<1> HIDE DEF Advance
<1>3. Spec /\ []NoWrap => [][Advance]_vars
  BY <1>1, <1>2, PTL
<1> QED
  BY <1>3 DEF TimestampsAdvance, Advance

-----------------------------------------------------------------------------
(***************************************************************************)
(* Commit timestamps and the readers before: a thread locks a record that  *)
(* it writes after its readers have drawn their timestamps, so the epoch   *)
(* it reads then, and with it the timestamp it draws, is no smaller.       *)
(***************************************************************************)
ReadersOrder ==
  /\ \A r \in Record : Issued(readTs[r])
  /\ \A t \in Thread : pc[t] = "timestamp" =>
       \A r \in Writes(t) : readTs[r].epoch <= currEpoch[t]
  /\ \A t \in Thread : pc[t] = "install" =>
       \A r \in Writes(t) \ installed[t] : TsLeq(readTs[r], commitTs[t])

ReadersInv == NoWrap => ReadersOrder

(***************************************************************************)
(* A step that draws no timestamp and starts no commit.                    *)
(***************************************************************************)
LEMMA ReadersFrame ==
  ASSUME ReadersOrder, NEW t \in Thread,
         readTs' = readTs, epoch' = epoch, monotone' = monotone,
         \A u \in Thread : u # t => Unmoved(u),
         pc'[t] # "timestamp",
         pc'[t] = "install" => /\ pc[t] = "install" /\ access'[t] = access[t]
                               /\ commitTs'[t] = commitTs[t]
                               /\ installed[t] \subseteq installed'[t]
  PROVE  ReadersOrder'
BY DEF ReadersOrder, Issued, Writes, Accessed, Unmoved

(***************************************************************************)
(* Drawing a timestamp: it exceeds those of the records held, and of the   *)
(* readers before of those written.                                        *)
(***************************************************************************)
LEMMA DrawnTimestamp ==
  ASSUME LockInv, TsOrder, ReadersOrder, NoWrap', NEW t \in Thread,
         GetMonotoneTimestamp(t)
  PROVE  /\ \A r \in held[t] : TsLess(ts[r], commitTs'[t])
         /\ \A r \in Writes(t) : TsLess(readTs[r], commitTs'[t])
         /\ Issued(commitTs[t])' /\ commitTs'[t] \in Timestamp
<1>0. TypeOK
  BY DEF LockInv
<1>1. /\ pc[t] = "timestamp" /\ epoch' = epoch
      /\ commitTs'[t] = GenerateMonotoneTimestamp(currEpoch[t], monotone)
      /\ monotone' = monotone + 1 /\ monotone \in Nat /\ currEpoch[t] \in Nat
  BY <1>0 DEF GetMonotoneTimestamp, TypeOK
<1>2. monotone % TsSpan = monotone
  BY <1>1, OccConstants DEF NoWrap, OccConstants
<1>3. commitTs'[t] = [epoch |-> currEpoch[t], low |-> monotone]
  BY <1>1, <1>2 DEF GenerateMonotoneTimestamp
<1>4. held[t] \subseteq Record /\ Writes(t) \subseteq Record
  BY <1>0 DEF TypeOK, Writes, Accessed
<1>5. ASSUME NEW r \in held[t] PROVE TsLess(ts[r], commitTs'[t])
  <2>1. ts[r].epoch <= currEpoch[t] /\ ts[r].low < monotone
    BY <1>1, <1>4 DEF TsOrder, Issued
  <2>2. ts[r].epoch \in Nat
    BY <1>0, <1>4 DEF TypeOK, Timestamp
  <2> QED
    BY <1>1, <1>3, <2>1, <2>2 DEF TsLess
<1>6. ASSUME NEW r \in Writes(t) PROVE TsLess(readTs[r], commitTs'[t])
  <2>1. readTs[r].epoch <= currEpoch[t] /\ readTs[r].low < monotone
    BY <1>1, <1>4 DEF ReadersOrder, Issued
  <2>2. readTs[r].epoch \in Nat
    BY <1>0, <1>4 DEF TypeOK, Timestamp
  <2> QED
    BY <1>1, <1>3, <2>1, <2>2 DEF TsLess
<1>7. Issued(commitTs[t])' /\ commitTs'[t] \in Timestamp
  <2>1. currEpoch[t] <= epoch
    BY <1>1 DEF TsOrder
  <2> QED
    BY <1>1, <1>3, <2>1 DEF Issued, Timestamp
<1> QED
  BY <1>5, <1>6, <1>7

(***************************************************************************)
(* Every step preserves ReadersOrder.                                      *)
(***************************************************************************)
LEMMA NextReaders ==
  ASSUME LockInv, TsOrder, ReadersOrder, NoWrap', [Next]_vars
  PROVE  ReadersOrder'
<1>0. TypeOK
  BY DEF LockInv
<1>1. ASSUME NEW t \in Thread, Step(t), ~GetEpoch(t), ~GetMonotoneTimestamp(t)
      PROVE  ReadersOrder'
  <2>1. readTs' = readTs /\ epoch' = epoch /\ monotone' = monotone
    BY <1>1 DEF Step, Execute, Select, SelectRecordCC, InsertRecord, ReadColumn,
       CommitTransaction, AcquireLock, Validate, Install, CopyFrom, SetVisible,
       SetTimestamp, EndInstall, ReleaseLock, ReturnCommitted, ReturnAborted,
       shared
  <2>2. \A u \in Thread : u # t => Unmoved(u)
    BY <1>0, <1>1, OthersUnmoved
  <2>3. CASE Install(t)
    <3>1. /\ pc[t] = "install" /\ pc'[t] # "timestamp"
          /\ access' = access /\ commitTs' = commitTs
          /\ installed[t] \subseteq installed'[t]
      BY <1>0, <2>3 DEF Install, CopyFrom, SetVisible, SetTimestamp, EndInstall,
         shared, txn, TypeOK
    <3> QED
      BY <2>1, <2>2, <3>1, ReadersFrame
  <2>4. CASE ~Install(t)
    <3>1. pc'[t] \notin {"timestamp", "install"}
      BY <1>0, <1>1, <2>4 DEF Step, Execute, Select, SelectRecordCC,
         InsertRecord, ReadColumn, CommitTransaction, AcquireLock, Validate,
         ReleaseLock, ReturnCommitted, ReturnAborted, TypeOK
    <3> QED
      BY <2>1, <2>2, <3>1, ReadersFrame
  <2> QED
    BY <2>3, <2>4
<1>2. ASSUME NEW t \in Thread, GetEpoch(t) PROVE ReadersOrder'
  <2>1. /\ pc'[t] = "timestamp" /\ currEpoch'[t] = epoch
        /\ readTs' = readTs /\ epoch' = epoch /\ monotone' = monotone
        /\ access' = access /\ installed' = installed /\ commitTs' = commitTs
        /\ \A u \in Thread : u # t => /\ pc'[u] = pc[u]
                                      /\ currEpoch'[u] = currEpoch[u]
    BY <1>0, <1>2 DEF GetEpoch, shared, TypeOK
  <2>2. \A r \in Writes(t) : readTs[r].epoch <= epoch
    BY DEF ReadersOrder, Issued, Writes, Accessed
  <2> QED
    BY <2>1, <2>2 DEF ReadersOrder, Issued, Writes, Accessed
<1>3. ASSUME NEW t \in Thread, GetMonotoneTimestamp(t) PROVE ReadersOrder'
  <2>1. /\ pc[t] = "timestamp" /\ pc'[t] = "install"
        /\ epoch' = epoch /\ currEpoch' = currEpoch /\ monotone' = monotone + 1
        /\ access' = access /\ held' = held /\ installed' = installed
        /\ readTs' = [r \in Record |->
             IF r \in Reads(t) /\ TsLess(readTs[r], commitTs'[t])
             THEN commitTs'[t] ELSE readTs[r]]
        /\ \A u \in Thread : u # t => /\ pc'[u] = pc[u]
                                      /\ commitTs'[u] = commitTs[u]
    BY <1>0, <1>3 DEF GetMonotoneTimestamp, TypeOK
  <2>2. /\ \A r \in Writes(t) : TsLess(readTs[r], commitTs'[t])
        /\ Issued(commitTs[t])'
    BY <1>3, DrawnTimestamp
  <2>3. /\ held[t] = Accessed(t) /\ Reads(t) \subseteq Accessed(t)
        /\ \A u \in Thread : pc[u] \in {"timestamp", "install"} =>
             Writes(u) \subseteq held[u]
    BY <2>1 DEF LockInv, HeldInCommit, Writes, Reads, Accessed, NoAccess
  <2>4. ASSUME NEW r \in Record PROVE Issued(readTs[r])'
    <3>1. CASE readTs'[r] = readTs[r]
      <4>1. readTs[r].low \in Nat /\ monotone \in Nat
        BY <1>0 DEF TypeOK, Timestamp
      <4> QED
        BY <2>1, <3>1, <4>1 DEF ReadersOrder, Issued
    <3>2. CASE readTs'[r] = commitTs'[t]
      BY <2>2, <3>2 DEF Issued
    <3> QED
      BY <2>1, <3>1, <3>2
  <2>5. ASSUME NEW u \in Thread, u # t, pc[u] \in {"timestamp", "install"},
               NEW r \in Writes(u)
        PROVE  readTs'[r] = readTs[r]
    <3>1. r \in Record /\ r \in held[u] /\ access[u][r] # "READ_ONLY"
      BY <2>3, <2>5 DEF Writes, Accessed
    <3>2. r \notin held[t]
      BY <2>5, <3>1, WriterAlone
    <3> QED
      BY <2>1, <2>3, <3>1, <3>2
  <2>6. ASSUME NEW r \in Writes(t) PROVE TsLeq(readTs'[r], commitTs'[t])
    <3>1. r \in Record
      BY DEF Writes, Accessed
    <3> QED
      BY <2>1, <2>2, <3>1 DEF TsLeq
  <2>7. \A u \in Thread : Writes(u)' = Writes(u)
    BY <2>1 DEF Writes, Accessed
  <2>8. ASSUME NEW u \in Thread, pc'[u] = "timestamp", NEW r \in Writes(u)
        PROVE  readTs'[r].epoch <= currEpoch'[u]
    BY <2>1, <2>5, <2>8 DEF ReadersOrder
  <2>9. ASSUME NEW u \in Thread, pc'[u] = "install",
               NEW r \in Writes(u) \ installed[u]
        PROVE  TsLeq(readTs'[r], commitTs'[u])
    BY <2>1, <2>5, <2>6, <2>9 DEF ReadersOrder
  <2> QED
    BY <2>1, <2>4, <2>7, <2>8, <2>9 DEF ReadersOrder
<1>4. CASE AdvanceEpoch \/ UNCHANGED vars
  <2>1. /\ readTs' = readTs /\ monotone' = monotone /\ pc' = pc
        /\ access' = access /\ installed' = installed /\ commitTs' = commitTs
        /\ currEpoch' = currEpoch /\ epoch' \in {epoch, epoch + 1}
    BY <1>4 DEF AdvanceEpoch, vars, shared, txn
  <2>2. ASSUME NEW r \in Record PROVE Issued(readTs[r])'
    <3>1. readTs[r].epoch \in Nat /\ epoch \in Nat
      BY <1>0 DEF TypeOK, Timestamp
    <3> QED
      BY <2>1, <3>1 DEF ReadersOrder, Issued
  <2> QED
    BY <2>1, <2>2 DEF ReadersOrder, Writes, Accessed
<1> QED
  BY <1>1, <1>2, <1>3, <1>4 DEF Next, Joined

(***************************************************************************)
(* Initially nobody has drawn a commit timestamp.                          *)
(***************************************************************************)
LEMMA InitReaders == Init => ReadersInv
BY DEF Init, ReadersInv, ReadersOrder, Issued, ZeroTs

(***************************************************************************)
(* Commit timestamps serialize conflicting transactions, until the low     *)
(* half wraps around: a reader's timestamp exceeds that of the version it  *)
(* has read, which is current then, and a version is installed under a     *)
(* timestamp no smaller than those of the readers of the one before.       *)
(***************************************************************************)
THEOREM ConflictsOrdered == Spec /\ []NoWrap => ConflictsInTsOrder
<1>1. LockInv /\ SnapshotInv /\ ReadersInv /\ [Next]_vars => ReadersInv'
  <2> SUFFICES ASSUME LockInv, SnapshotInv, ReadersInv, [Next]_vars, NoWrap'
               PROVE  ReadersOrder'
    BY DEF ReadersInv
  <2>1. NoWrap
    BY NoWrapBefore DEF LockInv
  <2> QED
    BY <2>1, NextReaders DEF SnapshotInv, ReadersInv
<1>2. ASSUME LockInv, SnapshotInv, ReadersInv, NoWrap, NoWrap', [Next]_vars
      PROVE  /\ \A t \in Thread : pc[t] = "timestamp" /\ pc'[t] = "install" =>
                  \A r \in Reads(t) : /\ ts[r] = accessTs[t][r]
                                     /\ TsLess(ts[r], commitTs'[t])
             /\ \A r \in Record : ts'[r] # ts[r] => ~TsLess(ts'[r], readTs[r])
  <2>0. TypeOK /\ TsOrder /\ Validated /\ ReadersOrder
    BY <1>2 DEF LockInv, SnapshotInv, ReadersInv
  <2>1. ASSUME NEW t \in Thread, pc[t] = "timestamp", pc'[t] = "install",
               NEW r \in Reads(t)
        PROVE  ts[r] = accessTs[t][r] /\ TsLess(ts[r], commitTs'[t])
    <3>1. Step(t)
      <4>1. pc'[t] # pc[t]
        BY <2>1
      <4>2. ASSUME NEW u \in Thread, u # t, Step(u) PROVE FALSE
        BY <2>0, <4>1, <4>2, OthersUnmoved DEF Unmoved
      <4> QED
        BY <1>2, <4>1, <4>2 DEF Next, Joined, AdvanceEpoch, vars
    <3>2. GetMonotoneTimestamp(t)
      BY <2>1, <3>1 DEF Step, Execute, Select, SelectRecordCC, InsertRecord,
         ReadColumn, CommitTransaction, AcquireLock, Validate, GetEpoch,
         Install, CopyFrom, SetVisible, SetTimestamp, EndInstall, ReleaseLock,
         ReturnCommitted, ReturnAborted
    <3>3. r \in held[t]
      BY <1>2, <2>1 DEF LockInv, HeldInCommit, Reads, Accessed, NoAccess
    <3> QED
      BY <1>2, <2>0, <2>1, <3>2, <3>3, DrawnTimestamp DEF Validated
  <2>2. ASSUME NEW r \in Record, ts'[r] # ts[r]
        PROVE  ~TsLess(ts'[r], readTs[r])
    <3>1. PICK u \in Thread : SetTimestamp(u, r)
      BY <1>2, <2>2, TimestampSetter
    <3>2. pc[u] = "install" /\ NextToInstall(u, r) /\ ts'[r] = commitTs[u]
      BY <2>0, <3>1 DEF SetTimestamp, TypeOK
    <3>3. r \in Writes(u) \ installed[u]
      BY <1>2, <3>2, InstallsHeld
    <3>4. TsLeq(readTs[r], ts'[r])
      BY <2>0, <3>2, <3>3 DEF ReadersOrder
    <3>5. readTs[r] \in Timestamp /\ ts'[r] \in Timestamp
      BY <2>0, <3>2 DEF TypeOK
    <3> QED
      BY <3>4, <3>5 DEF TsLeq, TsLess, Timestamp
  <2> QED
    BY <2>1, <2>2
<1>3. LockInv /\ SnapshotInv /\ ReadersInv /\ NoWrap /\ NoWrap' /\ [Next]_vars =>
        [/\ \A t \in Thread : pc[t] = "timestamp" /\ pc'[t] = "install" =>
              \A r \in Reads(t) : /\ ts[r] = accessTs[t][r]
                                 /\ TsLess(ts[r], commitTs'[t])
         /\ \A r \in Record : ts'[r] # ts[r] => ~TsLess(ts'[r], readTs[r])]_vars
  BY <1>2
<1> QED
  BY InitReaders, SnapshotInvariant, <1>1, <1>3, PTL DEF Spec, ConflictsInTsOrder
=============================================================================
