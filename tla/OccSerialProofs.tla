--------------------------- MODULE OccSerialProofs ---------------------------
(***************************************************************************)
(* Occ implements the serial store, for every number of threads, records   *)
(* and columns: a transaction takes effect when its last access is         *)
(* validated.                                                              *)
(*                                                                         *)
(* As in OccProofs, the low 32 bits of the commit timestamps must  *)
(* not have wrapped around.                                                *)
(***************************************************************************)
EXTENDS OccProofs

-----------------------------------------------------------------------------
(***************************************************************************)
(* A record holds what t writes to it.                                     *)
(***************************************************************************)
Written(t, r) ==
  /\ r \in Updates(t) => \A c \in Column : word[r][c] = local[t][r]
  /\ r \notin Updates(t) => visible[r] = (access[t][r] = "INSERT_ONLY")

(***************************************************************************)
(* How far the install loop of t has come: the records behind it hold what *)
(* t writes, and so do the columns it has stored of the record it is at.   *)
(***************************************************************************)
InstallAgrees(t) ==
  /\ installed[t] \subseteq Writes(t)
  /\ pc[t] \notin {"install", "release"} => installed[t] = {}
  /\ pc[t] = "release" => installed[t] = Writes(t)
  /\ stored[t] # {} => pc[t] = "install" /\ \E r \in Record : NextToInstall(t, r)
  /\ \A r \in held[t] \cap installed[t] : Written(t, r)
  /\ pc[t] = "install" => \A r \in Record : NextToInstall(t, r) =>
       /\ r \in Updates(t) => \A c \in stored[t] : word[r][c] = local[t][r]
       /\ r \notin Updates(t) /\ stored[t] # {} =>
            visible[r] = (access[t][r] = "INSERT_ONLY")

(***************************************************************************)
(* Only updates have a local copy.                                         *)
(***************************************************************************)
LocalOnly ==
  \A t \in Thread : ~Outside(t) =>
    \A r \in Record \ Updates(t) : local[t][r] = NoLocal

(***************************************************************************)
(* The columns of a record differ only while an update is copied into it.  *)
(***************************************************************************)
HalfCopied(r) ==
  \E u \in Thread : /\ pc[u] = "install" /\ NextToInstall(u, r)
                    /\ r \in Updates(u) /\ stored[u] # {}

Uniform ==
  \A r \in Record : ~HalfCopied(r) =>
    \A c, d \in Column : word[r][c] = word[r][d]

InstallInv == (\A t \in Thread : InstallAgrees(t)) /\ LocalOnly /\ Uniform

(***************************************************************************)
(* Initially nobody installs and every record is uniform.                  *)
(***************************************************************************)
LEMMA InitInstall == Init => InstallInv
<1> SUFFICES ASSUME Init PROVE InstallInv
  OBVIOUS
<1>1. ASSUME NEW t \in Thread PROVE InstallAgrees(t)
  BY DEF Init, InstallAgrees, Writes, Accessed
<1>2. LocalOnly /\ Uniform
  BY DEF Init, LocalOnly, Uniform, Outside
<1> QED
  BY <1>1, <1>2 DEF InstallInv

(***************************************************************************)
(* Only the install loop of a thread stores something, in a record that it *)
(* has write-locked.                                                       *)
(***************************************************************************)
LEMMA StoresAtInstall ==
  ASSUME LockInv, NEW u \in Thread, Step(u), NEW r \in Record,
         word'[r] # word[r] \/ visible'[r] # visible[r]
  PROVE  /\ pc[u] = "install" /\ NextToInstall(u, r)
         /\ r \in held[u] /\ access[u][r] # "READ_ONLY"
<1>0. TypeOK
  BY DEF LockInv
<1>1. PICK q \in Record : (\E c \in Column : CopyFrom(u, q, c)) \/ SetVisible(u, q)
  BY DEF Step, Execute, Select, SelectRecordCC, InsertRecord, ReadColumn,
     CommitTransaction, AcquireLock, Validate, GetEpoch, GetMonotoneTimestamp,
     Install, SetTimestamp, EndInstall, ReleaseLock, ReturnCommitted,
     ReturnAborted, shared
<1>2. pc[u] = "install" /\ NextToInstall(u, q)
  BY <1>1 DEF CopyFrom, SetVisible
<1>3. q = r
  BY <1>0, <1>1 DEF CopyFrom, SetVisible, TypeOK
<1> QED
  BY <1>2, <1>3, InstallsHeld

(***************************************************************************)
(* A thread does not touch the private copies of another one.              *)
(***************************************************************************)
LEMMA LocalsUnmoved ==
  ASSUME TypeOK, NEW t \in Thread, Step(t), NEW u \in Thread, u # t
  PROVE  local'[u] = local[u]
BY DEF TypeOK, Step, Execute, Select, SelectRecordCC, InsertRecord, ReadColumn,
       CommitTransaction, AcquireLock, Validate, GetEpoch, GetMonotoneTimestamp,
       Install, CopyFrom, SetVisible, SetTimestamp, EndInstall, ReleaseLock,
       ReturnCommitted, ReturnAborted, ClearAccess, txn

(***************************************************************************)
(* What another thread stores does not concern t: it holds no lock there.  *)
(***************************************************************************)
LEMMA OthersInstall ==
  ASSUME LockInv, NEW u \in Thread, Step(u), NEW t \in Thread, t # u,
         InstallAgrees(t)
  PROVE  InstallAgrees(t)'
<1>1. TypeOK /\ Unmoved(t) /\ local'[t] = local[t]
  BY OthersUnmoved, LocalsUnmoved DEF LockInv
<1>2. ASSUME NEW r \in Record, r \in held[t]
      PROVE  word'[r] = word[r] /\ visible'[r] = visible[r]
  BY <1>2, StoresAtInstall, WriterAlone
<1>3. \A r \in Record : NextToInstall(t, r)' <=> NextToInstall(t, r)
  BY <1>1 DEF Unmoved, NextToInstall, Writes, Accessed
<1>4. /\ Updates(t)' = Updates(t) /\ Writes(t)' = Writes(t)
      /\ held[t] \subseteq Record
  BY <1>1 DEF Unmoved, Updates, Writes, Accessed, TypeOK
<1>5. \A r \in held[t] \cap installed[t] : Written(t, r)'
  BY <1>1, <1>2, <1>4 DEF InstallAgrees, Written, Unmoved
<1>6. \A r \in Record : pc[t] = "install" /\ NextToInstall(t, r) => r \in held[t]
  BY InstallsHeld
<1> QED
  BY <1>1, <1>2, <1>3, <1>4, <1>5, <1>6 DEF InstallAgrees, Unmoved

(***************************************************************************)
(* The install loop itself.                                                *)
(***************************************************************************)
LEMMA OwnInstall ==
  ASSUME LockInv, NEW t \in Thread, Step(t), InstallAgrees(t)
  PROVE  InstallAgrees(t)'
<1>0. TypeOK /\ held[t] \subseteq Record /\ Column # {}
  BY OccConstants DEF LockInv, TypeOK, OccConstants
<1>1. ASSUME NEW r \in Record, NEW c \in Column, CopyFrom(t, r, c)
      PROVE  InstallAgrees(t)'
  <2>1. /\ pc[t] = "install" /\ NextToInstall(t, r) /\ r \in Updates(t)
        /\ word' = [word EXCEPT ![r][c] = local[t][r]]
        /\ stored'[t] = stored[t] \cup {c}
        /\ UNCHANGED <<visible, pc, access, local, held, installed>>
    BY <1>0, <1>1 DEF CopyFrom, TypeOK
  <2>2. \A q \in Record : NextToInstall(t, q) => q = r
    BY <2>1, InstallsHeld
  <2>3. r \notin installed[t]
    BY <2>1, InstallsHeld
  <2>4. /\ \A q \in Record : q # r => word'[q] = word[q]
        /\ word'[r][c] = local[t][r]
        /\ \A d \in Column : d # c => word'[r][d] = word[r][d]
    BY <1>0, <2>1 DEF TypeOK
  <2>5. /\ Updates(t)' = Updates(t) /\ Writes(t)' = Writes(t)
        /\ \A q \in Record : NextToInstall(t, q)' <=> NextToInstall(t, q)
    BY <2>1 DEF Updates, Writes, Accessed, NextToInstall
  <2>6. \A q \in held[t] \cap installed[t] : Written(t, q)'
    BY <1>0, <2>1, <2>3, <2>4, <2>5 DEF InstallAgrees, Written
  <2>7. \A d \in stored'[t] : word'[r][d] = local[t][r]
    BY <1>0, <2>1, <2>4 DEF InstallAgrees, TypeOK
  <2> QED
    BY <2>1, <2>2, <2>5, <2>6, <2>7 DEF InstallAgrees
<1>2. ASSUME NEW r \in Record, SetVisible(t, r) PROVE InstallAgrees(t)'
  <2>1. /\ pc[t] = "install" /\ NextToInstall(t, r) /\ r \notin Updates(t)
        /\ visible' = [visible EXCEPT ![r] = (access[t][r] = "INSERT_ONLY")]
        /\ UNCHANGED <<word, pc, access, local, held, installed>>
    BY <1>2 DEF SetVisible
  <2>2. \A q \in Record : NextToInstall(t, q) => q = r
    BY <2>1, InstallsHeld
  <2>3. r \notin installed[t]
    BY <2>1, InstallsHeld
  <2>4. /\ \A q \in Record : q # r => visible'[q] = visible[q]
        /\ visible'[r] = (access[t][r] = "INSERT_ONLY")
    BY <1>0, <2>1 DEF TypeOK
  <2>5. /\ Updates(t)' = Updates(t) /\ Writes(t)' = Writes(t)
        /\ \A q \in Record : NextToInstall(t, q)' <=> NextToInstall(t, q)
    BY <2>1 DEF Updates, Writes, Accessed, NextToInstall
  <2>6. \A q \in held[t] \cap installed[t] : Written(t, q)'
    BY <1>0, <2>1, <2>3, <2>4, <2>5 DEF InstallAgrees, Written
  <2> QED
    BY <2>1, <2>2, <2>4, <2>5, <2>6 DEF InstallAgrees
<1>3. ASSUME NEW r \in Record, SetTimestamp(t, r) PROVE InstallAgrees(t)'
  <2>1. /\ pc[t] = "install" /\ NextToInstall(t, r) /\ stored[t] = Column
        /\ installed'[t] = installed[t] \cup {r} /\ stored'[t] = {}
        /\ UNCHANGED <<word, visible, pc, access, local, held>>
    BY <1>0, <1>3 DEF SetTimestamp, TypeOK
  <2>2. r \in Writes(t)
    BY <2>1, InstallsHeld
  <2>3. /\ Updates(t)' = Updates(t) /\ Writes(t)' = Writes(t)
    BY <2>1 DEF Updates, Writes, Accessed
  <2>4. Written(t, r)
    BY <1>0, <2>1 DEF InstallAgrees, Written
  <2>5. \A q \in held[t] \cap installed'[t] : Written(t, q)'
    BY <2>1, <2>3, <2>4 DEF InstallAgrees, Written
  <2> QED
    BY <2>1, <2>2, <2>3, <2>5 DEF InstallAgrees
<1>4. CASE EndInstall(t)
  <2>1. /\ pc[t] = "install" /\ pc'[t] = "release" /\ Writes(t) = installed[t]
        /\ UNCHANGED <<word, visible, access, local, held, installed, stored>>
    BY <1>0, <1>4 DEF EndInstall, shared, txn, TypeOK
  <2>2. \A r \in Record : ~NextToInstall(t, r)
    BY <2>1 DEF NextToInstall, IsFirst
  <2> QED
    BY <2>1, <2>2 DEF InstallAgrees, Written, Updates, Writes, Accessed
<1>5. CASE ReleaseLock(t)
  <2>1. /\ pc[t] \in {"release", "undo"} /\ held'[t] \subseteq held[t]
        /\ UNCHANGED <<pc, word, visible, access, local, installed, stored>>
    BY <1>0, <1>5 DEF ReleaseLock, TypeOK
  <2> QED
    BY <2>1 DEF InstallAgrees, Written, Updates, Writes, Accessed
<1>6. CASE ReturnCommitted(t) \/ ReturnAborted(t)
  <2>1. /\ pc[t] \in {"release", "undo"} /\ pc'[t] \in {"idle", "done"}
        /\ installed'[t] = {} /\ UNCHANGED stored
    BY <1>0, <1>6 DEF ReturnCommitted, ReturnAborted, ClearAccess, TypeOK
  <2> QED
    BY <2>1 DEF InstallAgrees
<1>7. CASE \/ Execute(t) \/ Select(t) \/ CommitTransaction(t)
           \/ AcquireLock(t) \/ Validate(t) \/ GetEpoch(t)
           \/ GetMonotoneTimestamp(t)
  <2>1. /\ pc[t] \notin {"install", "release"} /\ pc'[t] # "release"
        /\ UNCHANGED <<installed, stored>>
    BY <1>0, <1>7 DEF Execute, Select, SelectRecordCC, InsertRecord, ReadColumn,
       CommitTransaction, AcquireLock, Validate, GetEpoch, GetMonotoneTimestamp,
       txn, TypeOK
  <2> QED
    BY <2>1 DEF InstallAgrees
<1> QED
  BY <1>1, <1>2, <1>3, <1>4, <1>5, <1>6, <1>7 DEF Step, Install

(***************************************************************************)
(* Through the commit, private copies exist only of the records that the   *)
(* transaction updates.                                                    *)
(***************************************************************************)
LEMMA NextLocalOnly ==
  ASSUME LockInv, LocalOnly, [Next]_vars PROVE LocalOnly'
<1>0. TypeOK
  BY DEF LockInv
<1>1. ASSUME NEW t \in Thread, Step(t), ~Outside(t)', NEW r \in Record,
             r \notin Updates(t)'
      PROVE  local'[t][r] = NoLocal
  <2>1. CASE CommitTransaction(t)
    <3>1. /\ access' = access
          /\ \E update \in [Updates(t) -> Value] :
               local' = [local EXCEPT ![t] = [q \in Record |->
                           IF q \in Updates(t) THEN update[q] ELSE NoLocal]]
      BY <2>1 DEF CommitTransaction
    <3>2. r \notin Updates(t)
      BY <1>1, <3>1 DEF Updates
    <3> QED
      BY <1>0, <3>1, <3>2 DEF TypeOK
  <2>2. CASE ~CommitTransaction(t)
    <3>1. ~Outside(t) /\ local' = local /\ access' = access
      BY <1>0, <1>1, <2>2
         DEF Step, Execute, Select, SelectRecordCC, InsertRecord, ReadColumn,
             AcquireLock, Validate, GetEpoch, GetMonotoneTimestamp, Install,
             CopyFrom, SetVisible, SetTimestamp, EndInstall, ReleaseLock,
             ReturnCommitted, ReturnAborted, txn, Outside, TypeOK
    <3> QED
      BY <1>1, <3>1 DEF LocalOnly, Updates
  <2> QED
    BY <2>1, <2>2
<1>2. ASSUME NEW t \in Thread, Step(t), NEW u \in Thread, u # t, ~Outside(u)',
             NEW r \in Record, r \notin Updates(u)'
      PROVE  local'[u][r] = NoLocal
  <2>1. Unmoved(u) /\ local'[u] = local[u]
    BY <1>0, <1>2, OthersUnmoved, LocalsUnmoved
  <2> QED
    BY <1>2, <2>1 DEF Unmoved, LocalOnly, Outside, Updates
<1>3. CASE AdvanceEpoch \/ UNCHANGED vars
  BY <1>3 DEF AdvanceEpoch, vars, txn, LocalOnly, Outside, Updates
<1> QED
  BY <1>1, <1>2, <1>3 DEF Next, Joined, LocalOnly

(***************************************************************************)
(* The timestamp of a record is set when all its columns are stored, and   *)
(* they are alike then.                                                    *)
(***************************************************************************)
LEMMA CopyHalves ==
  ASSUME LockInv, NEW u \in Thread, NEW r \in Record, NEW d \in Column,
         CopyFrom(u, r, d)
  PROVE  HalfCopied(r)'
<1>1. /\ pc[u] = "install" /\ NextToInstall(u, r) /\ r \in Updates(u)
      /\ stored'[u] # {} /\ UNCHANGED <<pc, access, installed>>
  BY DEF CopyFrom, LockInv, TypeOK
<1> QED
  BY <1>1 DEF HalfCopied, NextToInstall, Updates, Writes, Accessed

(***************************************************************************)
(* No step leaves a record half copied unless its installer still has      *)
(* columns of it to copy.                                                  *)
(***************************************************************************)
LEMMA NextUniform ==
  ASSUME LockInv, InstallInv, [Next]_vars PROVE Uniform'
<1>0. TypeOK /\ Uniform /\ \A t \in Thread : InstallAgrees(t)
  BY DEF LockInv, InstallInv
<1>1. ASSUME NEW u \in Thread, Step(u), NEW r \in Record, ~HalfCopied(r)',
             NEW c \in Column, NEW d \in Column
      PROVE  word'[r][c] = word'[r][d]
  <2>1. \A e \in Column : ~CopyFrom(u, r, e)
    BY <1>1, CopyHalves
  <2>2. word'[r] = word[r]
    <3>1. ASSUME NEW q \in Record, NEW e \in Column, CopyFrom(u, q, e)
          PROVE  word'[r] = word[r]
      BY <1>0, <2>1, <3>1 DEF CopyFrom, TypeOK
    <3>2. ASSUME ~ \E q \in Record, e \in Column : CopyFrom(u, q, e)
          PROVE  word' = word
      BY <1>1, <3>2
         DEF Step, Execute, Select, SelectRecordCC, InsertRecord, ReadColumn,
             CommitTransaction, AcquireLock, Validate, GetEpoch,
             GetMonotoneTimestamp, Install, SetVisible, SetTimestamp,
             EndInstall, ReleaseLock, ReturnCommitted, ReturnAborted, shared
    <3> QED
      BY <3>1, <3>2
  <2>3. CASE ~HalfCopied(r)
    BY <1>0, <2>2, <2>3 DEF Uniform
  <2>4. CASE HalfCopied(r)
    <3>1. PICK v \in Thread : /\ pc[v] = "install" /\ NextToInstall(v, r)
                              /\ r \in Updates(v) /\ stored[v] # {}
      BY <2>4 DEF HalfCopied
    <3>2. v = u
      <4>1. SUFFICES ASSUME v # u PROVE FALSE
        OBVIOUS
      <4>2. Unmoved(v)
        BY <1>0, <1>1, <4>1, OthersUnmoved
      <4> QED
        BY <1>1, <3>1, <4>2
           DEF Unmoved, HalfCopied, NextToInstall, Updates, Writes, Accessed
    <3>3. SetTimestamp(u, r)
      <4>1. PICK q \in Record, e \in Column :
              \/ CopyFrom(u, q, e) \/ SetVisible(u, q) \/ SetTimestamp(u, q)
              \/ EndInstall(u)
        BY <1>1, <3>1, <3>2, OccConstants
           DEF OccConstants, Step, Execute, Select, SelectRecordCC, InsertRecord,
               ReadColumn, CommitTransaction, AcquireLock, Validate, GetEpoch,
               GetMonotoneTimestamp, Install, ReleaseLock, ReturnCommitted,
               ReturnAborted
      <4>2. /\ r \in Writes(u) \ installed[u]
            /\ \A p \in Record : NextToInstall(u, p) => p = r
        BY <3>1, <3>2, InstallsHeld
      <4> QED
        BY <2>1, <3>1, <3>2, <4>1, <4>2
           DEF CopyFrom, SetVisible, SetTimestamp, EndInstall
    <3>4. stored[u] = Column
      BY <3>3 DEF SetTimestamp
    <3> QED
      BY <1>0, <2>2, <3>1, <3>2, <3>4 DEF InstallAgrees
  <2> QED
    BY <2>3, <2>4
<1>2. CASE AdvanceEpoch \/ UNCHANGED vars
  <2>1. /\ word' = word /\ pc' = pc /\ access' = access
        /\ stored' = stored /\ installed' = installed
    BY <1>2 DEF AdvanceEpoch, vars, shared, txn
  <2>2. \A r \in Record : HalfCopied(r)' <=> HalfCopied(r)
    BY <2>1 DEF HalfCopied, NextToInstall, Updates, Writes, Accessed
  <2> QED
    BY <1>0, <2>1, <2>2 DEF Uniform
<1> QED
  BY <1>1, <1>2 DEF Next, Joined, Uniform

(***************************************************************************)
(* Every step of OCC keeps the three parts of InstallInv.                  *)
(***************************************************************************)
LEMMA NextInstall == LockInv /\ InstallInv /\ [Next]_vars => InstallInv'
<1> SUFFICES ASSUME LockInv, InstallInv, [Next]_vars PROVE InstallInv'
  OBVIOUS
<1>1. ASSUME NEW u \in Thread, Step(u), NEW t \in Thread PROVE InstallAgrees(t)'
  BY <1>1, OwnInstall, OthersInstall DEF InstallInv
<1>2. ASSUME AdvanceEpoch \/ UNCHANGED vars, NEW t \in Thread
      PROVE  InstallAgrees(t)'
  <2>1. /\ word' = word /\ visible' = visible /\ pc' = pc /\ access' = access
        /\ local' = local /\ held' = held /\ stored' = stored
        /\ installed' = installed
    BY <1>2 DEF AdvanceEpoch, vars, shared, txn
  <2>2. Updates(t)' = Updates(t) /\ Writes(t)' = Writes(t)
    BY <2>1 DEF Updates, Writes, Accessed
  <2>3. \A r : /\ NextToInstall(t, r)' = NextToInstall(t, r)
              /\ Written(t, r)' = Written(t, r)
    BY <2>1, <2>2 DEF NextToInstall, IsFirst, Written
  <2>4. InstallAgrees(t)
    BY DEF InstallInv
  <2>5. /\ installed'[t] \subseteq Writes(t)'
        /\ pc'[t] \notin {"install", "release"} => installed'[t] = {}
        /\ pc'[t] = "release" => installed'[t] = Writes(t)'
    BY <2>1, <2>2, <2>4 DEF InstallAgrees
  <2>6. /\ stored'[t] # {} =>
             pc'[t] = "install" /\ \E r \in Record : NextToInstall(t, r)'
        /\ \A r \in held'[t] \cap installed'[t] : Written(t, r)'
    BY <2>1, <2>3, <2>4 DEF InstallAgrees
  <2>7. ASSUME NEW r \in Record, pc'[t] = "install", NextToInstall(t, r)'
        PROVE  /\ r \in Updates(t)' =>
                    \A c \in stored'[t] : word'[r][c] = local'[t][r]
               /\ r \notin Updates(t)' /\ stored'[t] # {} =>
                    visible'[r] = (access'[t][r] = "INSERT_ONLY")
    BY <2>1, <2>2, <2>3, <2>4, <2>7 DEF InstallAgrees
  <2> QED
    BY <2>5, <2>6, <2>7 DEF InstallAgrees
<1>3. \A t \in Thread : InstallAgrees(t)'
  BY <1>1, <1>2 DEF Next, Joined
<1>4. LocalOnly' /\ Uniform'
  BY NextLocalOnly, NextUniform DEF InstallInv
<1> QED
  BY <1>3, <1>4 DEF InstallInv

-----------------------------------------------------------------------------
(***************************************************************************)
(* The store of the serial specification.                                  *)
(***************************************************************************)
Outcome == [t \in Thread |-> SerialOutcome(t)]
Store   == [r \in Record |-> SerialRecord(r)]

(***************************************************************************)
(* What t writes to r replaces the content of r.                           *)
(***************************************************************************)
Replaced(s, w) ==
  [value |-> IF w.value = Kept THEN s.value ELSE w.value,
   live  |-> IF w.live = Kept THEN s.live ELSE w.live]

(***************************************************************************)
(* What the store holds in a record: what is being installed there, or     *)
(* what is there.                                                          *)
(***************************************************************************)
RecordCases(r) ==
  /\ Installer(r) = {} => SerialRecord(r) = Stored(r)
  /\ \A t \in Installer(r) : SerialRecord(r) = Replaced(Stored(r), Wrote(t, r))

(***************************************************************************)
(* The CHOOSE of SerialRecord has one candidate at most, a writer excludes *)
(* all others: the abstract record is what is stored, or what the          *)
(* installer of it wrote.                                                  *)
(***************************************************************************)
LEMMA SerialRecordCases == LockInv => \A r \in Record : RecordCases(r)
<1> SUFFICES ASSUME LockInv, NEW r \in Record PROVE RecordCases(r)
  OBVIOUS
<1>1. \A t, u \in Installer(r) : t = u
  BY DEF Installer, LockInv, LockAgreement, LockAgreementOf
<1>2. ASSUME NEW t \in Installer(r)
      PROVE  SerialRecord(r) = Replaced(Stored(r), Wrote(t, r))
  <2>1. (CHOOSE u \in Installer(r) : TRUE) = t
    BY <1>1
  <2> QED
    BY <2>1 DEF SerialRecord, Replaced
<1> QED
  BY <1>2 DEF SerialRecord, RecordCases

(***************************************************************************)
(* The same of the next state.                                             *)
(***************************************************************************)
LEMMA NextRecordCases == LockInv' => (\A r \in Record : RecordCases(r))'
BY SerialRecordCases, PTL

(***************************************************************************)
(* Both stores agree before and after a step that leaves a record, who     *)
(* installs it and what he writes there alone.                             *)
(***************************************************************************)
LEMMA RecordKept ==
  ASSUME LockInv, LockInv', NEW r \in Record,
         word'[r] = word[r], visible'[r] = visible[r],
         Installer(r)' = Installer(r),
         \A t \in Installer(r) : access'[t] = access[t] /\ local'[t] = local[t]
  PROVE  SerialRecord(r)' = SerialRecord(r)
<1>1. RecordCases(r) /\ RecordCases(r)'
  BY SerialRecordCases, NextRecordCases
<1>2. Stored(r)' = Stored(r)
  BY DEF Stored
<1>3. CASE Installer(r) = {}
  BY <1>1, <1>2, <1>3 DEF RecordCases
<1>4. ASSUME NEW t \in Installer(r) PROVE SerialRecord(r)' = SerialRecord(r)
  <2>1. Wrote(t, r)' = Wrote(t, r)
    BY <1>4 DEF Wrote
  <2>2. SerialRecord(r) = Replaced(Stored(r), Wrote(t, r))
    BY <1>1, <1>4 DEF RecordCases
  <2>3. SerialRecord(r)' = Replaced(Stored(r)', Wrote(t, r)')
    BY <1>1, <1>4 DEF RecordCases, Replaced
  <2> QED
    BY <1>2, <2>1, <2>2, <2>3
<1> QED
  BY <1>3, <1>4

(***************************************************************************)
(* The outcome of a transaction stands as long as its accesses, copies and *)
(* timestamps do.                                                          *)
(***************************************************************************)
LEMMA OutcomeKept ==
  ASSUME NEW t \in Thread, Committed(t)' <=> Committed(t),
         Committed(t) => /\ access'[t] = access[t] /\ local'[t] = local[t]
                         /\ seen'[t] = seen[t]
  PROVE  SerialOutcome(t)' = SerialOutcome(t)
<1>1. CASE Committed(t)
  <2>1. \A r \in Record : Wrote(t, r)' = Wrote(t, r)
    BY <1>1 DEF Wrote
  <2> QED
    BY <1>1, <2>1 DEF SerialOutcome
<1>2. CASE ~Committed(t)
  BY <1>2 DEF SerialOutcome, NoOutcome
<1> QED
  BY <1>1, <1>2

(***************************************************************************)
(* A step that stores nothing, and leaves the transactions that have       *)
(* committed alone, goes unnoticed.                                        *)
(***************************************************************************)
LEMMA Unnoticed ==
  ASSUME \A r \in Record : SerialRecord(r)' = SerialRecord(r),
         \A t \in Thread : SerialOutcome(t)' = SerialOutcome(t)
  PROVE  UNCHANGED Serial!vars
BY DEF Serial!vars

(***************************************************************************)
(* A step that stores nothing and commits nobody is a stutter of the       *)
(* serial store.                                                           *)
(***************************************************************************)
LEMMA Quiet ==
  ASSUME LockInv, LockInv', word' = word, visible' = visible,
         \A t \in Thread :
           /\ Committed(t)' <=> Committed(t)
           /\ Committed(t) => /\ access'[t] = access[t] /\ local'[t] = local[t]
                              /\ seen'[t] = seen[t] /\ held'[t] = held[t]
  PROVE  UNCHANGED Serial!vars
<1>1. ASSUME NEW r \in Record PROVE SerialRecord(r)' = SerialRecord(r)
  <2>1. Installer(r)' = Installer(r)
    BY DEF Installer, WriteHolders
  <2>2. \A t \in Installer(r) : access'[t] = access[t] /\ local'[t] = local[t]
    BY DEF Installer, WriteHolders
  <2> QED
    BY <2>1, <2>2, RecordKept
<1>2. \A t \in Thread : SerialOutcome(t)' = SerialOutcome(t)
  BY OutcomeKept
<1> QED
  BY <1>1, <1>2, Unnoticed

(***************************************************************************)
(* A transaction that takes effect at once: a Commit of the serial store,  *)
(* or nothing at all when it has neither read nor written.                 *)
(***************************************************************************)
LEMMA TakesEffect ==
  ASSUME NEW t \in Thread, SerialOutcome(t) = Serial!NoTxn,
         SerialOutcome(t)' \in Serial!Txn,
         \A u \in Thread : u # t => SerialOutcome(u)' = SerialOutcome(u),
         \A r \in Record, c \in Column :
           SerialOutcome(t)'.seen[r][c] \in {Unread, SerialRecord(r).value},
         \A r \in Record : SerialRecord(r)' =
           Replaced(SerialRecord(r), SerialOutcome(t)'.wrote[r])
  PROVE  [Serial!Next]_(Serial!vars)
<1> DEFINE x == SerialOutcome(t)'
<1>1. /\ Outcome[t] = Serial!NoTxn /\ Outcome'[t] = x
      /\ Outcome' = [Outcome EXCEPT ![t] = x]
  BY DEF Outcome
<1>2. CASE x # Serial!NoTxn
  <2>1. Serial!Commit(t)
    BY <1>1, <1>2
       DEF Serial!Commit, Serial!Current, Serial!Overwrite, Outcome, Replaced
  <2> QED
    BY <2>1 DEF Serial!Next
<1>3. CASE x = Serial!NoTxn
  <2>1. ASSUME NEW r \in Record PROVE SerialRecord(r)' = SerialRecord(r)
    <3>1. x.wrote[r] = [value |-> Kept, live |-> Kept]
      BY <1>3 DEF Serial!NoTxn
    <3>2. SerialRecord(r)' = [value |-> SerialRecord(r).value,
                              live  |-> SerialRecord(r).live]
      BY <3>1 DEF Replaced
    <3>3. SerialRecord(r) = [value |-> SerialRecord(r).value,
                             live  |-> SerialRecord(r).live]
      BY DEF SerialRecord, Stored
    <3> QED
      BY <3>2, <3>3
  <2>2. \A u \in Thread : SerialOutcome(u)' = SerialOutcome(u)
    BY <1>3
  <2> QED
    BY <2>1, <2>2, Unnoticed
<1> QED
  BY <1>2, <1>3

(***************************************************************************)
(* What a thread writes is of the type of the serial specification.        *)
(***************************************************************************)
LEMMA OutcomeType ==
  LockInv => \A t \in Thread : Committed(t) => SerialOutcome(t) \in Serial!Txn
<1> SUFFICES ASSUME LockInv, NEW t \in Thread, Committed(t)
             PROVE  SerialOutcome(t) \in Serial!Txn
  OBVIOUS
<1>1. seen[t] \in [Record -> [Column -> Value \cup {Unread}]]
  BY DEF LockInv, TypeOK
<1>2. ASSUME NEW r \in Record
      PROVE  Wrote(t, r) \in [value : Value \cup {Kept}, live : BOOLEAN \cup {Kept}]
  <2>1. local[t][r] \in Value \cup {Kept}
    BY DEF LockInv, TypeOK, NoLocal
  <2> QED
    BY <2>1 DEF Wrote
<1> QED
  BY <1>1, <1>2 DEF SerialOutcome, Serial!Txn

(***************************************************************************)
(* OutcomeType for the state after a step.                                 *)
(***************************************************************************)
LEMMA NextOutcomeType ==
  LockInv' => (\A t \in Thread : Committed(t) => SerialOutcome(t) \in Serial!Txn)'
BY OutcomeType, PTL

(***************************************************************************)
(* The last access of t is valid: what it has read is what the store holds *)
(* and, holding all its locks, it becomes the installer of all it writes.  *)
(***************************************************************************)
LEMMA ValidateCommits ==
  ASSUME LockInv, LockInv', SnapshotInv, SnapshotInv', InstallInv, NoWrap,
         NEW t \in Thread, Validate(t), Committed(t)'
  PROVE  [Serial!Next]_(Serial!vars)
<1>0. /\ TypeOK /\ LocalOnly /\ Uniform
      /\ SeenOnlyReads /\ SeenCurrent /\ (HeldInCommit)' /\ (Validated)'
  <2>1. NoWrap'
    BY DEF Validate, shared, NoWrap
  <2> QED
    BY <2>1 DEF LockInv, InstallInv, SnapshotInv
<1>1. /\ pc[t] = "validate" /\ pc'[t] = "epoch" /\ ~Committed(t)
      /\ \A u \in Thread : u # t => pc'[u] = pc[u]
      /\ word' = word /\ visible' = visible /\ ts' = ts
      /\ access' = access /\ accessTs' = accessTs /\ local' = local
      /\ seen' = seen /\ held' = held
  BY <1>0 DEF Validate, shared, txn, TypeOK, Committed
<1>2. held[t] = Accessed(t)
  BY <1>0, <1>1 DEF HeldInCommit, Accessed
<1>3. ASSUME NEW u \in Thread, u # t
      PROVE  /\ Committed(u)' <=> Committed(u)
             /\ SerialOutcome(u)' = SerialOutcome(u)
  <2>1. Committed(u)' <=> Committed(u)
    BY <1>1, <1>3 DEF Committed
  <2> QED
    BY <1>1, <2>1, OutcomeKept
<1>4. ASSUME NEW r \in held[t]
      PROVE  /\ r \in Record /\ ~Dirty(r) /\ ~HalfCopied(r)
             /\ Installer(r) = {} /\ SerialRecord(r) = Stored(r)
  <2>1. r \in Record
    BY <1>0 DEF TypeOK
  <2>2. ASSUME NEW u \in Thread, pc[u] = "install", NextToInstall(u, r)
        PROVE  FALSE
    <3>1. u = t
      BY <2>1, <2>2, InstallsHeld, WriterAlone
    <3> QED
      BY <1>1, <2>2, <3>1
  <2>3. ASSUME NEW u \in Installer(r) PROVE FALSE
    <3>1. u \in Thread /\ r \in held[u] /\ access[u][r] # "READ_ONLY"
          /\ Committed(u)
      BY DEF Installer, WriteHolders
    <3>2. t = u
      BY <2>1, <3>1, WriterAlone
    <3> QED
      BY <1>1, <3>1, <3>2
  <2>4. SerialRecord(r) = Stored(r)
    BY <2>1, <2>3, SerialRecordCases DEF RecordCases
  <2> QED
    BY <2>1, <2>2, <2>3, <2>4 DEF Dirty, HalfCopied
<1>5. ASSUME NEW r \in Record, NEW c \in Column
      PROVE  seen[t][r][c] \in {Unread, SerialRecord(r).value}
  <2>1. CASE r \notin Reads(t)
    BY <1>0, <2>1 DEF SeenOnlyReads
  <2>2. CASE r \in Reads(t)
    <3>1. r \in held[t]
      BY <1>2, <2>2 DEF Accessed, Reads, NoAccess
    <3>2. ts[r] = accessTs[t][r]
      BY <1>0, <1>1, <2>2, <3>1 DEF Validated, Reads
    <3>3. seen[t][r][c] \in {Unread, word[r][c]}
      BY <1>0, <1>4, <2>2, <3>1, <3>2 DEF SeenCurrent
    <3>4. (CHOOSE d \in Column : TRUE) \in Column
      OBVIOUS
    <3>5. word[r][c] = word[r][CHOOSE d \in Column : TRUE]
      BY <1>0, <1>4, <3>1, <3>4 DEF Uniform
    <3>6. SerialRecord(r).value = word[r][c]
      BY <1>4, <3>1, <3>5 DEF Stored
    <3> QED
      BY <3>3, <3>6
  <2> QED
    BY <2>1, <2>2
<1>6. /\ SerialOutcome(t) = Serial!NoTxn
      /\ SerialOutcome(t)' = [seen  |-> seen[t],
                              wrote |-> [r \in Record |-> Wrote(t, r)]]
  <2>1. \A r \in Record : Wrote(t, r)' = Wrote(t, r)
    BY <1>1 DEF Wrote
  <2> QED
    BY <1>1, <2>1 DEF SerialOutcome, NoOutcome, Serial!NoTxn
<1>7. SerialOutcome(t)' \in Serial!Txn
  BY NextOutcomeType
<1>8. ASSUME NEW r \in Record
      PROVE  SerialRecord(r)' = Replaced(SerialRecord(r), Wrote(t, r))
  <2>1. CASE r \in Writes(t)
    <3>1. r \in held[t] /\ access[t][r] # "READ_ONLY"
      BY <1>2, <2>1 DEF Writes
    <3>2. t \in Installer(r)'
      BY <1>1, <3>1 DEF Installer, WriteHolders
    <3>3. SerialRecord(r)' = Replaced(Stored(r)', Wrote(t, r)')
      BY <3>2, NextRecordCases DEF RecordCases, Replaced
    <3>4. Stored(r)' = Stored(r) /\ Wrote(t, r)' = Wrote(t, r)
      BY <1>1 DEF Stored, Wrote
    <3> QED
      BY <1>4, <3>1, <3>3, <3>4
  <2>2. CASE r \notin Writes(t)
    <3>1. access[t][r] \in {NoAccess, "READ_ONLY"}
      BY <2>2 DEF Writes, Accessed
    <3>2. Wrote(t, r) = [value |-> Kept, live |-> Kept]
      <4>1. local[t][r] = Kept
        BY <1>0, <1>1, <3>1 DEF LocalOnly, Updates, Outside, NoLocal, NoAccess
      <4> QED
        BY <3>1, <4>1 DEF Wrote, NoAccess
    <3>3. Installer(r)' = Installer(r)
      <4>1. t \notin Installer(r)' /\ t \notin Installer(r)
        BY <1>1, <1>2, <3>1 DEF Installer, WriteHolders, Accessed
      <4> QED
        BY <1>1, <1>3, <4>1 DEF Installer, WriteHolders
    <3>4. SerialRecord(r)' = SerialRecord(r)
      BY <1>1, <3>3, RecordKept
    <3>5. SerialRecord(r) = [value |-> SerialRecord(r).value,
                             live  |-> SerialRecord(r).live]
      BY DEF SerialRecord, Stored
    <3> QED
      BY <3>2, <3>4, <3>5 DEF Replaced
  <2> QED
    BY <2>1, <2>2
<1>9. /\ \A r \in Record, c \in Column :
           SerialOutcome(t)'.seen[r][c] \in {Unread, SerialRecord(r).value}
      /\ \A r \in Record : SerialRecord(r)' =
           Replaced(SerialRecord(r), SerialOutcome(t)'.wrote[r])
  BY <1>5, <1>6, <1>8
<1> QED
  BY <1>3, <1>6, <1>7, <1>9, TakesEffect

(***************************************************************************)
(* A transaction without an access commits, unnoticed.                     *)
(***************************************************************************)
LEMMA EmptyCommits ==
  ASSUME LockInv, LockInv', SeenOnlyReads,
         NEW t \in Thread, CommitTransaction(t), Accessed(t) = {}
  PROVE  UNCHANGED Serial!vars
<1>0. TypeOK
  BY DEF LockInv
<1>1. /\ pc[t] = "exec" /\ pc'[t] = "epoch" /\ Updates(t) = {} /\ Reads(t) = {}
      /\ \A r \in Record : access[t][r] = NoAccess /\ local'[t][r] = Kept
      /\ \A u \in Thread : u # t => pc'[u] = pc[u] /\ local'[u] = local[u]
      /\ word' = word /\ visible' = visible /\ access' = access
      /\ seen' = seen /\ held' = held
  <2>1. \A r \in Record : access[t][r] = NoAccess
    BY DEF Accessed
  <2>2. Updates(t) = {} /\ Reads(t) = {}
    BY <2>1 DEF Updates, Reads, NoAccess
  <2>3. PICK update \in [Updates(t) -> Value] :
          local' = [local EXCEPT ![t] = [r \in Record |->
                      IF r \in Updates(t) THEN update[r] ELSE NoLocal]]
    BY DEF CommitTransaction
  <2>4. \A r \in Record : local'[t][r] = Kept
    BY <1>0, <2>2, <2>3 DEF TypeOK, NoLocal
  <2>5. \A u \in Thread : u # t => local'[u] = local[u]
    BY <1>0, <2>3 DEF TypeOK
  <2> QED
    BY <1>0, <2>1, <2>2, <2>4, <2>5 DEF CommitTransaction, TypeOK, shared
<1>2. ASSUME NEW u \in Thread, u # t
      PROVE  /\ Committed(u)' <=> Committed(u)
             /\ SerialOutcome(u)' = SerialOutcome(u)
  <2>1. Committed(u)' <=> Committed(u)
    BY <1>1, <1>2 DEF Committed
  <2> QED
    BY <1>1, <1>2, <2>1, OutcomeKept
<1>3. SerialOutcome(t)' = SerialOutcome(t)
  <2>1. seen[t] = [r \in Record |-> [c \in Column |-> Unread]]
    BY <1>0, <1>1 DEF TypeOK, SeenOnlyReads
  <2>2. \A r \in Record : Wrote(t, r)' = [value |-> Kept, live |-> Kept]
    BY <1>1 DEF Wrote, NoAccess
  <2> QED
    BY <1>1, <2>1, <2>2 DEF SerialOutcome, NoOutcome, Committed
<1>4. ASSUME NEW r \in Record PROVE SerialRecord(r)' = SerialRecord(r)
  <2>1. r \notin held[t] /\ t \notin Installer(r) /\ t \notin Installer(r)'
    BY <1>0, <1>1 DEF LockInv, HeldInCommit, Outside, Installer, WriteHolders
  <2>2. Installer(r)' = Installer(r)
    BY <1>1, <1>2, <2>1 DEF Installer, WriteHolders
  <2> QED
    BY <1>1, <2>1, <2>2, RecordKept DEF Installer, WriteHolders
<1> QED
  BY <1>2, <1>3, <1>4, Unnoticed

(***************************************************************************)
(* The install loop stores what the store of the serial specification      *)
(* already holds.                                                          *)
(***************************************************************************)
LEMMA InstallUnnoticed ==
  ASSUME LockInv, LockInv', NEW t \in Thread, NEW r \in Record,
         SetVisible(t, r) \/ \E c \in Column : CopyFrom(t, r, c)
  PROVE  UNCHANGED Serial!vars
<1>0. TypeOK
  BY DEF LockInv
<1>1. /\ pc[t] = "install" /\ NextToInstall(t, r)
      /\ \A q \in Record : q # r => word'[q] = word[q] /\ visible'[q] = visible[q]
      /\ pc' = pc /\ access' = access /\ local' = local /\ seen' = seen
      /\ held' = held
  BY <1>0 DEF SetVisible, CopyFrom, TypeOK
<1>2. r \in held[t] /\ access[t][r] # "READ_ONLY" /\ t \in Installer(r)
      /\ access[t][r] # NoAccess
  BY <1>1, InstallsHeld
     DEF Installer, WriteHolders, Committed, Writes, Accessed
<1>3. \A q \in Record : Installer(q)' = Installer(q) /\ Wrote(t, q)' = Wrote(t, q)
  BY <1>1 DEF Installer, WriteHolders, Committed, Wrote
<1>4. SerialRecord(r)' = SerialRecord(r)
  <2>1. /\ SerialRecord(r) = Replaced(Stored(r), Wrote(t, r))
        /\ SerialRecord(r)' = Replaced(Stored(r)', Wrote(t, r))
    <3>1. SerialRecord(r)' = Replaced(Stored(r)', Wrote(t, r)')
      BY <1>2, <1>3, NextRecordCases DEF RecordCases, Replaced
    <3> QED
      BY <1>2, <1>3, <3>1, SerialRecordCases DEF RecordCases
  <2>2. CASE SetVisible(t, r)
    <3>1. word' = word /\ Wrote(t, r).live # Kept
      <4>1. access[t][r] \in {"INSERT_ONLY", "DELETE_ONLY"} /\ word' = word
        BY <1>0, <1>2, <2>2 DEF SetVisible, TypeOK, Updates, AnyAccess, NoAccess
      <4>2. Wrote(t, r).live \in BOOLEAN
        BY <4>1 DEF Wrote
      <4> QED
        BY <4>1, <4>2, OccConstants DEF OccConstants
    <3> QED
      BY <2>1, <3>1 DEF Replaced, Stored
  <2>3. CASE \E c \in Column : CopyFrom(t, r, c)
    <3>1. visible' = visible /\ Wrote(t, r).value # Kept
      <4>1. r \in Updates(t) /\ visible' = visible
        BY <2>3 DEF CopyFrom
      <4>2. local[t][r] \in Value
        BY <1>1, <4>1 DEF LockInv, LocalReady, Outside
      <4> QED
        BY <4>1, <4>2, OccConstants DEF OccConstants, Wrote
    <3> QED
      BY <2>1, <3>1 DEF Replaced, Stored
  <2> QED
    BY <2>2, <2>3
<1>5. \A q \in Record : q # r => SerialRecord(q)' = SerialRecord(q)
  BY <1>1, <1>3, RecordKept
<1>6. \A u \in Thread : SerialOutcome(u)' = SerialOutcome(u)
  BY <1>1, OutcomeKept DEF Committed
<1> QED
  BY <1>4, <1>5, <1>6, Unnoticed

(***************************************************************************)
(* When t releases a record it has written, the record holds all of it.    *)
(***************************************************************************)
LEMMA ReleaseUnnoticed ==
  ASSUME LockInv, LockInv', InstallInv, NEW t \in Thread, ReleaseLock(t),
         pc[t] = "release"
  PROVE  UNCHANGED Serial!vars
<1>0. TypeOK /\ InstallAgrees(t) /\ LocalOnly
  BY DEF LockInv, InstallInv
<1>1. PICK r \in Record : /\ NextToRelease(t, r)
                          /\ held' = [held EXCEPT ![t] = @ \ {r}]
  BY DEF ReleaseLock
<1>2. /\ r \in held[t]
      /\ held'[t] = held[t] \ {r} /\ \A u \in Thread : u # t => held'[u] = held[u]
      /\ word' = word /\ visible' = visible /\ pc' = pc /\ access' = access
      /\ local' = local /\ seen' = seen
  BY <1>0, <1>1 DEF ReleaseLock, NextToRelease, IsFirst, TypeOK
<1>3. \A u \in Thread : SerialOutcome(u)' = SerialOutcome(u)
  BY <1>2, OutcomeKept DEF Committed
<1>4. ASSUME NEW q \in Record, q # r \/ access[t][q] = "READ_ONLY"
      PROVE  SerialRecord(q)' = SerialRecord(q)
  <2>1. Installer(q)' = Installer(q)
    BY <1>2, <1>4 DEF Installer, WriteHolders, Committed
  <2> QED
    BY <1>2, <2>1, RecordKept
<1>5. ASSUME access[t][r] # "READ_ONLY" PROVE SerialRecord(r)' = SerialRecord(r)
  <2>1. t \in Installer(r)
    BY <1>2, <1>5 DEF Installer, WriteHolders, Committed
  <2>2. Installer(r)' = {}
    <3>1. \A u \in Installer(r) : u = t
      BY <2>1 DEF Installer, LockInv, LockAgreement, LockAgreementOf
    <3>2. \A u \in Thread : u \in Installer(r)' => u \in Installer(r) /\ u # t
      BY <1>2 DEF Installer, WriteHolders, Committed
    <3> QED
      BY <3>1, <3>2 DEF Installer, WriteHolders
  <2>3. /\ SerialRecord(r) = Replaced(Stored(r), Wrote(t, r))
        /\ SerialRecord(r)' = Stored(r)
    <3>1. SerialRecord(r)' = Stored(r)'
      BY <2>2, NextRecordCases DEF RecordCases
    <3> QED
      BY <1>2, <2>1, <3>1, SerialRecordCases DEF RecordCases, Stored
  <2>4. r \in Writes(t) /\ access[t][r] \in AnyAccess
    BY <1>0, <1>2, <1>5 DEF LockInv, HeldInCommit, Writes, Accessed, TypeOK
  <2>5. Written(t, r)
    BY <1>0, <1>2, <2>4 DEF InstallAgrees
  <2>6. CASE r \in Updates(t)
    <3>1. word[r][CHOOSE c \in Column : TRUE] = local[t][r]
      BY <2>5, <2>6, OccConstants DEF Written, OccConstants
    <3>2. Wrote(t, r).live = Kept
      BY <2>6 DEF Wrote, Updates
    <3>3. Wrote(t, r).value = local[t][r]
      BY DEF Wrote
    <3> QED
      BY <2>3, <3>1, <3>2, <3>3 DEF Replaced, Stored
  <2>7. CASE r \notin Updates(t)
    <3>1. Wrote(t, r).value = Kept
      BY <1>0, <2>7 DEF Wrote, LocalOnly, Outside, NoLocal
    <3>2. Wrote(t, r).live = visible[r]
      <4>1. visible[r] = (access[t][r] = "INSERT_ONLY")
        BY <2>5, <2>7 DEF Written
      <4>2. access[t][r] \in {"INSERT_ONLY", "DELETE_ONLY"}
        BY <1>5, <2>4, <2>7 DEF AnyAccess, Updates
      <4>3. CASE access[t][r] = "INSERT_ONLY"
        BY <4>1, <4>3 DEF Wrote
      <4>4. CASE access[t][r] = "DELETE_ONLY"
        BY <4>1, <4>4 DEF Wrote
      <4> QED
        BY <4>2, <4>3, <4>4
    <3> QED
      BY <2>3, <3>1, <3>2 DEF Replaced, Stored
  <2> QED
    BY <2>6, <2>7
<1> QED
  BY <1>3, <1>4, <1>5, Unnoticed

(***************************************************************************)
(* The executor counts a committed transaction: it leaves.                 *)
(***************************************************************************)
LEMMA ReturnLeaves ==
  ASSUME LockInv, LockInv', NEW t \in Thread, ReturnCommitted(t)
  PROVE  [Serial!Next]_(Serial!vars)
<1>0. TypeOK
  BY DEF LockInv
<1>1. /\ pc[t] = "release" /\ pc'[t] \in {"done", "idle"} /\ held[t] = {}
      /\ held' = held /\ word' = word /\ visible' = visible
      /\ \A u \in Thread : u # t => /\ pc'[u] = pc[u] /\ access'[u] = access[u]
                                    /\ local'[u] = local[u] /\ seen'[u] = seen[u]
  BY <1>0 DEF ReturnCommitted, ClearAccess, TypeOK
<1>2. \A u \in Thread : u # t =>
        /\ Committed(u)' <=> Committed(u)
        /\ SerialOutcome(u)' = SerialOutcome(u)
  BY <1>1, OutcomeKept DEF Committed
<1>3. ASSUME NEW r \in Record PROVE SerialRecord(r)' = SerialRecord(r)
  <2>1. t \notin Installer(r) /\ t \notin Installer(r)'
    BY <1>1 DEF Installer, WriteHolders
  <2>2. Installer(r)' = Installer(r)
    BY <1>1, <1>2, <2>1 DEF Installer, WriteHolders
  <2> QED
    BY <1>1, <2>1, <2>2, RecordKept DEF Installer, WriteHolders
<1>4. SerialOutcome(t)' = Serial!NoTxn
  BY <1>1 DEF SerialOutcome, NoOutcome, Committed, Serial!NoTxn
<1>5. CASE SerialOutcome(t) = Serial!NoTxn
  BY <1>2, <1>3, <1>4, <1>5, Unnoticed
<1>6. CASE SerialOutcome(t) # Serial!NoTxn
  <2>1. /\ Outcome[t] # Serial!NoTxn
        /\ Outcome' = [Outcome EXCEPT ![t] = Serial!NoTxn]
    BY <1>2, <1>4, <1>6 DEF Outcome
  <2>2. Store' = Store
    BY <1>3 DEF Store
  <2>3. Serial!Leave(t)
    BY <2>1, <2>2 DEF Serial!Leave, Outcome, Store
  <2> QED
    BY <2>3 DEF Serial!Next
<1> QED
  BY <1>5, <1>6

-----------------------------------------------------------------------------
(***************************************************************************)
(* The initial store is the serial one: the indexed records are live, and  *)
(* no transaction has committed.                                           *)
(***************************************************************************)
LEMMA InitSerial == Init => Serial!Init
<1> SUFFICES ASSUME Init PROVE Serial!Init
  OBVIOUS
<1>1. ASSUME NEW r \in Record
      PROVE  SerialRecord(r) = [value |-> InitValue, live |-> r \notin Fresh]
  <2>1. Installer(r) = {}
    BY DEF Init, Installer, WriteHolders
  <2>2. SerialRecord(r) = Stored(r)
    BY <2>1 DEF SerialRecord
  <2>3. word[r][CHOOSE c \in Column : TRUE] = InitValue
    BY OccConstants DEF OccConstants, Init
  <2>4. visible[r] = (r \notin Fresh)
    BY OccConstants DEF OccConstants, Init, Record
  <2> QED
    BY <2>2, <2>3, <2>4 DEF Stored
<1>2. \A t \in Thread : SerialOutcome(t) = Serial!NoTxn
  BY DEF Init, SerialOutcome, NoOutcome, Committed, Serial!NoTxn
<1> QED
  BY <1>1, <1>2 DEF Serial!Init

(***************************************************************************)
(* Every step of Occ is a step of the serial store or goes unnoticed.      *)
(***************************************************************************)
LEMMA NextSerial ==
  ASSUME LockInv, LockInv', SnapshotInv, SnapshotInv', InstallInv, NoWrap,
         [Next]_vars
  PROVE  [Serial!Next]_(Serial!vars)
<1>0. TypeOK /\ SeenOnlyReads
  BY DEF LockInv, SnapshotInv
<1>1. ASSUME NEW t \in Thread, Execute(t) \/ Select(t)
      PROVE  [Serial!Next]_(Serial!vars)
  <2>1. /\ word' = word /\ visible' = visible /\ held' = held
        /\ ~Committed(t) /\ ~Committed(t)'
    BY <1>0, <1>1 DEF Execute, Select, SelectRecordCC, InsertRecord, ReadColumn,
       shared, txn, Committed, TypeOK
  <2>2. \A u \in Thread : u # t => Unmoved(u) /\ local'[u] = local[u]
    BY <1>0, <1>1, OthersUnmoved, LocalsUnmoved DEF Step
  <2> QED
    BY <2>1, <2>2, Quiet DEF Unmoved, Committed
<1>2. ASSUME NEW t \in Thread, CommitTransaction(t)
      PROVE  [Serial!Next]_(Serial!vars)
  <2>1. CASE Accessed(t) = {}
    BY <1>0, <1>2, <2>1, EmptyCommits
  <2>2. CASE Accessed(t) # {}
    <3>1. /\ word' = word /\ visible' = visible
          /\ ~Committed(t) /\ ~Committed(t)'
      BY <1>0, <1>2, <2>2 DEF CommitTransaction, shared, Committed, TypeOK
    <3>2. \A u \in Thread : u # t => Unmoved(u) /\ local'[u] = local[u]
      BY <1>0, <1>2, OthersUnmoved, LocalsUnmoved DEF Step
    <3> QED
      BY <3>1, <3>2, Quiet DEF Unmoved, Committed
  <2> QED
    BY <2>1, <2>2
<1>3. ASSUME NEW t \in Thread,
             \/ AcquireLock(t) \/ ReturnAborted(t)
             \/ Validate(t) /\ ~Committed(t)'
      PROVE  [Serial!Next]_(Serial!vars)
  <2>1. /\ word' = word /\ visible' = visible
        /\ ~Committed(t) /\ ~Committed(t)'
    BY <1>0, <1>3 DEF AcquireLock, ReturnAborted, Validate, shared, Committed,
       TypeOK
  <2>2. \A u \in Thread : u # t => Unmoved(u) /\ local'[u] = local[u]
    BY <1>0, <1>3, OthersUnmoved, LocalsUnmoved DEF Step
  <2> QED
    BY <2>1, <2>2, Quiet DEF Unmoved, Committed
<1>4. ASSUME NEW t \in Thread,
             \/ GetEpoch(t) \/ GetMonotoneTimestamp(t) \/ EndInstall(t)
             \/ \E r \in Record : SetTimestamp(t, r)
      PROVE  [Serial!Next]_(Serial!vars)
  <2>1. /\ word' = word /\ visible' = visible /\ access' = access
        /\ local' = local /\ seen' = seen /\ held' = held
        /\ Committed(t) /\ Committed(t)'
        /\ \A u \in Thread : u # t => pc'[u] = pc[u]
    BY <1>0, <1>4 DEF GetEpoch, GetMonotoneTimestamp, EndInstall, SetTimestamp,
       shared, txn, Committed, TypeOK
  <2> QED
    BY <2>1, Quiet DEF Committed
<1>5. ASSUME NEW t \in Thread, ReleaseLock(t), pc[t] = "undo"
      PROVE  [Serial!Next]_(Serial!vars)
  <2>1. /\ word' = word /\ visible' = visible
        /\ ~Committed(t) /\ ~Committed(t)'
    BY <1>0, <1>5 DEF ReleaseLock, Committed, TypeOK
  <2>2. \A u \in Thread : u # t => Unmoved(u) /\ local'[u] = local[u]
    BY <1>0, <1>5, OthersUnmoved, LocalsUnmoved DEF Step
  <2> QED
    BY <2>1, <2>2, Quiet DEF Unmoved, Committed
<1>6. ASSUME NEW t \in Thread, ReleaseLock(t) PROVE [Serial!Next]_(Serial!vars)
  <2>1. pc[t] \in {"release", "undo"}
    BY <1>6 DEF ReleaseLock
  <2> QED
    BY <1>5, <1>6, <2>1, ReleaseUnnoticed
<1>7. CASE AdvanceEpoch \/ UNCHANGED vars
  <2>1. UNCHANGED <<word, visible, pc, txn>>
    BY <1>7 DEF AdvanceEpoch, vars, shared
  <2> QED
    BY <2>1, Quiet DEF Committed, txn
<1> QED
  BY <1>1, <1>2, <1>3, <1>4, <1>6, <1>7, ValidateCommits, InstallUnnoticed,
     ReturnLeaves DEF Next, Step, Install, Joined

(***************************************************************************)
(* Occ implements the serial store, until the low half of the timestamp    *)
(* wraps around: every committed transaction is atomic, sees the store as  *)
(* it is at one instant and leaves no half-installed record, though reads  *)
(* take no lock and installs are visible a column at a time.               *)
(***************************************************************************)
THEOREM Serializes == Spec /\ []NoWrap => ImplementsSerialStore
<1>1. LockInv /\ InstallInv /\ [Next]_vars => InstallInv'
  BY NextInstall
<1>2. LockInv /\ LockInv' /\ SnapshotInv /\ SnapshotInv' /\ InstallInv /\ NoWrap
        /\ [Next]_vars => [Serial!Next]_(Serial!vars)
  BY NextSerial
<1> QED
  BY InitInstall, InitSerial, SnapshotInvariant, <1>1, <1>2, PTL
     DEF Spec, ImplementsSerialStore, Serial!Spec
=============================================================================
