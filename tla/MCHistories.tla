---------------------------- MODULE MCHistories ----------------------------
(***************************************************************************)
(* The schemes whose promise is about what committed transactions have     *)
(* read, on small instances: Snapshot, Certify and Hybrid with the threads *)
(* of Thread, MvTo with those of MvToThread.  The build option (scheme)    *)
(* selects one of them at the start; a variable that it does not have      *)
(* stays Unused.                                                           *)
(*                                                                         *)
(* The procedures update both records, or one depending on the other,      *)
(* insert a record, read both records and, under Hybrid, delete one.  (A   *)
(* deletion is of the second record, which is not hot: LOCK_RTM would      *)
(* never release the lock of a hot one.)  Those of MvTo are all sequences  *)
(* of up to two accesses.                                                  *)
(***************************************************************************)
EXTENDS Integers, FiniteSets, TLC

CONSTANTS
  SnapshotSchemes, CertifySchemes, HybridSchemes, \* the build options
  Thread, Records, Hot, Column, RecycleLength, TsSpan,
  SnapshotBatch, SnapshotMaxTs, CertifyBatch, CertifyMaxTs,
  MvToThread, MvToIndexed, MvToFresh, MvToMaxTs,
  Loader, Nobody, Unused

VARIABLES
  scheme, monotone, isFinish, pc, left, committed, txn,
  lock,                               \* of all but MvTo
  threadTs,                           \* of Snapshot, Certify and MvTo
  history, written,                   \* of Snapshot and Certify
  latest,                             \* of Snapshot
  owners, waiters,                    \* of Certify
  visible,                            \* of Hybrid and MvTo
  word, ts,                           \* of Hybrid
  counter, rtmLock, garbage, freed,   \* of Hybrid
  readReqs, writeReqs, readHistory, writeHistory, stock, dropped \* of MvTo

ofAll      == <<scheme, monotone, isFinish, pc, left, committed, txn>>
ofVersions == <<history, written>>
ofCertify  == <<owners, waiters>>
ofHybrid   == <<word, ts, counter, rtmLock, garbage, freed>>
ofMvTo     == <<readReqs, writeReqs, readHistory, writeHistory, stock,
                dropped>>
vars       == <<ofAll, lock, threadTs, ofVersions, latest, ofCertify,
                visible, ofHybrid, ofMvTo>>

-----------------------------------------------------------------------------
Ro(r)  == [record |-> r, type |-> "READ_ONLY"]
Rw(r)  == [record |-> r, type |-> "READ_WRITE"]
Del(r) == [record |-> r, type |-> "DELETE_ONLY"]
New    == [record |-> 0, type |-> "INSERT_ONLY"]

VersionProcedures ==
  {<<Rw(2), Rw(1)>>, <<Ro(1), Rw(2), New>>, <<Ro(1), Ro(2)>>}

HybridProcedures ==
  {<<Rw(2), Rw(1)>>, <<Ro(1), Rw(2), New>>, <<Ro(1), Ro(2)>>, <<Rw(1), Del(2)>>}

S == INSTANCE Snapshot WITH
  Scheme <- SnapshotSchemes, Record <- Records, Procedures <- VersionProcedures,
  Batch <- SnapshotBatch, MaxTs <- SnapshotMaxTs

C == INSTANCE Certify WITH
  Scheme <- CertifySchemes, Record <- Records, Procedures <- VersionProcedures,
  Batch <- CertifyBatch, MaxTs <- CertifyMaxTs

H == INSTANCE Hybrid WITH
  Scheme <- HybridSchemes, Record <- Records, Procedures <- HybridProcedures, Batch <- 1

V == INSTANCE MvTo WITH
  Thread <- MvToThread, Indexed <- MvToIndexed, Fresh <- MvToFresh,
  MaxAccess <- 2, Batch <- 1, BatchTsNum <- 1, MaxTs <- MvToMaxTs

ASSUME HistoriesConstants ==
  /\ S!SnapshotConstants /\ C!CertifyConstants /\ H!HybridConstants
  /\ V!MvToConstants
  /\ MvToThread \cap Thread = {}
  /\ SnapshotSchemes \cap CertifySchemes = {}
  /\ HybridSchemes \cap (SnapshotSchemes \cup CertifySchemes) = {}

Snapshots == scheme \in SnapshotSchemes
Certifies == scheme \in CertifySchemes
Hybrids   == scheme \in HybridSchemes
MvTos     == scheme = "MVTO"

-----------------------------------------------------------------------------
\* The variables of a scheme that has not been selected.
NoLock     == lock = Unused
NoThreadTs == threadTs = Unused
NoVersions == history = Unused /\ written = Unused
NoLatest   == latest = Unused
NoCertify  == owners = Unused /\ waiters = Unused
NoVisible  == visible = Unused
NoHybrid   == /\ word = Unused /\ ts = Unused
              /\ counter = Unused /\ rtmLock = Unused
              /\ garbage = Unused /\ freed = Unused
NoMvTo     == /\ readReqs = Unused /\ writeReqs = Unused
              /\ readHistory = Unused /\ writeHistory = Unused
              /\ stock = Unused /\ dropped = Unused

Init ==
  \/ /\ S!Init
     /\ NoCertify /\ NoVisible /\ NoHybrid /\ NoMvTo
  \/ /\ C!Init
     /\ NoLatest /\ NoVisible /\ NoHybrid /\ NoMvTo
  \/ /\ H!Init
     /\ NoThreadTs /\ NoVersions /\ NoLatest /\ NoCertify /\ NoMvTo
  \/ /\ scheme = "MVTO" /\ V!Init
     /\ NoLock /\ NoVersions /\ NoLatest /\ NoCertify /\ NoHybrid

NotSnapshot == <<ofCertify, visible, ofHybrid, ofMvTo>>
NotCertify  == <<latest, visible, ofHybrid, ofMvTo>>
NotHybrid   == <<threadTs, ofVersions, latest, ofCertify, ofMvTo>>
NotMvTo     == <<scheme, lock, ofVersions, latest, ofCertify, ofHybrid>>

Next ==
  \/ Snapshots /\ S!Next /\ UNCHANGED NotSnapshot
  \/ Certifies /\ C!Next /\ UNCHANGED NotCertify
  \/ Hybrids /\ H!Next /\ UNCHANGED NotHybrid
  \/ MvTos /\ V!Next /\ UNCHANGED NotMvTo

Spec == Init /\ [][Next]_vars

ThreadSymmetry == Permutations(Thread) \cup Permutations(MvToThread)

-----------------------------------------------------------------------------
(***************************************************************************)
(* The type invariants of the modules that state one.                      *)
(***************************************************************************)
TypeOK ==
  /\ Snapshots => S!TypeOK
  /\ Hybrids => H!TypeOK
  /\ MvTos => V!TypeOK

(***************************************************************************)
(* Garbage collection leaves every version that a running snapshot reads   *)
(* (Snapshot and Certify) or a transaction still refers to (Hybrid).       *)
(***************************************************************************)
VersionsKept ==
  /\ Snapshots => S!VersionsKept
  /\ Certifies => C!VersionsKept
  /\ Hybrids => H!VersionsAlive

(***************************************************************************)
(* Snapshot and Certify: a snapshot is complete, unless a commit below it  *)
(* was still installing when it was taken.                                 *)
(***************************************************************************)
SnapshotUnlessInFlight ==
  /\ Snapshots => S!SnapshotUnlessInFlight
  /\ Certifies => C!SnapshotUnlessInFlight

(***************************************************************************)
(* Snapshot isolation: no update overwrites one it has not seen, unless    *)
(* that was still installing when the snapshot was taken.                  *)
(***************************************************************************)
NoUpdateLost == Snapshots => S!NoUpdateLost

(***************************************************************************)
(* Multiversion OCC, certify locking and Hybrid: committed updates read    *)
(* what the serial execution in the order of their commits has them read.  *)
(***************************************************************************)
ReadsInCommitOrder ==
  /\ Snapshots => S!UpdatesSerial
  /\ Certifies => C!ReadsInCommitOrder
  /\ Hybrids => H!ReadsInCommitOrder

(***************************************************************************)
(* Multiversion timestamp ordering: committed transactions read what the   *)
(* serial execution in the order of their start timestamps has them read,  *)
(* as long as no entry of a read history has been lost.                    *)
(***************************************************************************)
ReadsInTsOrder == MvTos => V!SerialUnlessDropped

(***************************************************************************)
(* Certify and Hybrid: the readers, writers and certifiers recorded in a   *)
(* lock are the transactions that hold it, and exclude each other as they  *)
(* must; under Certify a waiting transaction is in its list, and somebody  *)
(* will look at it.  MvTo: the announced writes are those of the running   *)
(* transactions; none outlives its transaction and none is lost.           *)
(***************************************************************************)
LocksAgree ==
  /\ Certifies => C!LocksAgree
  /\ Hybrids => H!LocksAgree
  /\ MvTos => V!WriteRequestsAgree

(***************************************************************************)
(* The waits have an order.  Certify: a transaction waits only for younger *)
(* ones, in the order of age.  MvTo: a read that waits has an              *)
(* announced write with a smaller timestamp in front of it, and a          *)
(* read-only transaction never waits.                                      *)
(***************************************************************************)
WaitsInOrder ==
  /\ Certifies => C!WaitsForYounger
  /\ MvTos => V!WaitsForAnnounced

(***************************************************************************)
(* What the snapshot schemes state ("new committed transactions must have  *)
(* larger timestamp", "optimistic snapshot isolation"): no committed       *)
(* transaction overwrites an update that it has not seen.                  *)
(***************************************************************************)
NoLostUpdate == Snapshots => S!NoLostUpdate
=============================================================================
