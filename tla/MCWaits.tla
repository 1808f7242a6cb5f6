------------------------------ MODULE MCWaits ------------------------------
(***************************************************************************)
(* The schemes under which a transaction waits for another one's answer or *)
(* lock, on small instances: Occ, LockWait, To, MvTo and Silo.  The build  *)
(* option (scheme) selects one of them at the start; a variable that it    *)
(* does not have stays Unused.                                             *)
(***************************************************************************)
EXTENDS Naturals, FiniteSets, TLC

CONSTANTS
  Scheme, \* the build options that may be chosen
  Thread, TsSpan,
  OccFresh, OccAccessType,
  LockWaitIndexed, LockWaitShared, LockWaitMaxAccess, LockWaitMaxEpoch,
  ToFresh, ToMaxTs,
  MvToIndexed, MvToMaxTs,
  SiloFresh, SiloAccessType,
  NotRead, Kept, Loader, Unused

VARIABLES
  scheme, visible, monotone, isFinish, pc, left,
  word,                                            \* of all but MvTo
  accesses,                                        \* of LockWait, To, Silo
  startTs, request, ready, finished,               \* of LockWait and To
  committed,                                       \* of To, MvTo and Silo
  ts, epoch, currEpoch, commitTs,                  \* of Occ, LockWait, Silo
  lock, seen, held, stored, installed,             \* of Occ and Silo
  readTs, local,                                   \* of Occ and To
  access, accessTs,                                \* of Occ
  lockType, owners, waiters, isFirst, restored,    \* of LockWait
  writeTs, minRead, minWrite, reads, writes, commits, \* of To
  readReqs, writeReqs, readHistory, writeHistory, threadTs, stock, txn,
  dropped,                                         \* of MvTo
  checked, versions                                \* of Silo

ofAll      == <<scheme, visible, monotone, isFinish, pc, left>>
ofWaits    == <<startTs, request, ready, finished>>
ofClocks   == <<ts, epoch, currEpoch, commitTs>>
ofInstalls == <<lock, seen, held, stored, installed>>
ofCopies   == <<readTs, local>>
ofOcc      == <<access, accessTs>>
ofLockWait == <<lockType, owners, waiters, isFirst, restored>>
ofTo       == <<writeTs, minRead, minWrite, reads, writes, commits>>
ofMvTo     == <<readReqs, writeReqs, readHistory, writeHistory, threadTs,
                stock, txn, dropped>>
ofSilo     == <<checked, versions>>
vars       == <<ofAll, word, accesses, ofWaits, committed, ofClocks,
                ofInstalls, ofCopies, ofOcc, ofLockWait, ofTo, ofMvTo, ofSilo>>

O == INSTANCE Occ WITH
  Column <- {"data"}, Value <- {"old", "new"}, InitValue <- "old",
  Unread <- NotRead, Indexed <- {1, 2}, Fresh <- OccFresh,
  AccessType <- OccAccessType, MaxAccess <- 2, Batch <- 1, MaxEpoch <- 1

W == INSTANCE LockWait WITH
  Unread <- NotRead, Indexed <- LockWaitIndexed, Shared <- LockWaitShared,
  Fresh <- {}, MaxAccess <- LockWaitMaxAccess, Batch <- 1,
  MaxEpoch <- LockWaitMaxEpoch

T == INSTANCE To WITH
  Indexed <- {1, 2}, Fresh <- ToFresh, MaxAccess <- 2, Batch <- 1,
  MaxTs <- ToMaxTs

V == INSTANCE MvTo WITH
  Indexed <- MvToIndexed, Fresh <- {}, MaxAccess <- 2, Batch <- 1,
  BatchTsNum <- 1, MaxTs <- MvToMaxTs

L == INSTANCE Silo WITH
  Unread <- NotRead, Column <- {"data"}, Indexed <- {1, 2}, Fresh <- SiloFresh,
  AccessType <- SiloAccessType, MaxAccess <- 2, Batch <- 1, MaxEpoch <- 1

ASSUME WaitsConstants ==
  /\ Scheme \subseteq {"OCC", "LOCK_WAIT", "TO", "MVTO", "SILO"}
  /\ O!OccConstants /\ W!LockWaitConstants /\ T!ToConstants
  /\ V!MvToConstants /\ L!SiloConstants

-----------------------------------------------------------------------------
\* The variables of a scheme that has not been selected.
NoWord     == word = Unused
NoAccesses == accesses = Unused
NoWaits    == /\ startTs = Unused /\ request = Unused
              /\ ready = Unused /\ finished = Unused
NoHistory  == committed = Unused
NoClocks   == /\ ts = Unused /\ epoch = Unused
              /\ currEpoch = Unused /\ commitTs = Unused
NoInstalls == /\ lock = Unused /\ seen = Unused /\ held = Unused
              /\ stored = Unused /\ installed = Unused
NoCopies   == readTs = Unused /\ local = Unused
NoOcc      == access = Unused /\ accessTs = Unused
NoLockWait == /\ lockType = Unused /\ owners = Unused /\ waiters = Unused
              /\ isFirst = Unused /\ restored = Unused
NoTo       == /\ writeTs = Unused /\ minRead = Unused /\ minWrite = Unused
              /\ reads = Unused /\ writes = Unused /\ commits = Unused
NoMvTo     == /\ readReqs = Unused /\ writeReqs = Unused
              /\ readHistory = Unused /\ writeHistory = Unused
              /\ threadTs = Unused /\ stock = Unused /\ txn = Unused
              /\ dropped = Unused
NoSilo     == checked = Unused /\ versions = Unused

Init ==
  /\ scheme \in Scheme
  /\ \/ scheme = "OCC" /\ O!Init
        /\ NoAccesses /\ NoWaits /\ NoHistory
        /\ NoLockWait /\ NoTo /\ NoMvTo /\ NoSilo
     \/ scheme = "LOCK_WAIT" /\ W!Init
        /\ NoHistory /\ NoInstalls /\ NoCopies
        /\ NoOcc /\ NoTo /\ NoMvTo /\ NoSilo
     \/ scheme = "TO" /\ T!Init
        /\ NoClocks /\ NoInstalls
        /\ NoOcc /\ NoLockWait /\ NoMvTo /\ NoSilo
     \/ scheme = "MVTO" /\ V!Init
        /\ NoWord /\ NoAccesses /\ NoWaits /\ NoClocks /\ NoInstalls
        /\ NoCopies /\ NoOcc /\ NoLockWait /\ NoTo /\ NoSilo
     \/ scheme = "SILO" /\ L!Init
        /\ NoWaits /\ NoCopies /\ NoOcc /\ NoLockWait /\ NoTo /\ NoMvTo

NotOcc      == <<scheme, accesses, ofWaits, committed, ofLockWait, ofTo,
                 ofMvTo, ofSilo>>
NotLockWait == <<scheme, committed, ofInstalls, ofCopies, ofOcc, ofTo, ofMvTo,
                 ofSilo>>
NotTo       == <<scheme, ofClocks, ofInstalls, ofOcc, ofLockWait, ofMvTo,
                 ofSilo>>
NotMvTo     == <<scheme, word, accesses, ofWaits, ofClocks, ofInstalls,
                 ofCopies, ofOcc, ofLockWait, ofTo, ofSilo>>
NotSilo     == <<scheme, ofWaits, ofCopies, ofOcc, ofLockWait, ofTo, ofMvTo>>

Next ==
  \/ scheme = "OCC" /\ O!Next /\ UNCHANGED NotOcc
  \/ scheme = "LOCK_WAIT" /\ W!Next /\ UNCHANGED NotLockWait
  \/ scheme = "TO" /\ T!Next /\ UNCHANGED NotTo
  \/ scheme = "MVTO" /\ V!Next /\ UNCHANGED NotMvTo
  \/ scheme = "SILO" /\ L!Next /\ UNCHANGED NotSilo

Spec == Init /\ [][Next]_vars

\* The thread t, under the scheme that is built.
Step(t) ==
  \/ scheme = "OCC" /\ O!Step(t) /\ UNCHANGED NotOcc
  \/ scheme = "LOCK_WAIT" /\ W!Step(t) /\ UNCHANGED NotLockWait
  \/ scheme = "TO" /\ T!Step(t) /\ UNCHANGED NotTo
  \/ scheme = "MVTO" /\ V!Step(t) /\ UNCHANGED NotMvTo
  \/ scheme = "SILO" /\ L!Step(t) /\ UNCHANGED NotSilo

(***************************************************************************)
(* The operating system runs every worker thread that can take a step.     *)
(***************************************************************************)
Fairness == \A t \in Thread : WF_vars(Step(t))

FairSpec == Spec /\ Fairness

ThreadSymmetry == Permutations(Thread)

-----------------------------------------------------------------------------
(***************************************************************************)
(* What IsWriteConflict states ("find the smallest timestamp which is      *)
(* larger than the write timestamp"): no write is announced below a read   *)
(* that a running transaction has been answered with an older version.     *)
(***************************************************************************)
NoWriteBelowRead == scheme = "MVTO" => V!NoWriteBelowRead

(***************************************************************************)
(* Every wait ends: again and again there is nobody who waits.             *)
(*                                                                         *)
(* Under timestamp ordering these are the reads that wait for an announced *)
(* write: transactions wait only for earlier ones, and whoever withdraws   *)
(* or installs a write wakes the reads behind it.                          *)
(*                                                                         *)
(* Under Silo they are the threads that ProcessQuery joins once one of     *)
(* them has finished its batch: no thread waits forever for a lock that a  *)
(* committed or failed transaction has kept, and two transactions that     *)
(* abort each other again and again, each finding the other's write lock,  *)
(* try no more.  (Before that they may: a batch need not terminate.)       *)
(***************************************************************************)
Waiting(t) ==
  \/ scheme = "SILO" /\ isFinish /\ pc[t] # "done"
  \/ scheme \in {"TO", "MVTO"} /\ pc[t] = "wait"

WaitsEnd == []<>(\A t \in Thread : ~Waiting(t))

(***************************************************************************)
(* Every thread leaves its batch.  Under OCC sorted locking cannot         *)
(* deadlock, and a transaction is aborted only because another one has     *)
(* committed.  Under wait-die locking no transactions wait for each other  *)
(* or make each other die again and again.                                 *)
(***************************************************************************)
AllDone == \A t \in Thread : pc[t] = "done"

Terminates == <>(scheme \in {"OCC", "LOCK_WAIT"} => AllDone)

(***************************************************************************)
(* Under OCC committed transactions are atomic for insertions and          *)
(* deletions, too: visible_ changes in the install loop, after the         *)
(* transaction has taken effect, and nothing else changes it.              *)
(***************************************************************************)
AtomicUnderOcc ==
  /\ scheme = "OCC" => O!Serial!Init
  /\ [][scheme = "OCC" => UNCHANGED O!Serial!vars \/ O!Serial!Next]_vars
=============================================================================
