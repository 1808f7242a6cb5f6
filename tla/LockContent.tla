---------------------------- MODULE LockContent ----------------------------
(***************************************************************************)
(* What Content/LockContent.h keeps beside each record, a timestamp and a  *)
(* read-write lock, and how TransactionManager builds commit timestamps.   *)
(***************************************************************************)
EXTENDS Integers

CONSTANTS
  TsSpan      \* 2^32 in the code: the values of the low half of a timestamp

(***************************************************************************)
(* Timestamps: the epoch in the high 32 bits, so a pair ordered            *)
(* lexicographically.                                                      *)
(***************************************************************************)
Timestamp == [epoch : Nat, low : Nat]

ZeroTs == [epoch |-> 0, low |-> 0]

TsLess(a, b) == a.epoch < b.epoch \/ (a.epoch = b.epoch /\ a.low < b.low)

\* Mutant: a mask that keeps one bit.
GenerateNarrowTimestamp(e, m) == [epoch |-> e, low |-> m % 2]

GenerateMonotoneTimestamp(e, m) == [epoch |-> e, low |-> m % TsSpan]

(***************************************************************************)
(* RWLock: AcquireReadLock and AcquireWriteLock spin until they are        *)
(* enabled; the release operations always are.                             *)
(***************************************************************************)
NoLock == [type |-> "NO_LOCK", readers |-> 0]

CanReadLock(l)  == l.type # "WRITE_LOCK"
\* Mutant: AcquireWriteLock looks for a writer only.
CanWriteLockAmongReaders(l) == l.type # "WRITE_LOCK"
CanWriteLock(l) == l.type = "NO_LOCK"

ReadLocked(l)    == [type |-> "READ_LOCK", readers |-> l.readers + 1]
WriteLocked(l)   == [l EXCEPT !.type = "WRITE_LOCK"]
ReadReleased(l)  == [type    |-> IF l.readers = 1 THEN "NO_LOCK" ELSE l.type,
                     readers |-> l.readers - 1]
\* Mutant: the reader count drops too.
WriteReleasedAsReader(l) == [type |-> "NO_LOCK", readers |-> l.readers - 1]
WriteReleased(l) == [l EXCEPT !.type = "NO_LOCK"]

LockType == [type : {"NO_LOCK", "READ_LOCK", "WRITE_LOCK"}, readers : Nat]
=============================================================================
